--------------------------- MODULE CameraWrapper ---------------------------
(***************************************************************************)
(* The camera wrapper of src/camera/CameraWrapper.cpp: the vendor's module *)
(* it loads on first use, the array fixed_set_params, one settings copy    *)
(* per camera, shared by every open wrapper device, and the vendor's       *)
(* devices behind them.  Opening and closing hold gCameraWrapperLock; the  *)
(* questions for the number and the features of the cameras do not, nor do *)
(* the calls on a device, which come on the thread of its client.  The     *)
(* vendor's module, dlopen and malloc are external and may fail.           *)
(***************************************************************************)
EXTENDS Naturals

CONSTANTS Cameras,         \* the ids of the vendor module
          MaxCopies,       \* bound: settings copies made
          NULL, GARBAGE    \* a null pointer; what malloc leaves in memory

ASSUME CameraAssumption ==
    /\ MaxCopies \in Nat
    /\ NULL \notin Nat \cup Cameras /\ GARBAGE \notin Nat /\ NULL # GARBAGE
    /\ NULL \notin [Cameras -> Nat \cup {NULL, GARBAGE}]

Copies == 1 .. MaxCopies

VARIABLES gCameraShim,        \* the compatibility library is loaded
          gVendorModule,      \* so is the vendor's module
          enquirer,           \* the thread that asks about the cameras
          device,             \* each wrapper: closed, open, or a step of its open
          vendor,             \* the cameras whose vendor's device is open
          fixed_set_params,   \* NULL, or the pointer of each camera
          lock,               \* gCameraWrapperLock: NULL or the camera opening
          call,               \* the call on each device: where it is
          argument,           \* the string it holds
          live,               \* the copies allocated and not released
          made,               \* how many copies were made
          crashed,            \* a null module was used
          \* History:
          overlap,            \* two threads were loading the module at once
          \* and since a camera was last opened with no other one open:
          misuse,             \* a pointer was used wrongly
          shared,             \* a camera was opened beside an open one
          lost                \* the copies left over before

module  == <<gCameraShim, gVendorModule, enquirer, overlap>>
copies  == <<call, argument, live, made>>
history == <<shared, lost>>
vars    == <<module, device, vendor, fixed_set_params, lock, copies, crashed,
             misuse, history>>

\* The service uses a wrapper it has opened, from one thread, and so a camera
\* is open once ("singleton of each camera", 457-461).
Init ==
    /\ gCameraShim = FALSE /\ gVendorModule = FALSE
    /\ enquirer = "idle"
    /\ device = [id \in Cameras |-> "closed"] /\ vendor = {}
    /\ fixed_set_params = NULL
    /\ lock = NULL
    /\ call = [id \in Cameras |-> "idle"]
    /\ argument = [id \in Cameras |-> NULL]
    /\ live = {} /\ made = 0
    /\ crashed = FALSE
    /\ overlap = FALSE
    /\ misuse = FALSE /\ shared = FALSE /\ lost = {}

-----------------------------------------------------------------------------
\* check_vendor_module: nothing to do once the module is there.  Otherwise the
\* library and then the module are loaded; other threads run meanwhile.

Loading == enquirer = "loading" \/ \E id \in Cameras : device[id] = "loading"

LoadSucceeds == gCameraShim' = TRUE /\ gVendorModule' = TRUE

\* The library is not loaded; or the module is not found, and the pointer is
\* left alone; or it does not load, and the pointer is set to null.
LoadFails ==
    \/ ~gCameraShim /\ UNCHANGED <<gCameraShim, gVendorModule>>
    \/ gCameraShim' = TRUE /\ UNCHANGED gVendorModule
    \/ gCameraShim' = TRUE /\ gVendorModule' = FALSE

Load(loaded) == IF loaded THEN LoadSucceeds ELSE LoadFails

\* Mutant: a failure is logged but not returned.
Passes_Always(loaded) == TRUE

Passes(loaded) == loaded

-----------------------------------------------------------------------------
\* camera_get_number_of_cameras and camera_get_camera_info, on a thread of the
\* service.

Enquire ==
    /\ enquirer = "idle"
    /\ enquirer' = IF gVendorModule THEN "asking" ELSE "loading"
    /\ overlap' = (overlap \/ (~gVendorModule /\ Loading))
    /\ UNCHANGED <<gCameraShim, gVendorModule, device, vendor, fixed_set_params,
                   lock, copies, crashed, misuse, history>>

EnquirerLoads ==
    /\ enquirer = "loading"
    /\ \E loaded \in BOOLEAN :
          Load(loaded) /\ enquirer' = IF Passes(loaded) THEN "asking" ELSE "idle"
    /\ UNCHANGED <<device, vendor, fixed_set_params, lock,
                   copies, crashed, overlap, misuse, history>>

\* The module answers; its pointer is read again.
EnquirerAsks ==
    /\ enquirer = "asking"
    /\ enquirer' = "idle"
    /\ crashed' = ~gVendorModule
    /\ UNCHANGED <<gCameraShim, gVendorModule, device, vendor, fixed_set_params,
                   lock, copies, overlap, misuse, history>>

-----------------------------------------------------------------------------
\* camera_device_open.

OpenChecks(id) ==
    /\ lock = NULL /\ device[id] = "closed"
    /\ lock' = id
    /\ device' = [device EXCEPT ![id] = IF gVendorModule THEN "checked" ELSE "loading"]
    /\ overlap' = (overlap \/ (~gVendorModule /\ Loading))
    /\ UNCHANGED <<gCameraShim, gVendorModule, enquirer, vendor, fixed_set_params,
                   copies, crashed, misuse, history>>

OpenLoads(id) ==
    /\ device[id] = "loading"
    /\ \E loaded \in BOOLEAN :
          /\ Load(loaded)
          /\ device' = [device EXCEPT ![id] = IF Passes(loaded) THEN "checked" ELSE "closed"]
          /\ lock' = IF Passes(loaded) THEN id ELSE NULL
    /\ UNCHANGED <<enquirer, vendor, fixed_set_params, copies,
                   crashed, overlap, misuse, history>>

\* The module says how many cameras there are, and the array is allocated
\* anew, whatever it was.
OpenAllocates(id) ==
    /\ device[id] = "checked"
    /\ crashed' = ~gVendorModule
    /\ \/ /\ fixed_set_params' = [other \in Cameras |-> GARBAGE]
          /\ device' = [device EXCEPT ![id] = "clearing"]
          /\ UNCHANGED lock
       \/ /\ fixed_set_params' = NULL      \* malloc fails, and so does the open
          /\ device' = [device EXCEPT ![id] = "closed"]
          /\ lock' = NULL
    /\ shared' = \E other \in Cameras : device[other] = "open"
    /\ lost' = IF shared' THEN lost ELSE live
    /\ misuse' = (misuse /\ shared')
    /\ UNCHANGED <<module, vendor, copies>>

\* Mutant: the new array is not cleared.
OpenClears_Skipped(id) ==
    /\ device[id] = "clearing"
    /\ device' = [device EXCEPT ![id] = "opening"]
    /\ UNCHANGED <<module, vendor, fixed_set_params, lock,
                   copies, crashed, misuse, history>>

OpenClears(id) ==
    /\ device[id] = "clearing"
    /\ device' = [device EXCEPT ![id] = "opening"]
    /\ fixed_set_params' = [other \in Cameras |-> NULL]
    /\ UNCHANGED <<module, vendor, lock, copies, crashed, misuse, history>>

\* Mutant: a failure returns with the lock held.
OpenFails_LockKept(id) ==
    /\ device' = [device EXCEPT ![id] = "closed"]
    /\ UNCHANGED lock

\* A failure leaves the new array in place.
OpenFails(id) ==
    /\ device' = [device EXCEPT ![id] = "closed"]
    /\ lock' = NULL

\* The wrapper is allocated and the vendor's device opened, and opened again if
\* it was left open.
OpenVendor(id) ==
    /\ device[id] = "opening"
    /\ crashed' = ~gVendorModule
    /\ \/ OpenFails(id) /\ UNCHANGED vendor
       \/ /\ device' = [device EXCEPT ![id] = "vendor"]
          /\ vendor' = vendor \cup {id}
          /\ UNCHANGED lock
    /\ UNCHANGED <<module, fixed_set_params, copies, misuse, history>>

\* The operations are allocated, or the open fails, with the vendor's device
\* left open.
OpenEnds(id) ==
    /\ device[id] = "vendor"
    /\ \/ /\ device' = [device EXCEPT ![id] = "open"]
          /\ lock' = NULL
       \/ OpenFails(id)
    /\ UNCHANGED <<module, vendor, fixed_set_params,
                   copies, crashed, misuse, history>>

-----------------------------------------------------------------------------
\* camera_device_close.

\* free() of the pointers in an array: misused on one that is not live.
ReleaseAll(pointers) ==
    /\ live' = live \ pointers
    /\ misuse' = (misuse \/ ~(pointers \ {NULL} \subseteq live))

\* Mutant: closing releases the settings of the other cameras only.
CloseReleases_Other(id) == { fixed_set_params[other] : other \in Cameras \ {id} }

CloseReleases(id) == { fixed_set_params[other] : other \in Cameras }

\* Every copy is released and the pointers are kept; the vendor's device is
\* closed.  A module that went missing counts as one without cameras.
camera_device_close(id) ==
    /\ lock = NULL
    /\ device[id] = "open" /\ call[id] = "idle"
    /\ device' = [device EXCEPT ![id] = "closed"]
    /\ \/ /\ gVendorModule \/ LoadSucceeds
          /\ gVendorModule => UNCHANGED <<gCameraShim, gVendorModule>>
          /\ IF fixed_set_params = NULL
             THEN misuse' = TRUE /\ UNCHANGED live
             ELSE ReleaseAll(CloseReleases(id))
          /\ UNCHANGED lost
       \/ /\ ~gVendorModule /\ LoadFails
          /\ lost' = live
          /\ UNCHANGED <<misuse, live>>
    /\ vendor' = vendor \ {id}
    /\ UNCHANGED <<enquirer, overlap, fixed_set_params,
                   lock, call, argument, made,
                   crashed, shared>>

-----------------------------------------------------------------------------
\* The calls on a device.

\* A call of the vendor's device needs it to be open.
VendorCall(id) == misuse' = (misuse \/ id \notin vendor)

\* Set the preview window or the callbacks, start, stop, focus, take a picture,
\* send a command, release, dump and so on: the vendor's device is asked.
Forwards(id) ==
    /\ device[id] = "open" /\ call[id] = "idle"
    /\ VendorCall(id)
    /\ UNCHANGED <<module, device, vendor, fixed_set_params,
                   lock, copies, crashed, history>>

\* camera_get_parameters: the caller gets a copy and the vendor its string back.
GetParameters(id) ==
    /\ device[id] = "open" /\ call[id] = "idle" /\ made < MaxCopies
    /\ VendorCall(id)
    /\ made' = made + 1
    /\ live' = live \cup {made + 1}
    /\ argument' = [argument EXCEPT ![id] = made + 1]
    /\ call' = [call EXCEPT ![id] = "got"]
    /\ UNCHANGED <<module, device, vendor,
                   fixed_set_params, lock, crashed, history>>

\* camera_put_parameters.
PutParameters(id) ==
    /\ call[id] = "got"
    /\ ReleaseAll({argument[id]})
    /\ argument' = [argument EXCEPT ![id] = NULL]
    /\ call' = [call EXCEPT ![id] = "idle"]
    /\ UNCHANGED <<module, device, vendor, fixed_set_params,
                   lock, made, crashed, history>>

\* camera_fixup_setparams releases the camera's copy ...
SetReleases(id) ==
    /\ device[id] = "open" /\ call[id] = "idle" /\ made < MaxCopies
    /\ IF fixed_set_params = NULL
       THEN misuse' = TRUE /\ UNCHANGED live
       ELSE ReleaseAll({fixed_set_params[id]})
    /\ call' = [call EXCEPT ![id] = "released"]
    /\ UNCHANGED <<module, device, vendor, fixed_set_params, lock, argument, made,
                   crashed, history>>

\* ... and puts a new one in the array, wherever that is by now.
SetCopies(id) ==
    /\ call[id] = "released" /\ made < MaxCopies
    /\ made' = made + 1
    /\ live' = live \cup {made + 1}
    /\ IF fixed_set_params = NULL
       THEN misuse' = TRUE /\ UNCHANGED fixed_set_params
       ELSE fixed_set_params' = [fixed_set_params EXCEPT ![id] = made + 1]
            /\ UNCHANGED misuse
    /\ call' = [call EXCEPT ![id] = "copied"]
    /\ UNCHANGED <<module, device, vendor, lock, argument, crashed, history>>

\* The pointer is read from the array again for the vendor.
SetReads(id) ==
    /\ call[id] = "copied"
    /\ argument' = [argument EXCEPT ![id] =
                      IF fixed_set_params = NULL THEN GARBAGE ELSE fixed_set_params[id]]
    /\ call' = [call EXCEPT ![id] = "vendor"]
    /\ UNCHANGED <<module, device, vendor, fixed_set_params, lock, live, made,
                   crashed, misuse, history>>

\* The vendor's set_parameters reads the settings it was given.
VendorSets(id) ==
    /\ call[id] = "vendor"
    /\ misuse' = (misuse \/ argument[id] \notin live \/ id \notin vendor)
    /\ call' = [call EXCEPT ![id] = "idle"]
    /\ argument' = [argument EXCEPT ![id] = NULL]
    /\ UNCHANGED <<module, device, vendor, fixed_set_params, lock, live, made,
                   crashed, history>>

\* The camera service of a process that ended is started again.
Restart ==
    /\ crashed
    /\ gCameraShim' = FALSE /\ gVendorModule' = FALSE /\ enquirer' = "idle"
    /\ device' = [id \in Cameras |-> "closed"] /\ vendor' = {}
    /\ fixed_set_params' = NULL /\ lock' = NULL
    /\ call' = [id \in Cameras |-> "idle"]
    /\ argument' = [id \in Cameras |-> NULL]
    /\ live' = {} /\ made' = 0
    /\ crashed' = FALSE
    /\ overlap' = FALSE
    /\ misuse' = FALSE /\ shared' = FALSE /\ lost' = {}

Open(id)  == \/ OpenChecks(id) \/ OpenLoads(id) \/ OpenAllocates(id)
             \/ OpenClears(id) \/ OpenVendor(id) \/ OpenEnds(id)

Calls(id) == \/ Forwards(id) \/ GetParameters(id) \/ PutParameters(id)
             \/ SetReleases(id) \/ SetCopies(id) \/ SetReads(id) \/ VendorSets(id)

Next ==
    \/ ~crashed /\ \/ Enquire \/ EnquirerLoads \/ EnquirerAsks
                   \/ \E id \in Cameras : Open(id) \/ camera_device_close(id) \/ Calls(id)
    \/ Restart

Spec == Init /\ [][Next]_vars

-----------------------------------------------------------------------------
\* Properties.

\* The variables have their types; the lock belongs to an open in progress.
TypeOK ==
    /\ {gCameraShim, gVendorModule, crashed, overlap, misuse, shared} \subseteq BOOLEAN
    /\ enquirer \in {"idle", "loading", "asking"}
    /\ \A id \in Cameras :
          /\ device[id] \in {"closed", "loading", "checked", "clearing", "opening",
                             "vendor", "open"}
          /\ device[id] \notin {"closed", "open"} <=> lock = id
          /\ call[id] \in {"idle", "got", "released", "copied", "vendor"}
          /\ fixed_set_params # NULL =>
                fixed_set_params[id] \in Copies \cup {NULL, GARBAGE}
    /\ live \subseteq Copies /\ made \in 0 .. MaxCopies
    /\ vendor \subseteq Cameras
    /\ lost \subseteq Copies

\* Strings are released once and read while they are live, and the vendor's
\* device is open when it is called, whatever open, close and parameter calls
\* came before, unless a camera was opened beside an open one; and that is
\* over when all were closed and one is opened.
CopiesUsedWhileLive == misuse => shared

\* When every camera is closed no settings copy is left allocated, but for those
\* lost when cameras were open side by side or the module went missing.
CopiesReleased ==
    (\A id \in Cameras : device[id] = "closed") /\ ~shared => live \subseteq lost

\* A module that check_vendor_module found is there when it is used, unless two
\* threads were loading it at once: then one that fails takes it from the other
\* (CameraWrapper.cpp 98, 117).
ModuleThere == crashed => overlap

=============================================================================
