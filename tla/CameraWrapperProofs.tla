------------------------- MODULE CameraWrapperProofs -------------------------
(***************************************************************************)
(* Proofs about CameraWrapper, for any set of cameras, any number of       *)
(* settings copies and any interleaving of the clients' threads.           *)
(***************************************************************************)
EXTENDS CameraWrapper, TLAPS

Stages == {"closed", "loading", "checked", "clearing", "opening", "vendor", "open"}

\* The camera's own array is in place, or about to be.
Using == {"clearing", "opening", "vendor", "open"}

Types ==
    /\ gCameraShim \in BOOLEAN /\ gVendorModule \in BOOLEAN
    /\ crashed \in BOOLEAN /\ overlap \in BOOLEAN
    /\ misuse \in BOOLEAN /\ shared \in BOOLEAN
    /\ enquirer \in {"idle", "loading", "asking"}
    /\ device \in [Cameras -> Stages]
    /\ call \in [Cameras -> {"idle", "got", "released", "copied", "vendor"}]
    /\ argument \in [Cameras -> Copies \cup {NULL, GARBAGE}]
    /\ \/ fixed_set_params = NULL
       \/ fixed_set_params \in [Cameras -> Copies \cup {NULL, GARBAGE}]
    /\ made \in 0 .. MaxCopies /\ live \subseteq 1 .. made
    /\ vendor \subseteq Cameras /\ lost \subseteq Copies

LockOfOpener ==
    \A id \in Cameras : device[id] \notin {"closed", "open"} <=> lock = id

\* A call is on an open device, and what a client opened the vendor opened.
OpenWhenCalled ==
    \A id \in Cameras :
        /\ call[id] # "idle" => device[id] = "open"
        /\ device[id] \in {"vendor", "open"} => id \in vendor

\* While no two threads loaded at once, the module that was found stays.
OneLoader ==
    ~overlap => /\ ~crashed
                /\ gVendorModule => ~Loading
                /\ ~(enquirer = "loading" /\ \E id \in Cameras : device[id] = "loading")
                /\ enquirer = "asking" => gVendorModule
                /\ \A id \in Cameras :
                       device[id] \notin {"closed", "loading"} => gVendorModule

\* While no camera was opened beside another, the array is one camera's alone.
Alone ==
    ~shared => \A id, other \in Cameras :
        device[id] \in Using /\ other # id =>
            device[other] \in {"closed", "loading", "checked"}

\* The array of the one camera, and the strings its calls hold.
ArrayInUse ==
    ~shared => \A id \in Cameras :
        /\ device[id] \in Using => fixed_set_params # NULL
        /\ \A other \in Cameras :
              \/ device[id] \in {"opening", "vendor"}
              \/ device[id] = "open" /\ other # id
              => fixed_set_params[other] = NULL
        /\ device[id] = "open" /\ call[id] # "released" =>
              fixed_set_params[id] \in live \cup {NULL}
        /\ call[id] = "copied" => fixed_set_params[id] \in live
        /\ call[id] = "vendor" => argument[id] \in live
        /\ call[id] = "got" => argument[id] \in live \ {fixed_set_params[id]}

\* Every copy that is not lost is in the array or with its caller.
Accounted ==
    ~shared => \A copy \in live \ lost : \E id \in Cameras :
        /\ device[id] = "open"
        /\ \/ call[id] # "released" /\ fixed_set_params[id] = copy
           \/ call[id] = "got" /\ argument[id] = copy

IInv == /\ Types /\ LockOfOpener /\ OpenWhenCalled /\ OneLoader
        /\ Alone /\ ArrayInUse /\ Accounted /\ CopiesUsedWhileLive

-----------------------------------------------------------------------------

\* get_camera_info or get_number_of_cameras finds the module loaded, or goes to
\* load it without the lock.
LEMMA EnquireInv ==
    ASSUME IInv, ~crashed, Enquire
    PROVE  IInv'
<1>1. Types'
  BY DEF Enquire, module, copies, history, IInv, Types
<1>2. LockOfOpener'
  BY DEF Enquire, module, copies, history, IInv, LockOfOpener
<1>3. OpenWhenCalled'
  BY DEF Enquire, module, copies, history, IInv, OpenWhenCalled
<1>4. OneLoader'
  BY DEF Enquire, module, copies, history, IInv, OneLoader, Loading
<1>5. Alone'
  BY DEF Enquire, module, copies, history, IInv, Alone
<1>6. ArrayInUse'
  BY DEF Enquire, module, copies, history, IInv, ArrayInUse
<1>7. Accounted'
  BY DEF Enquire, module, copies, history, IInv, Accounted
<1>8. CopiesUsedWhileLive'
  BY DEF Enquire, module, copies, history, IInv, CopiesUsedWhileLive
<1> QED
  BY <1>1, <1>2, <1>3, <1>4, <1>5, <1>6, <1>7, <1>8 DEF IInv

\* The thread that asks about the cameras loads the module, and may overlap an
\* opener that loads it too.
LEMMA EnquirerLoadsInv ==
    ASSUME IInv, ~crashed, EnquirerLoads
    PROVE  IInv'
<1>1. Types'
  BY DEF EnquirerLoads, Load, LoadSucceeds, LoadFails, Passes, module, copies,
         history, IInv, Types
<1>2. LockOfOpener'
  BY DEF EnquirerLoads, Load, LoadSucceeds, LoadFails, Passes, module, copies,
         history, IInv, LockOfOpener
<1>3. OpenWhenCalled'
  BY DEF EnquirerLoads, Load, LoadSucceeds, LoadFails, Passes, module, copies,
         history, IInv, OpenWhenCalled
<1>4. OneLoader'
  BY DEF EnquirerLoads, Load, LoadSucceeds, LoadFails, Passes, module, copies,
         history, IInv, OneLoader, Loading
<1>5. Alone'
  BY DEF EnquirerLoads, Load, LoadSucceeds, LoadFails, Passes, module, copies,
         history, IInv, Alone
<1>6. ArrayInUse'
  BY DEF EnquirerLoads, Load, LoadSucceeds, LoadFails, Passes, module, copies,
         history, IInv, ArrayInUse
<1>7. Accounted'
  BY DEF EnquirerLoads, Load, LoadSucceeds, LoadFails, Passes, module, copies,
         history, IInv, Accounted
<1>8. CopiesUsedWhileLive'
  BY DEF EnquirerLoads, Load, LoadSucceeds, LoadFails, Passes, module, copies,
         history, IInv, CopiesUsedWhileLive
<1> QED
  BY <1>1, <1>2, <1>3, <1>4, <1>5, <1>6, <1>7, <1>8 DEF IInv

\* The thread that asks calls into the module: it is there unless two threads
\* were loading it.
LEMMA EnquirerAsksInv ==
    ASSUME IInv, ~crashed, EnquirerAsks
    PROVE  IInv'
<1>1. Types'
  BY DEF EnquirerAsks, module, copies, history, IInv, Types
<1>2. LockOfOpener'
  BY DEF EnquirerAsks, module, copies, history, IInv, LockOfOpener
<1>3. OpenWhenCalled'
  BY DEF EnquirerAsks, module, copies, history, IInv, OpenWhenCalled
<1>4. OneLoader'
  BY DEF EnquirerAsks, module, copies, history, IInv, OneLoader, Loading
<1>5. Alone'
  BY DEF EnquirerAsks, module, copies, history, IInv, Alone
<1>6. ArrayInUse'
  BY DEF EnquirerAsks, module, copies, history, IInv, ArrayInUse
<1>7. Accounted'
  BY DEF EnquirerAsks, module, copies, history, IInv, Accounted
<1>8. CopiesUsedWhileLive'
  BY DEF EnquirerAsks, module, copies, history, IInv, CopiesUsedWhileLive
<1> QED
  BY <1>1, <1>2, <1>3, <1>4, <1>5, <1>6, <1>7, <1>8 DEF IInv

\* The camera service starts again with nothing loaded, open or allocated.
LEMMA RestartInv ==
    ASSUME IInv, Restart
    PROVE  IInv'
<1>1. Types'
  <2>1. /\ device' \in [Cameras -> Stages]
        /\ call' \in [Cameras -> {"idle", "got", "released", "copied", "vendor"}]
        /\ argument' \in [Cameras -> Copies \cup {NULL, GARBAGE}]
    BY DEF Restart, Stages
  <2>2. /\ gCameraShim' \in BOOLEAN /\ gVendorModule' \in BOOLEAN
        /\ crashed' \in BOOLEAN /\ overlap' \in BOOLEAN
        /\ misuse' \in BOOLEAN /\ shared' \in BOOLEAN
    BY DEF Restart
  <2> QED
    BY <2>1, <2>2, CameraAssumption DEF Restart, Types
<1>2. LockOfOpener'
  BY CameraAssumption DEF Restart, module, copies, history, IInv, LockOfOpener
<1>3. OpenWhenCalled'
  BY DEF Restart, module, copies, history, IInv, OpenWhenCalled
<1>4. OneLoader'
  BY DEF Restart, module, copies, history, IInv, OneLoader
<1>5. Alone'
  BY DEF Restart, module, copies, history, IInv, Alone
<1>6. ArrayInUse'
  BY DEF Restart, module, copies, history, IInv, ArrayInUse, Using
<1>7. Accounted'
  BY DEF Restart, module, copies, history, IInv, Accounted
<1>8. CopiesUsedWhileLive'
  BY DEF Restart, module, copies, history, IInv, CopiesUsedWhileLive
<1> QED
  BY <1>1, <1>2, <1>3, <1>4, <1>5, <1>6, <1>7, <1>8 DEF IInv

\* camera_device_open takes the lock and looks whether the module is loaded.
LEMMA OpenChecksInv ==
    ASSUME IInv, NEW id \in Cameras, ~crashed, OpenChecks(id)
    PROVE  IInv'
<1>1. Types'
  BY DEF OpenChecks, module, copies, history, IInv, Types, Stages
<1>2. LockOfOpener'
  BY CameraAssumption
  DEF OpenChecks, module, copies, history, IInv, LockOfOpener, Types
<1>3. OpenWhenCalled'
  BY DEF OpenChecks, module, copies, history, IInv, OpenWhenCalled
<1>4. OneLoader'
  BY DEF OpenChecks, module, copies, history, IInv, OneLoader, Types, Loading
<1>5. Alone'
  BY DEF OpenChecks, module, copies, history, IInv, Alone, Using
<1>6. ArrayInUse'
  BY DEF OpenChecks, module, copies, history, IInv, ArrayInUse, Using
<1>7. Accounted'
  BY DEF OpenChecks, module, copies, history, IInv, Accounted
<1>8. CopiesUsedWhileLive'
  BY DEF OpenChecks, module, copies, history, IInv, CopiesUsedWhileLive
<1> QED
  BY <1>1, <1>2, <1>3, <1>4, <1>5, <1>6, <1>7, <1>8 DEF IInv

\* The opener loads the module, or fails and gives the lock back.
LEMMA OpenLoadsInv ==
    ASSUME IInv, NEW id \in Cameras, ~crashed, OpenLoads(id)
    PROVE  IInv'
<1>1. Types'
  BY DEF OpenLoads, Load, LoadSucceeds, LoadFails, Passes, module, copies,
         history, IInv, Types, Stages
<1>2. LockOfOpener'
  BY CameraAssumption
  DEF OpenLoads, Load, LoadSucceeds, LoadFails, Passes, module, copies, history,
      IInv, LockOfOpener, Types
<1>3. OpenWhenCalled'
  BY DEF OpenLoads, Load, LoadSucceeds, LoadFails, Passes, module, copies,
         history, IInv, OpenWhenCalled
<1>4. OneLoader'
  BY DEF OpenLoads, Load, LoadSucceeds, LoadFails, Passes, module, copies,
         history, IInv, OneLoader, Types, LockOfOpener, Loading
<1>5. Alone'
  BY DEF OpenLoads, Load, LoadSucceeds, LoadFails, Passes, module, copies,
         history, IInv, Alone, Using
<1>6. ArrayInUse'
  BY DEF OpenLoads, Load, LoadSucceeds, LoadFails, Passes, module, copies,
         history, IInv, ArrayInUse, Using
<1>7. Accounted'
  BY DEF OpenLoads, Load, LoadSucceeds, LoadFails, Passes, module, copies,
         history, IInv, Accounted
<1>8. CopiesUsedWhileLive'
  BY DEF OpenLoads, Load, LoadSucceeds, LoadFails, Passes, module, copies,
         history, IInv, CopiesUsedWhileLive
<1> QED
  BY <1>1, <1>2, <1>3, <1>4, <1>5, <1>6, <1>7, <1>8 DEF IInv

\* The opener allocates the array of settings copies, also over one that
\* another open camera uses.
LEMMA OpenAllocatesInv ==
    ASSUME IInv, NEW id \in Cameras, ~crashed, OpenAllocates(id)
    PROVE  IInv'
<1>1. Types'
  BY CameraAssumption
  DEF OpenAllocates, module, copies, history, IInv, Types, Copies, Stages
<1>2. LockOfOpener'
  BY CameraAssumption
  DEF OpenAllocates, module, copies, history, IInv, LockOfOpener, Types
<1>3. OpenWhenCalled'
  BY DEF OpenAllocates, module, copies, history, IInv, OpenWhenCalled, Types
<1>4. OneLoader'
  BY DEF OpenAllocates, module, copies, history, IInv, OneLoader, Types, Loading
<1>5. Alone'
  BY DEF OpenAllocates, module, copies, history, IInv, Alone, Types,
         LockOfOpener, Using
<1>6. ArrayInUse'
  BY CameraAssumption
  DEF OpenAllocates, module, copies, history, IInv, ArrayInUse, Types,
      LockOfOpener, OpenWhenCalled, Using
<1>7. Accounted'
  BY DEF OpenAllocates, module, copies, history, IInv, Accounted
<1>8. CopiesUsedWhileLive'
  BY DEF OpenAllocates, module, copies, history, IInv, CopiesUsedWhileLive
<1> QED
  BY <1>1, <1>2, <1>3, <1>4, <1>5, <1>6, <1>7, <1>8 DEF IInv

\* The entries of the new array are set to null.
LEMMA OpenClearsInv ==
    ASSUME IInv, NEW id \in Cameras, ~crashed, OpenClears(id)
    PROVE  IInv'
<1>1. Types'
  BY DEF OpenClears, module, copies, history, IInv, Types, Stages
<1>2. LockOfOpener'
  BY DEF OpenClears, module, copies, history, IInv, LockOfOpener
<1>3. OpenWhenCalled'
  BY DEF OpenClears, module, copies, history, IInv, OpenWhenCalled
<1>4. OneLoader'
  BY DEF OpenClears, module, copies, history, IInv, OneLoader, Loading
<1>5. Alone'
  BY DEF OpenClears, module, copies, history, IInv, Alone, Using
<1>6. ArrayInUse'
  BY CameraAssumption
  DEF OpenClears, module, copies, history, IInv, ArrayInUse, OpenWhenCalled,
      Alone, Using
<1>7. Accounted'
  BY DEF OpenClears, module, copies, history, IInv, Accounted, Alone, Using
<1>8. CopiesUsedWhileLive'
  BY DEF OpenClears, module, copies, history, IInv, CopiesUsedWhileLive
<1> QED
  BY <1>1, <1>2, <1>3, <1>4, <1>5, <1>6, <1>7, <1>8 DEF IInv

\* The vendor opens its device, or fails and the array is deleted.
LEMMA OpenVendorInv ==
    ASSUME IInv, NEW id \in Cameras, ~crashed, OpenVendor(id)
    PROVE  IInv'
<1>1. Types'
  BY DEF OpenVendor, OpenFails, module, copies, history, IInv, Types, Stages
<1>2. LockOfOpener'
  BY CameraAssumption
  DEF OpenVendor, OpenFails, module, copies, history, IInv, LockOfOpener, Types
<1>3. OpenWhenCalled'
  BY DEF OpenVendor, OpenFails, module, copies, history, IInv, OpenWhenCalled,
         Types
<1>4. OneLoader'
  BY DEF OpenVendor, OpenFails, module, copies, history, IInv, OneLoader, Types,
         Loading
<1>5. Alone'
  BY DEF OpenVendor, OpenFails, module, copies, history, IInv, Alone, Types,
         Using
<1>6. ArrayInUse'
  BY DEF OpenVendor, OpenFails, module, copies, history, IInv, ArrayInUse, Using
<1>7. Accounted'
  BY DEF OpenVendor, OpenFails, module, copies, history, IInv, Accounted, Alone,
         Using
<1>8. CopiesUsedWhileLive'
  BY DEF OpenVendor, OpenFails, module, copies, history, IInv,
         CopiesUsedWhileLive
<1> QED
  BY <1>1, <1>2, <1>3, <1>4, <1>5, <1>6, <1>7, <1>8 DEF IInv

\* The open succeeds and gives the lock back: the camera is alone with its
\* array, or shares it and the history says so.
LEMMA OpenEndsInv ==
    ASSUME IInv, NEW id \in Cameras, ~crashed, OpenEnds(id)
    PROVE  IInv'
<1>1. Types'
  BY DEF OpenEnds, OpenFails, module, copies, history, IInv, Types, Stages
<1>2. LockOfOpener'
  BY CameraAssumption
  DEF OpenEnds, OpenFails, module, copies, history, IInv, LockOfOpener, Types
<1>3. OpenWhenCalled'
  BY DEF OpenEnds, OpenFails, module, copies, history, IInv, OpenWhenCalled,
         Types
<1>4. OneLoader'
  BY DEF OpenEnds, OpenFails, module, copies, history, IInv, OneLoader, Types,
         Loading
<1>5. Alone'
  BY DEF OpenEnds, OpenFails, module, copies, history, IInv, Alone, Types, Using
<1>6. ArrayInUse'
  BY DEF OpenEnds, OpenFails, module, copies, history, IInv, ArrayInUse, Using
<1>7. Accounted'
  BY DEF OpenEnds, OpenFails, module, copies, history, IInv, Accounted, Alone,
         Using
<1>8. CopiesUsedWhileLive'
  BY DEF OpenEnds, OpenFails, module, copies, history, IInv, CopiesUsedWhileLive
<1> QED
  BY <1>1, <1>2, <1>3, <1>4, <1>5, <1>6, <1>7, <1>8 DEF IInv

\* close frees the copies and the array, closes the vendor device and resets
\* what the next open will test.
LEMMA camera_device_closeInv ==
    ASSUME IInv, NEW id \in Cameras, ~crashed, camera_device_close(id)
    PROVE  IInv'
<1>1. Types'
  <2>1. gCameraShim' \in BOOLEAN /\ gVendorModule' \in BOOLEAN
    BY DEF camera_device_close, LoadSucceeds, LoadFails, IInv, Types
  <2>2. misuse' \in BOOLEAN
    BY DEF camera_device_close, ReleaseAll, IInv, Types
  <2>3. live' \subseteq live /\ lost' \in {lost, live}
    BY DEF camera_device_close, ReleaseAll
  <2>4. device' \in [Cameras -> Stages] /\ vendor' \subseteq Cameras
    BY DEF camera_device_close, IInv, Types, Stages
  <2> QED
    BY <2>1, <2>2, <2>3, <2>4, CameraAssumption
    DEF camera_device_close, IInv, Types, Copies
<1>2. LockOfOpener'
  BY DEF camera_device_close, LoadSucceeds, LoadFails, ReleaseAll,
         CloseReleases, module, copies, history, IInv, LockOfOpener
<1>3. OpenWhenCalled'
  BY DEF camera_device_close, LoadSucceeds, LoadFails, ReleaseAll,
         CloseReleases, module, copies, history, IInv, OpenWhenCalled, Types
<1>4. OneLoader'
  BY DEF camera_device_close, LoadSucceeds, LoadFails, ReleaseAll,
         CloseReleases, module, copies, history, IInv, OneLoader, Loading
<1>5. Alone'
  BY DEF camera_device_close, LoadSucceeds, LoadFails, ReleaseAll,
         CloseReleases, module, copies, history, IInv, Alone, Using
<1>6. ArrayInUse'
  BY DEF camera_device_close, LoadSucceeds, LoadFails, ReleaseAll,
         CloseReleases, module, copies, history, IInv, ArrayInUse, Types,
         OpenWhenCalled, Alone, Using
<1>7. Accounted'
  <2>1. SUFFICES ASSUME ~shared, NEW copy \in live' \ lost'
                 PROVE  FALSE
    BY DEF camera_device_close, Accounted
  <2>2. fixed_set_params # NULL
    BY <2>1 DEF camera_device_close, IInv, ArrayInUse, Using
  <2>3. /\ copy \in live \ lost
        /\ copy \notin CloseReleases(id)
    BY <2>2 DEF camera_device_close, ReleaseAll
  <2>4. PICK other \in Cameras :
            /\ device[other] = "open"
            /\ \/ call[other] # "released" /\ fixed_set_params[other] = copy
               \/ call[other] = "got" /\ argument[other] = copy
    BY <2>1, <2>3 DEF IInv, Accounted
  <2>5. other = id
    BY <2>1, <2>4 DEF camera_device_close, IInv, Alone, Using
  <2> QED
    BY <2>3, <2>4, <2>5 DEF camera_device_close, CloseReleases
<1>8. CopiesUsedWhileLive'
  <2>1. SUFFICES ASSUME ~shared PROVE ~misuse'
    BY DEF camera_device_close, CopiesUsedWhileLive
  <2>2. fixed_set_params # NULL
    BY <2>1 DEF camera_device_close, IInv, ArrayInUse, Using
  <2>3. fixed_set_params[id] \in live \cup {NULL}
    BY <2>1 DEF camera_device_close, IInv, ArrayInUse
  <2>4. \A other \in Cameras \ {id} : fixed_set_params[other] = NULL
    BY <2>1 DEF camera_device_close, IInv, ArrayInUse
  <2>5. CloseReleases(id) \ {NULL} \subseteq live
    BY <2>3, <2>4 DEF CloseReleases
  <2> QED
    BY <2>1, <2>2, <2>5
    DEF camera_device_close, ReleaseAll, IInv, CopiesUsedWhileLive
<1> QED
  BY <1>1, <1>2, <1>3, <1>4, <1>5, <1>6, <1>7, <1>8 DEF IInv

\* A call that only goes on to the vendor device of an open camera.
LEMMA ForwardsInv ==
    ASSUME IInv, NEW id \in Cameras, ~crashed, Forwards(id)
    PROVE  IInv'
<1>1. Types'
  BY DEF Forwards, VendorCall, module, copies, history, IInv, Types
<1>2. LockOfOpener'
  BY DEF Forwards, VendorCall, module, copies, history, IInv, LockOfOpener
<1>3. OpenWhenCalled'
  BY DEF Forwards, VendorCall, module, copies, history, IInv, OpenWhenCalled
<1>4. OneLoader'
  BY DEF Forwards, VendorCall, module, copies, history, IInv, OneLoader, Loading
<1>5. Alone'
  BY DEF Forwards, VendorCall, module, copies, history, IInv, Alone
<1>6. ArrayInUse'
  BY DEF Forwards, VendorCall, module, copies, history, IInv, ArrayInUse
<1>7. Accounted'
  BY DEF Forwards, VendorCall, module, copies, history, IInv, Accounted
<1>8. CopiesUsedWhileLive'
  BY DEF Forwards, VendorCall, module, copies, history, IInv,
         CopiesUsedWhileLive, OpenWhenCalled
<1> QED
  BY <1>1, <1>2, <1>3, <1>4, <1>5, <1>6, <1>7, <1>8 DEF IInv

\* get_parameters hands out a new copy of the vendor's settings.
LEMMA GetParametersInv ==
    ASSUME IInv, NEW id \in Cameras, ~crashed, GetParameters(id)
    PROVE  IInv'
<1>1. Types'
  BY CameraAssumption
  DEF GetParameters, VendorCall, module, copies, history, IInv, Types, Copies
<1>2. LockOfOpener'
  BY DEF GetParameters, VendorCall, module, copies, history, IInv, LockOfOpener
<1>3. OpenWhenCalled'
  BY DEF GetParameters, VendorCall, module, copies, history, IInv,
         OpenWhenCalled
<1>4. OneLoader'
  BY DEF GetParameters, VendorCall, module, copies, history, IInv, OneLoader,
         Loading
<1>5. Alone'
  BY DEF GetParameters, VendorCall, module, copies, history, IInv, Alone
<1>6. ArrayInUse'
  BY CameraAssumption
  DEF GetParameters, VendorCall, module, copies, history, IInv, ArrayInUse,
      Types
<1>7. Accounted'
  BY DEF GetParameters, VendorCall, module, copies, history, IInv, Accounted,
         Types
<1>8. CopiesUsedWhileLive'
  BY DEF GetParameters, VendorCall, module, copies, history, IInv,
         CopiesUsedWhileLive, OpenWhenCalled
<1> QED
  BY <1>1, <1>2, <1>3, <1>4, <1>5, <1>6, <1>7, <1>8 DEF IInv

\* put_parameters frees the copy its caller got.
LEMMA PutParametersInv ==
    ASSUME IInv, NEW id \in Cameras, ~crashed, PutParameters(id)
    PROVE  IInv'
<1>1. Types'
  BY DEF PutParameters, ReleaseAll, module, copies, history, IInv, Types
<1>2. LockOfOpener'
  BY DEF PutParameters, ReleaseAll, module, copies, history, IInv, LockOfOpener
<1>3. OpenWhenCalled'
  BY DEF PutParameters, ReleaseAll, module, copies, history, IInv,
         OpenWhenCalled
<1>4. OneLoader'
  BY DEF PutParameters, ReleaseAll, module, copies, history, IInv, OneLoader,
         Loading
<1>5. Alone'
  BY DEF PutParameters, ReleaseAll, module, copies, history, IInv, Alone
<1>6. ArrayInUse'
  BY DEF PutParameters, ReleaseAll, module, copies, history, IInv, ArrayInUse,
         Types, OpenWhenCalled, Alone, Using
<1>7. Accounted'
  BY DEF PutParameters, ReleaseAll, module, copies, history, IInv, Accounted
<1>8. CopiesUsedWhileLive'
  BY DEF PutParameters, ReleaseAll, module, copies, history, IInv,
         CopiesUsedWhileLive, ArrayInUse
<1> QED
  BY <1>1, <1>2, <1>3, <1>4, <1>5, <1>6, <1>7, <1>8 DEF IInv

\* set_parameters frees the camera's previous copy ...
LEMMA SetReleasesInv ==
    ASSUME IInv, NEW id \in Cameras, ~crashed, SetReleases(id)
    PROVE  IInv'
<1>1. Types'
  BY DEF SetReleases, ReleaseAll, module, copies, history, IInv, Types
<1>2. LockOfOpener'
  BY DEF SetReleases, ReleaseAll, module, copies, history, IInv, LockOfOpener
<1>3. OpenWhenCalled'
  BY DEF SetReleases, ReleaseAll, module, copies, history, IInv, OpenWhenCalled
<1>4. OneLoader'
  BY DEF SetReleases, ReleaseAll, module, copies, history, IInv, OneLoader,
         Loading
<1>5. Alone'
  BY DEF SetReleases, ReleaseAll, module, copies, history, IInv, Alone
<1>6. ArrayInUse'
  BY DEF SetReleases, ReleaseAll, module, copies, history, IInv, ArrayInUse,
         Types, OpenWhenCalled, Alone, Using
<1>7. Accounted'
  <2>1. SUFFICES ASSUME ~shared, NEW copy \in live' \ lost
                 PROVE  FALSE
    BY DEF SetReleases, history, Accounted
  <2>2. fixed_set_params # NULL
    BY <2>1 DEF SetReleases, IInv, ArrayInUse, Using
  <2>3. copy \in live \ lost /\ copy # fixed_set_params[id]
    BY <2>2 DEF SetReleases, ReleaseAll
  <2>4. PICK other \in Cameras :
            /\ device[other] = "open"
            /\ \/ call[other] # "released" /\ fixed_set_params[other] = copy
               \/ call[other] = "got" /\ argument[other] = copy
    BY <2>1, <2>3 DEF IInv, Accounted
  <2>5. other = id
    BY <2>1, <2>4 DEF SetReleases, IInv, Alone, Using
  <2> QED
    BY <2>3, <2>4, <2>5 DEF SetReleases
<1>8. CopiesUsedWhileLive'
  BY DEF SetReleases, ReleaseAll, module, copies, history, IInv,
         CopiesUsedWhileLive, ArrayInUse, Using
<1> QED
  BY <1>1, <1>2, <1>3, <1>4, <1>5, <1>6, <1>7, <1>8 DEF IInv

\* ... stores a new one in the array ...
LEMMA SetCopiesInv ==
    ASSUME IInv, NEW id \in Cameras, ~crashed, SetCopies(id)
    PROVE  IInv'
<1>1. Types'
  <2>1. misuse' \in BOOLEAN
    BY DEF SetCopies, IInv, Types
  <2>2. made' \in 0 .. MaxCopies /\ live' \subseteq 1 .. made'
    BY CameraAssumption DEF SetCopies, IInv, Types
  <2>3. \/ fixed_set_params' = NULL
        \/ fixed_set_params' \in [Cameras -> Copies \cup {NULL, GARBAGE}]
    BY CameraAssumption DEF SetCopies, IInv, Types, Copies
  <2>4. call' \in [Cameras -> {"idle", "got", "released", "copied", "vendor"}]
    BY DEF SetCopies, IInv, Types
  <2> QED
    BY <2>2, <2>3 DEF SetCopies, module, history, IInv, Types
<1>2. LockOfOpener'
  BY DEF SetCopies, module, copies, history, IInv, LockOfOpener
<1>3. OpenWhenCalled'
  BY DEF SetCopies, module, copies, history, IInv, OpenWhenCalled
<1>4. OneLoader'
  BY DEF SetCopies, module, copies, history, IInv, OneLoader, Loading
<1>5. Alone'
  BY DEF SetCopies, module, copies, history, IInv, Alone
<1>6. ArrayInUse'
  BY CameraAssumption
  DEF SetCopies, module, copies, history, IInv, ArrayInUse, Types,
      OpenWhenCalled, Alone, Using
<1>7. Accounted'
  BY DEF SetCopies, module, copies, history, IInv, Accounted, Types,
         OpenWhenCalled, ArrayInUse, Using
<1>8. CopiesUsedWhileLive'
  BY DEF SetCopies, module, copies, history, IInv, CopiesUsedWhileLive,
         OpenWhenCalled, ArrayInUse, Using
<1> QED
  BY <1>1, <1>2, <1>3, <1>4, <1>5, <1>6, <1>7, <1>8 DEF IInv

\* ... reads it from there for the vendor ...
LEMMA SetReadsInv ==
    ASSUME IInv, NEW id \in Cameras, ~crashed, SetReads(id)
    PROVE  IInv'
<1>1. Types'
  BY DEF SetReads, module, copies, history, IInv, Types
<1>2. LockOfOpener'
  BY DEF SetReads, module, copies, history, IInv, LockOfOpener
<1>3. OpenWhenCalled'
  BY DEF SetReads, module, copies, history, IInv, OpenWhenCalled
<1>4. OneLoader'
  BY DEF SetReads, module, copies, history, IInv, OneLoader, Loading
<1>5. Alone'
  BY DEF SetReads, module, copies, history, IInv, Alone
<1>6. ArrayInUse'
  BY DEF SetReads, module, copies, history, IInv, ArrayInUse, Types,
         OpenWhenCalled, Using
<1>7. Accounted'
  BY DEF SetReads, module, copies, history, IInv, Accounted
<1>8. CopiesUsedWhileLive'
  BY DEF SetReads, module, copies, history, IInv, CopiesUsedWhileLive
<1> QED
  BY <1>1, <1>2, <1>3, <1>4, <1>5, <1>6, <1>7, <1>8 DEF IInv

\* ... and the vendor reads it: it is live unless the array is shared.
LEMMA VendorSetsInv ==
    ASSUME IInv, NEW id \in Cameras, ~crashed, VendorSets(id)
    PROVE  IInv'
<1>1. Types'
  BY DEF VendorSets, module, copies, history, IInv, Types
<1>2. LockOfOpener'
  BY DEF VendorSets, module, copies, history, IInv, LockOfOpener
<1>3. OpenWhenCalled'
  BY DEF VendorSets, module, copies, history, IInv, OpenWhenCalled
<1>4. OneLoader'
  BY DEF VendorSets, module, copies, history, IInv, OneLoader, Loading
<1>5. Alone'
  BY DEF VendorSets, module, copies, history, IInv, Alone
<1>6. ArrayInUse'
  BY DEF VendorSets, module, copies, history, IInv, ArrayInUse, Types
<1>7. Accounted'
  BY DEF VendorSets, module, copies, history, IInv, Accounted
<1>8. CopiesUsedWhileLive'
  BY DEF VendorSets, module, copies, history, IInv, CopiesUsedWhileLive,
         OpenWhenCalled, ArrayInUse
<1> QED
  BY <1>1, <1>2, <1>3, <1>4, <1>5, <1>6, <1>7, <1>8 DEF IInv

\* No camera is open and nothing is allocated.
LEMMA InitInv == Init => IInv
<1> SUFFICES ASSUME Init PROVE IInv
  OBVIOUS
<1>1. Types
  <2>1. /\ device \in [Cameras -> Stages]
        /\ call \in [Cameras -> {"idle", "got", "released", "copied", "vendor"}]
        /\ argument \in [Cameras -> Copies \cup {NULL, GARBAGE}]
    BY DEF Init, Stages
  <2>2. /\ gCameraShim \in BOOLEAN /\ gVendorModule \in BOOLEAN
        /\ crashed \in BOOLEAN /\ overlap \in BOOLEAN
        /\ misuse \in BOOLEAN /\ shared \in BOOLEAN
    BY DEF Init
  <2> QED
    BY <2>1, <2>2, CameraAssumption DEF Init, Types
<1>2. LockOfOpener /\ OpenWhenCalled /\ OneLoader
  BY CameraAssumption DEF Init, LockOfOpener, OpenWhenCalled, OneLoader
<1>3. Alone /\ ArrayInUse /\ Accounted /\ CopiesUsedWhileLive
  BY DEF Init, Alone, ArrayInUse, Accounted, CopiesUsedWhileLive, Using
<1> QED
  BY <1>1, <1>2, <1>3 DEF IInv

\* Every step of a client or of the enquirer preserves the invariant.
LEMMA NextInv == IInv /\ [Next]_vars => IInv'
<1> SUFFICES ASSUME IInv, [Next]_vars PROVE IInv'
  OBVIOUS
<1>1. CASE ~crashed /\ (Enquire \/ EnquirerLoads \/ EnquirerAsks)
  BY <1>1, EnquireInv, EnquirerLoadsInv, EnquirerAsksInv
<1>2. ASSUME NEW id \in Cameras, ~crashed, Open(id)
      PROVE  IInv'
  BY <1>2, OpenChecksInv, OpenLoadsInv, OpenAllocatesInv, OpenClearsInv,
     OpenVendorInv, OpenEndsInv
  DEF Open
<1>3. ASSUME NEW id \in Cameras, ~crashed, camera_device_close(id)
      PROVE  IInv'
  BY <1>3, camera_device_closeInv
<1>4. ASSUME NEW id \in Cameras, ~crashed, Calls(id)
      PROVE  IInv'
  BY <1>4, ForwardsInv, GetParametersInv, PutParametersInv, SetReleasesInv,
     SetCopiesInv, SetReadsInv, VendorSetsInv
  DEF Calls
<1>5. CASE Restart
  BY <1>5, RestartInv
<1>6. CASE UNCHANGED vars
  BY <1>6
  DEF vars, module, copies, history, IInv, Types, LockOfOpener, OpenWhenCalled,
      OneLoader, Loading, Alone, ArrayInUse, Accounted, CopiesUsedWhileLive
<1> QED
  BY <1>1, <1>2, <1>3, <1>4, <1>5, <1>6 DEF Next

\* IInv holds in every state that opening, closing, the parameter calls and
\* enquiries reach, for any set of cameras: the lock is with the opener, the
\* array is the one open camera's, and every copy is in the array or with its
\* caller, as long as no camera was opened beside another.
THEOREM InvariantHolds == Spec => []IInv
BY InitInv, NextInv, PTL DEF Spec

\* With the lock held exactly by the opener, Types is TypeOK.
LEMMA TypesEnough == IInv => TypeOK
BY CameraAssumption DEF IInv, Types, LockOfOpener, TypeOK, Stages, Copies

\* The variables of the wrapper keep their types: the array is missing or has
\* for each camera a copy, null or garbage (CameraWrapper.cpp 44-50).
THEOREM TypeCorrect == Spec => []TypeOK
BY InvariantHolds, TypesEnough, PTL

\* No settings copy is freed twice or read after it was freed, and the vendor
\* device is open when it is called, unless a camera was opened beside an open
\* one and so replaced the array that both use.
THEOREM SafeUnlessShared == Spec => []CopiesUsedWhileLive
BY InvariantHolds, PTL DEF IInv

\* With every camera closed no copy is in the array or with a caller.
LEMMA AccountedWhenClosed == IInv => CopiesReleased
BY DEF IInv, Accounted, CopiesReleased

\* When every camera is closed no settings copy is left allocated, but for
\* those the history marks as lost (a camera opened beside another, or the
\* module gone when close was called).
THEOREM AllReleased == Spec => []CopiesReleased
BY InvariantHolds, AccountedWhenClosed, PTL

\* A module that check_vendor_module found is still there when it is used,
\* unless two threads were loading it at once.
THEOREM ModuleStays == Spec => []ModuleThere
<1>1. IInv => ModuleThere
  BY DEF IInv, OneLoader, ModuleThere
<1> QED
  BY <1>1, InvariantHolds, PTL

=============================================================================
