-------------------------- MODULE MultiHalRegistry --------------------------
(***************************************************************************)
(* How src/sensors/multihal.cpp names sensors and routes calls: the        *)
(* modules loaded and the list built once by whoever asks first, the two   *)
(* maps between global and full handles, the sub-HAL devices of the open   *)
(* context, and the calls the framework makes with a global handle.        *)
(*                                                                         *)
(* The sub-HALs are external: which of them load and open, their API       *)
(* version and the sensors they list are constants or choices.             *)
(***************************************************************************)
EXTENDS Integers, Sequences, FiniteSets, SequencesExt

CONSTANTS SoPaths,           \* the libraries the configuration file names
          SensorList,        \* their lists end to end: <<library, local handle>>
          HasBatch,          \* libraries whose device reports API 1.1 or later
          HasInject,         \* libraries whose device reports API 1.4 or later
          MinDelay, MaxDelay,\* of each <<library, local handle>>, in ns
          Periods,           \* periods the framework asks for
          Clients,           \* framework threads that call get_sensors_list
          LoadMayFail,       \* a library, or all with the file, may be missing
          OpenMayFail,       \* a sub-HAL's open may fail
          ListBeforeOpen,    \* a client may ask for the list before open_sensors
          MaxOpens,          \* bound: calls of open_sensors
          NULL

Libraries == ToSet(SoPaths)
Sensors == { SensorList[i] : i \in 1 .. Len(SensorList) }
EINVAL  == -22

ASSUME RegistryAssumption ==
    /\ SoPaths \in Seq(Libraries) /\ IsInjective(SoPaths)
    /\ SensorList \in Seq(Libraries \X Nat)
    /\ \A i, j \in 1 .. Len(SensorList) :
         SensorList[i] = SensorList[j] => i = j
    /\ HasInject \subseteq HasBatch /\ HasBatch \subseteq Libraries
    /\ MinDelay \in [Sensors -> Nat] /\ MaxDelay \in [Sensors -> Nat]
    /\ \A s \in Sensors : MinDelay[s] <= MaxDelay[s]
    /\ Periods \subseteq Int
    /\ {LoadMayFail, OpenMayFail, ListBeforeOpen} \subseteq BOOLEAN
    /\ MaxOpens \in Nat
    \* A null pointer is not a list and not a map.
    /\ NULL \notin Seq(Libraries) \cup Seq([sensor : Sensors, handle : Nat])
    /\ \A opened \in SUBSET Libraries : opened # NULL

VARIABLES sub_hw_modules,    \* the libraries loaded, in order, or NULL
          context,           \* "none", "opening", "open" or "closed"
          sub_hw_devices,    \* the libraries of the context's devices, in order
          next_module,       \* where the loop of open_sensors is
          opens,
          sub_hw_versions,   \* the libraries with an entry, or NULL
          client,            \* where each client is in get_sensors_list
          building,          \* where the builder is in SensorList
          mutable_sensor_list, \* the entries it made so far
          full_to_global,    \* full handle |-> global handle
          global_to_full,    \* and back
          next_global_handle,
          global_sensors_list, \* entries [handle, sensor], or NULL
          call,              \* the last call a sub-HAL received, or NULL
          crashed            \* a null dereference or uncaught exception

vars == <<sub_hw_modules, context, sub_hw_devices, next_module, opens,
          sub_hw_versions, client, building, mutable_sensor_list, full_to_global,
          global_to_full, next_global_handle, global_sensors_list, call, crashed>>

contextVars  == <<context, sub_hw_devices, next_module, opens>>
handleMaps   == <<full_to_global, global_to_full, next_global_handle>>
registryVars == <<client, building, mutable_sensor_list, handleMaps,
                  global_sensors_list>>

Init ==
    /\ sub_hw_modules = NULL
    /\ context = "none" /\ sub_hw_devices = <<>> /\ next_module = 0 /\ opens = 0
    /\ sub_hw_versions = NULL
    /\ client = [c \in Clients |-> "idle"]
    /\ building = 1 /\ mutable_sensor_list = <<>>
    /\ full_to_global = <<>> /\ global_to_full = <<>> /\ next_global_handle = 1
    /\ global_sensors_list = NULL
    /\ call = NULL
    /\ crashed = FALSE

-----------------------------------------------------------------------------
\* lazy_init_modules, called by both sides, under init_modules_mutex.

\* Mutant: the vector is filled again.
MustLoad_Always == TRUE

MustLoad == sub_hw_modules = NULL

\* A library that does not load, or has no module symbol, is left out, and so
\* are all without a configuration file.
lazy_init_modules ==
    IF MustLoad
    THEN \E n \in 0 .. Len(SoPaths) : \E at \in [1 .. n -> 1 .. Len(SoPaths)] :
            /\ \A i, j \in 1 .. n : i < j => at[i] < at[j]
            /\ LoadMayFail \/ n = Len(SoPaths)
            /\ sub_hw_modules' = [i \in 1 .. n |-> SoPaths[at[i]]]
    ELSE UNCHANGED sub_hw_modules

NumModules == IF sub_hw_modules = NULL THEN 0 ELSE Len(sub_hw_modules)

\* Module indices count from zero.
Module(index) == sub_hw_modules[index + 1]
ModuleIndex(library) == CHOOSE index \in 0 .. NumModules - 1 : Module(index) = library

\* Whether a sensor of SensorList is one of a module's.
Listed(i) == Contains(sub_hw_modules, SensorList[i][1])

-----------------------------------------------------------------------------
\* open_sensors and device__close.

\* SensorDevice asks for the list and opens from one thread; only with
\* ListBeforeOpen do clients run beside open_sensors and close.
NoClientInside == ListBeforeOpen \/ \A c \in Clients : client[c] = "idle"

\* A new context with no devices, and a new, empty map of versions.
OpenBegin ==
    /\ context \in {"none", "closed"} /\ opens < MaxOpens
    /\ NoClientInside
    /\ lazy_init_modules
    /\ context' = "opening"
    /\ sub_hw_devices' = <<>>
    /\ next_module' = 0
    /\ opens' = opens + 1
    /\ sub_hw_versions' = {}
    /\ UNCHANGED <<registryVars, call, crashed>>

\* One sub-HAL opens: its device joins the context, its version the map ...
OpenSub ==
    /\ context = "opening" /\ next_module < NumModules
    /\ sub_hw_devices' = Append(sub_hw_devices, Module(next_module))
    /\ IF sub_hw_versions = NULL
       THEN crashed' = TRUE /\ UNCHANGED sub_hw_versions
       ELSE /\ sub_hw_versions' = sub_hw_versions \cup {Module(next_module)}
            /\ UNCHANGED crashed
    /\ next_module' = next_module + 1
    /\ UNCHANGED <<sub_hw_modules, context, opens, registryVars, call>>

\* ... or fails to, and is passed over.
OpenSubFails ==
    /\ context = "opening" /\ next_module < NumModules
    /\ OpenMayFail
    /\ next_module' = next_module + 1
    /\ UNCHANGED <<sub_hw_modules, context, sub_hw_devices, opens, sub_hw_versions,
                   registryVars, call, crashed>>

OpenEnd ==
    /\ context = "opening" /\ next_module = NumModules
    /\ context' = "open"
    /\ UNCHANGED <<sub_hw_modules, sub_hw_devices, next_module, opens,
                   sub_hw_versions, registryVars, call, crashed>>

\* The devices are closed and the context deleted; the registry stays.
Close ==
    /\ context = "open"
    /\ NoClientInside
    /\ context' = "closed"
    /\ sub_hw_devices' = <<>>
    /\ call' = NULL
    /\ UNCHANGED <<sub_hw_modules, next_module, opens, sub_hw_versions,
                   registryVars, crashed>>

-----------------------------------------------------------------------------
\* module__get_sensors_list and lazy_init_sensors_list.

init_sensors_mutex_free == \A c \in Clients : client[c] # "build"

\* Mutant: the list is not looked at again under the lock.
MustBuild_Always == TRUE

MustBuild == global_sensors_list = NULL

\* A client takes init_sensors_mutex.  It builds the list if there is none.
GetSensorsList(c) ==
    /\ client[c] = "idle" /\ init_sensors_mutex_free
    /\ context = "open" \/ ListBeforeOpen
    /\ IF MustBuild
       THEN /\ lazy_init_modules
            /\ client' = [client EXCEPT ![c] = "build"]
            /\ building' = 1 /\ mutable_sensor_list' = <<>>
       ELSE /\ client' = [client EXCEPT ![c] = "listed"]
            /\ UNCHANGED <<sub_hw_modules, building, mutable_sensor_list>>
    /\ UNCHANGED <<contextVars, sub_hw_versions, handleMaps, global_sensors_list,
                   call, crashed>>

\* Mutant: handles count up per module only.
assign_global_handle_Reused(full) ==
    /\ full_to_global' = [f \in DOMAIN full_to_global \cup {full} |->
         IF f = full THEN full[2] ELSE full_to_global[f]]
    /\ global_to_full' = [g \in DOMAIN global_to_full \cup {full[2]} |->
         IF g = full[2] THEN full ELSE global_to_full[g]]
    /\ next_global_handle' = next_global_handle + 1

assign_global_handle(full) ==
    /\ full_to_global' = [f \in DOMAIN full_to_global \cup {full} |->
         IF f = full THEN next_global_handle ELSE full_to_global[f]]
    /\ global_to_full' = [g \in DOMAIN global_to_full \cup {next_global_handle} |->
         IF g = next_global_handle THEN full ELSE global_to_full[g]]
    /\ next_global_handle' = next_global_handle + 1

\* It registers the next sensor of a module, then looks up the version of the
\* module: without a map, or without an entry, the process ends.
RegisterSensor(c) ==
    /\ client[c] = "build"
    /\ \E i \in building .. Len(SensorList) :
         LET s    == SensorList[i]
             full == <<ModuleIndex(s[1]), s[2]>>
         IN  /\ Listed(i) /\ \A j \in building .. i - 1 : ~Listed(j)
             /\ assign_global_handle(full)
             /\ mutable_sensor_list' = Append(mutable_sensor_list,
                  [sensor |-> s, handle |-> full_to_global'[full]])
             /\ crashed' = (sub_hw_versions = NULL \/ s[1] \notin sub_hw_versions)
             /\ building' = i + 1
    /\ UNCHANGED <<sub_hw_modules, contextVars, sub_hw_versions, client,
                   global_sensors_list, call>>

\* It publishes the list, deletes the versions and releases the mutex.
PublishList(c) ==
    /\ client[c] = "build" /\ \A i \in building .. Len(SensorList) : ~Listed(i)
    /\ global_sensors_list' = mutable_sensor_list
    /\ sub_hw_versions' = NULL
    /\ client' = [client EXCEPT ![c] = "listed"]
    /\ UNCHANGED <<sub_hw_modules, contextVars, building, mutable_sensor_list,
                   handleMaps, call, crashed>>

UseList(c) ==
    /\ client[c] = "listed"
    /\ client' = [client EXCEPT ![c] = "idle"]
    /\ UNCHANGED <<sub_hw_modules, contextVars, sub_hw_versions, building,
                   mutable_sensor_list, handleMaps, global_sensors_list, call, crashed>>

-----------------------------------------------------------------------------
\* The calls of the framework on the open context, each with a global handle.

Known(handle) == handle \in DOMAIN global_to_full

get_module_index(handle) == IF Known(handle) THEN global_to_full[handle][1] ELSE -1
get_local_handle(handle) == IF Known(handle) THEN global_to_full[handle][2] ELSE -1

\* Mutant: the index counts from one.
get_device_by_handle_Shifted(handle) ==
    LET index == get_module_index(handle) IN
    IF index < 0 \/ index >= Len(sub_hw_devices) THEN NULL
    ELSE sub_hw_devices[IF index = 0 THEN 1 ELSE index]

\* The library whose device sub_hw_devices holds at the module index of the
\* handle, or NULL.
get_device_by_handle(handle) ==
    LET index == get_module_index(handle) IN
    IF index < 0 \/ index >= Len(sub_hw_devices) THEN NULL
    ELSE sub_hw_devices[index + 1]

\* What the sub-HAL receives, beside the sensor the framework means: the one
\* listed under that handle.
ToSubHal(op, handle, passed, ns) ==
    LET entry == CHOOSE i \in DOMAIN global_sensors_list :
                   global_sensors_list[i].handle = handle
    IN  [op |-> op, module |-> get_device_by_handle(handle), handle |-> passed,
         ns |-> ns, meant |-> global_sensors_list[entry].sensor]

Reachable(handle) ==
    get_local_handle(handle) >= 0 /\ get_device_by_handle(handle) # NULL

\* Every call returns -EINVAL without touching a sub-HAL for a bad handle.
Refuse(handle) == ~Reachable(handle) /\ call' = NULL

activate(handle) ==
    \/ Refuse(handle)
    \/ /\ Reachable(handle)
       /\ call' = ToSubHal("activate", handle, get_local_handle(handle), 0)

setDelay(handle, ns) ==
    \/ Refuse(handle)
    \/ /\ Reachable(handle)
       /\ call' = ToSubHal("setDelay", handle, get_local_handle(handle), ns)

\* The period is clamped with the delays of the list's entry number
\* sub_index, counted from 0, where sub_index is the module's.
Clamped(handle, ns) ==
    LET entry == global_sensors_list[get_module_index(handle) + 1].sensor
    IN  IF ns < MinDelay[entry] THEN MinDelay[entry]
        ELSE IF ns > MaxDelay[entry] THEN MaxDelay[entry] ELSE ns

batch(handle, ns, timeout) ==
    \/ Refuse(handle)
    \/ /\ Reachable(handle)
       /\ get_device_by_handle(handle) \in HasBatch
       /\ call' = ToSubHal("batch", handle, get_local_handle(handle), ns)
    \/ /\ Reachable(handle)
       /\ get_device_by_handle(handle) \notin HasBatch
       /\ IF ns < 0 \/ timeout < 0 THEN call' = NULL
          ELSE call' = ToSubHal("batch as setDelay", handle, handle,
                                Clamped(handle, ns))

flush(handle) ==
    \/ Refuse(handle)
    \/ /\ Reachable(handle)
       /\ call' = IF get_device_by_handle(handle) \in HasBatch
                  THEN ToSubHal("flush", handle, get_local_handle(handle), 0)
                  ELSE NULL

\* The event goes on as it came, with the global handle in it.
inject_sensor_data(handle) ==
    \/ Refuse(handle)
    \/ /\ Reachable(handle)
       /\ call' = IF get_device_by_handle(handle) \in HasInject
                  THEN ToSubHal("inject", handle, handle, 0) ELSE NULL

\* The framework uses the handles of the list it was given, or a wrong one.
Handles == 1 .. Len(SensorList) + 1

FrameworkCall ==
    /\ context = "open" /\ global_sensors_list # NULL
    /\ \E handle \in Handles :
         \/ activate(handle)
         \/ \E ns \in Periods : setDelay(handle, ns)
         \/ \E ns \in Periods, timeout \in {-1, 0} : batch(handle, ns, timeout)
         \/ flush(handle)
         \/ inject_sensor_data(handle)
    /\ UNCHANGED <<sub_hw_modules, contextVars, sub_hw_versions, registryVars, crashed>>

Next ==
    /\ ~crashed
    /\ \/ OpenBegin \/ OpenSub \/ OpenSubFails \/ OpenEnd \/ Close
       \/ \E c \in Clients : \/ GetSensorsList(c) \/ RegisterSensor(c)
                             \/ PublishList(c) \/ UseList(c)
       \/ FrameworkCall

Spec == Init /\ [][Next]_vars

-----------------------------------------------------------------------------
\* Properties.

\* Whoever asks first, and however many clients ask at once: the two maps are
\* inverse, no handle is given out twice, and a list that is published names
\* each sensor of each module by a handle of its own (multihal.cpp 87-99,
\* 627-698).
HandlesConsistent ==
    /\ \A f \in DOMAIN full_to_global :
         /\ full_to_global[f] \in DOMAIN global_to_full
         /\ global_to_full[full_to_global[f]] = f
    /\ \A g \in DOMAIN global_to_full :
         /\ g \in 1 .. next_global_handle - 1
         /\ global_to_full[g] \in DOMAIN full_to_global
    /\ Cardinality(DOMAIN full_to_global) = next_global_handle - 1
    /\ global_sensors_list # NULL =>
         /\ { entry.sensor : entry \in ToSet(global_sensors_list) }
              = { s \in Sensors : Contains(sub_hw_modules, s[1]) }
         /\ { entry.handle : entry \in ToSet(global_sensors_list) } = DOMAIN global_to_full

\* The sensor a handle stands for.
Meaning(handle) ==
    LET index == get_module_index(handle)
    IN  IF index \in 0 .. NumModules - 1
        THEN <<Module(index), get_local_handle(handle)>> ELSE NULL

\* A handle the framework was given keeps its meaning for the life of the
\* process, over close and a new open, and whatever would load by then.
HandlesStable ==
    [][/\ \A handle \in DOMAIN global_to_full : Meaning(handle)' = Meaning(handle)
       /\ global_sensors_list # NULL => UNCHANGED global_sensors_list]_vars

\* When every sub-HAL opened, a call with a handle of the list reaches the
\* device of that sensor's module, with the handle that module gave it.
\* (Not so the handle of batch on a device older than API 1.1, and of inject:
\* they pass the global one on.)
RoutedToOwner ==
    call # NULL /\ Len(sub_hw_devices) = NumModules =>
        /\ call.module = call.meant[1]
        /\ call.op \in {"activate", "setDelay", "batch", "flush"} =>
             call.handle = call.meant[2]

\* "Remember their devices in a vector parallel to sub_hw_modules"
\* (multihal.cpp 758): the device at a module's index is that module's.
DevicesParallelToModules ==
    \A i \in 1 .. Len(sub_hw_devices) : sub_hw_devices[i] = sub_hw_modules[i]

\* The version map is there for whoever builds the list (multihal.cpp 683):
\* the process ends only if the list is asked for before or while
\* open_sensors runs, or after a sub-HAL failed to open.
NoCrashOnceOpen ==
    crashed => context # "open" \/ Len(sub_hw_devices) < NumModules

=============================================================================
