------------------------ MODULE MultiHalRegistryProofs ------------------------
(***************************************************************************)
(* Proofs about MultiHalRegistry, for any libraries and sensors, any number *)
(* of clients, any failures to load or open, and any order of the calls.   *)
(***************************************************************************)
EXTENDS MultiHalRegistry, FiniteSetTheorems, TLAPS

Entry == [sensor : Sensors, handle : Nat]

\* The variables have their types; no library is loaded twice.
Types ==
    /\ \/ sub_hw_modules = NULL
       \/ sub_hw_modules \in Seq(Libraries) /\ IsInjective(sub_hw_modules)
    /\ context \in {"none", "opening", "open", "closed"}
    /\ sub_hw_devices \in Seq(Libraries)
    /\ next_module \in Nat
    /\ sub_hw_versions \in (SUBSET Libraries) \cup {NULL}
    /\ client \in [Clients -> {"idle", "build", "listed"}]
    /\ building \in Nat \ {0}
    /\ mutable_sensor_list \in Seq(Entry)
    /\ next_global_handle \in Nat \ {0}
    /\ global_sensors_list \in Seq(Entry) \cup {NULL}
    /\ crashed \in BOOLEAN

\* The modules are there for whoever has come so far.
Loaded ==
    context # "none" \/ building # 1 \/ global_sensors_list # NULL
      \/ (\E c \in Clients : client[c] = "build") => sub_hw_modules # NULL

\* One client builds, while there is no list; before, nothing is registered.
OneBuilder ==
    /\ \A c, d \in Clients : client[c] = "build" /\ client[d] = "build" => c = d
    /\ \A c \in Clients : client[c] = "build" => global_sensors_list = NULL
    /\ (\A c \in Clients : client[c] # "build") /\ global_sensors_list = NULL =>
         building = 1 /\ mutable_sensor_list = <<>>

\* The full handle of the sensor of an entry.
FullHandle(s) == <<ModuleIndex(s[1]), s[2]>>

\* Entry k has handle k, which stands for its sensor ...
EntriesNumbered ==
    /\ next_global_handle = Len(mutable_sensor_list) + 1
    /\ DOMAIN global_to_full = 1 .. Len(mutable_sensor_list)
    /\ \A k \in 1 .. Len(mutable_sensor_list) :
         /\ mutable_sensor_list[k].handle = k
         /\ global_to_full[k] = FullHandle(mutable_sensor_list[k].sensor)

\* ... and the entries are those of the sensors the builder has passed.
EntriesPassed ==
    /\ \A k \in 1 .. Len(mutable_sensor_list) :
         \E i \in 1 .. Len(SensorList) :
            i < building /\ Listed(i) /\ mutable_sensor_list[k].sensor = SensorList[i]
    /\ \A i \in 1 .. Len(SensorList) : i < building /\ Listed(i) =>
         \E k \in 1 .. Len(mutable_sensor_list) :
            mutable_sensor_list[k].sensor = SensorList[i]

\* The two maps are inverse, and each full handle got one number.
MapsInverse ==
    /\ IsFiniteSet(DOMAIN full_to_global)
    /\ Cardinality(DOMAIN full_to_global) = next_global_handle - 1
    /\ \A f \in DOMAIN full_to_global :
         /\ full_to_global[f] \in DOMAIN global_to_full
         /\ global_to_full[full_to_global[f]] = f
    /\ \A g \in DOMAIN global_to_full : global_to_full[g] \in DOMAIN full_to_global

\* A published list is the finished one.
Finished ==
    global_sensors_list # NULL =>
        /\ global_sensors_list = mutable_sensor_list
        /\ \A i \in building .. Len(SensorList) : ~Listed(i)

\* The devices follow the modules; without a failure none is missing.
Devices ==
    /\ context \in {"none", "closed"} => sub_hw_devices = <<>>
    /\ context \in {"opening", "open"} =>
         /\ Len(sub_hw_devices) <= next_module /\ next_module <= NumModules
         /\ Len(sub_hw_devices) = next_module =>
              \A i \in 1 .. next_module : sub_hw_devices[i] = sub_hw_modules[i]
    /\ context = "open" => next_module = NumModules

\* Until the list is published the map of versions has the open devices.
Versions ==
    context \in {"opening", "open"} /\ global_sensors_list = NULL =>
        sub_hw_versions = ToSet(sub_hw_devices)

CalledWhenOpen == call # NULL => context = "open" /\ global_sensors_list # NULL

IInv == /\ Types /\ Loaded /\ OneBuilder /\ EntriesNumbered /\ EntriesPassed
        /\ MapsInverse /\ Finished /\ Devices /\ Versions /\ CalledWhenOpen
        /\ RoutedToOwner /\ NoCrashOnceOpen

-----------------------------------------------------------------------------

\* The index of a loaded library in sub_hw_modules leads back to it.
LEMMA ModuleIndexInverse ==
    ASSUME Types, sub_hw_modules # NULL, NEW l, Contains(sub_hw_modules, l)
    PROVE  ModuleIndex(l) \in 0 .. NumModules - 1 /\ Module(ModuleIndex(l)) = l
<1>1. PICK i \in 1 .. Len(sub_hw_modules) : sub_hw_modules[i] = l
  BY DEF Contains
<1>2. Len(sub_hw_modules) \in Nat
  OBVIOUS
<1>3. i - 1 \in 0 .. NumModules - 1 /\ Module(i - 1) = l
  BY <1>1 DEF NumModules, Module
<1>. QED BY <1>3 DEF ModuleIndex

\* A sensor is a library and a local handle.
LEMMA SensorsAreFull == Sensors \subseteq Libraries \X Nat
<1>1. SensorList \in Seq(Libraries \X Nat)
  BY RegistryAssumption
<1>. QED BY <1>1 DEF Sensors

\* The module index and the local handle tell the sensors of loaded libraries
\* apart: FullHandle is a key of full_to_global.
LEMMA FullHandleInjective ==
    ASSUME Types, sub_hw_modules # NULL, NEW s \in Sensors, NEW t \in Sensors,
           Contains(sub_hw_modules, s[1]), Contains(sub_hw_modules, t[1]),
           FullHandle(s) = FullHandle(t)
    PROVE  s = t
<1>1. s \in Libraries \X Nat /\ t \in Libraries \X Nat
  BY SensorsAreFull
<1>2. s[1] = t[1] /\ s[2] = t[2]
  BY ModuleIndexInverse DEF FullHandle
<1>. QED BY <1>1, <1>2

\* lazy_init_modules loads libraries of the configuration file in its order,
\* each once, and nothing when it was called before (multihal.cpp 570-610).
LEMMA LazyInitModules ==
    ASSUME Types, lazy_init_modules
    PROVE  /\ sub_hw_modules' \in Seq(Libraries) /\ IsInjective(sub_hw_modules')
           /\ sub_hw_modules' # NULL
           /\ sub_hw_modules # NULL => sub_hw_modules' = sub_hw_modules
<1>1. CASE sub_hw_modules # NULL
  BY <1>1 DEF lazy_init_modules, MustLoad, Types
<1>2. CASE sub_hw_modules = NULL
  <2>0. PICK n \in 0 .. Len(SoPaths) : \E at \in [1 .. n -> 1 .. Len(SoPaths)] :
          /\ \A i, j \in 1 .. n : i < j => at[i] < at[j]
          /\ sub_hw_modules' = [i \in 1 .. n |-> SoPaths[at[i]]]
    BY <1>2 DEF lazy_init_modules, MustLoad
  <2>1. PICK at \in [1 .. n -> 1 .. Len(SoPaths)] :
          /\ \A i, j \in 1 .. n : i < j => at[i] < at[j]
          /\ sub_hw_modules' = [i \in 1 .. n |-> SoPaths[at[i]]]
    BY <2>0
  <2>2. SoPaths \in Seq(Libraries) /\ Len(SoPaths) \in Nat /\ n \in Nat
    BY RegistryAssumption
  <2>3. sub_hw_modules' \in Seq(Libraries)
    BY <2>1, <2>2
  <2>. \A i \in 1 .. n : at[i] \in 1 .. Len(SoPaths)
    OBVIOUS
  <2>. \A x, y \in 1 .. Len(SoPaths) : SoPaths[x] = SoPaths[y] => x = y
    <3>1. IsInjective(SoPaths) /\ DOMAIN SoPaths = 1 .. Len(SoPaths)
      BY RegistryAssumption
    <3>. QED BY <3>1 DEF IsInjective
  <2>4. \A i, j \in 1 .. n : SoPaths[at[i]] = SoPaths[at[j]] => at[i] = at[j]
    OBVIOUS
  <2>5. \A i, j \in 1 .. n : at[i] = at[j] => i = j
    BY <2>1
  <2>6. IsInjective(sub_hw_modules')
    BY <2>1 DEF IsInjective
  <2>. QED BY <1>2, <2>3, <2>6, RegistryAssumption
<1>. QED BY <1>1, <1>2

\* While the module list stays, so do the indices in it and the sensors that
\* will be listed.
LEMMA ModulesUnchanged ==
    ASSUME UNCHANGED sub_hw_modules
    PROVE  /\ NumModules' = NumModules
           /\ \A i : Listed(i)' <=> Listed(i)
           /\ \A s : FullHandle(s)' = FullHandle(s)
BY DEF NumModules, Listed, FullHandle, ModuleIndex, Module

\* A step that leaves the modules, the handle maps and the lists alone keeps
\* what the invariant says of them.
LEMMA RegistryUnchanged ==
    ASSUME IInv, UNCHANGED <<sub_hw_modules, building, mutable_sensor_list, handleMaps,
                             global_sensors_list>>
    PROVE  EntriesNumbered' /\ EntriesPassed' /\ MapsInverse' /\ Finished'
<1>1. UNCHANGED <<sub_hw_modules, building, mutable_sensor_list, full_to_global,
                  global_to_full, next_global_handle, global_sensors_list>>
  BY DEF handleMaps
<1>2. EntriesNumbered'
  BY <1>1, ModulesUnchanged DEF IInv, EntriesNumbered
<1>3. EntriesPassed'
  BY ModulesUnchanged DEF IInv, EntriesPassed
<1>4. MapsInverse'
  BY <1>1 DEF IInv, MapsInverse
<1>5. Finished'
  BY ModulesUnchanged DEF IInv, Finished
<1>. QED BY <1>2, <1>3, <1>4, <1>5

\* open_sensors opens the next sub-HAL and appends its device.
LEMMA OpenSubInv ==
    ASSUME IInv, ~crashed, OpenSub
    PROVE  IInv'
<1>1. EntriesNumbered' /\ EntriesPassed' /\ MapsInverse' /\ Finished'
  BY RegistryUnchanged DEF OpenSub, registryVars
<1>2. Types'
  <2>1. Module(next_module) \in Libraries
    <3>1. sub_hw_modules \in Seq(Libraries) /\ next_module + 1 \in 1 .. Len(sub_hw_modules)
      BY DEF IInv, Types, OpenSub, NumModules
    <3>. QED BY <3>1 DEF Module
  <2>2. sub_hw_devices' \in Seq(Libraries) /\ next_module' \in Nat
    BY <2>1 DEF IInv, Types, OpenSub
  <2>3. sub_hw_versions' \in (SUBSET Libraries) \cup {NULL}
    BY <2>1 DEF IInv, Types, OpenSub
  <2>4. crashed' \in BOOLEAN
    BY DEF IInv, Types, OpenSub
  <2>. QED BY <2>2, <2>3, <2>4 DEF IInv, Types, OpenSub, registryVars, handleMaps
<1>3. Loaded'
  BY DEF IInv, Types, Loaded, OpenSub
<1>4. OneBuilder'
  BY DEF IInv, Types, OneBuilder, OpenSub, registryVars
<1>5. Devices'
  BY DEF IInv, Types, Devices, NumModules, Module, OpenSub
<1>6. Versions'
  <2>1. /\ sub_hw_devices \in Seq(Libraries)
        /\ sub_hw_devices' = Append(sub_hw_devices, Module(next_module))
    BY DEF IInv, Types, OpenSub
  <2>2. ToSet(sub_hw_devices') = ToSet(sub_hw_devices) \cup {Module(next_module)}
    BY <2>1 DEF ToSet
  <2>3. global_sensors_list = NULL =>
          sub_hw_versions = ToSet(sub_hw_devices) /\ sub_hw_versions # NULL
    <3>1. ToSet(sub_hw_devices) \in SUBSET Libraries
      BY <2>1 DEF ToSet
    <3>. QED BY <3>1, RegistryAssumption DEF IInv, Versions, OpenSub
  <2>4. global_sensors_list' = global_sensors_list
    BY DEF OpenSub, registryVars
  <2>5. ToSet(sub_hw_devices)' = ToSet(sub_hw_devices')
    OBVIOUS
  <2>. QED BY <2>2, <2>3, <2>4, <2>5 DEF Versions, OpenSub
<1>7. CalledWhenOpen'
  BY DEF IInv, Types, CalledWhenOpen, OpenSub
<1>8. RoutedToOwner'
  BY DEF IInv, Types, RoutedToOwner, CalledWhenOpen, OpenSub
<1>9. NoCrashOnceOpen'
  BY DEF IInv, Types, NoCrashOnceOpen, OpenSub
<1>. QED BY <1>1, <1>2, <1>3, <1>4, <1>5, <1>6, <1>7, <1>8, <1>9 DEF IInv

\* A sub-HAL fails to open: the loop goes on without a device for it.
LEMMA OpenSubFailsInv ==
    ASSUME IInv, ~crashed, OpenSubFails
    PROVE  IInv'
<1>1. EntriesNumbered' /\ EntriesPassed' /\ MapsInverse' /\ Finished'
  BY RegistryUnchanged DEF OpenSubFails, registryVars
<1>2. Types'
  BY DEF IInv, Types, OpenSubFails, registryVars, handleMaps
<1>3. Loaded'
  BY DEF IInv, Types, Loaded, OpenSubFails
<1>4. OneBuilder'
  BY DEF IInv, Types, OneBuilder, OpenSubFails, registryVars
<1>5. Devices'
  BY DEF IInv, Types, Devices, NumModules, OpenSubFails
<1>6. Versions'
  BY DEF IInv, Types, Versions, OpenSubFails, registryVars
<1>7. CalledWhenOpen'
  BY DEF IInv, Types, CalledWhenOpen, OpenSubFails
<1>8. RoutedToOwner'
  BY DEF IInv, Types, RoutedToOwner, NumModules, OpenSubFails
<1>9. NoCrashOnceOpen'
  BY DEF IInv, Types, NoCrashOnceOpen, OpenSubFails
<1>. QED BY <1>1, <1>2, <1>3, <1>4, <1>5, <1>6, <1>7, <1>8, <1>9 DEF IInv

\* open_sensors asks for the sensor list and returns; with a list not yet built
\* it would end the process, which happens only when a sub-HAL failed.
LEMMA OpenEndInv ==
    ASSUME IInv, ~crashed, OpenEnd
    PROVE  IInv'
<1>1. EntriesNumbered' /\ EntriesPassed' /\ MapsInverse' /\ Finished'
  BY RegistryUnchanged DEF OpenEnd, registryVars
<1>2. Types'
  BY DEF IInv, Types, OpenEnd, registryVars, handleMaps
<1>3. Loaded'
  BY DEF IInv, Types, Loaded, OpenEnd
<1>4. OneBuilder'
  BY DEF IInv, Types, OneBuilder, OpenEnd, registryVars
<1>5. Devices'
  BY DEF IInv, Types, Devices, NumModules, OpenEnd
<1>6. Versions'
  BY DEF IInv, Types, Versions, OpenEnd, registryVars
<1>7. CalledWhenOpen'
  BY DEF IInv, Types, CalledWhenOpen, OpenEnd
<1>8. RoutedToOwner'
  BY DEF IInv, Types, RoutedToOwner, NumModules, OpenEnd
<1>9. NoCrashOnceOpen'
  BY DEF IInv, Types, NoCrashOnceOpen, OpenEnd
<1>. QED BY <1>1, <1>2, <1>3, <1>4, <1>5, <1>6, <1>7, <1>8, <1>9 DEF IInv

\* close closes the devices and deletes the context.
LEMMA CloseInv ==
    ASSUME IInv, ~crashed, Close
    PROVE  IInv'
<1>1. EntriesNumbered' /\ EntriesPassed' /\ MapsInverse' /\ Finished'
  BY RegistryUnchanged DEF Close, registryVars
<1>2. Types'
  BY DEF IInv, Types, Close, registryVars, handleMaps
<1>3. Loaded'
  BY DEF IInv, Types, Loaded, Close
<1>4. OneBuilder'
  BY DEF IInv, Types, OneBuilder, Close, registryVars
<1>5. Devices'
  BY DEF IInv, Types, Devices, Close
<1>6. Versions'
  BY DEF IInv, Types, Versions, Close
<1>7. CalledWhenOpen'
  BY DEF IInv, Types, CalledWhenOpen, Close
<1>8. RoutedToOwner'
  BY DEF IInv, Types, RoutedToOwner, Close
<1>9. NoCrashOnceOpen'
  BY DEF IInv, Types, NoCrashOnceOpen, Close
<1>. QED BY <1>1, <1>2, <1>3, <1>4, <1>5, <1>6, <1>7, <1>8, <1>9 DEF IInv

\* A client of get_sensors_list goes on with the published list.
LEMMA UseListInv ==
    ASSUME IInv, NEW c \in Clients, UseList(c)
    PROVE  IInv'
<1>1. EntriesNumbered' /\ EntriesPassed' /\ MapsInverse' /\ Finished'
  BY RegistryUnchanged DEF UseList
<1>2. Types'
  BY DEF IInv, Types, UseList, contextVars, handleMaps
<1>3. Loaded'
  BY DEF IInv, Types, Loaded, UseList, contextVars
<1>4. OneBuilder'
  BY DEF IInv, Types, OneBuilder, UseList
<1>5. Devices'
  BY DEF IInv, Types, Devices, NumModules, UseList, contextVars
<1>6. Versions'
  BY DEF IInv, Types, Versions, UseList, contextVars
<1>7. CalledWhenOpen'
  BY DEF IInv, Types, CalledWhenOpen, UseList, contextVars
<1>8. RoutedToOwner'
  BY DEF IInv, Types, RoutedToOwner, NumModules, UseList, contextVars
<1>9. NoCrashOnceOpen'
  BY DEF IInv, Types, NoCrashOnceOpen, NumModules, UseList, contextVars
<1>. QED BY <1>1, <1>2, <1>3, <1>4, <1>5, <1>6, <1>7, <1>8, <1>9 DEF IInv

\* A step of nothing preserves the invariant.
LEMMA StutterInv ==
    ASSUME IInv, UNCHANGED vars
    PROVE  IInv'
<1>1. EntriesNumbered' /\ EntriesPassed' /\ MapsInverse' /\ Finished'
  BY RegistryUnchanged DEF vars, handleMaps
<1>2. Types'
  BY DEF IInv, Types, vars
<1>3. Loaded'
  BY DEF IInv, Types, Loaded, vars
<1>4. OneBuilder'
  BY DEF IInv, Types, OneBuilder, vars
<1>5. Devices'
  BY DEF IInv, Types, Devices, NumModules, vars
<1>6. Versions'
  BY DEF IInv, Types, Versions, vars
<1>7. CalledWhenOpen'
  BY DEF IInv, Types, CalledWhenOpen, vars
<1>8. RoutedToOwner'
  BY DEF IInv, Types, RoutedToOwner, NumModules, vars
<1>9. NoCrashOnceOpen'
  BY DEF IInv, Types, NoCrashOnceOpen, NumModules, vars
<1>. QED BY <1>1, <1>2, <1>3, <1>4, <1>5, <1>6, <1>7, <1>8, <1>9 DEF IInv

\* With no device missing, a call with a published handle goes to the device at
\* the module index of the handle, which is that of the module that has the
\* sensor.
LEMMA ToSubHalMeant ==
    ASSUME IInv, context = "open", global_sensors_list # NULL, NEW handle, NEW op,
           NEW passed, NEW ns, Reachable(handle), Len(sub_hw_devices) = NumModules
    PROVE  LET sent == ToSubHal(op, handle, passed, ns)
           IN  /\ sent.op = op /\ sent.handle = passed
               /\ sent.module = sent.meant[1]
               /\ get_local_handle(handle) = sent.meant[2]
<1>. DEFINE n == CHOOSE i \in DOMAIN global_sensors_list :
                global_sensors_list[i].handle = handle
            s == global_sensors_list[n].sensor
<1>1. global_sensors_list = mutable_sensor_list /\ mutable_sensor_list \in Seq(Entry)
  BY DEF IInv, Types, Finished
<1>2. handle \in DOMAIN global_to_full
  BY DEF Reachable, get_local_handle, Known
<1>3. handle \in DOMAIN global_sensors_list /\ global_sensors_list[handle].handle = handle
  BY <1>1, <1>2 DEF IInv, EntriesNumbered
<1>4. n \in DOMAIN global_sensors_list /\ global_sensors_list[n].handle = handle
  BY <1>3
<1>5. n = handle
  BY <1>1 DEF IInv, EntriesNumbered
<1>6. global_to_full[handle] = FullHandle(s)
  BY <1>1, <1>3 DEF IInv, EntriesNumbered
<1>7. sub_hw_modules # NULL /\ Contains(sub_hw_modules, s[1])
  <2>1. PICK i \in 1 .. Len(SensorList) : Listed(i) /\ s = SensorList[i]
    <3>1. /\ handle \in 1 .. Len(mutable_sensor_list)
          /\ s = mutable_sensor_list[handle].sensor
      <4>1. s = mutable_sensor_list[handle].sensor
        BY <1>1, <1>5
      <4>2. DOMAIN global_sensors_list = 1 .. Len(mutable_sensor_list)
        BY <1>1
      <4>. QED BY <1>3, <4>1, <4>2
    <3>. QED BY <3>1 DEF IInv, EntriesPassed
  <2>. QED BY <2>1 DEF IInv, Loaded, Listed
<1>8. ModuleIndex(s[1]) \in 0 .. NumModules - 1 /\ Module(ModuleIndex(s[1])) = s[1]
  BY <1>7, ModuleIndexInverse DEF IInv
<1>9. NumModules \in Nat
  BY DEF IInv, Types
<1>10. get_module_index(handle) = ModuleIndex(s[1]) /\ get_local_handle(handle) = s[2]
  BY <1>2, <1>6 DEF get_module_index, get_local_handle, Known, FullHandle
<1>11. get_device_by_handle(handle) = sub_hw_devices[ModuleIndex(s[1]) + 1]
  <2>1. Len(sub_hw_devices) = NumModules
    OBVIOUS
  <2>2. ~(get_module_index(handle) < 0 \/ get_module_index(handle) >= Len(sub_hw_devices))
    <3>. DEFINE m == ModuleIndex(s[1])
    <3>1. m \in 0 .. NumModules - 1 /\ get_module_index(handle) = m
      BY <1>8, <1>10
    <3>. HIDE DEF m
    <3>2. m >= 0 /\ m < NumModules
      BY ONLY <1>9, <3>1
    <3>. QED BY ONLY <1>9, <2>1, <3>1, <3>2
  <2>. QED BY <1>10, <2>2 DEF get_device_by_handle
<1>12. sub_hw_devices[ModuleIndex(s[1]) + 1] = sub_hw_modules[ModuleIndex(s[1]) + 1]
  <2>1. next_module = NumModules
    BY DEF IInv, Devices
  <2>2. \A i \in 1 .. NumModules : sub_hw_devices[i] = sub_hw_modules[i]
    BY <2>1 DEF IInv, Devices
  <2>. DEFINE m == ModuleIndex(s[1])
  <2>3. m \in 0 .. NumModules - 1
    BY <1>8
  <2>. HIDE DEF m
  <2>4. m + 1 \in 1 .. NumModules
    BY ONLY <1>9, <2>3
  <2>5. sub_hw_devices[m + 1] = sub_hw_modules[m + 1]
    BY ONLY <2>2, <2>4
  <2>. QED BY <2>5 DEF m
<1>13. get_device_by_handle(handle) = s[1]
  BY <1>8, <1>11, <1>12 DEF Module
<1>. QED BY <1>10, <1>13 DEF ToSubHal

\* activate, setDelay, batch, flush and inject_sensor_data reach the sub-HAL of
\* the sensor, and crash only after a sub-HAL failed to open.
LEMMA FrameworkCallInv ==
    ASSUME IInv, FrameworkCall
    PROVE  IInv'
<1>1. EntriesNumbered' /\ EntriesPassed' /\ MapsInverse' /\ Finished'
  BY RegistryUnchanged DEF FrameworkCall, registryVars
<1>2. Types'
  BY DEF IInv, Types, FrameworkCall, contextVars, registryVars, handleMaps
<1>3. Loaded'
  BY DEF IInv, Types, Loaded, FrameworkCall
<1>4. OneBuilder'
  BY DEF IInv, Types, OneBuilder, FrameworkCall, registryVars
<1>5. Devices'
  BY DEF IInv, Types, Devices, NumModules, FrameworkCall, contextVars
<1>6. Versions'
  BY DEF IInv, Types, Versions, FrameworkCall, registryVars
<1>7. CalledWhenOpen'
  BY DEF IInv, Types, CalledWhenOpen, FrameworkCall, contextVars, registryVars
<1>8. RoutedToOwner'
  <2>1. SUFFICES ASSUME call' # NULL, Len(sub_hw_devices) = NumModules
                 PROVE  /\ call'.module = call'.meant[1]
                        /\ call'.op \in {"activate", "setDelay", "batch", "flush"} =>
                             call'.handle = call'.meant[2]
    BY ModulesUnchanged DEF FrameworkCall, contextVars, RoutedToOwner
  <2>2. context = "open" /\ global_sensors_list # NULL
    BY DEF FrameworkCall
  <2>3. PICK handle \in Handles :
          \/ activate(handle)
          \/ \E ns \in Periods : setDelay(handle, ns)
          \/ \E ns \in Periods, timeout \in {-1, 0} : batch(handle, ns, timeout)
          \/ flush(handle)
          \/ inject_sensor_data(handle)
    BY DEF FrameworkCall
  <2>. DEFINE Sent ==
         /\ Reachable(handle)
         /\ \E op, passed, ns :
              /\ call' = ToSubHal(op, handle, passed, ns)
              /\ op \in {"activate", "setDelay", "batch", "flush"} =>
                   passed = get_local_handle(handle)
  <2>4. Sent
    <3>1. CASE activate(handle)
      BY <2>1, <3>1 DEF activate, Refuse
    <3>2. ASSUME NEW ns \in Periods, setDelay(handle, ns) PROVE Sent
      BY <2>1, <3>2 DEF setDelay, Refuse
    <3>3. ASSUME NEW ns \in Periods, NEW timeout, batch(handle, ns, timeout) PROVE Sent
      <4>1. CASE call' = ToSubHal("batch", handle, get_local_handle(handle), ns)
        BY <2>1, <3>3, <4>1 DEF batch, Refuse
      <4>2. CASE call' = ToSubHal("batch as setDelay", handle, handle, Clamped(handle, ns))
        <5>1. "batch as setDelay" \notin {"activate", "setDelay", "batch", "flush"}
          OBVIOUS
        <5>2. Reachable(handle)
          BY <2>1, <3>3 DEF batch, Refuse
        <5>. QED BY <4>2, <5>1, <5>2
      <4>. QED BY <2>1, <3>3, <4>1, <4>2 DEF batch, Refuse
    <3>4. CASE flush(handle)
      BY <2>1, <3>4 DEF flush, Refuse
    <3>5. CASE inject_sensor_data(handle)
      BY <2>1, <3>5 DEF inject_sensor_data, Refuse
    <3>. QED BY <2>3, <3>1, <3>2, <3>3, <3>4, <3>5
  <2>. QED BY <2>1, <2>2, <2>4, ToSubHalMeant
<1>9. NoCrashOnceOpen'
  BY DEF IInv, Types, NoCrashOnceOpen, NumModules, FrameworkCall, contextVars
<1>. QED BY <1>1, <1>2, <1>3, <1>4, <1>5, <1>6, <1>7, <1>8, <1>9 DEF IInv

\* As long as nobody built the list, no handle was assigned.
LEMMA UnregisteredYet ==
    ASSUME IInv, sub_hw_modules = NULL \/
                 (global_sensors_list = NULL /\ \A c \in Clients : client[c] # "build")
    PROVE  /\ building = 1 /\ mutable_sensor_list = <<>> /\ global_sensors_list = NULL
           /\ next_global_handle = 1 /\ DOMAIN global_to_full = {}
           /\ DOMAIN full_to_global = {}
<1>1. building = 1 /\ mutable_sensor_list = <<>> /\ global_sensors_list = NULL
  BY DEF IInv, Loaded, OneBuilder
<1>2. next_global_handle = 1 /\ DOMAIN global_to_full = {}
  BY <1>1 DEF IInv, EntriesNumbered
<1>3. DOMAIN full_to_global = {}
  BY <1>2 DEF IInv, MapsInverse
<1>. QED BY <1>1, <1>2, <1>3

\* Loading the modules, or finding them loaded, disturbs no handle: those
\* assigned were assigned for the same modules.
LEMMA LoadedRegistry ==
    ASSUME IInv, lazy_init_modules,
           UNCHANGED <<building, mutable_sensor_list, full_to_global, global_to_full,
                       next_global_handle, global_sensors_list>>
    PROVE  EntriesNumbered' /\ EntriesPassed' /\ MapsInverse' /\ Finished'
<1>1. CASE sub_hw_modules = NULL
  <2>1. building' = 1 /\ mutable_sensor_list' = <<>> /\ global_sensors_list' = NULL
    BY <1>1, UnregisteredYet
  <2>2. EntriesNumbered'
    BY <2>1 DEF IInv, EntriesNumbered
  <2>3. EntriesPassed'
    BY <2>1 DEF EntriesPassed
  <2>4. MapsInverse'
    BY DEF IInv, MapsInverse
  <2>5. Finished'
    BY <2>1 DEF Finished
  <2>. QED BY <2>2, <2>3, <2>4, <2>5
<1>2. CASE sub_hw_modules # NULL
  BY <1>2, LazyInitModules, RegistryUnchanged DEF IInv, handleMaps
<1>. QED BY <1>1, <1>2

\* open_sensors begins: it loads the modules if nobody did.
LEMMA OpenBeginInv ==
    ASSUME IInv, ~crashed, OpenBegin
    PROVE  IInv'
<1>1. EntriesNumbered' /\ EntriesPassed' /\ MapsInverse' /\ Finished'
  BY LoadedRegistry DEF OpenBegin, registryVars, handleMaps
<1>2. /\ sub_hw_modules' \in Seq(Libraries) /\ IsInjective(sub_hw_modules')
      /\ sub_hw_modules' # NULL
  BY LazyInitModules DEF IInv, OpenBegin
<1>3. Types'
  BY <1>2 DEF IInv, Types, OpenBegin, registryVars, handleMaps
<1>4. Loaded'
  BY <1>2 DEF Loaded
<1>5. OneBuilder'
  BY DEF IInv, OneBuilder, OpenBegin, registryVars
<1>6. Devices'
  BY DEF IInv, Types, Devices, OpenBegin, NumModules
<1>7. Versions'
  BY DEF Versions, OpenBegin, ToSet
<1>8. CalledWhenOpen' /\ RoutedToOwner'
  BY DEF IInv, CalledWhenOpen, RoutedToOwner, OpenBegin
<1>9. NoCrashOnceOpen'
  BY DEF NoCrashOnceOpen, OpenBegin
<1>. QED BY <1>1, <1>3, <1>4, <1>5, <1>6, <1>7, <1>8, <1>9 DEF IInv

\* A client enters get_sensors_list: it builds the list if there is none, or
\* takes the published one.
LEMMA GetSensorsListInv ==
    ASSUME IInv, ~crashed, NEW c \in Clients, GetSensorsList(c)
    PROVE  IInv'
<1>. USE DEF handleMaps, contextVars
<1>1. CASE MustBuild
  <2>1. /\ sub_hw_modules' \in Seq(Libraries) /\ IsInjective(sub_hw_modules')
        /\ sub_hw_modules' # NULL
        /\ sub_hw_modules # NULL => sub_hw_modules' = sub_hw_modules
    BY <1>1, LazyInitModules DEF IInv, GetSensorsList
  <2>2. /\ global_sensors_list = NULL /\ client' = [client EXCEPT ![c] = "build"]
        /\ UNCHANGED <<building, mutable_sensor_list, full_to_global, global_to_full,
                       next_global_handle, global_sensors_list>>
    BY <1>1, UnregisteredYet
    DEF GetSensorsList, MustBuild, init_sensors_mutex_free
  <2>3. EntriesNumbered' /\ EntriesPassed' /\ MapsInverse' /\ Finished'
    BY <1>1, <2>2, LoadedRegistry DEF GetSensorsList
  <2>4. Types'
    BY <2>1, <2>2 DEF IInv, Types, GetSensorsList
  <2>5. Loaded'
    BY <2>1 DEF Loaded
  <2>6. OneBuilder'
    BY <2>2 DEF IInv, Types, OneBuilder, GetSensorsList, init_sensors_mutex_free
  <2>7. Devices'
    <3>1. CASE sub_hw_modules # NULL
      BY <2>1, <3>1, ModulesUnchanged DEF IInv, Devices, GetSensorsList
    <3>2. CASE sub_hw_modules = NULL
      BY <3>2 DEF IInv, Devices, Loaded, GetSensorsList
    <3>. QED BY <3>1, <3>2
  <2>8. Versions' /\ CalledWhenOpen'
    BY DEF IInv, Versions, CalledWhenOpen, GetSensorsList
  <2>9. RoutedToOwner'
    BY <2>2 DEF IInv, CalledWhenOpen, RoutedToOwner, GetSensorsList
  <2>10. NoCrashOnceOpen'
    BY DEF NoCrashOnceOpen, GetSensorsList
  <2>. QED BY <2>3, <2>4, <2>5, <2>6, <2>7, <2>8, <2>9, <2>10 DEF IInv
<1>2. CASE ~MustBuild
  <2>1. /\ global_sensors_list # NULL /\ client' = [client EXCEPT ![c] = "listed"]
        /\ UNCHANGED <<sub_hw_modules, building, mutable_sensor_list, full_to_global,
                       global_to_full, next_global_handle, global_sensors_list>>
    BY <1>2 DEF GetSensorsList, MustBuild
  <2>3. EntriesNumbered' /\ EntriesPassed' /\ MapsInverse' /\ Finished'
    BY <2>1, RegistryUnchanged
  <2>4. Types'
    BY <2>1 DEF IInv, Types, GetSensorsList
  <2>5. Loaded'
    BY <2>1 DEF IInv, Loaded
  <2>6. OneBuilder'
    BY <2>1 DEF IInv, Types, OneBuilder
  <2>7. Devices'
    BY <2>1, ModulesUnchanged DEF IInv, Devices, GetSensorsList
  <2>8. Versions' /\ CalledWhenOpen'
    BY DEF IInv, Versions, CalledWhenOpen, GetSensorsList
  <2>9. RoutedToOwner'
    BY <2>1, ModulesUnchanged DEF IInv, RoutedToOwner, GetSensorsList
  <2>10. NoCrashOnceOpen'
    BY DEF NoCrashOnceOpen, GetSensorsList
  <2>. QED BY <2>3, <2>4, <2>5, <2>6, <2>7, <2>8, <2>9, <2>10 DEF IInv
<1>. QED BY <1>1, <1>2

\* lazy_init_sensors_list takes the next sensor of a loaded module, assigns it
\* the next global handle and appends its entry (multihal.cpp 627-697).
LEMMA RegisterSensorInv ==
    ASSUME IInv, ~crashed, NEW c \in Clients, RegisterSensor(c)
    PROVE  IInv'
<1>. DEFINE n == next_global_handle
<1>1. PICK i \in building .. Len(SensorList) :
        /\ Listed(i) /\ \A j \in building .. i - 1 : ~Listed(j)
        /\ assign_global_handle(FullHandle(SensorList[i]))
        /\ mutable_sensor_list' = Append(mutable_sensor_list,
             [sensor |-> SensorList[i],
              handle |-> full_to_global'[FullHandle(SensorList[i])]])
        /\ crashed' = (sub_hw_versions = NULL \/ SensorList[i][1] \notin sub_hw_versions)
        /\ building' = i + 1
  BY DEF RegisterSensor, FullHandle
<1>. DEFINE s == SensorList[i]
            full == FullHandle(s)
<1>2. /\ client[c] = "build" /\ global_sensors_list = NULL /\ sub_hw_modules # NULL
      /\ UNCHANGED <<sub_hw_modules, context, sub_hw_devices, next_module, opens,
                     sub_hw_versions, client, global_sensors_list, call>>
  BY DEF IInv, Loaded, OneBuilder, RegisterSensor, contextVars
<1>3. /\ i \in 1 .. Len(SensorList) /\ Len(SensorList) \in Nat
      /\ s \in Sensors /\ s \in Libraries \X Nat
  <2>1. SensorList \in Seq(Libraries \X Nat) /\ building \in Nat \ {0}
    BY RegistryAssumption DEF IInv, Types
  <2>2. i \in 1 .. Len(SensorList) /\ Len(SensorList) \in Nat
    BY <2>1
  <2>. QED BY <2>1, <2>2 DEF Sensors
<1>4. full \notin DOMAIN full_to_global
  <2>1. SUFFICES ASSUME full \in DOMAIN full_to_global
                 PROVE  FALSE
    OBVIOUS
  <2>2. PICK k \in 1 .. Len(mutable_sensor_list) :
          global_to_full[k] = full
    BY <2>1 DEF IInv, MapsInverse, EntriesNumbered
  <2>3. PICK j \in 1 .. Len(SensorList) :
          j < building /\ Listed(j) /\ mutable_sensor_list[k].sensor = SensorList[j]
    BY DEF IInv, EntriesPassed
  <2>4. FullHandle(SensorList[j]) = full
    BY <2>2, <2>3 DEF IInv, EntriesNumbered
  <2>5. SensorList[j] = s
    BY <1>1, <1>2, <1>3, <2>3, <2>4, FullHandleInjective
    DEF IInv, Listed, Sensors
  <2>6. j = i
    BY <1>3, <2>5, RegistryAssumption
  <2>. QED BY <1>1, <2>3, <2>6 DEF IInv, Types
<1>5. /\ DOMAIN full_to_global' = DOMAIN full_to_global \cup {full}
      /\ full_to_global'[full] = n
      /\ \A f \in DOMAIN full_to_global : full_to_global'[f] = full_to_global[f]
      /\ DOMAIN global_to_full' = DOMAIN global_to_full \cup {n}
      /\ global_to_full'[n] = full
      /\ n \notin DOMAIN global_to_full
      /\ \A g \in DOMAIN global_to_full : global_to_full'[g] = global_to_full[g]
      /\ next_global_handle' = n + 1
  <2>1. n \notin DOMAIN global_to_full
    BY DEF IInv, Types, EntriesNumbered
  <2>. QED BY <1>1, <1>4, <2>1 DEF assign_global_handle
<1>6. /\ mutable_sensor_list' \in Seq(Entry)
      /\ Len(mutable_sensor_list') = Len(mutable_sensor_list) + 1
      /\ mutable_sensor_list'[n] = [sensor |-> s, handle |-> n]
      /\ \A k \in 1 .. Len(mutable_sensor_list) :
           mutable_sensor_list'[k] = mutable_sensor_list[k]
      /\ n = Len(mutable_sensor_list) + 1 /\ Len(mutable_sensor_list) \in Nat
  <2>1. [sensor |-> s, handle |-> n] \in Entry /\ mutable_sensor_list \in Seq(Entry)
    BY <1>3 DEF IInv, Types, Entry
  <2>2. mutable_sensor_list' = Append(mutable_sensor_list, [sensor |-> s, handle |-> n])
    BY <1>1, <1>5
  <2>3. n = Len(mutable_sensor_list) + 1
    BY DEF IInv, EntriesNumbered
  <2>. QED BY <2>1, <2>2, <2>3
<1>7. Types'
  <2>1. building' \in Nat \ {0} /\ next_global_handle' \in Nat \ {0}
    BY <1>1, <1>5 DEF IInv, Types
  <2>2. crashed' \in BOOLEAN
    BY <1>1
  <2>. QED BY <1>2, <1>6, <2>1, <2>2 DEF IInv, Types
<1>8. Loaded'
  BY <1>2 DEF Loaded
<1>9. OneBuilder'
  BY <1>2 DEF IInv, OneBuilder
<1>10. EntriesNumbered'
  <2>1. \A k \in 1 .. Len(mutable_sensor_list') :
          k = n \/ k \in 1 .. Len(mutable_sensor_list)
    BY <1>6
  <2>2. next_global_handle' = Len(mutable_sensor_list') + 1
    BY <1>5, <1>6
  <2>3. DOMAIN global_to_full' = 1 .. Len(mutable_sensor_list')
    <3>1. DOMAIN global_to_full = 1 .. Len(mutable_sensor_list)
      BY DEF IInv, EntriesNumbered
    <3>. QED BY <1>5, <1>6, <3>1
  <2>4. ASSUME NEW k \in 1 .. Len(mutable_sensor_list')
        PROVE  /\ mutable_sensor_list'[k].handle = k
               /\ global_to_full'[k] = FullHandle(mutable_sensor_list[k].sensor)'
    <3>1. FullHandle(mutable_sensor_list[k].sensor)'
            = FullHandle(mutable_sensor_list'[k].sensor)
      BY <1>2, ModulesUnchanged DEF FullHandle
    <3>2. CASE k = n
      BY <1>5, <1>6, <3>1, <3>2
    <3>3. CASE k # n
      <4>1. k \in 1 .. Len(mutable_sensor_list)
        BY <2>1, <3>3
      <4>2. /\ mutable_sensor_list[k].handle = k
            /\ global_to_full[k] = FullHandle(mutable_sensor_list[k].sensor)
            /\ k \in DOMAIN global_to_full
        BY <4>1 DEF IInv, EntriesNumbered
      <4>3. /\ mutable_sensor_list'[k] = mutable_sensor_list[k]
            /\ global_to_full'[k] = global_to_full[k]
        BY <1>5, <1>6, <4>1, <4>2
      <4>. QED BY <3>1, <4>2, <4>3
    <3>. QED BY <3>2, <3>3
  <2>. QED BY <2>2, <2>3, <2>4 DEF EntriesNumbered
<1>11. EntriesPassed'
  <2>1. \A k \in 1 .. Len(mutable_sensor_list') :
          \E j \in 1 .. Len(SensorList) :
             j < building' /\ Listed(j)' /\ mutable_sensor_list'[k].sensor = SensorList[j]
    <3>1. SUFFICES ASSUME NEW k \in 1 .. Len(mutable_sensor_list')
                   PROVE  \E j \in 1 .. Len(SensorList) :
                            /\ j < building' /\ Listed(j)
                            /\ mutable_sensor_list'[k].sensor = SensorList[j]
      BY <1>2, ModulesUnchanged
    <3>2. CASE k = n
      BY <1>1, <1>3, <1>6, <3>2
    <3>3. CASE k # n
      <4>1. k \in 1 .. Len(mutable_sensor_list)
        BY <1>6, <3>3
      <4>2. building < building'
        BY <1>1 DEF IInv, Types
      <4>3. PICK j \in 1 .. Len(SensorList) :
              j < building /\ Listed(j) /\ mutable_sensor_list[k].sensor = SensorList[j]
        BY <4>1 DEF IInv, EntriesPassed
      <4>4. j < building'
        BY <1>1, <4>3 DEF IInv, Types
      <4>. QED BY <1>6, <4>1, <4>3, <4>4
    <3>. QED BY <3>2, <3>3
  <2>2. \A j \in 1 .. Len(SensorList) : j < building' /\ Listed(j)' =>
          \E k \in 1 .. Len(mutable_sensor_list') :
             mutable_sensor_list'[k].sensor = SensorList[j]
    <3>1. SUFFICES ASSUME NEW j \in 1 .. Len(SensorList), j < building', Listed(j)
                   PROVE  \E k \in 1 .. Len(mutable_sensor_list') :
                            mutable_sensor_list'[k].sensor = SensorList[j]
      BY <1>2, ModulesUnchanged
    <3>2. CASE j = i
      BY <1>6, <3>2
    <3>3. CASE j # i
      <4>1. j < building
        BY <1>1, <3>1, <3>3 DEF IInv, Types
      <4>2. PICK k \in 1 .. Len(mutable_sensor_list) :
              mutable_sensor_list[k].sensor = SensorList[j]
        BY <3>1, <4>1 DEF IInv, EntriesPassed
      <4>. QED BY <1>6, <4>2
    <3>. QED BY <3>2, <3>3
  <2>. QED BY <2>1, <2>2 DEF EntriesPassed
<1>12. MapsInverse'
  <2>1. /\ IsFiniteSet(DOMAIN full_to_global')
        /\ Cardinality(DOMAIN full_to_global') = Cardinality(DOMAIN full_to_global) + 1
    BY <1>5, FS_AddElement DEF IInv, MapsInverse
  <2>2. Cardinality(DOMAIN full_to_global') = next_global_handle' - 1
    BY <1>5, <2>1 DEF IInv, Types, MapsInverse
  <2>. QED BY <1>4, <1>5, <2>1, <2>2 DEF IInv, MapsInverse
<1>13. Finished' /\ CalledWhenOpen'
  BY <1>2 DEF IInv, Finished, CalledWhenOpen
<1>14. Devices'
  BY <1>2, ModulesUnchanged DEF IInv, Devices
<1>15. Versions'
  BY <1>2 DEF IInv, Versions
<1>16. RoutedToOwner'
  BY <1>2, ModulesUnchanged DEF IInv, RoutedToOwner
<1>17. NoCrashOnceOpen'
  <2>1. SUFFICES ASSUME context = "open", Len(sub_hw_devices) = NumModules
                 PROVE  ~crashed'
    BY <1>2 DEF IInv, NoCrashOnceOpen, Devices, NumModules
  <2>2. sub_hw_versions = ToSet(sub_hw_devices)
    BY <1>2, <2>1 DEF IInv, Versions
  <2>3. sub_hw_versions # NULL
    <3>1. ToSet(sub_hw_devices) \in SUBSET Libraries
      BY DEF IInv, Types, ToSet
    <3>. QED BY <2>2, <3>1, RegistryAssumption
  <2>4. s[1] \in ToSet(sub_hw_devices)
    <3>1. PICK m \in 1 .. Len(sub_hw_modules) : sub_hw_modules[m] = s[1]
      BY <1>1 DEF Listed, Contains
    <3>2. m \in 1 .. Len(sub_hw_devices) /\ sub_hw_devices[m] = s[1]
      BY <1>2, <2>1, <3>1 DEF IInv, Types, Devices, NumModules
    <3>. QED BY <3>2 DEF IInv, Types, ToSet
  <2>. QED BY <1>1, <2>2, <2>3, <2>4
<1>. QED BY <1>7, <1>8, <1>9, <1>10, <1>11, <1>12, <1>13, <1>14, <1>15, <1>16, <1>17
     DEF IInv

\* The finished array becomes global_sensors_list, and the versions are
\* dropped.
LEMMA PublishListInv ==
    ASSUME IInv, ~crashed, NEW c \in Clients, PublishList(c)
    PROVE  IInv'
<1>1. /\ client[c] = "build" /\ sub_hw_modules # NULL /\ global_sensors_list = NULL
      /\ \A i \in building .. Len(SensorList) : ~Listed(i)
      /\ global_sensors_list' = mutable_sensor_list
      /\ client' = [client EXCEPT ![c] = "listed"] /\ sub_hw_versions' = NULL
      /\ UNCHANGED <<sub_hw_modules, context, sub_hw_devices, next_module, opens, building,
                     mutable_sensor_list, full_to_global, global_to_full,
                     next_global_handle, call, crashed>>
  BY DEF IInv, Loaded, OneBuilder, PublishList, contextVars, handleMaps
<1>2. mutable_sensor_list # NULL
  BY RegistryAssumption DEF IInv, Types, Entry
<1>3. Types'
  <2>1. client' \in [Clients -> {"idle", "build", "listed"}]
    BY <1>1 DEF IInv, Types
  <2>2. crashed' \in BOOLEAN
    BY <1>1 DEF IInv, Types
  <2>3. global_sensors_list' \in Seq(Entry) \cup {NULL}
    BY <1>1 DEF IInv, Types
  <2>4. sub_hw_versions' \in (SUBSET Libraries) \cup {NULL}
    BY <1>1
  <2>5. UNCHANGED <<sub_hw_modules, context, sub_hw_devices, next_module, building,
                    mutable_sensor_list, next_global_handle>>
    BY <1>1
  <2>. QED BY <2>1, <2>2, <2>3, <2>4, <2>5 DEF IInv, Types
<1>4. Loaded'
  BY <1>1 DEF Loaded
<1>5. OneBuilder'
  BY <1>1, <1>2 DEF IInv, Types, OneBuilder
<1>6. EntriesNumbered'
  BY <1>1, ModulesUnchanged DEF IInv, EntriesNumbered
<1>7. EntriesPassed'
  BY <1>1, ModulesUnchanged DEF IInv, EntriesPassed
<1>8. MapsInverse'
  BY <1>1 DEF IInv, MapsInverse
<1>9. Finished'
  BY <1>1, ModulesUnchanged DEF Finished
<1>10. Devices'
  BY <1>1, ModulesUnchanged DEF IInv, Devices
<1>11. Versions' /\ CalledWhenOpen'
  BY <1>1, <1>2 DEF IInv, Versions, CalledWhenOpen
<1>12. RoutedToOwner'
  BY <1>1, ModulesUnchanged DEF IInv, RoutedToOwner
<1>13. NoCrashOnceOpen'
  BY <1>1 DEF NoCrashOnceOpen
<1>. QED BY <1>3, <1>4, <1>5, <1>6, <1>7, <1>8, <1>9, <1>10, <1>11, <1>12, <1>13 DEF IInv

\* Nothing is loaded, open or registered.
LEMMA InitInv ==
    ASSUME Init
    PROVE  IInv
<1>1. Types
  <2>1. crashed \in BOOLEAN
    BY DEF Init
  <2>2. client \in [Clients -> {"idle", "build", "listed"}]
    BY DEF Init
  <2>3. sub_hw_devices \in Seq(Libraries) /\ mutable_sensor_list \in Seq(Entry)
    BY DEF Init
  <2>4. /\ sub_hw_modules = NULL /\ context = "none" /\ next_module = 0 /\ building = 1
        /\ sub_hw_versions = NULL /\ next_global_handle = 1 /\ global_sensors_list = NULL
    BY DEF Init
  <2>. QED BY <2>1, <2>2, <2>3, <2>4 DEF Types
<1>2. Loaded /\ OneBuilder /\ EntriesNumbered /\ EntriesPassed
  BY DEF Init, Loaded, OneBuilder, EntriesNumbered, EntriesPassed
<1>3. MapsInverse
  BY FS_EmptySet DEF Init, MapsInverse
<1>4. Finished /\ Devices /\ Versions /\ CalledWhenOpen
  BY DEF Init, Finished, Devices, Versions, CalledWhenOpen
<1>5. RoutedToOwner /\ NoCrashOnceOpen
  BY DEF Init, RoutedToOwner, NoCrashOnceOpen
<1>. QED BY <1>1, <1>2, <1>3, <1>4, <1>5 DEF IInv

\* Every step of open, close, the list clients and the framework's calls
\* preserves the invariant.
LEMMA NextInv ==
    ASSUME IInv, [Next]_vars
    PROVE  IInv'
<1>1. CASE UNCHANGED vars
  BY <1>1, StutterInv
<1>2. CASE ~crashed /\ (OpenBegin \/ OpenSub \/ OpenSubFails \/ OpenEnd \/ Close)
  BY <1>2, OpenBeginInv, OpenSubInv, OpenSubFailsInv, OpenEndInv, CloseInv
<1>3. ASSUME ~crashed, NEW c \in Clients,
             GetSensorsList(c) \/ RegisterSensor(c) \/ PublishList(c) \/ UseList(c)
      PROVE  IInv'
  BY <1>3, GetSensorsListInv, RegisterSensorInv, PublishListInv, UseListInv
<1>4. CASE FrameworkCall
  BY <1>4, FrameworkCallInv
<1>. QED BY <1>1, <1>2, <1>3, <1>4 DEF Next

\* IInv holds in every state, for any configuration file, any sensors with
\* overlapping local handles, any libraries missing, any clients and any
\* failures to open.
THEOREM InvariantHolds == Spec => []IInv
<1>1. Init => IInv
  BY InitInv
<1>2. IInv /\ [Next]_vars => IInv'
  BY NextInv
<1>. QED BY <1>1, <1>2, PTL DEF Spec

\* The invariant, with the list published, is HandlesConsistent.
LEMMA InvariantConsistent ==
    ASSUME IInv
    PROVE  HandlesConsistent
<1>1. \A g \in DOMAIN global_to_full :
        g \in 1 .. next_global_handle - 1 /\ global_to_full[g] \in DOMAIN full_to_global
  BY DEF IInv, Types, EntriesNumbered, MapsInverse
<1>2. ASSUME global_sensors_list # NULL
      PROVE  /\ { entry.sensor : entry \in ToSet(global_sensors_list) }
                  = { s \in Sensors : Contains(sub_hw_modules, s[1]) }
             /\ { entry.handle : entry \in ToSet(global_sensors_list) }
                  = DOMAIN global_to_full
  <2>1. /\ global_sensors_list = mutable_sensor_list
        /\ DOMAIN mutable_sensor_list = 1 .. Len(mutable_sensor_list)
    BY <1>2 DEF IInv, Types, Finished
  <2>2. \A k \in 1 .. Len(mutable_sensor_list) : mutable_sensor_list[k].handle = k
    BY DEF IInv, EntriesNumbered
  <2>3. { entry.handle : entry \in ToSet(global_sensors_list) } = DOMAIN global_to_full
    BY <2>1 DEF IInv, EntriesNumbered, ToSet
  <2>4. ASSUME NEW k \in 1 .. Len(mutable_sensor_list)
        PROVE  /\ mutable_sensor_list[k].sensor \in Sensors
               /\ Contains(sub_hw_modules, mutable_sensor_list[k].sensor[1])
    BY DEF IInv, EntriesPassed, Listed, Sensors
  <2>5. ASSUME NEW s \in Sensors, Contains(sub_hw_modules, s[1])
        PROVE  \E k \in 1 .. Len(mutable_sensor_list) : mutable_sensor_list[k].sensor = s
    <3>1. PICK i \in 1 .. Len(SensorList) : SensorList[i] = s
      BY DEF Sensors
    <3>2. Listed(i) /\ i < building
      <4>1. Len(SensorList) \in Nat /\ building \in Nat
        BY DEF IInv, Types
      <4>2. i \notin building .. Len(SensorList)
        BY <1>2, <2>5, <3>1 DEF IInv, Finished, Listed
      <4>. QED BY <2>5, <3>1, <4>1, <4>2 DEF Listed
    <3>. QED BY <3>1, <3>2 DEF IInv, EntriesPassed
  <2>6. { entry.sensor : entry \in ToSet(global_sensors_list) }
          = { s \in Sensors : Contains(sub_hw_modules, s[1]) }
    BY <2>1, <2>4, <2>5 DEF ToSet
  <2>. QED BY <2>3, <2>6
<1>. QED BY <1>1, <1>2 DEF IInv, MapsInverse, HandlesConsistent

\* The published list has each sensor of each loaded module exactly once, and
\* its handles are the keys of the maps that translate there and back
\* (assign_global_handle, get_local_handle, get_module_index).
THEOREM HandlesAgree == Spec => []HandlesConsistent
BY InvariantHolds, InvariantConsistent, PTL

\* A call with a published handle reaches the device of the sensor's module
\* with the handle that this module gave it, as long as every sub-HAL opened
\* (multihal.cpp 379-463).
THEOREM CallsReachTheirOwner == Spec => []RoutedToOwner
<1>1. IInv => RoutedToOwner
  BY DEF IInv
<1>. QED BY <1>1, InvariantHolds, PTL

\* With the device open and every sub-HAL opened, neither the list nor a call
\* follows a null pointer or misses a map (multihal.cpp 683, 768).
THEOREM NoCrashAfterOpen == Spec => []NoCrashOnceOpen
<1>1. IInv => NoCrashOnceOpen
  BY DEF IInv
<1>. QED BY <1>1, InvariantHolds, PTL

\* One step changes the meaning of no assigned handle, nor a published list.
LEMMA HandlesStableStep ==
    ASSUME IInv, [Next]_vars
    PROVE  /\ \A handle \in DOMAIN global_to_full : Meaning(handle)' = Meaning(handle)
           /\ global_sensors_list # NULL => UNCHANGED global_sensors_list
<1>1. \/ DOMAIN global_to_full = {} /\ global_sensors_list = NULL
      \/ sub_hw_modules' = sub_hw_modules
  <2>1. CASE sub_hw_modules = NULL
    BY <2>1, UnregisteredYet
  <2>2. CASE sub_hw_modules # NULL
    BY <2>2
    DEF Next, vars, OpenBegin, OpenSub, OpenSubFails, OpenEnd, Close,
        GetSensorsList, RegisterSensor, PublishList, UseList, FrameworkCall,
        lazy_init_modules, MustLoad
  <2>. QED BY <2>1, <2>2
<1>2. global_sensors_list # NULL => UNCHANGED global_sensors_list
  BY DEF IInv, OneBuilder, Next, vars, OpenBegin, OpenSub, OpenSubFails,
         OpenEnd, Close, GetSensorsList, RegisterSensor, PublishList, UseList,
         FrameworkCall, registryVars
<1>3. \/ global_to_full' = global_to_full
      \/ \E full : assign_global_handle(full)
  BY DEF Next, vars, OpenBegin, OpenSub, OpenSubFails, OpenEnd, Close,
         GetSensorsList, RegisterSensor, PublishList, UseList, FrameworkCall,
         registryVars, handleMaps
<1>4. next_global_handle \notin DOMAIN global_to_full
  BY DEF IInv, Types, EntriesNumbered
<1>5. \A g \in DOMAIN global_to_full :
        g \in DOMAIN global_to_full' /\ global_to_full'[g] = global_to_full[g]
  BY <1>3, <1>4 DEF assign_global_handle
<1>. QED BY <1>1, <1>2, <1>5, ModulesUnchanged
     DEF Meaning, get_module_index, get_local_handle, Known, Module

\* A global handle means the same sensor for ever, across close and open again;
\* the published list never changes.
THEOREM HandlesKeepTheirMeaning == Spec => HandlesStable
BY InvariantHolds, HandlesStableStep, PTL DEF Spec, HandlesStable

=============================================================================
