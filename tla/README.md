# Formal models of the ASUS T00F device tree

TLA+ models of the programs in this repository, an Android device tree for the
Intel Clover Trail+ ZenFones. The repository has no tests. What it promises is
in the code, its comments and `Porting.md`; the models are translated from the
code.

- [Inventory](#inventory): the system's parts
- [Modules](#modules): which module models which part, and how
- [Runs](#runs): what is model-checked, within which bounds
- [Fairness](#fairness)
- [Proofs](#proofs): what holds for every value of the constants
- [Where the code disagrees with its comments](#where-the-code-disagrees-with-its-comments)
- [Not modelled](#not-modelled)
- [Plan](#plan)

## Inventory

| Part | State it keeps | Operations | What makes it hard |
|---|---|---|---|
| Sensors multi-HAL, event path (`sensors/SensorEventQueue.cpp`, `multihal.cpp` 142-179, 315-377) | one ring buffer per sub-HAL, `nextReadIndex`, `waiting_for_data` | `writerTask` threads, `poll()` | one mutex, two kinds of condition variable, a buffer filled outside the lock, wrap-around, fairness among queues |
| Sensors multi-HAL, registry (`multihal.cpp` 53-133, 220-313, 379-776) | module, version and sensor lists, two handle maps, devices of the open context | open, close, get_sensors_list, activate, setDelay, batch, flush, inject | lazy initialisation by concurrent clients, order of calls, sub-HALs that fail |
| Power HAL (`power/power.cpp`) | profile, display state; the kernel's CPU limits | setInteractive, profile hint | the kernel refuses writes and the HAL does not look; restarts |
| Lights HAL (`liblights/lights.c`) | the last request of three lights, the driver's files | one setter per light | lights share an LED; writes fail unnoticed; every write is visible; restarts |
| Camera wrapper (`camera/CameraWrapper.cpp`) | the vendor's module, the array of settings copies shared by all open cameras, the vendor's devices | number and info of cameras, open, close, set/get/put_parameters, forwarders | threads of two cameras and of the service, only open and close hold the lock; failures half-way |
| Recovery updater (`recovery/`) | two boot partitions, their token area and checksum | flash_ifwi | power loss between steps, second attempts, reads nobody checks |
| Boot image tools (`mkbootimg/`, `mkbootimg.mk`) | files | the command line's file, pack, unpack | padding, old command lines, full disks, short images |
| GraphicBuffer shim (`libshims/ui`) | a handle and who owns it, the wrapped buffer, the allocator's records | constructors, reallocate, lock and lockAsync, flatten, unflatten | ownership on error paths, addresses given out again by another thread, fence descriptors |
| SensorManager shim (`libshims/gui`) | a cached connection and sensor list | constructor, list, default sensor, event queue, death notice | a retry loop under the lock, a constructor without it |
| healthd hooks (`libhealthd`) | charger-connected flag | battery update | none to speak of |
| LineageOS hardware classes (`cmhw`) | kernel nodes | get and set | unsynchronised read-modify-write of the gesture mask |
| init extension, boot scripts, keystore and OSIP adapters, symbol shims | none or properties set once | straight-line | - |

Interactions. SensorService calls the multi-HAL through one device, `poll()`
from its own thread; the multi-HAL calls the sub-HALs listed in
`configs/sensors`. The power, lights and camera HALs are each called by one
framework service, from several binder threads, and talk to the kernel or the
vendor's camera module. The parts do not call one another, so each is a model
of its own; only the sensors are composed of several modules.

What makes each part correct: the sensors lose, repeat, reorder and corrupt no event
of a sensor in the list, no thread sleeps for ever beside work, and a handle always
means the same sensor; the power HAL's limits follow its last request whatever was
refused before; the LED shows the most important light; a settings copy is released
once and read only while it is live; an update of the firmware always leaves one
boot partition whole; a graphic buffer's handle is released once, by its owner, and
a fence waited for before pixels are touched; an image that was packed has a true
header and unpacks to what went in. For the parts without a model see [Not
modelled](#not-modelled).

## Modules

`SensorEventQueue` is the ring buffer as operators on `[start, size, data]`
(`mStart`, `mSize`, `mData`), one operator per method. `Contents(q)`, the
records in the order `peek` and `dequeue` hand them out, is what a queue means.

`MultiHalPoll` is the event path. A writer (`writer[h]`) is about to take the
lock, waiting for space, inside the sub-HAL's poll, or about to mark. The reader
is idle, scanning, waiting, or woken and about to take the lock again. A
writer's critical section is one step; the sub-HAL's stores are one step each
and interleave with everything; the reader's scan is one step per turn of its
inner loop and is the only thing that keeps the mutex across steps. An event is
an id (its timestamp and payload), a type and the two handle fields that
`copy_event_remap_handle` tells apart. Wake-ups with no broadcast are allowed.
A sub-HAL may report fewer records than it stored only by failing.

`SensorChannels` is what that path promises: a FIFO per sub-HAL, from which
events are taken in order, each delivered with its handle translated or, if its
sensor is in no list, dropped ("do not pass corrupted event upstream", 355). The
sensor of a meta-data event is the one it is about. The code does not drop those
events, so `MultiHalPoll` implements `SensorChannels` (with
`pending <- Contents(queue)`) only where each sensor that meta-data is about is in
the list: `MetaDataListed`.

`MultiHalFairness` adds to `MultiHalPoll` a count of how often an event was
passed over.

`MultiHalRegistry` is the rest of `multihal.cpp`. `lazy_init_modules` runs under a
mutex of its own, that nothing else takes, and is part of the step of whoever calls
it; which libraries load is a choice made anew each time, so that an index keeps its
meaning only because the loading is not repeated. `open_sensors` is one step per
sub-HAL; a client of `get_sensors_list` takes `init_sensors_mutex`, enters one
sensor per step in `mutable_sensor_list` and publishes that. The framework's calls
are one step each, and `call` holds what the sub-HAL received beside the sensor that
was meant. A null dereference, or the exception of `std::unordered_map::at`, sets
`crashed` and ends the run.

`PowerHal` has one action per entry point of the HAL; `apply_power_profile`
leaves the list of sysfs writes in `pending`, and `SysfsWrite` performs one. The
lock is free when the list is empty. The kernel's rule (a minimum above the
current maximum, or a maximum below the current minimum, is refused) is
external. `Restart` resets the HAL's variables and keeps the kernel's. `asked` is
what the framework asked for last since then, by its own account; `previous` the
limits when the last policy began. Frequencies are in MHz; the source has them in
kHz.

`Lights` has the same shape: a setter that holds `g_lock` leaves its writes in
`pending`, each of which is accepted or fails. The driver is external and keeps
the last value of each file. Return values are left out: the LED setters
return 0 whatever happens, the backlight's returns the error of its one write.

`CameraWrapper` follows the vendor's module, the array `fixed_set_params` with
the copies it points to, and the vendor's devices. `check_vendor_module` is a step
that looks and one that loads; a load that fails may set the pointer to null, as
`hw_get_module_by_class` (external) does with a library it cannot use. It runs
under the lock in `camera_device_open` and without it on the `enquirer`'s thread.
`camera_device_open` is six steps (check, load, allocate, clear, the vendor's
device, the operations) under the lock; `set_parameters` is four (release, copy,
read the pointer again, the vendor's call) without it. The camera service opens
a camera once and uses it from one thread. The vendor has one device for each
camera. Misuse of a pointer (releasing one that is not live, following a null or
uncleared one, reading a released copy) raises `misuse`; the model then goes on
as if it had done nothing. A null module ends the process (`crashed`), and it is
started again. `misuse`, `shared` and `lost` are history since a camera was last
opened with no other one open.

`RecoveryUpdater` is `write_umip_emmc` and the checks before it, one step per
call that can fail or that stores to the mapping. A partition is a firmware (block
by block the file it is of), a token area and `xor`, the contents its checksums
were computed from; it is complete when those are its own. `cache` is what the
mapping shows and `disk` what the eMMC keeps: the kernel (external) copies a block
or a field at a time from the one to the other whenever it likes, the last close
copies the rest, and a power loss leaves only `disk`. A call reads `got` blocks of
its file, any number up to its size, since the result of `fread` is ignored (338):
the rest of its buffer is `"garbage"`, which may pass the check of the version or
not. A file that ends before the partition does overwrites only so much of it
(199-203), one that is longer is cut off. The version check is modelled on the
bytes the code uses: null majors in a header are skipped, and a text of versions
that does not parse counts as zeros. `sound`, `before` and `lockFailed` are history
variables for the properties; `sound` says that the last call found both partitions
intact and, if it began an update, read a whole partition from its file.

`TwoSlotUpdate` is what the updater promises: one partition at a time has a turn
and may be torn in any way between what it held and what is `Due`, the other is
left alone; the turn passes on, and the call succeeds, only when the partition is
`Replaced`, by what was read of the file and the tokens it had before; a call that
gives up leaves each partition as it was or replaced. It does not promise the
file: garbage is due where the file was not read, and what was there behind its
end. `RecoveryUpdater` implements it with `slot <- disk`, `turn <- Turn` (the
partition under work, none while the updater is idle) and `kept <- before`: what
stores only to the mapping is a stutter, a write-back by the kernel or the last
close a `Tear`.

`SensorManagerShim` is the cached connection and list under `mLock`. Its callers
are threads; a call is a step for the lock, one per turn of the loop "try for
one second", one each for linking, fetching, making the array and using.
`getDefaultSensor` is `getSensorList` with a search. The first thread to want the
object is its constructor, which goes through the same steps without the lock
(47); `Singleton` (external) lets nobody else have it before. The death notice
takes the lock on a thread of its own, and so may clear `mSensorServer` between
the constructor's `linkToDeath` and its call: the process then ends (`Crash`) and
another begins. External are the service, which may die at any moment and start
again, the service manager, which hears of a death later, and binder, which gives
a notice for a linked instance that is dead already, too. A list handed out is
remembered in `held` with whether it is still allocated.

`GraphicBuffers` is a set of `GraphicBuffer` objects, each used by one thread, over
the allocator and the mapper they share. `buffer` has an object's handle,
`mOwner`, `mWrappedBuffer` and size (width, height, format and usage as one value);
`heap` says who is to release each handle, and an address that is free may be
handed out again at once. Two places are more than one step because other threads
come between: the allocator calls the device outside `sLock` and keeps its records
under it, and the mapper waits for a fence. A descriptor (`fence`) is with the
call, with the module, closed, or left as it came; whatever is done with one that
the call no longer has makes it `misused`. A wait ends when the fence signalled
(`signalled`) or `sync_wait` failed (`cutShort`); `guard` is the fence that came
with a buffer's present lock. `unflatten` is two, the release of the
old handle and the filling of the new. `gralloc` is what the module offers: API
0.3, `lockAsync_ycbcr`, `lock_ycbcr`. External are the module, which may refuse
any call, `native_handle_create` and the fences.

`HandleOwnership` is what the buffers promise: a handle is acquired by one buffer,
and released once by that buffer, or lost; it never passes to another.
`GraphicBuffers` implements it with `owned <- Owned` (the pairs of a buffer whose
`mOwner` is not `ownNone` and its handle) and `live <- Live` (the handles that the
device or `native_handle_create` made and nobody freed). Each way to come by a
handle, of the constructor, of `initSize` and of `unflatten`, is an `Acquire`; the
three error paths are a `Forget` or a `Waste`.

`BootImage` is a build (the command line's file, then `pack`) followed by an
`unpack` of the image or of what is left of it. A file is a sequence of cells, and a
number takes one cell, so that a header is a dozen cells and not 13 KiB. The base
image, kernel, ramdisk, command line, the packaging path and the size of the disk
are chosen at the start. One turn of a copy loop is one step; `missing` is the
loop's counter. What `paddings` holds before it is assigned is a choice
(`Garbage`), and so is whether the disk that `unpack` writes to fills up: the
results of its `fwrite`s are not looked at, and `lost` says that some of it did
not get there. Files that cannot be opened, the command line's included, are
inputs (`unopened`): `pack` then reads through a null pointer (`PackCrashes`,
`ReadCrashes`) or refuses.

In every module the operators introduced by a comment "Mutant" are wrong
variants of the definition after them. They are not part of any behaviour; each
property has at least one that breaks it.

`map` in `PROJECT.json` gives the lines behind each definition.

## Runs

| Run | Instance | What it shows |
|---|---|---|
| `poll` | 3 sub-HALs, 2 slots; 3 readings, 1 meta-data event about a listed sensor, 1 reading of an unlisted one; buffers of 1 and 2 | `NoLostWakeup`, `ImplementsChannels` under every interleaving; `BoundedOvertaking`: an event waits for at most one event of each other queue, over calls of any length; `WriterRegionSafe`: the region is clear at each start, size and wrap; `EveryEventTaken`, `BlockedWriterResumes` under fairness |
| `registry` | 2 sub-HALs (one of API 1.0) with 3 sensors and overlapping local handles, any of their libraries missing, 2 clients, 3 opens, all faults | `HandlesConsistent`, `HandlesStable`, `NoCrashOnceOpen`, `RoutedToOwner` |
| `open_fails` | the same, a sub-HAL may fail | violation of `DevicesParallelToModules` |
| `power` | 2 CPUs, the Z2580's frequencies, all hints, unreadable table, restarts | `LimitsFollowRequests`: both limits of every CPU are those wanted, but for the maximum just where the kernel refused the cap; `DisplayOnRestores` |
| `lights` | 7 requests for 3 lights, failing writes, restarts | `LedShowsFirstLitLight`, `OnlyFirstLitLightTurnsOn`, `NeverSteadyAndBlinking` |
| `camera` | 2 cameras, a thread that asks about them, 4 copies, failing loads and opens | `CopiesUsedWhileLive`, `CopiesReleased`: misuse and loss of copies only where a camera was opened beside an open one, and no more after all were closed; `ModuleThere`: the process ends on a null module only after two threads loaded it at once |
| `recovery` | partitions of 2 blocks, 5 files of 1 to 3, any of their blocks not read, 2 calls, 2 power losses, versions that parse or not | `OnePartitionIntact`, `ReadOnlyAfterwards`; `ImplementsTwoSlotUpdate`: the partitions are replaced one after the other, and success means both have what was read of the file and their own tokens |
| `sensor_manager` | 2 threads, 2 instances of the service | `StaleIsNoticed`, `ConnectionStays`, `HeldWhileServiceLives`; `CallsReturn` and `StaleIsDropped` under fairness |
| `event_queue` | the same | violation of `EventQueueReturns` |
| `graphics` | 2 buffers, 2 handles, 2 sizes, 1 fence, 3 kinds of gralloc module | `OwnedOnce`, `NothingElseLost`, `WrapperHandleLive`, `RecordsMatch`, `FencesRespected`: a descriptor is not used once it was closed or given away, and pixels are locked only with the module waiting, or after the fence signalled or its wait failed; `ImplementsOwnership`: no handle passes from one buffer to another |
| `boot_image` | headers of 12 cells, sectors of 4, a buffer of 2, 3 bases, 4 kernels, 3 ramdisks, 4 lines, 3 disks, 4 cuts | `HeaderTrue`, `UnpackInverts`; `UnpackEnds` under fairness |
| `packaging_paths` | the same | violation of `PathsIdentical` |

The event path, the camera wrapper, the SensorManager shim and the graphic buffers
also have a type invariant, checked in the same runs; in the other modules the
comments on the variables give the types.

Why the bounds are enough. The ring's arithmetic depends on where `start` and
`size` stand to the end of the array: two slots and three events reach every
such combination, a region cut by the end, one cut by the readable records, and
a queue that is full at either start; `RegionSafety` is proved for any capacity.
Two writers are the fewest that compete for the mutex, and three queues the fewest
in which one can be passed over by two others. Events are bounded by
`MaxEvents` (writers then stay inside the sub-HAL's poll), opens by `MaxOpens`,
copies by `MaxCopies`. Two calls and two power losses reach an update after one
that was cut off, and its own cut (`MaxAttempts`, `MaxLosses`); two blocks are one
before the token area and one behind it, so that a file may end at either side,
and a read too. Two instances of the service are one that dies and one to connect
to anew (`MaxStarts`). Two buffers are an owner and a wrapper, or two that compete
for an address; two handles are one to free while the other is allocated; one
fence is one that meets each way a lock can take, and that fences of two buffers do
not mix is in the proof. The boot image's lengths lie on both sides of the buffer,
the sector, the command line's field and the disk. The two cameras are symmetric,
and so are the buffers, handles and sizes; the runs use that. The safety of every
part but the boot image is also proved, without these bounds. The power HAL writes
each CPU independently, in a fixed order, so that two stand for four. A light state
matters only by whether it is lit, which colours it has and how it flashes; the
seven requests have one of each, and a dark one that flashes.

Deadlock is checked everywhere except in the registry runs, `recovery` and the runs
of the boot image: in the first a crash ends the run, as it ends the process, and
the bound on opens can leave nothing to do; in the second the calls are bounded;
the tools end.

## Fairness

`MultiHalPoll!Spec`. Weak fairness of the reader's thread (`ReaderRuns`): it is
scheduled, no step of it is disabled by others once it holds the mutex, and
SensorService's loop calls `poll()` again after each return. Strong fairness of a
writer's steps that take the mutex (`TakesMutex`): the writer is kept out again and
again while `poll()` scans, but `poll()` gives the mutex up whenever it returns or
waits, and the kernel's mutex serves a thread that keeps trying. No fairness of the
sub-HAL's poll, which may block for ever, and none of wake-ups without a broadcast,
which nothing may rely on.

`SensorManagerShim!Spec`. Weak fairness of a thread that holds `mLock`, or is in the
constructor: it runs, and its sleeps end. Strong fairness of taking `mLock`, for
callers and death notices: the mutex serves a thread that keeps trying. Nothing is
asked of the service, which may stay dead, or of the service manager. The
counterexample of `event_queue` keeps to this fairness.

`BootImage!Spec`. Weak fairness of `unpack`: the tool is a process of its own that
runs until it ends. A loop that reads nothing stays where it is, which no
fairness changes.

The other specifications state none.

## Proofs

Eight modules prove, for every value of the constants, each safety and action
property that the runs check outside of the boot image tools. A `*Proofs` module
extends the module it is about and has one layout: the parts of the inductive
invariant, lemmas about operators, one lemma per action, `NextInv`, and then
theorems of the form `Spec => []Property`. The runs gave the invariants first:
each `IInv` was model-checked on the run's instance before its proof.

Hardly a property is inductive alone. What each module adds to them, and why:

**`MultiHalPollProofs`** (any number of sub-HALs, any capacity, kinds of events,
buffer sizes, numbers of events): `TypeCorrect`, `RegionSafety`, `WakeupSafety`;
`Refinement`, `SafeSpec` implements `SensorChannels!SafeSpec`; `RoundRobin`, the
`BoundedOvertaking` of `MultiHalFairness`.

- `ScannedEmpty`: while `poll()` scans, the last `empties` queues it looked at are
  empty. It is what makes waiting safe: a scan that found nothing went round all
  queues with the mutex held, so all of them are still empty.
- `RegionHolds`: readable records and a region handed out fit in the array
  together, and the records stored are the sub-HAL's next events. It is what
  lets `markAsWritten` keep the size within the capacity and append exactly those
  events to the FIFO.
- `FairnessInv`, on top: a queue was passed over by fewer events than the scan has
  looked at queues since it looked at this one. Its bound is one less than the
  number of queues.

`Refinement` is about sub-HALs that send meta-data about listed sensors only: its
statement has `MetaDataListed` as a hypothesis, and is false without it.

The layout follows the code: arithmetic of the ring (`WrapOnce` to `MarkFacts`),
one step of the invariant per action of a writer and of the reader, then what
`Store`, `MarkAsWritten` and `Dequeue` do to `Contents`, and the refinement: a
`MarkWritten` is a `Publish`, a `ScanEvent` a `Deliver` or a `Drop`, everything
else a stutter. Assumed: the capacity, the number of sub-HALs and the buffer sizes
are positive, and so are global handles (`next_global_handle` starts at 1). No
restriction on a sub-HAL but that it writes within the region it was given.

**`MultiHalRegistryProofs`** (any configuration file, sensors, overlaps of local
handles, libraries missing, clients, opens and failures): `HandlesAgree`,
`HandlesKeepTheirMeaning`, `CallsReachTheirOwner`, `NoCrashAfterOpen`.

- `OneBuilder`, `Loaded`: who holds `init_sensors_mutex` finds an empty registry or
  a published list, and the modules loaded.
- `EntriesNumbered`, `EntriesPassed`: entry k of the array has handle k, which
  stands for its sensor, and the entries are those of the sensors passed so far.
- `MapsInverse`: `full_to_global` and `global_to_full` are inverse, and their size
  is `next_global_handle - 1`. It is what shows that no full handle is assigned a
  second number, without which the list and the maps would disagree.
- `Devices`, `Versions`: unless a sub-HAL failed, the devices are the modules up to
  `next_module`, and until the list is published the map of versions has exactly
  the open devices. So `at` in `open_sensors` finds them (683).

`HandlesStable` then needs one more observation: the modules are loaded once, so a
module index keeps its meaning. Assumed: the paths in the configuration name
different libraries, a module lists a sensor once, and a minimum delay is at most
the maximum.

**`PowerHalProofs`** (any number of CPUs, any frequency table that begins at the lowest
limit of the source and reaches the highest, which is true of the Z2580's and
Z2560's): `LimitsApplied`, `LimitsRestored`. The properties are about the end of a
call; the invariant says how far it came.

- `PendingIsRest`: what is pending is the rest of the writes for the target. With it
  `WrittenOn` and `WrittenOff` can say which CPUs have which limit already.
- `LimitsInOrder`, `TargetOfState`: no minimum in the kernel is above the highest
  maximum, so a profile that does not save power gets its maximum; and when the
  display was off before, the minimum is the lowest there is, so nothing can be
  refused. `WrittenOn` has the one write that may be refused, a saving profile's
  maximum: it is exactly where the minimum before (`previous`) is above it.

The sum of the writes is a concatenation of two functions of the CPU
(`SysfsWritesFacts`), and the extremes of the table come from the well-founded
order of the naturals (`NonemptyHasMax`).

**`LightsProofs`** (any requests): `OneWayAtOnce`, `FirstLitLightShown`,
`NothingElseTurnsOn`. A call is four or six writes; `BlinkCall` and `SteadyCall` list
the stages of each, with what is left to write and what the files then have. A
stage knows what the earlier writes did only as long as none failed (`synced`).
The backlight is in `LedDone`, as its write touches no LED.

**`CameraWrapperProofs`** (any cameras and copies): `TypeCorrect`, `SafeUnlessShared`,
`AllReleased`, `ModuleStays`.

- `LockOfOpener`, `Alone`: the lock is with the one camera that is being opened, and
  unless a camera was opened beside an open one the array is one camera's.
- `ArrayInUse`: the entries of that camera's array are null or live at each step of
  its calls, and of the others null. It is what `set_parameters` needs for the
  pointer it reads again.
- `Accounted`: each live copy is in the array or with a caller, or was lost by a
  close that found no module.
- `OneLoader`: while no two threads loaded at once, a module that was found stays.

**`RecoveryUpdaterProofs`** (any files, calls, power losses, and order of write-back):
`OneAlwaysIntact`, `SuccessComplete`, `ReadOnlyWhenIdle`; `OneAtATime`, `Spec`
implements `TwoSlotUpdate!Spec`.

- `OthersWrittenBack`: only the partition under work differs from its mapping, so a
  power loss can damage no other.
- `WorkInMapping`, `Progress`: what the mapping has at each step, and which
  partitions hold their `Goal` already, which is what was read of the file over
  what they held before. Together they make `close` of the first partition
  complete before the second is touched.
- `AtMostOneDamaged`: of two intact partitions at most the one under work is damaged.
- `FailureLeavesNoneTorn`, for `OneAtATime` only: on the error path each partition is
  as it was or holds its goal, because whatever can fail comes before the first
  store to a partition or after its last.

`OneAtATime` then goes action by action: `OthersWrittenBack` makes a write-back a
`Tear` of the partition whose turn it is, and `Progress` makes `Lock` an `Advance` or
the `Finish`. `SuccessComplete` (`SuccessMeansBoth`) says the same of the end alone and
has no run of its own. None of them says that a success means the file: a short
read and a short file are not errors to the code.

**`SensorManagerShimProofs`** (any clients and instances of the service):
`TypeCorrect`, `StaleConnectionNoticed`, `LockKeepsConnection`, `ListsStayValid`.
`ConnectionBuilt` says how far the connection is made by where the thread is that
holds `mLock`, or is in the constructor, of which nothing may be left after
`linkToDeath`; `OneNotice` and `HeldIsCached` that a list in use is the cached one or
its service is dead; `NothingBefore` that nobody has one while the object is being
constructed, so that what the constructor does without the lock harms nobody else.

**`GraphicBuffersProofs`** (any buffers, handles, fences and gralloc modules):
`TypeCorrect`, `ReleasedOnce`, `OnlyErrorPathsLeak`, `WrappersKeepTheirHandle`,
`RecordsFollow`, `LockedAfterFence`; `OwnershipIsLinear`, `Spec` implements
`HandleOwnership!Spec`.

- `Operands`, `HandleAt`: what a call carries from one step to the next, and that a
  call that is to fill the handle has none.
- `RecycledMarked`: an address that was given out while an earlier free of it has
  yet to remove its record is marked, so that `RecordsMatch` can except it.
- `WaitsForHeld`: a call that waits has a descriptor of its own, the one of its lock.
  With it the `close` after the wait is the descriptor's first, and the fence whose
  wait ended is the one the pixels are guarded by.
- `GoingUnwrapped`, `NoCircle`, `SharesHandle`: a buffer that is going has no
  wrappers, wrapping is not circular, and a wrapper has the handle of what it wraps
  until that drops it. With them `WrapperHandleLive` survives the release of any
  buffer's handle: all its wrappers, theirs and so on are marked at that step.

`OwnershipIsLinear` rests on four lemmas, one for each effect a step can have on the
pairs of owner and handle (`OwnershipKept`, `OwnershipAcquired`, `OwnershipGivenUp`,
`OwnershipWasted`), and one lemma per action that shows which it has. `HandleAt`
gives what the code never tests: a buffer about to be filled has no handle that
would be overwritten. `OwnedOnce` gives that a release takes the handle from nobody
else.

Assumptions that say no more than "null is no value" (`NULL` is not a copy, a
camera, a list, a handle, ...) are in the named `ASSUME` of each module and
evaluated in its run.

Only model-checked: liveness (`EveryEventTaken`, `BlockedWriterResumes`, `CallsReturn`,
`StaleIsDropped`, `UnpackEnds`), as fairness is outside of the prover's reach; and all
properties of `BootImage`, which uses `Bitwise` for the header's checksum, and whose
properties are about what loops compute over the data, an induction that the provers
cannot do. `SensorEventQueue`'s operators have no theorem of their own; their facts
are lemmas of `MultiHalPollProofs`.

## Where the code disagrees with its comments

Each of these is a run that ends in a counterexample.

1. `open_fails`. "Remember their devices in a vector parallel to
   sub_hw_modules" (`multihal.cpp` 758). A sub-HAL that fails to open gets no
   entry, so later calls for the next module's sensors reach the wrong device
   or none.
2. `event_queue`. "SensorService just died." (`SensorManager.cpp` 158), so
   `createEventQueue` tries again; but `assertStateLocked` keeps the connection
   it has, and the death notice that would drop it waits for the lock the loop
   holds. The loop never ends, and every other caller waits with it.
3. `packaging_paths`. "so keep the two packaging paths identical" (`mkbootimg-wrap`
   38) and "write the same newline and NUL padding as the direct mkbootimg.mk rule
   instead" (43-44). The rule's `echo` writes a newline and no padding
   (`mkbootimg.mk` 50), and where the file ends `pack` leaves what the base image has
   in its header (`pack.c` 113-116): the tail of a longer command line stays behind
   the new one.

Seen while modelling, followed by the models, and no run of their own:

- a meta-data event about a sensor that is in no list is passed up with -1 inside:
  the test of `multihal.cpp` 354 looks at another field, against "Bad handle, do not
  pass corrupted event upstream !" (355). `SensorChannels` drops such an event; the
  run `poll` and the theorem `Refinement` are about sub-HALs that send none
  (`MetaDataListed`);
- with both cameras open, the second open replaces the array of settings copies
  of the first (`CameraWrapper.cpp` 493), and a close releases the copies of both
  (434-437): `CopiesUsedWhileLive` holds up to that;
- `batch` on a device older than API 1.1 calls its `setDelay` with the global
  handle (408), where `setDelay` itself passes the local one, and
  `inject_sensor_data` passes the event on with the global handle inside (452);
  "A local handle is the handle the sub-module assigns to a sensor" (66), and a
  sub-module knows no other;
- the clamp of `batch` uses a module index as a sensor index (400);
- asking for the sensor list before or during `open_sensors`, or after a sub-HAL
  failed to open, ends the process (683, 768): `NoCrashOnceOpen` says exactly
  when;
- the recovery updater ignores how much of the file it read (`recovery_updater.cpp`
  338): what was not read is garbage of the heap, which is checked, flashed with
  fresh checksums, and reported as a success if its version fits; and behind a file
  shorter than the partition the old firmware stays (199-203).
  `ImplementsTwoSlotUpdate` says that nothing else gets in, and `OnePartitionIntact`
  is about calls that read a whole partition;
- the recovery updater saves the tokens it finds: if the power was lost while the
  image's own tokens were on the eMMC, the next call keeps those in that
  partition (`recovery_updater.cpp` 196). A second loss, in the other partition,
  then leaves none with the tokens of the device, which is why
  `OnePartitionIntact` is about updates that begin with two intact partitions;
- "Lower the minimum before capping" (`power.cpp` 208): with the display on the cap
  is written first, so from a profile with a higher minimum the kernel refuses it,
  and the CPUs keep the old maximum until the profile or the display changes
  again. `LimitsFollowRequests` says that exactly then the maximum is the old one;
- a restart forgets the profile until the next hint (50): the framework's last
  request holds only since the process started;
- a load of the vendor's camera module that fails takes the module from one that
  succeeded meanwhile on another thread (`CameraWrapper.cpp` 98, 117), and the
  next use of it ends the process: `ModuleThere` says that this is the only way;
- an open that fails because the operations cannot be allocated leaves the vendor's
  device open (521-525);
- a buffer that wraps another and outlives its `reallocate` or `unflatten` keeps the
  old handle; the reference it holds keeps the object alive, not the handle
  (`GraphicBuffer.cpp` 102-112, 163);
- a handle is lost when a message has absurd counts (352-358), when the module does
  not register it (397-405), and when the device refuses to free it;
- between the device's free of a handle and the removal of its record
  (`GraphicBufferAllocator.cpp` 141-148) another thread may be given the address
  and add its record, which is then removed;
- `lockAsync` with a rectangle outside of the buffer returns without the descriptor
  closed (`GraphicBuffer.cpp` 255-261), every other path takes it over;
- the mapper does not look whether `sync_wait` failed, and locks pixels whose fence
  has not signalled (`GraphicBufferMapper.cpp` 135, 160). `FencesRespected` lets
  this and the former pass;
- the SensorManager's constructor holds no lock, "but it's not needed during
  construction" (`SensorManager.cpp` 47): a death notice between `linkToDeath` (97)
  and the call after it (99) clears the pointer it calls through, and the process
  ends. `ConnectionStays` says that this is the only call that can meet it. While
  the array is being made (100-104) the notice can also clear what it points into;
  the model makes the array in one step. The result of `linkToDeath` is ignored;
- `flatten` and `unflatten` advance the buffer by `sizeNeeded` ints where it counts
  bytes (327, 408), and `unflatten` asks for eight ints before it reads ten (339,
  344);
- `pack` uses `paddings` uninitialised when kernel and ramdisk end on a sector
  (`pack.c` 132, 157), reports success on a disk that filled up (149, 154, 163), and
  does not look whether the command line, the kernel and the ramdisk could be
  opened (101, 115, 148, 153). `HeaderTrue` leaves out the first two;
- `unpack` looks at the name `bzImage`, not at the file (`unpack.c` 85), its loops do
  not end on a short image (93, 124, 137), and it does not look at the results of
  its `fwrite`s (96, 127, 140): on a full disk its files are short and it returns 0.
  `UnpackEnds` leaves out the second, `UnpackInverts` the third;
- `read_fw_revision` reports a text that stops to parse as success
  (`fw_version_check.cpp` 115): `sscanf` returned 0. The device's major is then
  0, and a file that names none passes the check.

## Not modelled

- Multi-HAL: `fix_sensor_flags`, which changes one field of an entry, and the
  writer threads that outlive `close`: they go on calling the closed device, and
  what it does then is the vendor's.
- Power HAL: writes that fail because a CPU is off line, `set_feature`, a
  frequency table longer than the HAL's buffer.
- Camera wrapper: camera ids out of bounds, which the service does not pass, and
  what the array itself leaks.
- Graphic buffers: `flatten`, the identifiers, `dump`, a native window buffer that is
  wrapped with its ownership, the code of other chipsets under `#ifdef`.
- Boot image tools: the wrapper's choice of a base by the kernel's name; the wrapped
  width of 32-bit sizes, which no image of this device comes near.
- The gesture mask of `TouchscreenGestures.java`: two callers read, change and write
  it with no lock, and one change is lost; there is no more to say of it.
- `healthd_board_clovertrail.cpp`: one flag, and a property set on its change.
- The parts without behaviour of their own: adapters and symbol shims that forward
  one call, boot scripts, build files, configuration, vendored headers and
  binaries.

## Plan

Done: the event path (1), the registry (2), the power HAL (3), the lights (4), the
camera wrapper (5), the recovery updater (6), the SensorManager shim (7), the
graphic buffers (8), the boot image tools (9), and the proofs about (1) to (8).

The abstract specifications are those of (1), (6) and (8). The lights, the power HAL
and the camera wrapper have none: what they promise is a relation between the last
requests and the state, which their invariants state directly.
