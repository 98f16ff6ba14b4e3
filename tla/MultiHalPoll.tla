---------------------------- MODULE MultiHalPoll ----------------------------
(***************************************************************************)
(* The event path of src/sensors/multihal.cpp: one writerTask thread per   *)
(* sub-HAL, the SensorEventQueue it fills, and poll(), which the framework *)
(* calls again and again from one thread.                                  *)
(*                                                                         *)
(* queue_mutex serialises everything but the sub-HAL's own poll(), which   *)
(* stores records straight into the ring while the other threads run.  A   *)
(* critical section of a writer is one step (nothing that runs meanwhile   *)
(* touches what it reads or writes); the reader's is one step per turn of  *)
(* its inner loop, so that stores interleave with its scan.  The mutex is  *)
(* therefore held across steps by the reader only, while it scans.         *)
(***************************************************************************)
EXTENDS SensorEventQueue

CONSTANTS NumHals,           \* sub-HALs that were opened: queues.size()
          EventKinds,        \* per sub-HAL: <<type, local handle>> of its events
          FullToGlobal,      \* full_to_global: <<h, local handle>> |-> handle
          MaxReads,          \* buffer sizes the framework calls poll() with
          MaxEvents          \* bound: how many events each sub-HAL reports

Hals == 0 .. NumHals - 1     \* a sub-HAL is its index in queues

ASSUME MultiHalPollAssumption ==
    /\ NumHals \in Nat \ {0}
    /\ EventKinds \in [Hals -> SUBSET ({"data", "meta"} \X Nat)]
    /\ FullToGlobal \in [DOMAIN FullToGlobal -> Nat \ {0}]
    /\ MaxReads \subseteq Nat \ {0}
    /\ MaxEvents \in [Hals -> Nat]

VARIABLES queue,             \* the SensorEventQueue of each sub-HAL
          writer,            \* where each writerTask is
          region,            \* the buffer it got: [first, len]
          written,           \* records stored by the sub-HAL's poll so far
          published,         \* events marked as written, ever
          reader,            \* where poll() is
          empties, eventsRead, maxReads,   \* its local variables
          nextReadIndex,
          waiting_for_data,
          delivered          \* events put in the framework's buffers, ever

vars == <<queue, writer, region, written, published, reader, empties,
          eventsRead, maxReads, nextReadIndex, waiting_for_data, delivered>>

writerVars == <<writer, region, written, published>>
readerVars == <<reader, empties, eventsRead, maxReads, nextReadIndex,
                waiting_for_data, delivered>>

\* A sensors_event_t: a reading of a sensor ("data"), or a meta-data event,
\* whose own sensor is 0 and which names a sensor inside.  id numbers the
\* events of a sub-HAL; it stands for timestamp and payload.
Event(id, kind) ==
    [id     |-> id,
     type   |-> kind[1],
     sensor |-> IF kind[1] = "meta" THEN 0 ELSE kind[2],
     meta   |-> IF kind[1] = "meta" THEN kind[2] ELSE 0]

\* What an unwritten slot holds (never read).
Blank == [id |-> 0, type |-> "data", sensor |-> 0, meta |-> 0]

Init ==
    /\ queue     = [h \in Hals |-> [start |-> 0, size  |-> 0,
                                    data  |-> [s \in Slots |-> Blank]]]
    /\ writer    = [h \in Hals |-> "lock"]
    /\ region    = [h \in Hals |-> [first |-> 0, len |-> 0]]
    /\ written   = [h \in Hals |-> 0]
    /\ published = [h \in Hals |-> 0]
    /\ delivered = [h \in Hals |-> <<>>]
    /\ reader = "idle"
    /\ empties = 0 /\ eventsRead = 0 /\ maxReads \in MaxReads
    /\ nextReadIndex = 0
    /\ waiting_for_data = FALSE

queue_mutex_free == reader # "scan"

-----------------------------------------------------------------------------
\* The writer threads.

\* writerTask blocks while its queue is full.
WaitForSpace(h) ==
    /\ writer[h] = "lock" /\ queue_mutex_free
    /\ queue[h].size = QueueCapacity
    /\ writer' = [writer EXCEPT ![h] = "space"]
    /\ UNCHANGED <<queue, region, written, published, readerVars>>

\* With space it gets a region and calls the sub-HAL's poll without the lock.
GetRegion(h) ==
    /\ writer[h] = "lock" /\ queue_mutex_free
    /\ queue[h].size < QueueCapacity
    /\ region' = [region EXCEPT ![h] =
                    [first |-> FirstWritable(queue[h]),
                     len   |-> RegionLength(queue[h], QueueCapacity)]]
    /\ written' = [written EXCEPT ![h] = 0]
    /\ writer' = [writer EXCEPT ![h] = "poll"]
    /\ UNCHANGED <<queue, published, readerVars>>

\* The sub-HAL stores one more record in the region.
StoreEvent(h) ==
    /\ writer[h] = "poll"
    /\ written[h] < region[h].len
    /\ published[h] + written[h] < MaxEvents[h]
    /\ \E kind \in EventKinds[h] :
         queue' = [queue EXCEPT ![h] =
                     Store(@, region[h].first + written[h],
                           Event(published[h] + written[h] + 1, kind))]
    /\ written' = [written EXCEPT ![h] = @ + 1]
    /\ UNCHANGED <<writer, region, published, readerVars>>

\* device->poll returns the number of records it stored, ...
DevicePollReturns(h) ==
    /\ writer[h] = "poll" /\ written[h] > 0
    /\ writer' = [writer EXCEPT ![h] = "mark"]
    /\ UNCHANGED <<queue, region, written, published, readerVars>>

\* ... or zero or an error: the records are forgotten and the loop goes on.
DevicePollFails(h) ==
    /\ writer[h] = "poll"
    /\ writer' = [writer EXCEPT ![h] = "lock"]
    /\ UNCHANGED <<queue, region, written, published, readerVars>>

\* Mutant of the broadcast: the flag is tested the wrong way round.
BroadcastData_Inverted ==
    reader' = IF ~waiting_for_data /\ reader = "wait" THEN "woken" ELSE reader

BroadcastData ==
    reader' = IF waiting_for_data /\ reader = "wait" THEN "woken" ELSE reader

\* The records become readable, and poll() is woken if it waits.
MarkWritten(h) ==
    /\ writer[h] = "mark" /\ queue_mutex_free
    /\ queue' = [queue EXCEPT ![h] = MarkAsWritten(@, written[h])]
    /\ published' = [published EXCEPT ![h] = @ + written[h]]
    /\ BroadcastData
    /\ writer' = [writer EXCEPT ![h] = "lock"]
    /\ UNCHANGED <<region, written, empties, eventsRead, maxReads,
                   nextReadIndex, waiting_for_data, delivered>>

\* pthread_cond_wait may return with no broadcast.
SpuriousWriterWakeup(h) ==
    /\ writer[h] = "space"
    /\ writer' = [writer EXCEPT ![h] = "lock"]
    /\ UNCHANGED <<queue, region, written, published, readerVars>>

-----------------------------------------------------------------------------
\* poll().

get_global_handle(h, local) ==
    IF <<h, local>> \in DOMAIN FullToGlobal THEN FullToGlobal[<<h, local>>]
    ELSE -1

\* Mutant: the outer sensor of a meta-data event is rewritten.
copy_event_remap_handle_outer(h, event) ==
    [event EXCEPT !.sensor = get_global_handle(h, @)]

copy_event_remap_handle(h, event) ==
    IF event.type = "meta"
    THEN [event EXCEPT !.meta = get_global_handle(h, @)]
    ELSE [event EXCEPT !.sensor = get_global_handle(h, @)]

PollCall(count) ==
    /\ reader = "idle"
    /\ reader' = "scan"
    /\ maxReads' = count
    /\ empties' = 0 /\ eventsRead' = 0
    /\ UNCHANGED <<queue, writerVars, nextReadIndex, waiting_for_data, delivered>>

\* Mutant: the size is tested after it was decremented.
BroadcastSpace_Late(h) ==
    writer' = IF queue'[h].size = QueueCapacity /\ writer[h] = "space"
              THEN [writer EXCEPT ![h] = "lock"] ELSE writer

\* dequeue on a full queue wakes the writer that waits for space.
BroadcastSpace(h) ==
    writer' = IF queue[h].size = QueueCapacity /\ writer[h] = "space"
              THEN [writer EXCEPT ![h] = "lock"] ELSE writer

Scanning == reader = "scan" /\ empties < NumHals /\ eventsRead < maxReads

\* Mutant: a queue is drained before the next one is looked at.
NextIndex_Drain ==
    IF queue[nextReadIndex].size > 0 THEN nextReadIndex
    ELSE (nextReadIndex + 1) % NumHals

NextIndex == (nextReadIndex + 1) % NumHals

\* One turn of the inner loop finds the next queue empty ...
ScanEmpty ==
    /\ Scanning
    /\ queue[nextReadIndex].size = 0
    /\ empties' = empties + 1
    /\ nextReadIndex' = NextIndex
    /\ UNCHANGED <<queue, writerVars, reader, eventsRead, maxReads,
                   waiting_for_data, delivered>>

\* ... or takes its oldest event, drops it if its sensor is unknown, and
\* tells a writer that waits for space.
ScanEvent ==
    LET h     == nextReadIndex
        event == copy_event_remap_handle(h, Peek(queue[h]))
    IN  /\ Scanning
        /\ queue[h].size > 0
        /\ empties' = 0
        /\ IF event.sensor = -1
           THEN UNCHANGED <<eventsRead, delivered>>
           ELSE /\ eventsRead' = eventsRead + 1
                /\ delivered' = [delivered EXCEPT ![h] = Append(@, event)]
        /\ queue' = [queue EXCEPT ![h] = Dequeue(@)]
        /\ BroadcastSpace(h)
        /\ nextReadIndex' = NextIndex
        /\ UNCHANGED <<region, written, published, reader, maxReads,
                       waiting_for_data>>

\* The scan found no event to pass up: wait for a broadcast.
PollWaits ==
    /\ reader = "scan" /\ ~Scanning
    /\ eventsRead = 0
    /\ waiting_for_data' = TRUE
    /\ reader' = "wait"
    /\ UNCHANGED <<queue, writerVars, empties, eventsRead, maxReads,
                   nextReadIndex, delivered>>

\* Woken, poll() takes the mutex back and scans again.
PollWakes ==
    /\ reader = "woken"
    /\ waiting_for_data' = FALSE
    /\ empties' = 0
    /\ reader' = "scan"
    /\ UNCHANGED <<queue, writerVars, eventsRead, maxReads, nextReadIndex,
                   delivered>>

SpuriousReaderWakeup ==
    /\ reader = "wait"
    /\ reader' = "woken"
    /\ UNCHANGED <<queue, writerVars, empties, eventsRead, maxReads,
                   nextReadIndex, waiting_for_data, delivered>>

PollReturns ==
    /\ reader = "scan" /\ ~Scanning
    /\ eventsRead > 0
    /\ reader' = "idle"
    /\ UNCHANGED <<queue, writerVars, empties, eventsRead, maxReads,
                   nextReadIndex, waiting_for_data, delivered>>

Writer(h) == \/ WaitForSpace(h) \/ GetRegion(h) \/ StoreEvent(h)
             \/ DevicePollReturns(h) \/ DevicePollFails(h) \/ MarkWritten(h)
             \/ SpuriousWriterWakeup(h)

Reader == \/ \E count \in MaxReads : PollCall(count)
          \/ ScanEmpty \/ ScanEvent \/ PollWaits \/ PollWakes
          \/ SpuriousReaderWakeup \/ PollReturns

Next == Reader \/ \E h \in Hals : Writer(h)

SafeSpec == Init /\ [][Next]_vars

\* The scheduler runs every thread, SensorService calls poll() again after it
\* returns, and a writer that contends for queue_mutex gets it in the end
\* (the reader gives it up whenever it returns or waits).  A sub-HAL's poll
\* may block for ever: no fairness on storing, returning or failing.
ReaderRuns == \/ \E count \in MaxReads : PollCall(count)
              \/ ScanEmpty \/ ScanEvent \/ PollWaits \/ PollWakes \/ PollReturns

TakesMutex(h) == WaitForSpace(h) \/ GetRegion(h) \/ MarkWritten(h)

Fairness == WF_vars(ReaderRuns) /\ \A h \in Hals : SF_vars(TakesMutex(h))

Spec == SafeSpec /\ Fairness

-----------------------------------------------------------------------------
\* Properties.

SlotValues == [ id : Nat, type : {"data", "meta"}, sensor : Nat, meta : Nat ]
UpEvents   == [ id : Nat, type : {"data", "meta"}, sensor : Int, meta : Int ]

\* Every variable has its type; the size of a queue is within its capacity
\* and poll() never stores more than its caller's buffer holds.
TypeOK ==
    /\ queue \in [Hals -> [start : Slots, size : 0 .. QueueCapacity,
                            data  : [Slots -> SlotValues]]]
    /\ writer \in [Hals -> {"lock", "space", "poll", "mark"}]
    /\ region \in [Hals -> [first : Slots, len : 0 .. QueueCapacity]]
    /\ written \in [Hals -> 0 .. QueueCapacity]
    /\ published \in [Hals -> Nat]
    /\ reader \in {"idle", "scan", "wait", "woken"}
    /\ empties \in 0 .. NumHals
    /\ maxReads \in MaxReads
    /\ eventsRead \in 0 .. maxReads
    /\ nextReadIndex \in Hals
    /\ waiting_for_data \in BOOLEAN
    /\ delivered \in [Hals -> Seq(UpEvents)]

\* While a sub-HAL may store through the pointer it was given, its region is
\* inside the array, not empty, clear of every readable slot, and starts at
\* the slot that markAsWritten will make readable next, however often poll()
\* dequeued in between (multihal.cpp 154-169, the region is taken under the
\* lock and used after it was released).
WriterRegionSafe ==
    \A h \in Hals : writer[h] \in {"poll", "mark"} =>
        LET slots == region[h].first .. region[h].first + region[h].len - 1
        IN  /\ region[h].len > 0
            /\ slots \subseteq Slots
            /\ slots \cap ReadableSlots(queue[h]) = {}
            /\ region[h].first = FirstWritable(queue[h])
            /\ written[h] <= region[h].len

\* A thread sleeps on a condition variable only while the condition it waits
\* for is false: poll() while every queue is empty and the flag that makes
\* writers broadcast is up, a writer while its queue is full.
NoLostWakeup ==
    /\ reader = "wait" =>
         waiting_for_data /\ \A h \in Hals : queue[h].size = 0
    /\ \A h \in Hals : writer[h] = "space" => queue[h].size = QueueCapacity

\* Every sensor that a sub-HAL sends meta-data about is in the list.
MetaDataListed ==
    \A h \in Hals : \A kind \in EventKinds[h] :
        kind[1] = "meta" => <<h, kind[2]>> \in DOMAIN FullToGlobal

\* poll() does to each sub-HAL's events what a FIFO per sub-HAL does: none
\* lost, repeated, reordered or read from a slot while it is overwritten, and
\* none passed up that does not name a sensor of the list.  The last holds of
\* the code only if MetaDataListed: the test of line 354 looks at the field
\* sensor, and a meta-data event about another sensor goes up with -1 inside.
Channels == INSTANCE SensorChannels WITH
                pending <- [h \in Hals |-> Contents(queue[h])]

ImplementsChannels == Channels!SafeSpec

\* No event a sub-HAL reported stays in its queue: the round robin over the
\* queues reaches it even when the others always hold events.
EveryEventTaken ==
    \A h \in Hals : \A k \in 1 .. MaxEvents[h] :
        published[h] >= k ~> published[h] - queue[h].size >= k

\* A writer that found its queue full polls its sub-HAL again.
BlockedWriterResumes ==
    \A h \in Hals : writer[h] = "space" ~> writer[h] = "poll"

=============================================================================
