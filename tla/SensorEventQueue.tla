-------------------------- MODULE SensorEventQueue --------------------------
(***************************************************************************)
(* The circular queue of src/sensors/SensorEventQueue.cpp as operators on  *)
(* a record [start, size, data] (mStart, mSize, mData).  Slots are counted *)
(* from 0, as in the source.  The condition variable of the class lives in *)
(* MultiHalPoll, where the threads that wait on it are.                    *)
(***************************************************************************)
EXTENDS Integers, Sequences

CONSTANT QueueCapacity          \* SENSOR_EVENT_QUEUE_CAPACITY, 36 in the source

ASSUME QueueCapacityAssumption == QueueCapacity \in Nat \ {0}

Slots == 0 .. QueueCapacity - 1

\* The region handed out by getWritableRegion starts after the last readable
\* record.
FirstWritable(q) == (q.start + q.size) % QueueCapacity

-----------------------------------------------------------------------------
\* Mutants of getWritableRegion and dequeue.

LastWritable_OffByOne(q, requested) ==
    LET first  == FirstWritable(q)
        last   == first + requested - 1
        capped == IF last > QueueCapacity - 1 THEN QueueCapacity - 1 ELSE last
    IN  IF first < q.start /\ capped >= q.start THEN q.start ELSE capped

Dequeue_NoWrap(q) ==
    IF q.size = 0 THEN q
    ELSE [q EXCEPT !.size = @ - 1, !.start = @ + 1]

-----------------------------------------------------------------------------
\* The last slot of the writable region: neither past the end of the array
\* nor into the readable region.
LastWritable(q, requested) ==
    LET first  == FirstWritable(q)
        last   == first + requested - 1
        capped == IF last > QueueCapacity - 1 THEN QueueCapacity - 1 ELSE last
    IN  IF first < q.start /\ capped >= q.start THEN q.start - 1 ELSE capped

\* The length getWritableRegion returns.
RegionLength(q, requested) ==
    IF q.size = QueueCapacity \/ requested <= 0
    THEN 0
    ELSE LastWritable(q, requested) - FirstWritable(q) + 1

MarkAsWritten(q, count) == [q EXCEPT !.size = @ + count]

\* peek returns NULL for an empty queue; callers test that first.
Peek(q) == q.data[q.start]

Dequeue(q) ==
    IF q.size = 0 THEN q
    ELSE [q EXCEPT !.size = @ - 1, !.start = (@ + 1) % QueueCapacity]

\* A poll() of a sub-HAL stores one record through the pointer it was given.
Store(q, slot, event) == [q EXCEPT !.data[slot] = event]

-----------------------------------------------------------------------------
\* What the queue means: the slot of its i-th readable record, the readable
\* slots, and the readable records in the order peek/dequeue hand them out.

SlotOf(q, i) == (q.start + (i - 1)) % QueueCapacity

ReadableSlots(q) == { SlotOf(q, i) : i \in 1 .. q.size }

Contents(q) == [ i \in 1 .. q.size |-> q.data[SlotOf(q, i)] ]

=============================================================================
