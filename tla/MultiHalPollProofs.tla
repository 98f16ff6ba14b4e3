------------------------- MODULE MultiHalPollProofs -------------------------
(***************************************************************************)
(* Proofs about MultiHalPoll, for any number of sub-HALs, any queue        *)
(* capacity, any buffer sizes and any number of events.                    *)
(***************************************************************************)
EXTENDS MultiHalFairness, TLAPS

QueueType == [start : Slots, size : 0 .. QueueCapacity,
              data  : [Slots -> SlotValues]]

-----------------------------------------------------------------------------
(* Arithmetic of the ring.                                                 *)

\* The wrap-around of an index at most one turn ahead (SensorEventQueue.cpp
\* 45 and 80).
LEMMA WrapOnce ==
    ASSUME NEW a \in Slots, NEW b \in 0 .. QueueCapacity
    PROVE  (a + b) % QueueCapacity = IF a + b < QueueCapacity
                                     THEN a + b ELSE a + b - QueueCapacity
BY QueueCapacityAssumption DEF Slots

\* The slot of the i-th readable record and the first writable slot, without
\* the remainder.
LEMMA SlotFacts ==
    ASSUME NEW q, q.start \in Slots, q.size \in 0 .. QueueCapacity
    PROVE  /\ \A i \in 1 .. QueueCapacity :
                SlotOf(q, i) = IF q.start + i - 1 < QueueCapacity
                               THEN q.start + i - 1
                               ELSE q.start + i - 1 - QueueCapacity
           /\ FirstWritable(q) = IF q.start + q.size < QueueCapacity
                                 THEN q.start + q.size
                                 ELSE q.start + q.size - QueueCapacity
<1>1. ASSUME NEW i \in 1 .. QueueCapacity
      PROVE  SlotOf(q, i) = IF q.start + i - 1 < QueueCapacity
                            THEN q.start + i - 1
                            ELSE q.start + i - 1 - QueueCapacity
  <2>1. i - 1 \in 0 .. QueueCapacity
    BY QueueCapacityAssumption
  <2>2. SlotOf(q, i) = IF q.start + (i - 1) < QueueCapacity
                       THEN q.start + (i - 1)
                       ELSE q.start + (i - 1) - QueueCapacity
    BY <2>1, WrapOnce DEF SlotOf
  <2> QED
    BY <2>2, QueueCapacityAssumption DEF Slots
<1> QED
  BY <1>1, WrapOnce DEF FirstWritable

\* getWritableRegion on a queue that is not full, asked for a whole buffer:
\* a region of at least one slot, inside the array, that together with the
\* readable records does not exceed the capacity and holds none of them.
LEMMA WritableRegion ==
    ASSUME NEW q \in QueueType, q.size < QueueCapacity
    PROVE  LET first == FirstWritable(q)
               len   == RegionLength(q, QueueCapacity)
           IN  /\ first \in Slots
               /\ len \in 1 .. QueueCapacity
               /\ first + len <= QueueCapacity
               /\ q.size + len <= QueueCapacity
               /\ (first .. first + len - 1) \cap ReadableSlots(q) = {}
<1> DEFINE first == FirstWritable(q)
           len   == RegionLength(q, QueueCapacity)
<1>1. q.start \in Slots /\ q.size \in 0 .. QueueCapacity
  BY DEF QueueType
<1>2. first = IF q.start + q.size < QueueCapacity
              THEN q.start + q.size ELSE q.start + q.size - QueueCapacity
  BY <1>1, SlotFacts
<1>3. len = IF first < q.start THEN q.start - first ELSE QueueCapacity - first
  BY <1>1, <1>2, QueueCapacityAssumption DEF RegionLength, LastWritable, Slots
<1>4. ASSUME NEW i \in 1 .. q.size
      PROVE  SlotOf(q, i) \notin first .. first + len - 1
  <2>1. SlotOf(q, i) = IF q.start + i - 1 < QueueCapacity
                       THEN q.start + i - 1 ELSE q.start + i - 1 - QueueCapacity
    <3>1. i \in 1 .. QueueCapacity
      BY <1>1, QueueCapacityAssumption
    <3> QED
      BY <3>1, <1>1, SlotFacts
  <2> QED
    BY <2>1, <1>1, <1>2, <1>3, QueueCapacityAssumption DEF Slots
<1>5. (first .. first + len - 1) \cap ReadableSlots(q) = {}
  BY <1>4 DEF ReadableSlots
<1> HIDE DEF first, len
<1>6. /\ first \in Slots /\ len \in 1 .. QueueCapacity
      /\ first + len <= QueueCapacity /\ q.size + len <= QueueCapacity
  BY <1>1, <1>2, <1>3, QueueCapacityAssumption DEF Slots
<1> QED
  BY <1>5, <1>6 DEF first, len

\* dequeue leaves the first writable slot where it is, makes no slot readable
\* and shifts the readable records by one.
LEMMA DequeueFacts ==
    ASSUME NEW q \in QueueType, q.size > 0
    PROVE  /\ Dequeue(q) \in QueueType
           /\ Dequeue(q).size = q.size - 1
           /\ Dequeue(q).data = q.data
           /\ FirstWritable(Dequeue(q)) = FirstWritable(q)
           /\ \A i \in 1 .. q.size - 1 : SlotOf(Dequeue(q), i) = SlotOf(q, i + 1)
           /\ ReadableSlots(Dequeue(q)) \subseteq ReadableSlots(q)
<1> DEFINE d == Dequeue(q)
<1>1. /\ q.start \in Slots /\ q.size \in 1 .. QueueCapacity
      /\ q.data \in [Slots -> SlotValues]
  BY DEF QueueType
<1>2. /\ d.start = (q.start + 1) % QueueCapacity
      /\ d.size = q.size - 1
      /\ d.data = q.data
      /\ d = [start |-> d.start, size |-> d.size, data |-> d.data]
  <2>1. d = [q EXCEPT !.size = q.size - 1, !.start = (q.start + 1) % QueueCapacity]
    BY <1>1 DEF Dequeue
  <2>2. q = [start |-> q.start, size |-> q.size, data |-> q.data]
    BY DEF QueueType
  <2> HIDE DEF d
  <2> QED
    BY <2>1, <2>2
<1> HIDE DEF d
<1>3. d.start = IF q.start + 1 < QueueCapacity THEN q.start + 1 ELSE 0
  <2>1. 1 \in 0 .. QueueCapacity
    BY QueueCapacityAssumption
  <2> QED
    BY <2>1, <1>1, <1>2, WrapOnce, QueueCapacityAssumption DEF Slots
<1>4. d.start \in Slots
  BY <1>1, <1>3, QueueCapacityAssumption DEF Slots
<1>5. d \in QueueType /\ d.size = q.size - 1 /\ d.data = q.data
  <2>1. d.size \in 0 .. QueueCapacity
    BY <1>1, <1>2, QueueCapacityAssumption
  <2> QED
    BY <2>1, <1>1, <1>2, <1>4 DEF QueueType
<1>6. FirstWritable(d) = FirstWritable(q)
  <2>1. q.size \in 0 .. QueueCapacity /\ d.size \in 0 .. QueueCapacity
    BY <1>1, <1>5, QueueCapacityAssumption
  <2>2. FirstWritable(q) = IF q.start + q.size < QueueCapacity
              THEN q.start + q.size ELSE q.start + q.size - QueueCapacity
    BY <2>1, <1>1, SlotFacts
  <2>3. FirstWritable(d) = IF d.start + d.size < QueueCapacity
              THEN d.start + d.size ELSE d.start + d.size - QueueCapacity
    BY <2>1, <1>4, SlotFacts
  <2>4. /\ q.start \in 0 .. QueueCapacity - 1 /\ QueueCapacity \in Nat \ {0}
        /\ q.size \in 1 .. QueueCapacity /\ d.size = q.size - 1
    BY <1>1, <1>5, QueueCapacityAssumption DEF Slots
  <2>5. CASE q.start + 1 < QueueCapacity
    <3>1. d.start = q.start + 1
      BY <1>3, <2>5
    <3> QED
      BY <2>2, <2>3, <2>4, <3>1
  <2>6. CASE ~(q.start + 1 < QueueCapacity)
    <3>1. /\ FirstWritable(q) = q.size - 1
          /\ FirstWritable(d) = q.size - 1
      BY <1>3, <2>2, <2>3, <2>4, <2>6
    <3> QED
      BY <3>1
  <2> QED
    BY <2>5, <2>6
<1>7. ASSUME NEW i \in 1 .. q.size - 1
      PROVE  SlotOf(d, i) = SlotOf(q, i + 1)
  <2>1. /\ q.size \in 0 .. QueueCapacity /\ d.size \in 0 .. QueueCapacity
        /\ i \in 1 .. QueueCapacity /\ i + 1 \in 1 .. QueueCapacity
    BY <1>1, <1>5, QueueCapacityAssumption
  <2>2. SlotOf(q, i + 1) = IF q.start + (i + 1) - 1 < QueueCapacity
              THEN q.start + (i + 1) - 1 ELSE q.start + (i + 1) - 1 - QueueCapacity
    BY <2>1, <1>1, SlotFacts
  <2>3. SlotOf(d, i) = IF d.start + i - 1 < QueueCapacity
              THEN d.start + i - 1 ELSE d.start + i - 1 - QueueCapacity
    BY <2>1, <1>4, SlotFacts
  <2> QED
    BY <2>1, <2>2, <2>3, <1>1, <1>3, QueueCapacityAssumption DEF Slots
<1>8. ReadableSlots(d) \subseteq ReadableSlots(q)
  <2> SUFFICES ASSUME NEW i \in 1 .. d.size
               PROVE  SlotOf(d, i) \in ReadableSlots(q)
    BY DEF ReadableSlots
  <2>1. i \in 1 .. q.size - 1 /\ i + 1 \in 1 .. q.size
    BY <1>1, <1>5
  <2> QED
    BY <2>1, <1>7 DEF ReadableSlots
<1> QED
  BY <1>5, <1>6, <1>7, <1>8 DEF d

\* A sub-HAL's store changes one slot and nothing else.
LEMMA StoreFacts ==
    ASSUME NEW q \in QueueType, NEW slot \in Slots, NEW event \in SlotValues
    PROVE  LET s == Store(q, slot, event) IN
           /\ s \in QueueType /\ s.start = q.start /\ s.size = q.size
           /\ s.data = [q.data EXCEPT ![slot] = event]
           /\ FirstWritable(s) = FirstWritable(q)
           /\ ReadableSlots(s) = ReadableSlots(q)
<1> DEFINE s == Store(q, slot, event)
<1>1. q = [start |-> q.start, size |-> q.size, data |-> q.data]
      /\ q.start \in Slots /\ q.size \in 0 .. QueueCapacity
      /\ q.data \in [Slots -> SlotValues]
  BY DEF QueueType
<1>2. s = [start |-> q.start, size |-> q.size,
           data |-> [q.data EXCEPT ![slot] = event]]
  BY <1>1 DEF Store
<1>3. [q.data EXCEPT ![slot] = event] \in [Slots -> SlotValues]
  BY <1>1
<1> HIDE DEF s
<1>4. /\ s \in QueueType /\ s.start = q.start /\ s.size = q.size
      /\ s.data = [q.data EXCEPT ![slot] = event]
  BY <1>1, <1>2, <1>3 DEF QueueType
<1>5. FirstWritable(s) = FirstWritable(q) /\ ReadableSlots(s) = ReadableSlots(q)
  BY <1>4 DEF FirstWritable, ReadableSlots, SlotOf
<1> QED
  BY <1>4, <1>5 DEF s

\* markAsWritten only makes the queue longer.
LEMMA MarkFacts ==
    ASSUME NEW q \in QueueType, NEW n \in Nat, q.size + n <= QueueCapacity
    PROVE  LET m == MarkAsWritten(q, n) IN
           /\ m \in QueueType /\ m.start = q.start
           /\ m.size = q.size + n /\ m.data = q.data
<1>1. q = [start |-> q.start, size |-> q.size, data |-> q.data]
      /\ q.start \in Slots /\ q.size \in 0 .. QueueCapacity
      /\ q.data \in [Slots -> SlotValues]
  BY DEF QueueType
<1>2. MarkAsWritten(q, n) = [start |-> q.start, size |-> q.size + n, data |-> q.data]
  BY <1>1 DEF MarkAsWritten
<1>3. q.size + n \in 0 .. QueueCapacity
  BY <1>1, QueueCapacityAssumption
<1> QED
  BY <1>1, <1>2, <1>3 DEF QueueType

-----------------------------------------------------------------------------
(* The inductive invariant.                                                *)

\* How far the scan is past queue g: 1 for the queue it looked at last.
Behind(g) == IF g < nextReadIndex THEN nextReadIndex - g
             ELSE nextReadIndex + NumHals - g

\* The queues poll() counted as empty are empty: nothing is published while
\* it scans.
ScannedEmpty ==
    reader = "scan" => \A g \in Hals : Behind(g) <= empties => queue[g].size = 0

\* The records readable and the region a sub-HAL may fill fit in the array,
\* and what it stored are its next events, in order.
RegionHolds ==
    \A h \in Hals : writer[h] \in {"poll", "mark"} =>
        /\ region[h].first + region[h].len <= QueueCapacity
        /\ queue[h].size + region[h].len <= QueueCapacity
        /\ writer[h] = "mark" => written[h] > 0
        /\ \A i \in 1 .. written[h] :
              queue[h].data[region[h].first + i - 1].id = published[h] + i

IInv == /\ TypeOK
        /\ WriterRegionSafe
        /\ NoLostWakeup
        /\ ScannedEmpty
        /\ RegionHolds

-----------------------------------------------------------------------------
\* The queue of one sub-HAL has the type the lemmas above ask for.
LEMMA QueueTyped ==
    ASSUME TypeOK, NEW h \in Hals
    PROVE  queue[h] \in QueueType
BY DEF TypeOK, QueueType

\* poll()'s next queue (multihal.cpp 362), without the remainder.
LEMMA NextIndexTyped ==
    ASSUME TypeOK
    PROVE  NextIndex = IF nextReadIndex + 1 < NumHals THEN nextReadIndex + 1 ELSE 0
<1>1. NumHals \in Nat \ {0} /\ nextReadIndex \in 0 .. NumHals - 1
  BY MultiHalPollAssumption DEF TypeOK, Hals
<1> QED
  BY <1>1 DEF NextIndex

\* The state open_sensors leaves, before any thread has run, satisfies the
\* invariant.
LEMMA InitInvariant == Init => IInv
<1> SUFFICES ASSUME Init PROVE IInv
  OBVIOUS
<1>1. 0 \in Slots /\ 0 \in Hals
  BY QueueCapacityAssumption, MultiHalPollAssumption DEF Slots, Hals
<1>2. \A h \in Hals : queue[h] = [start |-> 0, size |-> 0,
                                data |-> [s \in Slots |-> Blank]]
  BY DEF Init
<1>3. Blank \in SlotValues
  BY DEF Blank, SlotValues
<1>4. TypeOK
  <2>1. [start |-> 0, size |-> 0, data |-> [s \in Slots |-> Blank]] \in QueueType
    BY <1>1, <1>3, QueueCapacityAssumption DEF QueueType
  <2>2. queue \in [Hals -> QueueType]
    BY <2>1 DEF Init
  <2>3. delivered \in [Hals -> Seq(UpEvents)]
    BY DEF Init
  <2>4. /\ 0 \in 0 .. QueueCapacity /\ 0 \in 0 .. NumHals
        /\ maxReads \in Nat /\ maxReads \in MaxReads
    BY QueueCapacityAssumption, MultiHalPollAssumption DEF Init
  <2>5. region \in [Hals -> [first : Slots, len : 0 .. QueueCapacity]]
    BY <1>1, <2>4 DEF Init
  <2>6. written \in [Hals -> 0 .. QueueCapacity] /\ published \in [Hals -> Nat]
    BY <2>4 DEF Init
  <2>7. writer \in [Hals -> {"lock", "space", "poll", "mark"}]
    BY DEF Init
  <2>8. /\ reader = "idle" /\ empties \in 0 .. NumHals
        /\ eventsRead \in 0 .. maxReads /\ nextReadIndex \in Hals
        /\ waiting_for_data \in BOOLEAN
    BY <1>1, <2>4 DEF Init
  <2> QED
    BY <2>2, <2>3, <2>4, <2>5, <2>6, <2>7, <2>8 DEF TypeOK, QueueType
<1>5. WriterRegionSafe /\ NoLostWakeup /\ ScannedEmpty /\ RegionHolds
  BY DEF Init, WriterRegionSafe, NoLostWakeup, ScannedEmpty, RegionHolds
<1> QED
  BY <1>4, <1>5 DEF IInv

\* Every step of a writer thread keeps the invariant.
LEMMA WriterInvariant ==
    ASSUME IInv, NEW h \in Hals, Writer(h)
    PROVE  IInv'
<1> USE DEF IInv
<1>0. /\ queue[h] \in QueueType /\ queue \in [Hals -> QueueType]
      /\ QueueCapacity \in Nat \ {0} /\ NumHals \in Nat \ {0}
      /\ queue[h].start \in Slots /\ queue[h].size \in 0 .. QueueCapacity
  BY QueueCapacityAssumption, MultiHalPollAssumption DEF TypeOK, QueueType
<1>1. CASE WaitForSpace(h)
  <2>1. TypeOK'
    BY <1>1 DEF TypeOK, WaitForSpace, readerVars
  <2>2. WriterRegionSafe' /\ RegionHolds'
    BY <1>1 DEF TypeOK, WaitForSpace, readerVars, WriterRegionSafe, RegionHolds
  <2>3. NoLostWakeup'
    BY <1>1 DEF TypeOK, WaitForSpace, readerVars, NoLostWakeup
  <2>4. ScannedEmpty'
    BY <1>1 DEF WaitForSpace, readerVars, ScannedEmpty, Behind
  <2> QED
    BY <2>1, <2>2, <2>3, <2>4
<1>2. CASE GetRegion(h)
  <2> DEFINE first == FirstWritable(queue[h])
             len   == RegionLength(queue[h], QueueCapacity)
  <2>1. /\ first \in Slots /\ len \in 1 .. QueueCapacity
        /\ first + len <= QueueCapacity /\ queue[h].size + len <= QueueCapacity
        /\ (first .. first + len - 1) \cap ReadableSlots(queue[h]) = {}
    BY <1>0, <1>2, WritableRegion DEF GetRegion
  <2> HIDE DEF first, len
  <2>2. /\ region' = [region EXCEPT ![h] = [first |-> first, len |-> len]]
        /\ written' = [written EXCEPT ![h] = 0]
        /\ writer' = [writer EXCEPT ![h] = "poll"]
        /\ UNCHANGED <<queue, published, readerVars>>
    BY <1>2 DEF GetRegion, first, len
  <2>3. [first |-> first, len |-> len] \in [first : Slots, len : 0 .. QueueCapacity]
    BY <2>1, <1>0
  <2>4. TypeOK'
    BY <2>2, <2>3, <1>0 DEF TypeOK, readerVars
  <2>5. /\ region'[h].first = first /\ region'[h].len = len
        /\ written'[h] = 0 /\ queue' = queue
    BY <2>2, <1>0 DEF TypeOK
  <2>6. first .. first + len - 1 \subseteq Slots
    BY <2>1, <1>0 DEF Slots
  <2>7. WriterRegionSafe'
    <3> SUFFICES ASSUME NEW g \in Hals, writer'[g] \in {"poll", "mark"}
                 PROVE  LET slots == region'[g].first ..
                                       region'[g].first + region'[g].len - 1
                        IN  /\ region'[g].len > 0
                            /\ slots \subseteq Slots
                            /\ slots \cap ReadableSlots(queue'[g]) = {}
                            /\ region'[g].first = FirstWritable(queue'[g])
                            /\ written'[g] <= region'[g].len
      BY DEF WriterRegionSafe, ReadableSlots, FirstWritable, SlotOf
    <3>1. CASE g = h
      BY <3>1, <2>1, <2>5, <2>6, <1>0 DEF first
    <3>2. CASE g # h
      <4>1. /\ region'[g] = region[g] /\ written'[g] = written[g]
            /\ writer'[g] = writer[g] /\ queue'[g] = queue[g]
        BY <3>2, <2>2, <2>5 DEF TypeOK
      <4> QED
        BY <4>1 DEF WriterRegionSafe
    <3> QED
      BY <3>1, <3>2
  <2>8. RegionHolds'
    <3>1. ASSUME NEW g \in Hals, writer'[g] \in {"poll", "mark"}, g # h
          PROVE  /\ region'[g] = region[g] /\ written'[g] = written[g]
                 /\ writer'[g] = writer[g] /\ queue'[g] = queue[g]
                 /\ published'[g] = published[g]
      BY <3>1, <2>2, <2>5 DEF TypeOK
    <3>2. writer'[h] = "poll" /\ 1 .. written'[h] = {}
      BY <2>2, <2>5 DEF TypeOK
    <3> QED
      BY <3>1, <3>2, <2>1, <2>5 DEF RegionHolds
  <2>9. NoLostWakeup' /\ ScannedEmpty'
    BY <2>2 DEF NoLostWakeup, ScannedEmpty, Behind, readerVars, TypeOK
  <2> QED
    BY <2>4, <2>7, <2>8, <2>9
<1>3. CASE StoreEvent(h)
  <2> DEFINE slot == region[h].first + written[h]
  <2>1. PICK kind \in EventKinds[h] :
          queue' = [queue EXCEPT ![h] =
            Store(queue[h], slot, Event(published[h] + written[h] + 1, kind))]
    BY <1>3 DEF StoreEvent
  <2> DEFINE event == Event(published[h] + written[h] + 1, kind)
  <2>2. /\ writer[h] = "poll" /\ written[h] < region[h].len
        /\ written' = [written EXCEPT ![h] = written[h] + 1]
        /\ UNCHANGED <<writer, region, published, readerVars>>
    BY <1>3 DEF StoreEvent
  <2>3. /\ region[h].first \in Slots /\ region[h].len \in 0 .. QueueCapacity
        /\ written[h] \in 0 .. QueueCapacity /\ published[h] \in Nat
    BY DEF TypeOK
  <2>4. /\ slot \in Slots
        /\ \A i \in 1 .. written[h] : region[h].first + i - 1 # slot
        /\ written[h] + 1 \in 0 .. QueueCapacity
        /\ written[h] + 1 <= region[h].len
    BY <2>2, <2>3, <1>0 DEF RegionHolds, Slots
  <2>5. event \in SlotValues /\ event.id = published[h] + written[h] + 1
    <3>1. kind[1] \in {"data", "meta"} /\ kind[2] \in Nat
      BY MultiHalPollAssumption
    <3>2. published[h] + written[h] + 1 \in Nat
      BY <2>3, <1>0
    <3> QED
      BY <3>1, <3>2 DEF Event, SlotValues
  <2> HIDE DEF slot, event
  <2>6. /\ queue'[h] \in QueueType /\ queue'[h].size = queue[h].size
        /\ queue'[h].data = [queue[h].data EXCEPT ![slot] = event]
        /\ FirstWritable(queue'[h]) = FirstWritable(queue[h])
        /\ ReadableSlots(queue'[h]) = ReadableSlots(queue[h])
    BY <2>1, <2>4, <2>5, <1>0, StoreFacts DEF event, slot
  <2>7. \A g \in Hals : g # h => queue'[g] = queue[g] /\ written'[g] = written[g]
    BY <2>1, <2>2 DEF TypeOK
  <2>8. TypeOK'
    <3>1. queue' \in [Hals -> QueueType]
      BY <2>1, <2>6, <1>0
    <3>2. written' \in [Hals -> 0 .. QueueCapacity]
      BY <2>2, <2>4 DEF TypeOK
    <3> QED
      BY <3>1, <3>2, <2>2 DEF TypeOK, QueueType, readerVars
  <2>9. written'[h] = written[h] + 1
    BY <2>2 DEF TypeOK
  <2>10. WriterRegionSafe'
    <3> SUFFICES ASSUME NEW g \in Hals, writer'[g] \in {"poll", "mark"}
                 PROVE  LET slots == region'[g].first ..
                                       region'[g].first + region'[g].len - 1
                        IN  /\ region'[g].len > 0
                            /\ slots \subseteq Slots
                            /\ slots \cap ReadableSlots(queue'[g]) = {}
                            /\ region'[g].first = FirstWritable(queue'[g])
                            /\ written'[g] <= region'[g].len
      BY DEF WriterRegionSafe, ReadableSlots, FirstWritable, SlotOf
    <3>1. CASE g = h
      BY <3>1, <2>2, <2>4, <2>6, <2>9 DEF WriterRegionSafe
    <3>2. CASE g # h
      BY <3>2, <2>2, <2>7 DEF WriterRegionSafe
    <3> QED
      BY <3>1, <3>2
  <2>11. RegionHolds'
    <3> SUFFICES ASSUME NEW g \in Hals, writer'[g] \in {"poll", "mark"}
                 PROVE  /\ region'[g].first + region'[g].len <= QueueCapacity
                        /\ queue'[g].size + region'[g].len <= QueueCapacity
                        /\ writer'[g] = "mark" => written'[g] > 0
                        /\ \A i \in 1 .. written'[g] :
                             queue'[g].data[region'[g].first + i - 1].id
                                = published'[g] + i
      BY DEF RegionHolds
    <3>1. CASE g = h
      <4>1. ASSUME NEW i \in 1 .. written[h] + 1
            PROVE  queue'[h].data[region[h].first + i - 1].id = published[h] + i
        <5>1. region[h].first + i - 1 \in Slots
          BY <2>2, <2>3, <2>4, <1>0 DEF RegionHolds, Slots
        <5>2. queue[h].data \in [Slots -> SlotValues]
          BY <1>0 DEF QueueType
        <5>3. CASE i = written[h] + 1
          <6>1. region[h].first + i - 1 = slot
            BY <5>3, <2>3, <1>0 DEF slot, Slots
          <6>2. queue'[h].data[slot] = event
            BY <2>4, <2>6, <5>2
          <6> QED
            BY <6>1, <6>2, <5>3, <2>3, <2>5
        <5>4. CASE i \in 1 .. written[h]
          <6>1. region[h].first + i - 1 # slot
            BY <5>4, <2>4
          <6>2. queue'[h].data[region[h].first + i - 1]
                  = queue[h].data[region[h].first + i - 1]
            BY <6>1, <5>1, <5>2, <2>6
          <6> QED
            BY <6>2, <5>4, <2>2 DEF RegionHolds
        <5> QED
          BY <5>3, <5>4, <2>3
      <4> QED
        BY <4>1, <3>1, <2>2, <2>3, <2>6, <2>9 DEF RegionHolds
    <3>2. CASE g # h
      BY <3>2, <2>2, <2>7 DEF RegionHolds
    <3> QED
      BY <3>1, <3>2
  <2>12. NoLostWakeup' /\ ScannedEmpty'
    <3>1. \A g \in Hals : queue'[g].size = queue[g].size
      BY <2>6, <2>7
    <3> QED
      BY <3>1, <2>2 DEF NoLostWakeup, ScannedEmpty, Behind, readerVars
  <2> QED
    BY <2>8, <2>10, <2>11, <2>12
<1>4. CASE DevicePollReturns(h)
  <2>1. TypeOK'
    BY <1>4 DEF TypeOK, DevicePollReturns, readerVars
  <2>2. WriterRegionSafe' /\ RegionHolds'
    BY <1>4 DEF TypeOK, DevicePollReturns, readerVars, WriterRegionSafe, RegionHolds
  <2>3. NoLostWakeup'
    BY <1>4 DEF TypeOK, DevicePollReturns, readerVars, NoLostWakeup
  <2>4. ScannedEmpty'
    BY <1>4 DEF DevicePollReturns, readerVars, ScannedEmpty, Behind
  <2> QED
    BY <2>1, <2>2, <2>3, <2>4
<1>5. CASE DevicePollFails(h)
  <2>1. TypeOK'
    BY <1>5 DEF TypeOK, DevicePollFails, readerVars
  <2>2. WriterRegionSafe' /\ RegionHolds'
    BY <1>5 DEF TypeOK, DevicePollFails, readerVars, WriterRegionSafe, RegionHolds
  <2>3. NoLostWakeup'
    BY <1>5 DEF TypeOK, DevicePollFails, readerVars, NoLostWakeup
  <2>4. ScannedEmpty'
    BY <1>5 DEF DevicePollFails, readerVars, ScannedEmpty, Behind
  <2> QED
    BY <2>1, <2>2, <2>3, <2>4
<1>6. CASE MarkWritten(h)
  <2>1. /\ writer[h] = "mark" /\ reader # "scan"
        /\ queue' = [queue EXCEPT ![h] = MarkAsWritten(queue[h], written[h])]
        /\ published' = [published EXCEPT ![h] = published[h] + written[h]]
        /\ reader' = IF waiting_for_data /\ reader = "wait" THEN "woken" ELSE reader
        /\ writer' = [writer EXCEPT ![h] = "lock"]
        /\ UNCHANGED <<region, written, empties, eventsRead, maxReads,
                       nextReadIndex, waiting_for_data, delivered>>
    BY <1>6 DEF MarkWritten, queue_mutex_free, BroadcastData
  <2>2. /\ written[h] \in Nat /\ queue[h].size + written[h] <= QueueCapacity
        /\ region[h].len \in 0 .. QueueCapacity
    <3>1. /\ written[h] \in 0 .. QueueCapacity /\ written[h] <= region[h].len
          /\ region[h].len \in 0 .. QueueCapacity
          /\ queue[h].size + region[h].len <= QueueCapacity
      BY <2>1 DEF TypeOK, WriterRegionSafe, RegionHolds
    <3> QED
      BY <3>1, <1>0
  <2>3. queue'[h] \in QueueType /\ queue' \in [Hals -> QueueType]
    BY <2>1, <2>2, <1>0, MarkFacts
  <2>4. TypeOK'
    <3>1. published' \in [Hals -> Nat]
      BY <2>1, <2>2 DEF TypeOK
    <3> QED
      BY <3>1, <2>1, <2>3 DEF TypeOK, QueueType
  <2>5. \A g \in Hals : writer'[g] # "lock" =>
          /\ g # h /\ writer'[g] = writer[g] /\ queue'[g] = queue[g]
          /\ published'[g] = published[g]
    BY <2>1 DEF TypeOK
  <2>6. WriterRegionSafe'
    BY <2>1, <2>5 DEF WriterRegionSafe
  <2>7. RegionHolds'
    BY <2>1, <2>5 DEF RegionHolds
  <2>8. NoLostWakeup'
    <3>1. reader' # "wait"
      BY <2>1 DEF NoLostWakeup
    <3> QED
      BY <3>1, <2>5 DEF NoLostWakeup
  <2>9. ScannedEmpty'
    BY <2>1 DEF ScannedEmpty
  <2> QED
    BY <2>4, <2>6, <2>7, <2>8, <2>9
<1>7. CASE SpuriousWriterWakeup(h)
  <2>1. TypeOK'
    BY <1>7 DEF TypeOK, SpuriousWriterWakeup, readerVars
  <2>2. WriterRegionSafe' /\ RegionHolds'
    BY <1>7 DEF TypeOK, SpuriousWriterWakeup, readerVars, WriterRegionSafe, RegionHolds
  <2>3. NoLostWakeup'
    BY <1>7 DEF TypeOK, SpuriousWriterWakeup, readerVars, NoLostWakeup
  <2>4. ScannedEmpty'
    BY <1>7 DEF SpuriousWriterWakeup, readerVars, ScannedEmpty, Behind
  <2> QED
    BY <2>1, <2>2, <2>3, <2>4
<1> QED
  BY <1>1, <1>2, <1>3, <1>4, <1>5, <1>6, <1>7 DEF Writer

\* Every step of poll() keeps the invariant.
LEMMA ReaderInvariant ==
    ASSUME IInv, Reader
    PROVE  IInv'
<1> USE DEF IInv
<1>0. /\ QueueCapacity \in Nat \ {0} /\ NumHals \in Nat \ {0}
      /\ MaxReads \subseteq Nat \ {0}
      /\ nextReadIndex \in 0 .. NumHals - 1 /\ Hals = 0 .. NumHals - 1
      /\ maxReads \in Nat \ {0}
  BY QueueCapacityAssumption, MultiHalPollAssumption DEF TypeOK, Hals
<1>a. ASSUME UNCHANGED <<queue, writer, region, written, published>>,
             TypeOK', NoLostWakeup', ScannedEmpty'
      PROVE  IInv'
  BY <1>a DEF WriterRegionSafe, RegionHolds
<1>1. CASE \E count \in MaxReads : PollCall(count)
  <2>1. PICK count \in MaxReads : PollCall(count)
    BY <1>1
  <2>2. TypeOK'
    <3>1. 0 \in 0 .. NumHals /\ 0 \in 0 .. count
      BY <1>0
    <3>2. /\ reader' = "scan" /\ maxReads' = count /\ empties' = 0
          /\ eventsRead' = 0
          /\ UNCHANGED <<queue, writer, region, written, published,
                         nextReadIndex, waiting_for_data, delivered>>
      BY <2>1 DEF PollCall, writerVars
    <3>3. eventsRead' \in 0 .. maxReads' /\ maxReads' \in MaxReads
      BY <3>1, <3>2
    <3> QED
      BY <3>1, <3>2, <3>3 DEF TypeOK
  <2>3. ScannedEmpty'
    <3>1. \A g \in Hals : ~(Behind(g)' <= 0)
      BY <1>0, <2>1 DEF Behind, PollCall
    <3> QED
      BY <2>1, <3>1 DEF ScannedEmpty, PollCall
  <2> QED
    BY <1>a, <2>1, <2>2, <2>3 DEF PollCall, writerVars, NoLostWakeup
<1>2. CASE ScanEmpty
  <2>1. /\ reader = "scan" /\ empties < NumHals /\ queue[nextReadIndex].size = 0
        /\ empties' = empties + 1 /\ nextReadIndex' = NextIndex
        /\ UNCHANGED <<queue, writer, region, written, published, reader,
                       eventsRead, maxReads, waiting_for_data, delivered>>
    BY <1>2 DEF ScanEmpty, Scanning, writerVars
  <2>2. nextReadIndex' = IF nextReadIndex + 1 < NumHals
                         THEN nextReadIndex + 1 ELSE 0
    BY <2>1, NextIndexTyped
  <2>3. empties \in 0 .. NumHals
    BY DEF TypeOK
  <2>4. empties' \in 0 .. NumHals /\ nextReadIndex' \in Hals
    BY <1>0, <2>1, <2>2, <2>3
  <2>5. TypeOK'
    BY <2>1, <2>4 DEF TypeOK
  <2>6. ScannedEmpty'
    <3> SUFFICES ASSUME NEW g \in Hals, Behind(g)' <= empties + 1
                 PROVE  queue[g].size = 0
      BY <2>1 DEF ScannedEmpty
    <3>1. g = nextReadIndex \/ Behind(g)' = Behind(g) + 1
      BY <1>0, <2>1, <2>2 DEF Behind
    <3>2. Behind(g) \in Int
      BY <1>0 DEF Behind
    <3> QED
      BY <3>1, <3>2, <2>1, <2>3, <1>0 DEF ScannedEmpty
  <2> QED
    BY <1>a, <2>1, <2>5, <2>6 DEF NoLostWakeup
<1>3. CASE ScanEvent
  <2> DEFINE h     == nextReadIndex
             event == copy_event_remap_handle(h, Peek(queue[h]))
  <2>0. h \in Hals
    BY DEF TypeOK
  <2>1. /\ reader = "scan" /\ eventsRead < maxReads /\ queue[h].size > 0
        /\ empties' = 0 /\ nextReadIndex' = NextIndex
        /\ queue' = [queue EXCEPT ![h] = Dequeue(queue[h])]
        /\ writer' = IF queue[h].size = QueueCapacity /\ writer[h] = "space"
                     THEN [writer EXCEPT ![h] = "lock"] ELSE writer
        /\ UNCHANGED <<region, written, published, reader, maxReads,
                       waiting_for_data>>
        /\ IF event.sensor = -1
           THEN UNCHANGED <<eventsRead, delivered>>
           ELSE /\ eventsRead' = eventsRead + 1
                /\ delivered' = [delivered EXCEPT ![h] = Append(delivered[h], event)]
    BY <1>3 DEF ScanEvent, Scanning, BroadcastSpace
  <2>2. queue[h] \in QueueType /\ queue \in [Hals -> QueueType]
    BY <2>0 DEF TypeOK, QueueType
  <2>3. /\ Dequeue(queue[h]) \in QueueType
        /\ queue'[h].size = queue[h].size - 1
        /\ queue'[h].data = queue[h].data
        /\ FirstWritable(queue'[h]) = FirstWritable(queue[h])
        /\ ReadableSlots(queue'[h]) \subseteq ReadableSlots(queue[h])
        /\ queue[h].size \in 1 .. QueueCapacity
    <3>1. queue'[h] = Dequeue(queue[h]) /\ queue[h].size \in 1 .. QueueCapacity
      BY <1>0, <2>0, <2>1, <2>2 DEF QueueType
    <3> QED
      BY <3>1, <2>1, <2>2, DequeueFacts
  <2>4. \A g \in Hals : g # h => queue'[g] = queue[g]
    BY <2>1 DEF TypeOK
  <2>5. event \in UpEvents
    <3>1. queue[h].start \in Slots /\ queue[h].data \in [Slots -> SlotValues]
      BY <2>2 DEF QueueType
    <3>2. Peek(queue[h]) \in SlotValues
      BY <3>1 DEF Peek
    <3>3. \A local : get_global_handle(h, local) \in Int
      BY MultiHalPollAssumption DEF get_global_handle
    <3> QED
      BY <3>2, <3>3 DEF copy_event_remap_handle, SlotValues, UpEvents
  <2>6. TypeOK'
    <3>1. queue' \in [Hals -> QueueType]
      BY <2>1, <2>2, <2>3
    <3>2. nextReadIndex' \in Hals
      BY <1>0, <2>1, NextIndexTyped
    <3>3. delivered' \in [Hals -> Seq(UpEvents)]
      <4>1. delivered \in [Hals -> Seq(UpEvents)]
        BY DEF TypeOK
      <4>2. Append(delivered[h], event) \in Seq(UpEvents)
        BY <4>1, <2>0, <2>5
      <4> HIDE DEF event
      <4> QED
        BY <4>1, <4>2, <2>1
    <3>4. eventsRead' \in 0 .. maxReads' /\ empties' \in 0 .. NumHals
      <4>1. eventsRead \in 0 .. maxReads
        BY DEF TypeOK
      <4> HIDE DEF event
      <4> QED
        BY <4>1, <1>0, <2>1
    <3>5. writer' \in [Hals -> {"lock", "space", "poll", "mark"}]
      BY <2>0, <2>1 DEF TypeOK
    <3> HIDE DEF event, h
    <3> QED
      BY <3>1, <3>2, <3>3, <3>4, <3>5, <2>1 DEF TypeOK, QueueType
  <2> HIDE DEF event
  <2>7. \A g \in Hals : writer'[g] \in {"poll", "mark", "space"} =>
          writer'[g] = writer[g]
    BY <2>0, <2>1 DEF TypeOK
  <2>8. WriterRegionSafe'
    <3> SUFFICES ASSUME NEW g \in Hals, writer'[g] \in {"poll", "mark"}
                 PROVE  LET slots == region'[g].first ..
                                       region'[g].first + region'[g].len - 1
                        IN  /\ region'[g].len > 0
                            /\ slots \subseteq Slots
                            /\ slots \cap ReadableSlots(queue'[g]) = {}
                            /\ region'[g].first = FirstWritable(queue'[g])
                            /\ written'[g] <= region'[g].len
      BY DEF WriterRegionSafe, ReadableSlots, FirstWritable, SlotOf
    <3>1. CASE g = h
      BY <3>1, <2>1, <2>3, <2>7 DEF WriterRegionSafe
    <3>2. CASE g # h
      BY <3>2, <2>1, <2>4, <2>7 DEF WriterRegionSafe
    <3> QED
      BY <3>1, <3>2
  <2>9. RegionHolds'
    <3> SUFFICES ASSUME NEW g \in Hals, writer'[g] \in {"poll", "mark"}
                 PROVE  /\ region'[g].first + region'[g].len <= QueueCapacity
                        /\ queue'[g].size + region'[g].len <= QueueCapacity
                        /\ writer'[g] = "mark" => written'[g] > 0
                        /\ \A i \in 1 .. written'[g] :
                             queue'[g].data[region'[g].first + i - 1].id
                                = published'[g] + i
      BY DEF RegionHolds
    <3>1. CASE g = h
      <4>1. region[h].len \in 0 .. QueueCapacity
        BY <2>0 DEF TypeOK
      <4> QED
        BY <3>1, <4>1, <1>0, <2>1, <2>3, <2>7 DEF RegionHolds
    <3>2. CASE g # h
      BY <3>2, <2>1, <2>4, <2>7 DEF RegionHolds
    <3> QED
      BY <3>1, <3>2
  <2>10. NoLostWakeup'
    <3>1. ASSUME NEW g \in Hals, writer'[g] = "space"
          PROVE  queue'[g].size = QueueCapacity
      <4>1. queue[g].size = QueueCapacity /\ writer[g] = "space"
        BY <3>1, <2>7 DEF NoLostWakeup
      <4>2. g # h
        BY <3>1, <4>1, <2>0, <2>1 DEF TypeOK
      <4> QED
        BY <4>1, <4>2, <2>4
    <3> QED
      BY <3>1, <2>1 DEF NoLostWakeup
  <2>11. ScannedEmpty'
    <3>1. nextReadIndex' \in 0 .. NumHals - 1
      BY <1>0, <2>6 DEF TypeOK
    <3>2. \A n, g \in Hals : ~((IF g < n THEN n - g ELSE n + NumHals - g) <= 0)
      BY <1>0
    <3>3. \A g \in Hals : ~(Behind(g)' <= 0)
      BY <3>1, <3>2, <1>0 DEF Behind
    <3> QED
      BY <2>1, <3>3 DEF ScannedEmpty
  <2> QED
    BY <2>6, <2>8, <2>9, <2>10, <2>11
<1>4. CASE PollWaits
  <2>1. /\ reader = "scan" /\ eventsRead = 0
        /\ waiting_for_data' = TRUE /\ reader' = "wait"
        /\ UNCHANGED <<queue, writer, region, written, published, empties,
                       eventsRead, maxReads, nextReadIndex, delivered>>
        /\ ~ (empties < NumHals)
    BY <1>0, <1>4 DEF PollWaits, Scanning, writerVars
  <2>2. TypeOK'
    BY <2>1 DEF TypeOK
  <2>3. \A g \in Hals : queue[g].size = 0
    <3>1. empties = NumHals
      BY <1>0, <2>1 DEF TypeOK
    <3>2. \A g \in Hals : Behind(g) <= NumHals
      BY <1>0 DEF Behind
    <3> QED
      BY <2>1, <3>1, <3>2 DEF ScannedEmpty
  <2>4. NoLostWakeup' /\ ScannedEmpty'
    BY <2>1, <2>3 DEF NoLostWakeup, ScannedEmpty
  <2> QED
    BY <1>a, <2>1, <2>2, <2>4
<1>5. CASE PollWakes
  <2>1. TypeOK'
    <3>1. 0 \in 0 .. NumHals
      BY <1>0
    <3> QED
      BY <3>1, <1>5 DEF TypeOK, PollWakes, writerVars
  <2>2. ScannedEmpty'
    <3>1. \A g \in Hals : ~(Behind(g)' <= 0)
      BY <1>0, <1>5 DEF Behind, PollWakes
    <3> QED
      BY <1>5, <3>1 DEF ScannedEmpty, PollWakes
  <2> QED
    BY <1>a, <1>5, <2>1, <2>2 DEF PollWakes, writerVars, NoLostWakeup
<1>6. CASE SpuriousReaderWakeup
  <2>1. TypeOK'
    BY <1>6 DEF TypeOK, SpuriousReaderWakeup, writerVars
  <2> QED
    BY <1>a, <1>6, <2>1
    DEF SpuriousReaderWakeup, writerVars, NoLostWakeup, ScannedEmpty
<1>7. CASE PollReturns
  <2>1. TypeOK'
    BY <1>7 DEF TypeOK, PollReturns, writerVars
  <2> QED
    BY <1>a, <1>7, <2>1 DEF PollReturns, writerVars, NoLostWakeup, ScannedEmpty
<1> QED
  BY <1>1, <1>2, <1>3, <1>4, <1>5, <1>6, <1>7 DEF Reader

\* IInv holds in every state the writer threads and poll() can reach: types,
\* safe regions, no lost wake-up, and the two facts these rest on (what poll()
\* has seen empty, and what a sub-HAL has stored behind the readable records).
THEOREM InvariantHolds == SafeSpec => []IInv
<1>1. IInv /\ [Next]_vars => IInv'
  <2> SUFFICES ASSUME IInv, [Next]_vars PROVE IInv'
    OBVIOUS
  <2>1. CASE Reader
    BY <2>1, ReaderInvariant
  <2>2. CASE \E h \in Hals : Writer(h)
    BY <2>2, WriterInvariant
  <2>3. CASE UNCHANGED vars
    BY <2>3 DEF vars, IInv, TypeOK, WriterRegionSafe, NoLostWakeup,
                ScannedEmpty, RegionHolds, Behind
  <2> QED
    BY <2>1, <2>2, <2>3 DEF Next
<1> QED
  BY <1>1, InitInvariant, PTL DEF SafeSpec

-----------------------------------------------------------------------------
(* The refinement.                                                         *)

\* The readable records as a sequence.
LEMMA ContentsFacts ==
    ASSUME NEW q \in QueueType
    PROVE  /\ Contents(q) \in Seq(SlotValues)
           /\ Len(Contents(q)) = q.size
           /\ \A i \in 1 .. q.size : /\ SlotOf(q, i) \in Slots
                                     /\ Contents(q)[i] = q.data[SlotOf(q, i)]
<1>1. /\ q.start \in Slots /\ q.size \in 0 .. QueueCapacity /\ q.size \in Nat
      /\ q.data \in [Slots -> SlotValues]
  BY QueueCapacityAssumption DEF QueueType
<1>2. ASSUME NEW i \in 1 .. q.size
      PROVE  SlotOf(q, i) \in Slots
  <2>1. i \in 1 .. QueueCapacity
    BY <1>1, QueueCapacityAssumption
  <2>2. SlotOf(q, i) = IF q.start + i - 1 < QueueCapacity
                       THEN q.start + i - 1
                       ELSE q.start + i - 1 - QueueCapacity
    BY <2>1, <1>1, SlotFacts
  <2> QED
    BY <2>1, <2>2, <1>1, QueueCapacityAssumption DEF Slots
<1>3. Contents(q) = [i \in 1 .. q.size |-> q.data[SlotOf(q, i)]]
  BY DEF Contents
<1>4. \A i \in 1 .. q.size : q.data[SlotOf(q, i)] \in SlotValues
  BY <1>1, <1>2
<1> HIDE DEF Contents
<1>5. Contents(q) \in [1 .. q.size -> SlotValues]
  BY <1>3, <1>4
<1>6. Contents(q) \in Seq(SlotValues) /\ Len(Contents(q)) = q.size
  BY <1>1, <1>5
<1> QED
  BY <1>2, <1>3, <1>6

\* A store outside the readable slots is not seen by the reader.
LEMMA ContentsOfStore ==
    ASSUME NEW q \in QueueType, NEW slot \in Slots, NEW event \in SlotValues,
           slot \notin ReadableSlots(q)
    PROVE  Contents(Store(q, slot, event)) = Contents(q)
<1> DEFINE s == Store(q, slot, event)
<1>1. /\ s.start = q.start /\ s.size = q.size
      /\ s.data = [q.data EXCEPT ![slot] = event]
  BY StoreFacts
<1>2. q.data \in [Slots -> SlotValues]
  BY DEF QueueType
<1>3. \A i \in 1 .. q.size : SlotOf(q, i) \in Slots /\ SlotOf(q, i) # slot
  BY ContentsFacts DEF ReadableSlots
<1> HIDE DEF s
<1>4. \A i \in 1 .. q.size : SlotOf(s, i) = SlotOf(q, i)
  BY <1>1 DEF SlotOf
<1>5. \A i \in 1 .. q.size : s.data[SlotOf(s, i)] = q.data[SlotOf(q, i)]
  BY <1>1, <1>2, <1>3, <1>4
<1>6. Contents(s) = Contents(q)
  BY <1>1, <1>5 DEF Contents
<1> QED
  BY <1>6 DEF s

\* markAsWritten appends the records stored from the first writable slot on.
LEMMA ContentsOfMark ==
    ASSUME NEW q \in QueueType, NEW n \in Nat, q.size + n <= QueueCapacity,
           FirstWritable(q) + n <= QueueCapacity
    PROVE  LET m == MarkAsWritten(q, n) IN
           /\ Len(Contents(m)) = Len(Contents(q)) + n
           /\ \A i \in 1 .. q.size : Contents(m)[i] = Contents(q)[i]
           /\ \A i \in 1 .. n :
                Contents(m)[q.size + i] = q.data[FirstWritable(q) + i - 1]
<1> DEFINE m == MarkAsWritten(q, n)
<1>1. /\ m \in QueueType /\ m.start = q.start
      /\ m.size = q.size + n /\ m.data = q.data
  BY MarkFacts
<1> HIDE DEF m
<1>2. q.start \in Slots /\ q.size \in 0 .. QueueCapacity /\ q.size \in Nat
  BY QueueCapacityAssumption DEF QueueType
<1>3. Len(Contents(m)) = Len(Contents(q)) + n
  BY <1>1, ContentsFacts
<1>4. ASSUME NEW i \in 1 .. q.size
      PROVE  Contents(m)[i] = Contents(q)[i]
  <2>1. i \in 1 .. m.size
    BY <1>1, <1>2
  <2>2. Contents(m)[i] = m.data[SlotOf(m, i)] /\ Contents(q)[i] = q.data[SlotOf(q, i)]
    BY <2>1, <1>1, ContentsFacts
  <2> QED
    BY <2>2, <1>1 DEF SlotOf
<1>5. ASSUME NEW i \in 1 .. n
      PROVE  Contents(m)[q.size + i] = q.data[FirstWritable(q) + i - 1]
  <2>1. q.size + i \in 1 .. m.size /\ q.size + i \in 1 .. QueueCapacity
    BY <1>1, <1>2, QueueCapacityAssumption
  <2>2. Contents(m)[q.size + i] = m.data[SlotOf(m, q.size + i)]
    BY <2>1, <1>1, ContentsFacts
  <2>3. SlotOf(q, q.size + i) = IF q.start + (q.size + i) - 1 < QueueCapacity
                                THEN q.start + (q.size + i) - 1
                                ELSE q.start + (q.size + i) - 1 - QueueCapacity
    BY <2>1, <1>2, SlotFacts
  <2>4. FirstWritable(q) = IF q.start + q.size < QueueCapacity
                           THEN q.start + q.size
                           ELSE q.start + q.size - QueueCapacity
    BY <1>2, SlotFacts
  <2>5. SlotOf(q, q.size + i) = FirstWritable(q) + i - 1
    BY <2>3, <2>4, <1>2, QueueCapacityAssumption DEF Slots
  <2> QED
    BY <2>2, <2>5, <1>1 DEF SlotOf
<1> QED
  BY <1>3, <1>4, <1>5 DEF m

\* dequeue removes the record that peek returned.
LEMMA ContentsOfDequeue ==
    ASSUME NEW q \in QueueType, q.size > 0
    PROVE  /\ Contents(q) # <<>>
           /\ Head(Contents(q)) = Peek(q)
           /\ Contents(Dequeue(q)) = Tail(Contents(q))
<1>1. /\ q.start \in Slots /\ q.size \in 1 .. QueueCapacity
      /\ Contents(q) \in Seq(SlotValues) /\ Len(Contents(q)) = q.size
  BY ContentsFacts, QueueCapacityAssumption DEF QueueType
<1>2. Contents(q) # <<>> /\ Head(Contents(q)) = Contents(q)[1]
  BY <1>1
<1>3. Contents(q)[1] = Peek(q)
  <2>1. 1 \in 1 .. q.size /\ 1 \in 1 .. QueueCapacity /\ q.size \in 0 .. QueueCapacity
    BY <1>1, QueueCapacityAssumption
  <2>2. SlotOf(q, 1) = IF q.start + 1 - 1 < QueueCapacity
                       THEN q.start + 1 - 1 ELSE q.start + 1 - 1 - QueueCapacity
    BY <2>1, <1>1, SlotFacts
  <2>3. SlotOf(q, 1) = q.start
    BY <2>2, <1>1, QueueCapacityAssumption DEF Slots
  <2> QED
    BY <2>1, <2>3, ContentsFacts DEF Peek
<1>4. Contents(Dequeue(q)) = Tail(Contents(q))
  <2> DEFINE d == Dequeue(q)
  <2>1. /\ d \in QueueType /\ d.size = q.size - 1 /\ d.data = q.data
        /\ \A i \in 1 .. q.size - 1 : SlotOf(d, i) = SlotOf(q, i + 1)
    BY DequeueFacts
  <2> HIDE DEF d
  <2>2. Contents(d) \in Seq(SlotValues) /\ Len(Contents(d)) = q.size - 1
    BY <2>1, ContentsFacts
  <2>3. /\ Tail(Contents(q)) \in Seq(SlotValues)
        /\ Len(Tail(Contents(q))) = q.size - 1
        /\ \A i \in 1 .. q.size - 1 : Tail(Contents(q))[i] = Contents(q)[i + 1]
    BY <1>1, <1>2
  <2>4. ASSUME NEW i \in 1 .. q.size - 1
        PROVE  Contents(d)[i] = Tail(Contents(q))[i]
    <3>1. i \in 1 .. d.size /\ i + 1 \in 1 .. q.size
      BY <2>1, <1>1
    <3>2. Contents(d)[i] = d.data[SlotOf(d, i)]
      BY <3>1, <2>1, ContentsFacts
    <3>3. Contents(q)[i + 1] = q.data[SlotOf(q, i + 1)]
      BY <3>1, ContentsFacts
    <3> QED
      BY <3>2, <3>3, <2>1, <2>3
  <2>5. Contents(d) = Tail(Contents(q))
    BY <2>2, <2>3, <2>4, <1>1
  <2> QED
    BY <2>5 DEF d
<1> QED
  BY <1>2, <1>3, <1>4

PendingOf == [h \in Hals |-> Contents(queue[h])]

\* A step that leaves every queue's contents, what was published and what was
\* delivered alone is a stutter of the channels.
LEMMA ChannelsStutter ==
    ASSUME UNCHANGED <<published, delivered>>,
           \A h \in Hals : Contents(queue'[h]) = Contents(queue[h])
    PROVE  UNCHANGED Channels!vars
BY DEF Channels!vars, Contents, SlotOf

\* Storing records behind the readable region is invisible; marking them as
\* written publishes the sub-HAL's next events.
LEMMA WriterRefines ==
    ASSUME IInv, NEW h \in Hals, Writer(h)
    PROVE  [Channels!Next]_(Channels!vars)
<1> USE DEF IInv
<1>0. queue[h] \in QueueType /\ queue \in [Hals -> QueueType]
  BY DEF TypeOK, QueueType
<1>1. CASE \/ WaitForSpace(h) \/ GetRegion(h) \/ DevicePollReturns(h)
           \/ DevicePollFails(h) \/ SpuriousWriterWakeup(h)
  <2>1. UNCHANGED <<queue, published, delivered>>
    BY <1>1 DEF WaitForSpace, GetRegion, DevicePollReturns, DevicePollFails,
                SpuriousWriterWakeup, readerVars
  <2> QED
    BY <2>1, ChannelsStutter
<1>2. CASE StoreEvent(h)
  <2> DEFINE slot == region[h].first + written[h]
  <2>1. PICK kind \in EventKinds[h] :
          queue' = [queue EXCEPT ![h] =
            Store(queue[h], slot, Event(published[h] + written[h] + 1, kind))]
    BY <1>2 DEF StoreEvent
  <2> DEFINE event == Event(published[h] + written[h] + 1, kind)
  <2>2. UNCHANGED <<published, delivered>>
    BY <1>2 DEF StoreEvent, readerVars
  <2>3. slot \in region[h].first .. region[h].first + region[h].len - 1
    <3>1. /\ written[h] < region[h].len /\ region[h].len \in 0 .. QueueCapacity
          /\ written[h] \in 0 .. QueueCapacity
          /\ region[h].first \in 0 .. QueueCapacity - 1
      BY <1>2 DEF StoreEvent, TypeOK, Slots
    <3> QED
      BY <3>1, QueueCapacityAssumption
  <2>4. slot \in Slots /\ slot \notin ReadableSlots(queue[h])
    BY <1>2, <2>3 DEF StoreEvent, WriterRegionSafe
  <2>5. event \in SlotValues
    <3>1. kind[1] \in {"data", "meta"} /\ kind[2] \in Nat
      BY MultiHalPollAssumption
    <3>2. published[h] \in Nat /\ written[h] \in Nat
      BY QueueCapacityAssumption DEF TypeOK
    <3> QED
      BY <3>1, <3>2 DEF Event, SlotValues
  <2> HIDE DEF slot, event
  <2>6. Contents(queue'[h]) = Contents(queue[h])
    BY <1>0, <2>1, <2>4, <2>5, ContentsOfStore DEF event
  <2>7. \A g \in Hals : Contents(queue'[g]) = Contents(queue[g])
    BY <1>0, <2>1, <2>6
  <2> QED
    BY <2>2, <2>7, ChannelsStutter
<1>3. CASE MarkWritten(h)
  <2> DEFINE n == written[h]
             m == MarkAsWritten(queue[h], n)
  <2>1. /\ writer[h] = "mark"
        /\ queue' = [queue EXCEPT ![h] = m]
        /\ published' = [published EXCEPT ![h] = published[h] + n]
        /\ delivered' = delivered
    BY <1>3 DEF MarkWritten
  <2>2. /\ n \in Nat /\ n > 0 /\ published[h] \in Nat /\ published \in [Hals -> Nat]
        /\ queue[h].size \in Nat
        /\ queue[h].size + n <= QueueCapacity
        /\ FirstWritable(queue[h]) + n <= QueueCapacity
        /\ \A i \in 1 .. n : queue[h].data[FirstWritable(queue[h]) + i - 1].id
                               = published[h] + i
    <3>1. /\ n \in 0 .. QueueCapacity /\ n <= region[h].len
          /\ region[h].len \in 0 .. QueueCapacity /\ region[h].first \in Slots
          /\ queue[h].size + region[h].len <= QueueCapacity
          /\ region[h].first + region[h].len <= QueueCapacity
          /\ region[h].first = FirstWritable(queue[h])
          /\ n > 0 /\ published \in [Hals -> Nat]
          /\ queue[h].size \in 0 .. QueueCapacity
          /\ \A i \in 1 .. n : queue[h].data[region[h].first + i - 1].id
                                 = published[h] + i
      BY <2>1 DEF TypeOK, WriterRegionSafe, RegionHolds
    <3> HIDE DEF n
    <3> QED
      BY <3>1, QueueCapacityAssumption DEF Slots
  <2>3. /\ Len(Contents(m)) = Len(Contents(queue[h])) + n
        /\ \A i \in 1 .. queue[h].size : Contents(m)[i] = Contents(queue[h])[i]
        /\ \A i \in 1 .. n : Contents(m)[queue[h].size + i]
                               = queue[h].data[FirstWritable(queue[h]) + i - 1]
    BY <1>0, <2>2, ContentsOfMark
  <2>4. Len(Contents(queue[h])) = queue[h].size
    BY <1>0, ContentsFacts
  <2> HIDE DEF m, n
  <2>5. /\ PendingOf[h] = Contents(queue[h]) /\ PendingOf'[h] = Contents(m)
        /\ PendingOf' = [PendingOf EXCEPT ![h] = PendingOf'[h]]
    BY <1>0, <2>1 DEF PendingOf
  <2>6. published'[h] - published[h] = n
    BY <2>1, <2>2
  <2>7. Channels!Publish(h)
    <3> DEFINE k == published'[h] - published[h]
    <3>1. /\ k > 0
          /\ published' = [published EXCEPT ![h] = published[h] + k]
          /\ Len(PendingOf'[h]) = Len(PendingOf[h]) + k
          /\ \A i \in 1 .. Len(PendingOf[h]) : PendingOf'[h][i] = PendingOf[h][i]
      BY <2>1, <2>2, <2>3, <2>4, <2>5, <2>6
    <3>2. \A i \in 1 .. k :
            PendingOf'[h][Len(PendingOf[h]) + i].id = published[h] + i
      <4>1. k = n /\ Len(PendingOf[h]) = queue[h].size
        BY <2>4, <2>5, <2>6
      <4>2. ASSUME NEW i \in 1 .. n
            PROVE  PendingOf'[h][queue[h].size + i].id = published[h] + i
        <5>1. Contents(m)[queue[h].size + i]
                = queue[h].data[FirstWritable(queue[h]) + i - 1]
          BY <2>3
        <5>2. queue[h].data[FirstWritable(queue[h]) + i - 1].id = published[h] + i
          BY <2>2
        <5> QED
          BY <2>5, <5>1, <5>2
      <4> HIDE DEF k
      <4> QED
        BY ONLY <4>1, <4>2
    <3> QED
      BY <2>1, <2>5, <3>1, <3>2 DEF Channels!Publish, PendingOf
  <2> QED
    BY <2>7 DEF Channels!Next
<1> QED
  BY <1>1, <1>2, <1>3 DEF Writer

\* The meta-data events in the rings name sensors of the list.
MetaSlotsListed ==
    \A h \in Hals : \A s \in Slots :
        queue[h].data[s].type = "meta" =>
            <<h, queue[h].data[s].meta>> \in DOMAIN FullToGlobal

\* Only a sub-HAL's stores put events there.
LEMMA MetaSlotsStayListed ==
    ASSUME MetaDataListed, IInv, MetaSlotsListed, [Next]_vars
    PROVE  MetaSlotsListed'
<1> USE DEF IInv
<1>0. queue \in [Hals -> QueueType]
  BY DEF TypeOK, QueueType
<1>1. CASE Reader \/ UNCHANGED vars
  <2>1. CASE ScanEvent
    <3>1. queue' = [queue EXCEPT ![nextReadIndex] = Dequeue(queue[nextReadIndex])]
      BY <2>1 DEF ScanEvent
    <3>2. Dequeue(queue[nextReadIndex]).data = queue[nextReadIndex].data
      BY <1>0 DEF Dequeue, TypeOK, QueueType
    <3>3. \A h \in Hals : queue'[h].data = queue[h].data
      BY <1>0, <3>1, <3>2
    <3> QED
      BY <3>3 DEF MetaSlotsListed
  <2>2. CASE UNCHANGED queue
    BY <2>2 DEF MetaSlotsListed
  <2> QED
    BY <1>1, <2>1, <2>2 DEF Reader, PollCall, ScanEmpty, PollWaits, PollWakes,
       SpuriousReaderWakeup, PollReturns, vars
<1>2. ASSUME NEW h \in Hals, Writer(h) PROVE MetaSlotsListed'
  <2>1. CASE UNCHANGED queue
    BY <2>1 DEF MetaSlotsListed
  <2>2. CASE MarkWritten(h)
    <3>1. queue' = [queue EXCEPT ![h] = MarkAsWritten(queue[h], written[h])]
      BY <2>2 DEF MarkWritten
    <3>2. MarkAsWritten(queue[h], written[h]).data = queue[h].data
      BY <1>0 DEF MarkAsWritten, QueueType
    <3>3. \A g \in Hals : queue'[g].data = queue[g].data
      BY <1>0, <3>1, <3>2
    <3> QED
      BY <3>3 DEF MetaSlotsListed
  <2>3. CASE StoreEvent(h)
    <3> DEFINE slot  == region[h].first + written[h]
    <3>1. PICK kind \in EventKinds[h] :
            queue' = [queue EXCEPT ![h] =
              Store(queue[h], slot, Event(published[h] + written[h] + 1, kind))]
      BY <2>3 DEF StoreEvent
    <3> DEFINE event == Event(published[h] + written[h] + 1, kind)
    <3>2. event.type = "meta" => <<h, event.meta>> \in DOMAIN FullToGlobal
      BY DEF Event, MetaDataListed
    <3> HIDE DEF slot, event
    <3>3. queue' = [queue EXCEPT ![h].data[slot] = event]
      BY <3>1 DEF Store, event
    <3>4. \A g \in Hals : \A s \in Slots :
            queue'[g].data[s] = IF g = h /\ s = slot THEN event ELSE queue[g].data[s]
      BY <1>0, <3>3 DEF QueueType
    <3> QED
      BY <3>2, <3>4 DEF MetaSlotsListed
  <2> QED
    BY <1>2, <2>1, <2>2, <2>3 DEF Writer, WaitForSpace, GetRegion,
       DevicePollReturns, DevicePollFails, SpuriousWriterWakeup
<1> QED
  BY <1>1, <1>2 DEF Next

\* What poll() passes up is what the channels deliver, and it drops an event
\* exactly when they do, if the sensors of its meta-data are listed.
LEMMA RemapIsTranslation ==
    ASSUME NEW h \in Hals, NEW event \in SlotValues,
           event.type = "meta" => <<h, event.meta>> \in DOMAIN FullToGlobal
    PROVE  LET up == copy_event_remap_handle(h, event) IN
           /\ up.sensor = -1 <=> ~Channels!Known(h, event)
           /\ up.sensor # -1 => up = Channels!Translated(h, event)
<1>1. /\ event.type \in {"data", "meta"} /\ event.sensor \in Nat
      /\ event.meta \in Nat
      /\ event = [id |-> event.id, type |-> event.type,
                  sensor |-> event.sensor, meta |-> event.meta]
  BY DEF SlotValues
<1>2. \A full \in DOMAIN FullToGlobal : FullToGlobal[full] \in Nat \ {0}
  BY MultiHalPollAssumption
<1>3. CASE event.type = "meta"
  BY <1>1, <1>3
  DEF copy_event_remap_handle, get_global_handle, Channels!Known,
      Channels!Translated
<1>4. CASE event.type = "data" /\ <<h, event.sensor>> \in DOMAIN FullToGlobal
  <2>1. FullToGlobal[<<h, event.sensor>>] # -1
    BY <1>2, <1>4
  <2> QED
    BY <1>1, <1>4, <2>1
    DEF copy_event_remap_handle, get_global_handle, Channels!Known,
        Channels!Translated
<1>5. CASE event.type = "data" /\ <<h, event.sensor>> \notin DOMAIN FullToGlobal
  BY <1>1, <1>5
  DEF copy_event_remap_handle, get_global_handle, Channels!Known
<1> QED
  BY <1>1, <1>3, <1>4, <1>5

\* Each event poll() dequeues is a Deliver or a Drop; the rest is invisible.
LEMMA ReaderRefines ==
    ASSUME IInv, MetaSlotsListed, Reader
    PROVE  [Channels!Next]_(Channels!vars)
<1> USE DEF IInv
<1>1. CASE \/ \E count \in MaxReads : PollCall(count)
           \/ ScanEmpty \/ PollWaits \/ PollWakes
           \/ SpuriousReaderWakeup \/ PollReturns
  <2>1. UNCHANGED <<queue, published, delivered>>
    BY <1>1 DEF PollCall, ScanEmpty, PollWaits, PollWakes,
                SpuriousReaderWakeup, PollReturns, writerVars
  <2> QED
    BY <2>1, ChannelsStutter
<1>2. CASE ScanEvent
  <2> DEFINE h     == nextReadIndex
             event == Peek(queue[h])
             up    == copy_event_remap_handle(h, event)
  <2>1. /\ h \in Hals /\ queue[h] \in QueueType /\ queue \in [Hals -> QueueType]
    BY DEF TypeOK, QueueType
  <2>2. /\ queue[h].size > 0 /\ published' = published
        /\ queue' = [queue EXCEPT ![h] = Dequeue(queue[h])]
        /\ IF up.sensor = -1 THEN delivered' = delivered
           ELSE delivered' = [delivered EXCEPT ![h] = Append(delivered[h], up)]
    BY <1>2 DEF ScanEvent
  <2>3. event \in SlotValues
    BY <2>1 DEF Peek, QueueType
  <2>4. /\ PendingOf[h] # <<>> /\ Head(PendingOf[h]) = event
        /\ PendingOf' = [PendingOf EXCEPT ![h] = Tail(PendingOf[h])]
    <3>1. /\ Contents(queue[h]) # <<>> /\ Head(Contents(queue[h])) = event
          /\ Contents(Dequeue(queue[h])) = Tail(Contents(queue[h]))
      BY <2>1, <2>2, ContentsOfDequeue
    <3> HIDE DEF event, h
    <3> QED
      BY <2>1, <2>2, <3>1 DEF PendingOf
  <2>5. /\ up.sensor = -1 <=> ~Channels!Known(h, event)
        /\ up.sensor # -1 => up = Channels!Translated(h, event)
    <3>1. event.type = "meta" => <<h, event.meta>> \in DOMAIN FullToGlobal
      BY <2>1 DEF MetaSlotsListed, Peek, QueueType
    <3> QED
      BY <2>1, <2>3, <3>1, RemapIsTranslation
  <2> HIDE DEF h, event, up
  <2>6. CASE up.sensor = -1
    <3>1. Channels!Drop(h)
      BY <2>2, <2>4, <2>5, <2>6 DEF Channels!Drop, PendingOf
    <3> QED
      BY <2>1, <3>1 DEF Channels!Next
  <2>7. CASE up.sensor # -1
    <3>1. Channels!Deliver(h)
      BY <2>2, <2>4, <2>5, <2>7 DEF Channels!Deliver, PendingOf
    <3> QED
      BY <2>1, <3>1 DEF Channels!Next
  <2> QED
    BY <2>6, <2>7
<1> QED
  BY <1>1, <1>2 DEF Reader

\* The event path implements one lossless FIFO per sub-HAL, for any number of
\* sub-HALs and any queue capacity, if every sensor that a sub-HAL sends
\* meta-data about is in the list (get_global_handle of the others is -1, which
\* poll() looks for in the wrong field, multihal.cpp 328-334 and 354).
THEOREM Refinement == MetaDataListed /\ SafeSpec => ImplementsChannels
<1> SUFFICES ASSUME MetaDataListed PROVE SafeSpec => ImplementsChannels
  OBVIOUS
<1>1. Init => Channels!Init /\ MetaSlotsListed
  <2> SUFFICES ASSUME Init PROVE Channels!Init /\ MetaSlotsListed
    OBVIOUS
  <2>1. \A h \in Hals : Contents(queue[h]) = <<>>
    BY DEF Init, Contents
  <2>2. MetaSlotsListed
    BY DEF Init, Blank, MetaSlotsListed
  <2> QED
    BY <2>1, <2>2 DEF Init, Channels!Init
<1>2. IInv /\ MetaSlotsListed /\ [Next]_vars => [Channels!Next]_(Channels!vars)
  <2> SUFFICES ASSUME IInv, MetaSlotsListed, [Next]_vars
               PROVE  [Channels!Next]_(Channels!vars)
    OBVIOUS
  <2>1. CASE Reader
    BY <2>1, ReaderRefines
  <2>2. CASE \E h \in Hals : Writer(h)
    BY <2>2, WriterRefines
  <2>3. CASE UNCHANGED vars
    BY <2>3, ChannelsStutter DEF vars
  <2> QED
    BY <2>1, <2>2, <2>3 DEF Next
<1>3. IInv /\ MetaSlotsListed /\ [Next]_vars => MetaSlotsListed'
  BY MetaSlotsStayListed
<1> QED
  BY <1>1, <1>2, <1>3, InvariantHolds, PTL
  DEF SafeSpec, ImplementsChannels, Channels!SafeSpec

\* Type correctness: no queue ever holds more records than its capacity and
\* poll() never stores more events than its caller's buffer takes, however
\* stores, markAsWritten, dequeue and wake-ups interleave.
THEOREM TypeCorrect == SafeSpec => []TypeOK
BY InvariantHolds, PTL DEF IInv

\* The pointer getWritableRegion hands out stays good without the lock: until
\* markAsWritten the region is inside the array, holds no readable record and
\* starts at the next slot to be read, however often poll() dequeues meanwhile.
THEOREM RegionSafety == SafeSpec => []WriterRegionSafe
BY InvariantHolds, PTL DEF IInv

\* No wake-up is lost: poll() sleeps on data_available_cond only while every
\* queue is empty and waiting_for_data tells writers to broadcast, and a writer
\* sleeps on mSpaceAvailableCondition only while its queue is full.
THEOREM WakeupSafety == SafeSpec => []NoLostWakeup
BY InvariantHolds, PTL DEF IInv

-----------------------------------------------------------------------------
(* The round robin.                                                        *)

\* A queue is passed over by fewer events than the scan has looked at queues
\* since it looked at this one.
FairnessInv == skipped \in [Hals -> Nat] /\ \A g \in Hals : skipped[g] < Behind(g)

\* A writer, or a step of poll() outside of its scan, takes no event and leaves
\* nextReadIndex alone.
LEMMA OnlyScanTakes ==
    ASSUME IInv, [Next]_vars, ~ScanEmpty, ~ScanEvent
    PROVE  nextReadIndex' = nextReadIndex /\ \A h \in Hals : ~Taken(h)
<1>0. queue \in [Hals -> QueueType] /\ \A h \in Hals : queue[h].size \in Nat
  BY QueueCapacityAssumption DEF IInv, TypeOK, QueueType
<1>1. CASE Reader \/ UNCHANGED vars
  <2>1. queue' = queue /\ nextReadIndex' = nextReadIndex
    BY <1>1 DEF Reader, PollCall, PollWaits, PollWakes, SpuriousReaderWakeup,
                PollReturns, vars
  <2> QED
    BY <1>0, <2>1 DEF Taken
<1>2. ASSUME NEW g \in Hals, Writer(g) PROVE \A h \in Hals : ~Taken(h)
  <2>1. CASE UNCHANGED queue
    BY <1>0, <2>1 DEF Taken
  <2>2. CASE StoreEvent(g)
    <3>1. PICK slot, event : queue' = [queue EXCEPT ![g] = Store(queue[g], slot, event)]
      BY <2>2 DEF StoreEvent
    <3>2. Store(queue[g], slot, event).size = queue[g].size
      BY <1>0 DEF Store, QueueType
    <3>3. \A h \in Hals : queue'[h].size = queue[h].size
      BY <1>0, <3>1, <3>2
    <3> QED
      BY <1>0, <3>3 DEF Taken
  <2>3. CASE MarkWritten(g)
    <3>1. queue' = [queue EXCEPT ![g] = MarkAsWritten(queue[g], written[g])]
      BY <2>3 DEF MarkWritten
    <3>2. MarkAsWritten(queue[g], written[g]).size = queue[g].size + written[g]
      BY DEF MarkAsWritten, IInv, TypeOK
    <3>3. /\ queue[g].size \in Nat /\ written[g] \in Nat
          /\ \A h \in Hals : queue[h].size \in Nat
          /\ \A h \in Hals : h # g => queue'[h].size = queue[h].size
          /\ queue'[g].size = queue[g].size + written[g]
      BY <3>1, <3>2, QueueCapacityAssumption DEF IInv, TypeOK
    <3> QED
      BY <3>3 DEF Taken
  <2> QED
    BY <1>2, <2>1, <2>2, <2>3 DEF Writer, WaitForSpace, GetRegion, DevicePollReturns,
       DevicePollFails, SpuriousWriterWakeup
<1>3. ASSUME NEW g \in Hals, Writer(g) PROVE nextReadIndex' = nextReadIndex
  BY <1>3 DEF Writer, WaitForSpace, GetRegion, StoreEvent, DevicePollReturns,
     DevicePollFails, MarkWritten, SpuriousWriterWakeup, readerVars
<1> QED
  BY <1>1, <1>2, <1>3 DEF Next, Reader

\* A queue is behind by one turn to NumHals.
LEMMA BehindTyped ==
    ASSUME TypeOK, NEW g \in Hals
    PROVE  /\ g \in Nat /\ nextReadIndex \in Nat /\ NumHals \in Nat \ {0}
           /\ g < NumHals /\ nextReadIndex < NumHals
           /\ Behind(g) \in 1 .. NumHals
<1>1. /\ g \in 0 .. NumHals - 1 /\ nextReadIndex \in 0 .. NumHals - 1
      /\ NumHals \in Nat \ {0}
  BY MultiHalPollAssumption DEF TypeOK, Hals
<1> QED
  BY <1>1 DEF Behind

\* A turn of the scan looks at queue nextReadIndex, and takes its event if it
\* holds one.
LEMMA ScanLooks ==
    ASSUME IInv, ScanEmpty \/ ScanEvent
    PROVE  /\ queue[nextReadIndex].size = 0 \/ Taken(nextReadIndex)
           /\ \A g \in Hals :
                Behind(g)' = IF g = nextReadIndex THEN 1 ELSE Behind(g) + 1
<1>1. nextReadIndex \in 0 .. NumHals - 1 /\ NumHals \in Nat \ {0} /\ Hals = 0 .. NumHals - 1
  BY MultiHalPollAssumption DEF IInv, TypeOK, Hals
<1>2. nextReadIndex' = IF nextReadIndex + 1 < NumHals THEN nextReadIndex + 1 ELSE 0
  BY NextIndexTyped DEF IInv, ScanEmpty, ScanEvent
<1>3. queue[nextReadIndex].size = 0 \/ Taken(nextReadIndex)
  <2>1. CASE ScanEvent
    <3>1. queue' = [queue EXCEPT ![nextReadIndex] = Dequeue(queue[nextReadIndex])]
      BY <2>1 DEF ScanEvent
    <3>2. queue[nextReadIndex].size \in Nat /\ queue[nextReadIndex].size > 0
      BY <2>1, QueueCapacityAssumption DEF ScanEvent, IInv, TypeOK
    <3>3. Dequeue(queue[nextReadIndex]).size = queue[nextReadIndex].size - 1
      BY <3>2 DEF Dequeue, IInv, TypeOK
    <3> QED
      BY <3>1, <3>2, <3>3 DEF Taken, IInv, TypeOK
  <2>2. CASE ScanEmpty
    BY <2>2 DEF ScanEmpty
  <2> QED
    BY <2>1, <2>2
<1>4. ASSUME NEW g \in Hals
      PROVE  Behind(g)' = IF g = nextReadIndex THEN 1 ELSE Behind(g) + 1
  <2>1. /\ g \in Nat /\ nextReadIndex \in Nat /\ NumHals \in Nat \ {0}
        /\ g < NumHals /\ nextReadIndex < NumHals
    BY BehindTyped DEF IInv
  <2> QED
    BY <1>2, <2>1 DEF Behind
<1> QED
  BY <1>3, <1>4

\* The oldest event of a sub-HAL is passed over by at most NumHals - 1 events
\* of the others, for any number of sub-HALs, calls of poll() and events:
\* nextReadIndex moves on after every queue and is kept between calls.
THEOREM RoundRobin == FairnessSpec => []BoundedOvertaking
<1>1. FairnessInit => FairnessInv
  BY MultiHalPollAssumption DEF FairnessInit, Init, FairnessInv, Behind, Hals
<1>2. IInv /\ FairnessInv /\ [FairnessNext]_<<vars, skipped>> => FairnessInv'
  <2> SUFFICES ASSUME IInv, FairnessInv, FairnessNext PROVE FairnessInv'
    BY DEF vars, FairnessInv, Behind
  <2>1. skipped' = [g \in Hals |->
          IF queue[g].size = 0 \/ Taken(g) THEN 0
          ELSE IF \E h \in Hals : Taken(h) THEN skipped[g] + 1
          ELSE skipped[g]]
    BY DEF FairnessNext
  <2>2. skipped' \in [Hals -> Nat]
    BY <2>1 DEF FairnessInv
  <2>3. \A g \in Hals : Behind(g) \in Nat \ {0} /\ skipped[g] \in Nat /\ skipped[g] < Behind(g)
    BY BehindTyped DEF IInv, FairnessInv
  <2>4. CASE ScanEmpty \/ ScanEvent
    <3>2. ASSUME NEW g \in Hals, g = nextReadIndex PROVE skipped'[g] < Behind(g)'
      <4>1. skipped'[g] = 0 /\ Behind(g)' = 1
        BY <2>1, <2>4, <3>2, ScanLooks
      <4> QED
        BY <4>1
    <3>3. ASSUME NEW g \in Hals, g # nextReadIndex PROVE skipped'[g] < Behind(g)'
      <4>1. skipped'[g] \in {0, skipped[g], skipped[g] + 1}
        BY <2>1
      <4>2. Behind(g)' = Behind(g) + 1
        BY <2>4, <3>3, ScanLooks
      <4> QED
        BY <2>3, <4>1, <4>2
    <3> QED
      BY <2>2, <3>2, <3>3 DEF FairnessInv
  <2>5. CASE ~ScanEmpty /\ ~ScanEvent
    <3>1. nextReadIndex' = nextReadIndex /\ \A h \in Hals : ~Taken(h)
      BY <2>5, OnlyScanTakes DEF FairnessNext
    <3> QED
      BY <2>1, <2>2, <2>3, <3>1 DEF FairnessInv, Behind
  <2> QED
    BY <2>4, <2>5
<1>3. IInv /\ FairnessInv => BoundedOvertaking
  <2> SUFFICES ASSUME IInv, FairnessInv, NEW g \in Hals PROVE skipped[g] <= NumHals - 1
    BY DEF BoundedOvertaking
  <2> QED
    BY BehindTyped DEF IInv, FairnessInv
<1>4. FairnessSpec => SafeSpec
  <2>1. FairnessInit => Init
    BY DEF FairnessInit
  <2>2. [FairnessNext]_<<vars, skipped>> => [Next]_vars
    BY DEF FairnessNext
  <2> QED
    BY <2>1, <2>2, PTL DEF FairnessSpec, SafeSpec
<1> QED
  BY <1>1, <1>2, <1>3, <1>4, InvariantHolds, PTL DEF FairnessSpec

=============================================================================
