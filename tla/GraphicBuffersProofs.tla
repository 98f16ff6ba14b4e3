------------------------- MODULE GraphicBuffersProofs -------------------------
(***************************************************************************)
(* Proofs about GraphicBuffers, for any numbers of buffers, handles and    *)
(* fences, any gralloc modules and any interleaving of the clients.        *)
(***************************************************************************)
EXTENDS GraphicBuffers, TLAPS

\* What a GraphicBuffer is at any time.
ObjectRecords ==
    [handle : Handles \cup {NULL}, mOwner : {"ownNone", "ownHandle", "ownData"},
     wraps : Buffers \cup {NULL}, size : Params \cup {NULL}]

\* What a call goes on with at each step.
Operands ==
    /\ DOMAIN operand = Buffers
    /\ \A b \in Buffers :
           /\ at[b] \in {"gone", "idle", "locked"} => operand[b] = NULL
           /\ at[b] \in {"alloc", "list"} => operand[b] \in Params
           /\ at[b] = "fill" => operand[b] \in Params \cup {NULL}
           /\ at[b] = "wait" => operand[b] \in Fences
           /\ at[b] = "unlist" =>
                 /\ operand[b].handle \in Handles
                 /\ \/ operand[b].next = "gone" /\ operand[b].with = NULL
                    \/ operand[b].next = "alloc" /\ operand[b].with \in Params
                    \/ operand[b].next = "fill" /\ operand[b].with \in Params \cup {NULL}

\* A call that drops or fills the handle has none yet, and initSize is for a
\* buffer that owns its data.
HandleAt ==
    \A b \in Buffers :
        /\ at[b] \in {"gone", "alloc", "unlist", "fill"} => buffer[b].handle = NULL
        /\ at[b] = "list" => buffer[b].handle # NULL
        /\ \/ at[b] \in {"alloc", "list"}
           \/ at[b] = "unlist" /\ operand[b].next = "alloc"
           => buffer[b].mOwner = "ownData"

\* A device handle whose record an earlier free is to remove is marked.
RecycledMarked ==
    \A b \in Buffers : at[b] = "unlist" /\ heap[operand[b].handle] = "device" =>
        operand[b].handle \in recycled

\* A buffer that is going has no wrappers, ...
GoingUnwrapped ==
    \A b \in Buffers :
        at[b] = "gone" \/ (at[b] = "unlist" /\ operand[b].next = "gone") =>
            \A w \in Buffers : buffer[w].wraps # b

\* ... wrapping goes round in no circle ...
NoCircle ==
    \A S \in SUBSET Buffers : S # {} => \E b \in S : buffer[b].wraps \notin S

\* ... and a wrapper has the handle of the buffer it wraps, until that drops it.
SharesHandle ==
    \A b \in Buffers :
        buffer[b].handle # NULL /\ buffer[b].mOwner = "ownNone" /\ b \notin stale =>
            \/ buffer[b].wraps = NULL /\ heap[buffer[b].handle] = "caller"
            \/ /\ buffer[b].wraps \in Buffers \ stale
               /\ buffer[buffer[b].wraps].handle = buffer[b].handle

\* A call that waits has a descriptor of its own, the one of its lock.
WaitsForHeld ==
    \A b \in Buffers : at[b] = "wait" =>
        /\ fence[operand[b]] = "held" /\ guard[b] = operand[b]
        /\ \A other \in Buffers \ {b} :
             at[other] = "wait" => operand[other] # operand[b]

IInv == /\ TypeOK /\ Operands /\ HandleAt /\ OwnedOnce /\ NothingElseLost
        /\ RecordsMatch /\ RecycledMarked /\ FencesRespected /\ WaitsForHeld
        /\ GoingUnwrapped /\ NoCircle /\ SharesHandle /\ WrapperHandleLive

-----------------------------------------------------------------------------
\* A step that changes no object, handle or record keeps what the invariant
\* says of them.
LEMMA UnchangedOwnership ==
    ASSUME UNCHANGED ownership, OwnedOnce, NothingElseLost, NoCircle, SharesHandle,
           WrapperHandleLive
    PROVE  /\ OwnedOnce' /\ NothingElseLost' /\ NoCircle'
           /\ SharesHandle' /\ WrapperHandleLive'
BY DEF ownership, OwnedOnce, Owns, NothingElseLost, NoCircle, SharesHandle,
       WrapperHandleLive

\* What wraps a wrapper of a buffer, or the buffer, is a wrapper of it.
LEMMA WrappersClosed ==
    ASSUME NEW b \in Buffers, NEW v \in Buffers,
           buffer[v].wraps \in Wrappers(b) \cup {b}
    PROVE  v \in Wrappers(b)
BY DEF Wrappers

\* A descriptor that is the call's becomes what the call makes of it.
LEMMA MarkOwn ==
    ASSUME TypeOK, NEW f, NEW state, Mark(f, state),
           f = NULL \/ f \in Fresh \/ (f \in Fences /\ fence[f] = "held")
    PROVE  /\ f \in Fences \cup {NULL}
           /\ f = NULL => fence' = fence
           /\ f # NULL => fence' = [fence EXCEPT ![f] = state]
           /\ f # NULL => fence[f] \in {"unused", "held"}
           /\ f # NULL /\ f \in Fresh => fence[f] = "unused"
BY GraphicBuffersAssumption DEF TypeOK, Mark, Fresh

\* A new GraphicBuffer without a handle.
LEMMA ConstructEmptyInv ==
    ASSUME IInv, NEW b \in Buffers, ConstructEmpty(b)
    PROVE  IInv'
<1>1. /\ buffer' \in [Buffers -> ObjectRecords]
      /\ \A o \in Buffers \ {b} : buffer'[o] = buffer[o]
  BY DEF IInv, TypeOK, ConstructEmpty, Blank, ObjectRecords
<1>2. TypeOK'
  BY <1>1 DEF IInv, TypeOK, ConstructEmpty, GoTo, fences, ObjectRecords
<1>3. Operands'
  BY DEF IInv, TypeOK, Operands, ConstructEmpty, GoTo
<1>4. HandleAt'
  BY DEF IInv, TypeOK, HandleAt, ConstructEmpty, GoTo
<1>5. OwnedOnce'
  BY DEF IInv, TypeOK, OwnedOnce, Owns, ConstructEmpty, Blank
<1>6. NothingElseLost'
  BY DEF IInv, TypeOK, HandleAt, NothingElseLost, Owns, ConstructEmpty
<1>7. RecordsMatch'
  BY DEF IInv, TypeOK, RecordsMatch, ConstructEmpty, GoTo
<1>8. RecycledMarked'
  BY DEF IInv, TypeOK, RecycledMarked, ConstructEmpty, GoTo
<1>9. FencesRespected' /\ WaitsForHeld'
  BY DEF IInv, TypeOK, FencesRespected, WaitsForHeld, ConstructEmpty, GoTo, fences
<1>10. GoingUnwrapped'
  BY GraphicBuffersAssumption
  DEF IInv, TypeOK, GoingUnwrapped, ConstructEmpty, Blank, GoTo
<1>11. NoCircle'
  BY DEF IInv, TypeOK, NoCircle, ConstructEmpty, Blank
<1>12. SharesHandle'
  BY DEF IInv, TypeOK, GoingUnwrapped, SharesHandle, ConstructEmpty, Blank
<1>13. WrapperHandleLive'
  BY DEF IInv, TypeOK, WrapperHandleLive, ConstructEmpty, Blank
<1>. QED
  BY <1>2, <1>3, <1>4, <1>5, <1>6, <1>7, <1>8, <1>9, <1>10, <1>11, <1>12, <1>13
  DEF IInv

\* A new GraphicBuffer that goes on to initSize.
LEMMA ConstructSizedInv ==
    ASSUME IInv, NEW b \in Buffers, NEW size \in Params, ConstructSized(b, size)
    PROVE  IInv'
<1>1. /\ buffer' \in [Buffers -> ObjectRecords]
      /\ \A o \in Buffers \ {b} : buffer'[o] = buffer[o]
  BY DEF IInv, TypeOK, ConstructSized, Blank, ObjectRecords
<1>2. TypeOK'
  BY <1>1 DEF IInv, TypeOK, ConstructSized, Step, GoTo, fences, ObjectRecords
<1>3. Operands'
  BY DEF IInv, TypeOK, Operands, ConstructSized, Step, GoTo
<1>4. HandleAt'
  BY DEF IInv, TypeOK, HandleAt, ConstructSized, Blank, Step, GoTo
<1>5. OwnedOnce'
  BY DEF IInv, TypeOK, OwnedOnce, Owns, ConstructSized, Blank
<1>6. NothingElseLost'
  BY DEF IInv, TypeOK, HandleAt, NothingElseLost, Owns, ConstructSized
<1>7. RecordsMatch'
  BY DEF IInv, TypeOK, RecordsMatch, ConstructSized, Step, GoTo
<1>8. RecycledMarked'
  BY DEF IInv, TypeOK, RecycledMarked, ConstructSized, Step, GoTo
<1>9. FencesRespected' /\ WaitsForHeld'
  BY DEF IInv, TypeOK, FencesRespected, WaitsForHeld, ConstructSized, Step, GoTo, fences
<1>10. GoingUnwrapped'
  BY GraphicBuffersAssumption
  DEF IInv, TypeOK, GoingUnwrapped, ConstructSized, Blank, Step, GoTo
<1>11. NoCircle'
  BY DEF IInv, TypeOK, NoCircle, ConstructSized, Blank
<1>12. SharesHandle'
  BY DEF IInv, TypeOK, GoingUnwrapped, SharesHandle, ConstructSized, Blank
<1>13. WrapperHandleLive'
  BY DEF IInv, TypeOK, WrapperHandleLive, ConstructSized, Blank
<1>. QED
  BY <1>2, <1>3, <1>4, <1>5, <1>6, <1>7, <1>8, <1>9, <1>10, <1>11, <1>12, <1>13
  DEF IInv

\* A new GraphicBuffer around a handle of its caller, which it takes over or
\* not.
LEMMA ConstructAroundInv ==
    ASSUME IInv, NEW b \in Buffers, NEW h \in Handles, NEW size \in Params,
           NEW keepOwnership \in BOOLEAN, ConstructAround(b, h, size, keepOwnership)
    PROVE  IInv'
<1>1. /\ buffer' \in [Buffers -> ObjectRecords]
      /\ \A o \in Buffers \ {b} : buffer'[o] = buffer[o]
  BY DEF IInv, TypeOK, ConstructAround, ObjectRecords
<1>2. TypeOK'
  BY DEF IInv, TypeOK, ConstructAround, GoTo, fences
<1>3. Operands'
  BY DEF IInv, TypeOK, Operands, ConstructAround, GoTo
<1>4. HandleAt'
  BY DEF IInv, TypeOK, HandleAt, ConstructAround, GoTo
<1>5. OwnedOnce'
  BY DEF IInv, TypeOK, OwnedOnce, Owns, ConstructAround
<1>6. NothingElseLost'
  BY GraphicBuffersAssumption
  DEF IInv, TypeOK, HandleAt, NothingElseLost, Owns, ConstructAround
<1>7. RecordsMatch'
  BY DEF IInv, TypeOK, RecordsMatch, ConstructAround, GoTo
<1>8. RecycledMarked'
  BY DEF IInv, TypeOK, RecycledMarked, ConstructAround, GoTo
<1>9. FencesRespected' /\ WaitsForHeld'
  BY DEF IInv, TypeOK, FencesRespected, WaitsForHeld, ConstructAround, GoTo, fences
<1>10. GoingUnwrapped'
  BY GraphicBuffersAssumption
  DEF IInv, TypeOK, GoingUnwrapped, ConstructAround, GoTo
<1>11. NoCircle'
  BY DEF IInv, TypeOK, NoCircle, ConstructAround
<1>12. SharesHandle'
  BY DEF IInv, TypeOK, GoingUnwrapped, SharesHandle, ConstructAround
<1>13. WrapperHandleLive'
  BY DEF IInv, TypeOK, WrapperHandleLive, ConstructAround
<1>. QED
  BY <1>2, <1>3, <1>4, <1>5, <1>6, <1>7, <1>8, <1>9, <1>10, <1>11, <1>12, <1>13
  DEF IInv

\* A new GraphicBuffer around the native buffer of another, to which it keeps a
\* reference.
LEMMA ConstructWrapperInv ==
    ASSUME IInv, NEW b \in Buffers, NEW other \in Buffers \ {b},
           ConstructWrapper(b, other)
    PROVE  IInv'
<1>1. /\ buffer' \in [Buffers -> ObjectRecords]
      /\ \A o \in Buffers \ {b} : buffer'[o] = buffer[o]
  <2>1. buffer[other] \in ObjectRecords
    BY DEF IInv, TypeOK, ObjectRecords
  <2>2. buffer' = [buffer EXCEPT ![b] = Wrapping(other)]
    BY DEF ConstructWrapper
  <2>3. Wrapping(other) \in ObjectRecords
    BY <2>1 DEF Wrapping, ObjectRecords
  <2>4. buffer \in [Buffers -> ObjectRecords]
    BY DEF IInv, TypeOK, ObjectRecords
  <2>. QED
    BY <2>2, <2>3, <2>4
<1>2. TypeOK'
  BY <1>1 DEF IInv, TypeOK, ConstructWrapper, GoTo, fences, ObjectRecords
<1>3. Operands'
  BY DEF IInv, TypeOK, Operands, ConstructWrapper, GoTo
<1>4. HandleAt'
  BY DEF IInv, TypeOK, HandleAt, ConstructWrapper, GoTo
<1>5. OwnedOnce'
  BY DEF IInv, TypeOK, OwnedOnce, Owns, ConstructWrapper, Wrapping
<1>6. NothingElseLost'
  BY DEF IInv, TypeOK, HandleAt, NothingElseLost, Owns, ConstructWrapper
<1>7. RecordsMatch'
  BY DEF IInv, TypeOK, RecordsMatch, ConstructWrapper, GoTo
<1>8. RecycledMarked'
  BY DEF IInv, TypeOK, RecycledMarked, ConstructWrapper, GoTo
<1>9. FencesRespected' /\ WaitsForHeld'
  BY DEF IInv, TypeOK, FencesRespected, WaitsForHeld, ConstructWrapper, GoTo, fences
<1>10. GoingUnwrapped'
  BY DEF IInv, TypeOK, GoingUnwrapped, ConstructWrapper, Wrapping, GoTo
<1>11. NoCircle'
  <2>1. SUFFICES ASSUME NEW S \in SUBSET Buffers, S # {}
                 PROVE  \E v \in S : buffer'[v].wraps \notin S
    BY DEF NoCircle
  <2>2. \A w \in Buffers : buffer[w].wraps # b
    BY DEF IInv, GoingUnwrapped, ConstructWrapper
  <2>3. CASE S \ {b} = {}
    <3>1. S = {b} /\ buffer'[b].wraps = other
      BY <2>1, <2>3 DEF IInv, TypeOK, ConstructWrapper, Wrapping
    <3>. QED BY <3>1
  <2>4. CASE S \ {b} # {}
    <3>1. PICK v \in S \ {b} : buffer[v].wraps \notin S \ {b}
      BY <2>4 DEF IInv, NoCircle
    <3>. QED BY <1>1, <2>2, <3>1
  <2>. QED BY <2>3, <2>4
<1>12. SharesHandle'
  BY DEF IInv, TypeOK, GoingUnwrapped, SharesHandle, ConstructWrapper, Wrapping
<1>13. WrapperHandleLive'
  BY DEF IInv, TypeOK, OwnedOnce, Owns, WrapperHandleLive, ConstructWrapper,
         Wrapping
<1>. QED
  BY <1>2, <1>3, <1>4, <1>5, <1>6, <1>7, <1>8, <1>9, <1>10, <1>11, <1>12, <1>13
  DEF IInv

\* A caller deletes a handle that it kept; what wraps it had its chance.
LEMMA CallerDeletesInv ==
    ASSUME IInv, NEW h \in Handles, CallerDeletes(h)
    PROVE  IInv'
<1>2. TypeOK'
  BY DEF IInv, TypeOK, CallerDeletes, fences
<1>3. Operands'
  BY DEF IInv, TypeOK, Operands, CallerDeletes
<1>4. HandleAt'
  BY DEF IInv, TypeOK, HandleAt, CallerDeletes
<1>5. OwnedOnce'
  BY DEF IInv, TypeOK, OwnedOnce, Owns, CallerDeletes
<1>6. NothingElseLost'
  BY DEF IInv, TypeOK, NothingElseLost, Owns, CallerDeletes
<1>7. RecordsMatch'
  BY DEF IInv, TypeOK, RecordsMatch, CallerDeletes
<1>8. RecycledMarked'
  BY DEF IInv, TypeOK, RecycledMarked, CallerDeletes
<1>9. FencesRespected' /\ WaitsForHeld'
  BY DEF IInv, TypeOK, FencesRespected, WaitsForHeld, CallerDeletes, fences
<1>10. GoingUnwrapped'
  BY DEF IInv, TypeOK, GoingUnwrapped, CallerDeletes
<1>11. NoCircle'
  BY DEF IInv, TypeOK, NoCircle, CallerDeletes
<1>12. SharesHandle'
  BY DEF IInv, TypeOK, SharesHandle, CallerDeletes
<1>13. WrapperHandleLive'
  BY DEF IInv, TypeOK, WrapperHandleLive, CallerDeletes
<1>. QED
  BY <1>2, <1>3, <1>4, <1>5, <1>6, <1>7, <1>8, <1>9, <1>10, <1>11, <1>12, <1>13
  DEF IInv

\* The device hands out a free address, and the object owns its data before the
\* allocator has its record.
LEMMA DeviceAllocatesInv ==
    ASSUME IInv, NEW b \in Buffers, NEW h \in Handles, DeviceAllocates(b, h)
    PROVE  IInv'
<1>1. /\ buffer' \in [Buffers -> ObjectRecords]
      /\ \A o \in Buffers \ {b} : buffer'[o] = buffer[o]
  BY DEF IInv, TypeOK, DeviceAllocates, ObjectRecords
<1>2. TypeOK'
  BY DEF IInv, TypeOK, DeviceAllocates, GoTo, fences
<1>3. Operands'
  BY DEF IInv, TypeOK, Operands, DeviceAllocates, GoTo
<1>4. HandleAt'
  BY GraphicBuffersAssumption DEF IInv, TypeOK, HandleAt, DeviceAllocates, GoTo
<1>5. OwnedOnce'
  BY DEF IInv, TypeOK, HandleAt, OwnedOnce, Owns, DeviceAllocates
<1>6. NothingElseLost'
  BY GraphicBuffersAssumption
  DEF IInv, TypeOK, HandleAt, NothingElseLost, Owns, DeviceAllocates
<1>7. RecordsMatch'
  BY DEF IInv, TypeOK, RecordsMatch, DeviceAllocates, GoTo
<1>8. RecycledMarked'
  BY DEF IInv, TypeOK, RecycledMarked, DeviceAllocates, GoTo
<1>9. FencesRespected' /\ WaitsForHeld'
  BY DEF IInv, TypeOK, FencesRespected, WaitsForHeld, DeviceAllocates, GoTo, fences
<1>10. GoingUnwrapped'
  BY DEF IInv, TypeOK, GoingUnwrapped, DeviceAllocates, GoTo
<1>11. NoCircle'
  BY DEF IInv, TypeOK, NoCircle, DeviceAllocates
<1>12. SharesHandle'
  BY DEF IInv, TypeOK, HandleAt, SharesHandle, DeviceAllocates
<1>13. WrapperHandleLive'
  BY DEF IInv, TypeOK, WrapperHandleLive, DeviceAllocates
<1>. QED
  BY <1>2, <1>3, <1>4, <1>5, <1>6, <1>7, <1>8, <1>9, <1>10, <1>11, <1>12, <1>13
  DEF IInv

\* The device refuses to allocate.
LEMMA DeviceAllocFailsInv ==
    ASSUME IInv, NEW b \in Buffers, DeviceAllocFails(b)
    PROVE  IInv'
<1>2. /\ OwnedOnce' /\ NothingElseLost' /\ NoCircle'
      /\ SharesHandle' /\ WrapperHandleLive'
  BY UnchangedOwnership DEF IInv, DeviceAllocFails
<1>3. TypeOK'
  BY DEF IInv, TypeOK, DeviceAllocFails, Step, GoTo, ownership, fences
<1>4. Operands'
  BY DEF IInv, TypeOK, Operands, DeviceAllocFails, Step, GoTo
<1>5. HandleAt'
  BY DEF IInv, TypeOK, HandleAt, DeviceAllocFails, Step, GoTo, ownership
<1>6. RecordsMatch'
  BY DEF IInv, TypeOK, RecordsMatch, DeviceAllocFails, Step, GoTo, ownership
<1>7. RecycledMarked'
  BY DEF IInv, TypeOK, RecycledMarked, DeviceAllocFails, Step, GoTo, ownership
<1>8. FencesRespected' /\ WaitsForHeld'
  BY DEF IInv, TypeOK, FencesRespected, WaitsForHeld, DeviceAllocFails, Step, GoTo, fences
<1>9. GoingUnwrapped'
  BY DEF IInv, TypeOK, GoingUnwrapped, DeviceAllocFails, Step, GoTo, ownership
<1>. QED BY <1>2, <1>3, <1>4, <1>5, <1>6, <1>7, <1>8, <1>9 DEF IInv

\* The allocator adds the record of a handle it just got, under sLock.
LEMMA ListAddInv ==
    ASSUME IInv, NEW b \in Buffers, ListAdd(b)
    PROVE  IInv'
<1>2. TypeOK'
  BY DEF IInv, TypeOK, Operands, HandleAt, ListAdd, Step, GoTo, fences
<1>3. Operands'
  BY DEF IInv, TypeOK, Operands, ListAdd, Step, GoTo
<1>4. HandleAt'
  BY DEF IInv, TypeOK, HandleAt, ListAdd, Step, GoTo
<1>5. OwnedOnce'
  BY DEF IInv, TypeOK, OwnedOnce, Owns, ListAdd
<1>6. NothingElseLost'
  BY DEF IInv, TypeOK, NothingElseLost, Owns, ListAdd
<1>7. RecordsMatch'
  BY DEF IInv, TypeOK, HandleAt, OwnedOnce, Owns, RecordsMatch, ListAdd, Step,
         GoTo
<1>8. RecycledMarked'
  BY DEF IInv, TypeOK, RecycledMarked, ListAdd, Step, GoTo
<1>9. FencesRespected' /\ WaitsForHeld'
  BY DEF IInv, TypeOK, FencesRespected, WaitsForHeld, ListAdd, Step, GoTo, fences
<1>10. GoingUnwrapped'
  BY DEF IInv, TypeOK, GoingUnwrapped, ListAdd, Step, GoTo
<1>11. NoCircle'
  BY DEF IInv, TypeOK, NoCircle, ListAdd
<1>12. SharesHandle'
  BY DEF IInv, TypeOK, SharesHandle, ListAdd
<1>13. WrapperHandleLive'
  BY DEF IInv, TypeOK, WrapperHandleLive, ListAdd
<1>. QED
  BY <1>2, <1>3, <1>4, <1>5, <1>6, <1>7, <1>8, <1>9, <1>10, <1>11, <1>12, <1>13
  DEF IInv

\* The allocator removes the record of a handle it freed: a record added
\* meanwhile for the same address goes with it.
LEMMA ListRemoveInv ==
    ASSUME IInv, NEW b \in Buffers, ListRemove(b)
    PROVE  IInv'
<1>2. TypeOK'
  BY DEF IInv, TypeOK, Operands, ListRemove, Unlisted, Step, GoTo, fences
<1>3. Operands'
  BY DEF IInv, TypeOK, Operands, ListRemove, Step, GoTo
<1>4. HandleAt'
  BY DEF IInv, TypeOK, Operands, HandleAt, ListRemove, Step, GoTo
<1>5. OwnedOnce'
  BY DEF IInv, TypeOK, OwnedOnce, Owns, ListRemove
<1>6. NothingElseLost'
  BY DEF IInv, TypeOK, NothingElseLost, Owns, ListRemove
<1>7. RecordsMatch'
  BY DEF IInv, TypeOK, RecordsMatch, RecycledMarked, ListRemove, Unlisted, Step,
         GoTo
<1>8. RecycledMarked'
  BY DEF IInv, TypeOK, Operands, RecycledMarked, ListRemove, Step, GoTo
<1>9. FencesRespected' /\ WaitsForHeld'
  BY DEF IInv, TypeOK, Operands, FencesRespected, WaitsForHeld, ListRemove, Step, GoTo, fences
<1>10. GoingUnwrapped'
  BY DEF IInv, TypeOK, Operands, GoingUnwrapped, ListRemove, Step, GoTo
<1>11. NoCircle'
  BY DEF IInv, TypeOK, NoCircle, ListRemove
<1>12. SharesHandle'
  BY DEF IInv, TypeOK, SharesHandle, ListRemove
<1>13. WrapperHandleLive'
  BY DEF IInv, TypeOK, WrapperHandleLive, ListRemove
<1>. QED
  BY <1>2, <1>3, <1>4, <1>5, <1>6, <1>7, <1>8, <1>9, <1>10, <1>11, <1>12, <1>13
  DEF IInv

\* unflatten returns on absurd counts with the old handle dropped and nothing
\* in its place.
LEMMA UnflattenTooLargeInv ==
    ASSUME IInv, NEW b \in Buffers, UnflattenTooLarge(b)
    PROVE  IInv'
<1>1. /\ buffer' \in [Buffers -> ObjectRecords]
      /\ \A o \in Buffers \ {b} : buffer'[o] = buffer[o]
  <2>1. buffer[b] \in ObjectRecords
    BY DEF IInv, TypeOK, ObjectRecords
  <2>2. buffer \in [Buffers -> ObjectRecords]
    BY DEF IInv, TypeOK, ObjectRecords
  <2>3. buffer' = [buffer EXCEPT ![b] =
                     [buffer[b] EXCEPT !.handle = NULL, !.size = NULL]]
    BY <2>2 DEF UnflattenTooLarge
  <2>4. [buffer[b] EXCEPT !.handle = NULL, !.size = NULL] \in ObjectRecords
    BY <2>1 DEF ObjectRecords
  <2>. QED
    BY <2>2, <2>3, <2>4
<1>2. TypeOK'
  BY <1>1 DEF IInv, TypeOK, UnflattenTooLarge, fences, ObjectRecords
<1>3. Operands'
  BY DEF IInv, TypeOK, Operands, UnflattenTooLarge
<1>4. HandleAt'
  BY DEF IInv, TypeOK, HandleAt, UnflattenTooLarge, Idle
<1>5. OwnedOnce'
  BY DEF IInv, TypeOK, OwnedOnce, Owns, UnflattenTooLarge
<1>6. NothingElseLost'
  BY DEF IInv, TypeOK, NothingElseLost, Owns, UnflattenTooLarge
<1>7. RecordsMatch'
  BY DEF IInv, TypeOK, RecordsMatch, UnflattenTooLarge, Idle
<1>8. RecycledMarked'
  BY DEF IInv, TypeOK, RecycledMarked, UnflattenTooLarge
<1>9. FencesRespected' /\ WaitsForHeld'
  BY DEF IInv, TypeOK, FencesRespected, WaitsForHeld, UnflattenTooLarge, fences
<1>10. GoingUnwrapped'
  BY DEF IInv, TypeOK, GoingUnwrapped, UnflattenTooLarge
<1>11. NoCircle'
  BY DEF IInv, TypeOK, NoCircle, UnflattenTooLarge
<1>12. SharesHandle'
  <2>1. /\ buffer'[b].handle = NULL
        /\ heap' = heap
        /\ \/ stale' = stale /\ buffer[b].handle = NULL
           \/ stale' = stale \cup Wrappers(b)
    BY DEF IInv, TypeOK, UnflattenTooLarge
  <2>2. SUFFICES ASSUME NEW v \in Buffers, buffer'[v].handle # NULL,
                        buffer'[v].mOwner = "ownNone", v \notin stale'
                 PROVE  \/ buffer'[v].wraps = NULL /\ heap'[buffer'[v].handle] = "caller"
                        \/ /\ buffer'[v].wraps \in Buffers \ stale'
                           /\ buffer'[buffer'[v].wraps].handle = buffer'[v].handle
    BY DEF SharesHandle
  <2>3. v # b /\ buffer'[v] = buffer[v] /\ v \notin stale
    BY <1>1, <2>1, <2>2
  <2>4. CASE buffer[v].wraps = NULL /\ heap[buffer[v].handle] = "caller"
    BY <2>1, <2>3, <2>4
  <2>5. CASE /\ buffer[v].wraps \in Buffers \ stale
             /\ buffer[buffer[v].wraps].handle = buffer[v].handle
    <3>1. buffer[v].wraps # b /\ buffer[v].wraps \notin stale'
      BY <2>1, <2>2, <2>3, <2>5, WrappersClosed DEF IInv, TypeOK
    <3>. QED BY <1>1, <2>3, <2>5, <3>1
  <2>. QED BY <2>2, <2>3, <2>4, <2>5 DEF IInv, SharesHandle
<1>13. WrapperHandleLive'
  BY DEF IInv, TypeOK, WrapperHandleLive, UnflattenTooLarge
<1>. QED
  BY <1>2, <1>3, <1>4, <1>5, <1>6, <1>7, <1>8, <1>9, <1>10, <1>11, <1>12, <1>13
  DEF IInv

\* unflatten of a message without a handle.
LEMMA FillEmptyInv ==
    ASSUME IInv, NEW b \in Buffers, FillEmpty(b)
    PROVE  IInv'
<1>1. /\ buffer' \in [Buffers -> ObjectRecords]
      /\ \A o \in Buffers \ {b} : buffer'[o] = buffer[o]
  <2>1. buffer[b] \in ObjectRecords
    BY DEF IInv, TypeOK, ObjectRecords
  <2>2. buffer' = [buffer EXCEPT ![b] = buffer'[b]] /\ buffer'[b] = 
                 [handle |-> NULL, mOwner |-> buffer'[b].mOwner,
                  wraps |-> buffer[b].wraps, size |-> NULL]
      /\ buffer'[b].mOwner \in {"ownHandle", buffer[b].mOwner}
    <3>1. PICK owner \in {"ownHandle", buffer[b].mOwner} :
            buffer' = [buffer EXCEPT ![b].handle = NULL, ![b].size = NULL,
                                     ![b].mOwner = owner]
      BY DEF FillEmpty
    <3>. QED BY <2>1, <3>1 DEF IInv, TypeOK, ObjectRecords
  <2>. QED
    BY <2>1, <2>2, GraphicBuffersAssumption
    DEF IInv, TypeOK, Operands, ObjectRecords
<1>2. TypeOK'
  BY <1>1 DEF IInv, TypeOK, FillEmpty, Step, GoTo, fences, ObjectRecords
<1>3. Operands'
  BY DEF IInv, TypeOK, Operands, FillEmpty, Step, GoTo
<1>4. HandleAt'
  BY DEF IInv, TypeOK, HandleAt, FillEmpty, Step, GoTo
<1>5. OwnedOnce'
  BY DEF IInv, TypeOK, OwnedOnce, Owns, FillEmpty
<1>6. NothingElseLost'
  BY DEF IInv, TypeOK, HandleAt, NothingElseLost, Owns, FillEmpty
<1>7. RecordsMatch'
  BY DEF IInv, TypeOK, RecordsMatch, FillEmpty, Step, GoTo
<1>8. RecycledMarked'
  BY DEF IInv, TypeOK, RecycledMarked, FillEmpty, Step, GoTo
<1>9. FencesRespected' /\ WaitsForHeld'
  BY DEF IInv, TypeOK, FencesRespected, WaitsForHeld, FillEmpty, Step, GoTo, fences
<1>10. GoingUnwrapped'
  BY DEF IInv, TypeOK, GoingUnwrapped, FillEmpty, Step, GoTo
<1>11. NoCircle'
  BY DEF IInv, TypeOK, NoCircle, FillEmpty
<1>12. SharesHandle'
  BY DEF IInv, TypeOK, HandleAt, SharesHandle, FillEmpty
<1>13. WrapperHandleLive'
  BY DEF IInv, TypeOK, WrapperHandleLive, FillEmpty
<1>. QED
  BY <1>2, <1>3, <1>4, <1>5, <1>6, <1>7, <1>8, <1>9, <1>10, <1>11, <1>12, <1>13
  DEF IInv

\* unflatten creates a handle and registers it; one that is not registered is
\* lost.
LEMMA FillHandleInv ==
    ASSUME IInv, NEW b \in Buffers, NEW h \in Handles, FillHandle(b, h)
    PROVE  IInv'
<1>1. /\ buffer' \in [Buffers -> ObjectRecords]
      /\ \A o \in Buffers \ {b} : buffer'[o] = buffer[o]
  BY DEF IInv, TypeOK, FillHandle, ObjectRecords
<1>2. TypeOK'
  BY DEF IInv, TypeOK, FillHandle, Step, GoTo, fences
<1>3. Operands'
  BY DEF IInv, TypeOK, Operands, FillHandle, Step, GoTo
<1>4. HandleAt'
  BY DEF IInv, TypeOK, HandleAt, FillHandle, Step, GoTo
<1>5. OwnedOnce'
  BY DEF IInv, TypeOK, OwnedOnce, Owns, FillHandle
<1>6. NothingElseLost'
  BY GraphicBuffersAssumption
  DEF IInv, TypeOK, HandleAt, NothingElseLost, Owns, FillHandle
<1>7. RecordsMatch'
  BY DEF IInv, TypeOK, RecordsMatch, FillHandle, Step, GoTo
<1>8. RecycledMarked'
  BY DEF IInv, TypeOK, RecycledMarked, FillHandle, Step, GoTo
<1>9. FencesRespected' /\ WaitsForHeld'
  BY DEF IInv, TypeOK, FencesRespected, WaitsForHeld, FillHandle, Step, GoTo, fences
<1>10. GoingUnwrapped'
  BY DEF IInv, TypeOK, GoingUnwrapped, FillHandle, Step, GoTo
<1>11. NoCircle'
  BY DEF IInv, TypeOK, NoCircle, FillHandle
<1>12. SharesHandle'
  BY DEF IInv, TypeOK, HandleAt, SharesHandle, FillHandle
<1>13. WrapperHandleLive'
  BY DEF IInv, TypeOK, WrapperHandleLive, FillHandle
<1>. QED
  BY <1>2, <1>3, <1>4, <1>5, <1>6, <1>7, <1>8, <1>9, <1>10, <1>11, <1>12, <1>13
  DEF IInv

\* lock and lockYCbCr pass no fence.
LEMMA lockInv ==
    ASSUME IInv, NEW b \in Buffers, lock(b)
    PROVE  IInv'
<1>2. /\ OwnedOnce' /\ NothingElseLost' /\ NoCircle'
      /\ SharesHandle' /\ WrapperHandleLive'
  BY UnchangedOwnership DEF IInv, lock
<1>3. TypeOK'
  BY DEF IInv, TypeOK, lock, ModuleLocks, GoTo, ownership, fences, Guarded
<1>4. Operands'
  BY DEF IInv, TypeOK, Operands, lock, ModuleLocks, GoTo, Idle
<1>5. HandleAt'
  BY DEF IInv, TypeOK, HandleAt, lock, ModuleLocks, GoTo, ownership
<1>6. RecordsMatch'
  BY DEF IInv, TypeOK, RecordsMatch, lock, ModuleLocks, GoTo, Idle, ownership
<1>7. RecycledMarked'
  BY DEF IInv, TypeOK, RecycledMarked, lock, ModuleLocks, GoTo, ownership
<1>8. FencesRespected' /\ WaitsForHeld'
  BY DEF IInv, TypeOK, Operands, FencesRespected, WaitsForHeld, lock, ModuleLocks, GoTo, Idle,
         fences, Guarded
<1>9. GoingUnwrapped'
  BY DEF IInv, TypeOK, GoingUnwrapped, lock, ModuleLocks, GoTo, ownership
<1>. QED BY <1>2, <1>3, <1>4, <1>5, <1>6, <1>7, <1>8, <1>9 DEF IInv

\* unlock ends what any lock began.
LEMMA unlockInv ==
    ASSUME IInv, NEW b \in Buffers, unlock(b)
    PROVE  IInv'
<1>2. /\ OwnedOnce' /\ NothingElseLost' /\ NoCircle'
      /\ SharesHandle' /\ WrapperHandleLive'
  BY UnchangedOwnership DEF IInv, unlock
<1>3. TypeOK'
  BY DEF IInv, TypeOK, unlock, Step, GoTo, ownership, fences, Guarded
<1>4. Operands'
  BY DEF IInv, TypeOK, Operands, unlock, Step, GoTo
<1>5. HandleAt'
  BY DEF IInv, TypeOK, HandleAt, unlock, Step, GoTo, ownership
<1>6. RecordsMatch'
  BY DEF IInv, TypeOK, RecordsMatch, unlock, Step, GoTo, ownership
<1>7. RecycledMarked'
  BY DEF IInv, TypeOK, RecycledMarked, unlock, Step, GoTo, ownership
<1>8. FencesRespected' /\ WaitsForHeld'
  BY DEF IInv, TypeOK, FencesRespected, WaitsForHeld, unlock, Step, GoTo, fences, Guarded
<1>9. GoingUnwrapped'
  BY DEF IInv, TypeOK, GoingUnwrapped, unlock, Step, GoTo, ownership
<1>. QED BY <1>2, <1>3, <1>4, <1>5, <1>6, <1>7, <1>8, <1>9 DEF IInv

\* lockAsync with a rectangle outside of the buffer leaves its descriptor open.
LEMMA LockOutOfBoundsInv ==
    ASSUME IInv, NEW b \in Buffers, NEW f \in Fresh, LockOutOfBounds(b, f)
    PROVE  IInv'
<1>2. /\ OwnedOnce' /\ NothingElseLost' /\ NoCircle'
      /\ SharesHandle' /\ WrapperHandleLive'
  BY UnchangedOwnership DEF IInv, LockOutOfBounds
<1>3. TypeOK'
  BY DEF IInv, TypeOK, LockOutOfBounds, Mark, ownership
<1>4. Operands'
  BY DEF IInv, TypeOK, Operands, LockOutOfBounds
<1>5. HandleAt'
  BY DEF IInv, TypeOK, HandleAt, LockOutOfBounds, ownership
<1>6. RecordsMatch'
  BY DEF IInv, TypeOK, RecordsMatch, LockOutOfBounds, ownership
<1>7. RecycledMarked'
  BY DEF IInv, TypeOK, RecycledMarked, LockOutOfBounds, ownership
<1>8. FencesRespected' /\ WaitsForHeld'
  BY MarkOwn DEF IInv, TypeOK, FencesRespected, WaitsForHeld, LockOutOfBounds
<1>9. GoingUnwrapped'
  BY DEF IInv, TypeOK, GoingUnwrapped, LockOutOfBounds, ownership
<1>. QED BY <1>2, <1>3, <1>4, <1>5, <1>6, <1>7, <1>8, <1>9 DEF IInv

\* The module of API 0.3 takes the fence over.
LEMMA PassFenceInv ==
    ASSUME IInv, NEW b \in Buffers, NEW f \in Fresh, Idle(b),
           PassFence(b, f), Guarded(b, f), UNCHANGED <<gralloc, ownership>>
    PROVE  IInv'
<1>2. /\ OwnedOnce' /\ NothingElseLost' /\ NoCircle'
      /\ SharesHandle' /\ WrapperHandleLive'
  BY UnchangedOwnership DEF IInv, PassFence
<1>3. TypeOK'
  BY MarkOwn DEF IInv, TypeOK, PassFence, ModuleLocks, GoTo, ownership, Guarded
<1>4. Operands'
  BY DEF IInv, TypeOK, Operands, PassFence, ModuleLocks, GoTo, Idle
<1>5. HandleAt'
  BY DEF IInv, TypeOK, HandleAt, PassFence, ModuleLocks, GoTo, ownership
<1>6. RecordsMatch'
  BY DEF IInv, TypeOK, RecordsMatch, PassFence, ModuleLocks, GoTo, Idle,
         ownership
<1>7. RecycledMarked'
  BY DEF IInv, TypeOK, RecycledMarked, PassFence, ModuleLocks, GoTo, ownership
<1>8. FencesRespected' /\ WaitsForHeld'
  <2>1. /\ f \in Fences \cup {NULL} /\ at[b] = "idle"
        /\ f = NULL => fence' = fence
        /\ f # NULL => fence[f] = "unused" /\ fence' = [fence EXCEPT ![f] = "module"]
    BY MarkOwn DEF IInv, PassFence, Idle
  <2>2. /\ \A t \in Buffers \ {b} : at'[t] = at[t] /\ guard'[t] = guard[t]
        /\ at'[b] \in {"idle", "locked"}
        /\ at'[b] = "locked" => guard'[b] = f
        /\ UNCHANGED <<operand, signalled, cutShort>>
    BY DEF IInv, TypeOK, PassFence, ModuleLocks, GoTo, Guarded
  <2>. QED BY <2>1, <2>2 DEF IInv, TypeOK, FencesRespected, WaitsForHeld
<1>9. GoingUnwrapped'
  BY DEF IInv, TypeOK, GoingUnwrapped, PassFence, ModuleLocks, GoTo, ownership
<1>. QED BY <1>2, <1>3, <1>4, <1>5, <1>6, <1>7, <1>8, <1>9 DEF IInv

\* For an older module the mapper waits for the fence itself.
LEMMA WaitForFenceInv ==
    ASSUME IInv, NEW b \in Buffers, NEW f \in Fresh, Idle(b),
           WaitForFence(b, f), Guarded(b, f), UNCHANGED <<gralloc, ownership>>
    PROVE  IInv'
<1>2. /\ OwnedOnce' /\ NothingElseLost' /\ NoCircle'
      /\ SharesHandle' /\ WrapperHandleLive'
  BY UnchangedOwnership DEF IInv, WaitForFence
<1>3. TypeOK'
  BY DEF IInv, TypeOK, Operands, WaitForFence, Mark, Fresh, ModuleLocks, Step,
         GoTo, ownership, fences, Guarded
<1>4. Operands'
  BY <1>3
  DEF IInv, TypeOK, Operands, WaitForFence, ModuleLocks, Step, GoTo, Idle
<1>5. HandleAt'
  BY DEF IInv, TypeOK, Operands, HandleAt, WaitForFence, ModuleLocks, Step,
         GoTo, ownership
<1>6. RecordsMatch'
  BY DEF IInv, TypeOK, Operands, RecordsMatch, WaitForFence, ModuleLocks, Step,
         GoTo, Idle, ownership
<1>7. RecycledMarked'
  BY DEF IInv, TypeOK, Operands, RecycledMarked, WaitForFence, ModuleLocks,
         Step, GoTo, ownership
<1>8. FencesRespected' /\ WaitsForHeld'
  <2>1. at[b] = "idle" /\ \A t \in Buffers \ {b} :
          at'[t] = at[t] /\ guard'[t] = guard[t] /\ operand'[t] = operand[t]
    BY DEF IInv, TypeOK, Operands, WaitForFence, ModuleLocks, Step, GoTo, Idle, Guarded
  <2>2. CASE f = NULL
    <3>1. /\ at'[b] \in {"idle", "locked"}
          /\ at'[b] = "locked" => guard'[b] = NULL
      BY <2>2 DEF IInv, TypeOK, WaitForFence, ModuleLocks, GoTo, Guarded
    <3>2. UNCHANGED <<operand, fence, signalled, cutShort>>
      BY <2>2 DEF WaitForFence
    <3>. QED BY <2>1, <3>1, <3>2 DEF IInv, FencesRespected, WaitsForHeld
  <2>3. CASE f # NULL
    <3>1. /\ f \in Fences /\ fence[f] = "unused" /\ fence' = [fence EXCEPT ![f] = "held"]
      BY <2>3, MarkOwn DEF IInv, WaitForFence
    <3>2. at'[b] = "wait" /\ operand'[b] = f /\ guard'[b] = f
      BY <2>3 DEF IInv, TypeOK, Operands, WaitForFence, Step, GoTo, Guarded
    <3>3. signalled \subseteq signalled' /\ cutShort' = cutShort
      BY <2>3 DEF WaitForFence
    <3>. QED BY <2>1, <3>1, <3>2, <3>3 DEF IInv, TypeOK, FencesRespected, WaitsForHeld
  <2>. QED BY <2>2, <2>3
<1>9. GoingUnwrapped'
  BY DEF IInv, TypeOK, Operands, GoingUnwrapped, WaitForFence, ModuleLocks,
         Step, GoTo, ownership
<1>. QED BY <1>2, <1>3, <1>4, <1>5, <1>6, <1>7, <1>8, <1>9 DEF IInv

\* A module without lock_ycbcr refuses, and the descriptor is closed.
LEMMA RefuseYCbCrInv ==
    ASSUME IInv, NEW b \in Buffers, NEW f \in Fresh, Idle(b),
           RefuseYCbCr(f),
           UNCHANGED <<gralloc, at, operand, ownership, signalled, cutShort>>,
           Guarded(b, f)
    PROVE  IInv'
<1>2. /\ OwnedOnce' /\ NothingElseLost' /\ NoCircle'
      /\ SharesHandle' /\ WrapperHandleLive'
  BY UnchangedOwnership DEF IInv, RefuseYCbCr
<1>3. TypeOK'
  BY MarkOwn DEF IInv, TypeOK, RefuseYCbCr, ownership, Guarded
<1>4. Operands'
  BY DEF IInv, TypeOK, Operands
<1>5. HandleAt'
  BY DEF IInv, TypeOK, HandleAt, ownership
<1>6. RecordsMatch'
  BY DEF IInv, TypeOK, RecordsMatch, ownership
<1>7. RecycledMarked'
  BY DEF IInv, TypeOK, RecycledMarked, ownership
<1>8. FencesRespected' /\ WaitsForHeld'
  BY MarkOwn DEF IInv, TypeOK, FencesRespected, WaitsForHeld, RefuseYCbCr, Guarded, Idle
<1>9. GoingUnwrapped'
  BY DEF IInv, TypeOK, GoingUnwrapped, ownership
<1>. QED BY <1>2, <1>3, <1>4, <1>5, <1>6, <1>7, <1>8, <1>9 DEF IInv

\* The wait ends: the fence is signalled, or the wait was cut short.
LEMMA FenceWaitedInv ==
    ASSUME IInv, NEW b \in Buffers, FenceWaited(b)
    PROVE  IInv'
<1>2. /\ OwnedOnce' /\ NothingElseLost' /\ NoCircle'
      /\ SharesHandle' /\ WrapperHandleLive'
  BY UnchangedOwnership DEF IInv, FenceWaited
<1>3. TypeOK'
  BY DEF IInv, TypeOK, FenceWaited, Mark, ModuleLocks, GoTo, ownership, Guarded
<1>4. Operands'
  BY DEF IInv, TypeOK, Operands, FenceWaited, ModuleLocks, GoTo
<1>5. HandleAt'
  BY DEF IInv, TypeOK, HandleAt, FenceWaited, ModuleLocks, GoTo, ownership
<1>6. RecordsMatch'
  BY DEF IInv, TypeOK, RecordsMatch, FenceWaited, ModuleLocks, GoTo, ownership
<1>7. RecycledMarked'
  BY DEF IInv, TypeOK, RecycledMarked, FenceWaited, ModuleLocks, GoTo, ownership
<1>8. FencesRespected' /\ WaitsForHeld'
  <2>. DEFINE f == operand[b]
  <2>1. /\ at[b] = "wait" /\ f \in Fences /\ fence[f] = "held" /\ guard[b] = f
        /\ f \in signalled \cup cutShort
    BY DEF IInv, TypeOK, WaitsForHeld, FenceWaited, WaitEnds
  <2>2. fence' = [fence EXCEPT ![f] = "closed"]
    BY <2>1, MarkOwn, GraphicBuffersAssumption DEF IInv, FenceWaited
  <2>3. /\ \A t \in Buffers \ {b} :
             at'[t] = at[t] /\ guard'[t] = guard[t] /\ operand'[t] = operand[t]
        /\ at'[b] \in {"idle", "locked"}
        /\ at'[b] = "locked" => guard'[b] = guard[b]
        /\ UNCHANGED <<signalled, cutShort>>
    BY DEF IInv, TypeOK, Operands, FenceWaited, ModuleLocks, GoTo, Guarded
  <2>. QED BY <2>1, <2>2, <2>3 DEF IInv, TypeOK, FencesRespected, WaitsForHeld
<1>9. GoingUnwrapped'
  BY DEF IInv, TypeOK, GoingUnwrapped, FenceWaited, ModuleLocks, GoTo, ownership
<1>. QED BY <1>2, <1>3, <1>4, <1>5, <1>6, <1>7, <1>8, <1>9 DEF IInv

\* A fence is signalled.
LEMMA FenceSignalsInv ==
    ASSUME IInv, NEW f \in Fences, FenceSignals(f)
    PROVE  IInv'
<1>2. /\ OwnedOnce' /\ NothingElseLost' /\ NoCircle'
      /\ SharesHandle' /\ WrapperHandleLive'
  BY UnchangedOwnership DEF IInv, FenceSignals
<1>3. TypeOK'
  BY DEF IInv, TypeOK, FenceSignals, ownership
<1>4. Operands'
  BY DEF IInv, TypeOK, Operands, FenceSignals
<1>5. HandleAt'
  BY DEF IInv, TypeOK, HandleAt, FenceSignals, ownership
<1>6. RecordsMatch'
  BY DEF IInv, TypeOK, RecordsMatch, FenceSignals, ownership
<1>7. RecycledMarked'
  BY DEF IInv, TypeOK, RecycledMarked, FenceSignals, ownership
<1>8. FencesRespected' /\ WaitsForHeld'
  BY DEF IInv, TypeOK, FencesRespected, WaitsForHeld, FenceSignals
<1>9. GoingUnwrapped'
  BY DEF IInv, TypeOK, GoingUnwrapped, FenceSignals, ownership
<1>. QED BY <1>2, <1>3, <1>4, <1>5, <1>6, <1>7, <1>8, <1>9 DEF IInv

\* The wait for a fence fails or is interrupted.
LEMMA WaitFailsInv ==
    ASSUME IInv, NEW f \in Fences, WaitFails(f)
    PROVE  IInv'
<1>2. /\ OwnedOnce' /\ NothingElseLost' /\ NoCircle'
      /\ SharesHandle' /\ WrapperHandleLive'
  BY UnchangedOwnership DEF IInv, WaitFails
<1>3. TypeOK'
  BY DEF IInv, TypeOK, WaitFails, ownership
<1>4. Operands'
  BY DEF IInv, TypeOK, Operands, WaitFails
<1>5. HandleAt'
  BY DEF IInv, TypeOK, HandleAt, WaitFails, ownership
<1>6. RecordsMatch'
  BY DEF IInv, TypeOK, RecordsMatch, WaitFails, ownership
<1>7. RecycledMarked'
  BY DEF IInv, TypeOK, RecycledMarked, WaitFails, ownership
<1>8. FencesRespected' /\ WaitsForHeld'
  BY DEF IInv, TypeOK, FencesRespected, WaitsForHeld, WaitFails
<1>9. GoingUnwrapped'
  BY DEF IInv, TypeOK, GoingUnwrapped, WaitFails, ownership
<1>. QED BY <1>2, <1>3, <1>4, <1>5, <1>6, <1>7, <1>8, <1>9 DEF IInv

\* free_handle: the owner of the data gives the handle to the allocator, the
\* owner of a handle unregisters, closes and deletes it, and a wrapper only
\* forgets it.
LEMMA FreeHandleInv ==
    ASSUME IInv, NEW b \in Buffers, NEW next, NEW with, Idle(b),
           FreeHandle(b, next, with),
           \/ next = "gone" /\ with = NULL /\ \A w \in Buffers : buffer[w].wraps # b
           \/ next = "alloc" /\ with \in Params /\ buffer[b].mOwner = "ownData"
           \/ next = "fill" /\ with \in Params \cup {NULL}
    PROVE  IInv'
<1>. DEFINE h == buffer[b].handle
<1>1. /\ buffer' \in [Buffers -> ObjectRecords]
      /\ \A o \in Buffers \ {b} : buffer'[o] = buffer[o]
      /\ buffer'[b].handle = NULL /\ buffer'[b].wraps = NULL
      /\ buffer'[b].mOwner = buffer[b].mOwner
  <2>1. buffer[b] \in ObjectRecords
    BY DEF IInv, TypeOK, ObjectRecords
  <2>. DEFINE freed == [buffer[b] EXCEPT !.handle = NULL, !.wraps = NULL]
  <2>2. buffer \in [Buffers -> ObjectRecords]
    BY DEF IInv, TypeOK, ObjectRecords
  <2>3. buffer' = [buffer EXCEPT ![b] = freed]
    BY <2>2 DEF FreeHandle
  <2>4. /\ freed \in ObjectRecords /\ freed.handle = NULL /\ freed.wraps = NULL
        /\ freed.mOwner = buffer[b].mOwner
    BY <2>1 DEF ObjectRecords
  <2>. HIDE DEF freed
  <2>. QED
    BY <2>2, <2>3, <2>4
<1>2. /\ h \in Handles /\ at[b] = "idle" /\ stale \subseteq stale'
      /\ UNCHANGED <<gralloc, sAllocList, recycled, fence, signalled, cutShort, guard>>
  BY DEF IInv, TypeOK, FreeHandle, Idle, fences
<1>3. \/ /\ buffer[b].mOwner = "ownNone" /\ Step(b, next, with)
         /\ heap' = heap /\ lost' = lost
      \/ /\ buffer[b].mOwner = "ownHandle" /\ Step(b, next, with)
         /\ heap' = [heap EXCEPT ![h] = "free"] /\ lost' = lost
      \/ /\ buffer[b].mOwner = "ownData"
         /\ Step(b, "unlist", [handle |-> h, next |-> next, with |-> with])
         /\ heap' = [heap EXCEPT ![h] = "free"] /\ lost' = lost
      \/ /\ buffer[b].mOwner = "ownData" /\ Step(b, next, with)
         /\ heap' = heap /\ lost' = lost \cup {h}
  BY DEF FreeHandle
<1>4. \/ heap' = heap
      \/ Owns(b) /\ heap' = [heap EXCEPT ![h] = "free"]
  BY <1>2, <1>3, GraphicBuffersAssumption DEF Owns
<1>. DEFINE freeing == [handle |-> h, next |-> next, with |-> with]
<1>a. /\ at \in [Buffers -> {"gone", "idle", "alloc", "list", "unlist", "fill",
                              "wait", "locked"}]
      /\ heap \in [Handles -> {"free", "device", "native", "caller"}]
      /\ DOMAIN operand = Buffers
  BY DEF IInv, TypeOK, Operands
<1>b. /\ \A t \in Buffers \ {b} : at'[t] = at[t] /\ operand'[t] = operand[t]
      /\ \/ at' = [at EXCEPT ![b] = next]
         \/ /\ at' = [at EXCEPT ![b] = "unlist"] /\ operand'[b].handle = h
            /\ heap' = [heap EXCEPT ![h] = "free"]
  <2>1. CASE Step(b, next, with)
    BY <1>a, <2>1 DEF Step, GoTo
  <2>2. CASE /\ Step(b, "unlist", freeing)
             /\ heap' = [heap EXCEPT ![h] = "free"]
    BY <1>a, <2>2 DEF Step, GoTo
  <2>. QED BY <1>3, <2>1, <2>2
<1>c. next \in {"gone", "alloc", "fill"}
  OBVIOUS
<1>d. /\ at' \in [Buffers -> {"gone", "idle", "alloc", "list", "unlist", "fill",
                               "wait", "locked"}]
      /\ at'[b] \in {"gone", "alloc", "fill", "unlist"}
  <2>1. CASE at' = [at EXCEPT ![b] = next]
    BY <1>a, <1>c, <2>1
  <2>2. CASE at' = [at EXCEPT ![b] = "unlist"]
    BY <1>a, <2>2
  <2>. QED BY <1>b, <2>1, <2>2
<1>e. \A k \in Handles : heap'[k] = heap[k] \/ heap'[k] = "free"
  BY <1>a, <1>4
<1>5. TypeOK'
  <2>1. gralloc' \in Grallocs /\ sAllocList' \subseteq Handles
    BY <1>2 DEF IInv, TypeOK
  <2>2. /\ fence' \in [Fences -> {"unused", "held", "module", "closed", "left",
                                   "misused"}]
        /\ guard' \in [Buffers -> Fences \cup {NULL}]
    BY <1>2 DEF IInv, TypeOK
  <2>3. heap' \in [Handles -> {"free", "device", "native", "caller"}]
    BY <1>a, <1>2, <1>4
  <2>4. ASSUME NEW t \in Buffers, at'[t] = "wait" PROVE operand'[t] \in Fences
    <3>1. t # b
      BY <1>d, <2>4
    <3>. QED BY <1>b, <2>4, <3>1 DEF IInv, TypeOK
  <2>. QED BY <1>1, <1>d, <2>1, <2>2, <2>3, <2>4 DEF TypeOK, ObjectRecords
<1>6. Operands'
  <2>1. CASE Step(b, next, with)
    BY <2>1 DEF IInv, TypeOK, Operands, Step, GoTo
  <2>2. CASE Step(b, "unlist", [handle |-> h, next |-> next, with |-> with])
    BY <2>2, <1>2 DEF IInv, TypeOK, Operands, Step, GoTo
  <2>. QED BY <1>3, <2>1, <2>2
<1>7. HandleAt'
  <2>1. CASE Step(b, next, with)
    BY <2>1, <1>1 DEF IInv, TypeOK, HandleAt, Step, GoTo
  <2>2. CASE Step(b, "unlist", [handle |-> h, next |-> next, with |-> with])
    BY <2>2, <1>1, <1>3 DEF IInv, TypeOK, HandleAt, Step, GoTo
  <2>. QED BY <1>3, <2>1, <2>2
<1>8. OwnedOnce'
  <2>1. ASSUME NEW c \in Buffers, Owns(c)'
        PROVE  c # b /\ Owns(c) /\ buffer'[c] = buffer[c]
    <3>1. c # b
      BY <1>1, <2>1 DEF Owns
    <3>. QED BY <1>1, <2>1, <3>1 DEF Owns
  <2>2. ASSUME NEW c \in Buffers, c # b, Owns(c)
        PROVE  heap'[buffer[c].handle] = heap[buffer[c].handle]
    <3>1. buffer[c].handle \in Handles
      BY <2>2, GraphicBuffersAssumption DEF IInv, TypeOK, Owns
    <3>2. Owns(b) => buffer[c].handle # h
      BY <2>2 DEF IInv, OwnedOnce
    <3>. QED BY <1>a, <1>4, <3>1, <3>2
  <2>. QED BY <2>1, <2>2 DEF IInv, OwnedOnce
<1>9. NothingElseLost'
  BY <1>1, <1>3 DEF IInv, TypeOK, OwnedOnce, NothingElseLost, Owns
<1>10. RecordsMatch'
  <2>1. \A t \in Buffers \ {b} : at'[t] = at[t] /\ operand'[t] = operand[t]
    BY <1>b
  <2>2. \A k \in Handles \ {h} : heap'[k] = heap[k]
    BY <1>a, <1>4
  <2>3. \/ heap'[h] = heap[h]
        \/ heap[h] # "device" /\ heap'[h] = "free"
        \/ heap'[h] = "free" /\ at'[b] = "unlist" /\ operand'[b].handle = h
    BY <1>3, <1>4 DEF IInv, TypeOK, Operands, OwnedOnce, Step, GoTo
  <2>4. \A k \in sAllocList' :
          \/ heap'[k] = "device"
          \/ \E t \in Buffers : at'[t] = "unlist" /\ operand'[t].handle = k
    BY <1>2, <2>1, <2>2, <2>3 DEF IInv, TypeOK, RecordsMatch
  <2>5. \A k \in Handles : heap'[k] = "device" =>
          \/ k \in sAllocList' \cup recycled'
          \/ \E t \in Buffers : at'[t] = "list" /\ buffer'[t].handle = k
    BY <1>1, <1>2, <2>1, <2>2, <2>3 DEF IInv, RecordsMatch
  <2>. QED BY <2>4, <2>5 DEF RecordsMatch
<1>11. RecycledMarked'
  <2>1. SUFFICES ASSUME NEW t \in Buffers, at'[t] = "unlist",
                        heap'[operand'[t].handle] = "device"
                 PROVE  operand'[t].handle \in recycled
    BY <1>2 DEF RecycledMarked
  <2>2. CASE t = b
    <3>1. operand'[b].handle = h /\ heap'[h] = "free"
      BY <1>a, <1>b, <1>c, <1>2, <2>1, <2>2
    <3>. QED BY <2>1, <2>2, <3>1
  <2>3. CASE t # b
    <3>1. at[t] = "unlist" /\ operand'[t] = operand[t]
      BY <1>b, <2>1, <2>3
    <3>2. operand[t].handle \in Handles
      BY <3>1 DEF IInv, Operands
    <3>3. heap[operand[t].handle] = "device"
      BY <1>e, <2>1, <3>1, <3>2
    <3>. QED BY <3>1, <3>3 DEF IInv, RecycledMarked
  <2>. QED BY <2>2, <2>3
<1>12. FencesRespected' /\ WaitsForHeld'
  <2>1. /\ at[b] = "idle" /\ at'[b] \notin {"wait", "locked"}
        /\ \A t \in Buffers \ {b} : at'[t] = at[t] /\ operand'[t] = operand[t]
        /\ UNCHANGED <<fence, signalled, cutShort, guard>>
    BY <1>b, <1>d, <1>2
  <2>. QED BY <2>1 DEF IInv, FencesRespected, WaitsForHeld
<1>13. GoingUnwrapped'
  BY <1>1, <1>3, GraphicBuffersAssumption
  DEF IInv, TypeOK, Operands, GoingUnwrapped, Step, GoTo
<1>14. NoCircle'
  BY <1>1 DEF IInv, TypeOK, NoCircle
<1>15. \A v \in Buffers \ stale' : buffer[v].wraps # b
  BY WrappersClosed DEF FreeHandle
<1>16. \A v \in Buffers \ stale' :
         v # b /\ buffer[v].handle # NULL /\ buffer[v].mOwner = "ownNone" =>
           \/ buffer[v].wraps = NULL /\ heap[buffer[v].handle] = "caller"
           \/ /\ buffer[v].wraps \in Buffers \ (stale' \cup {b})
              /\ buffer[buffer[v].wraps].handle = buffer[v].handle
  BY WrappersClosed DEF IInv, TypeOK, SharesHandle, FreeHandle
<1>17. SharesHandle'
  BY <1>1, <1>4, <1>16 DEF IInv, TypeOK, SharesHandle, OwnedOnce
<1>18. ASSUME Owns(b) PROVE WrapperHandleLive'
  <2>. DEFINE S == { v \in Buffers \ (stale' \cup {b}) :
                     buffer[v].handle = h /\ buffer[v].mOwner = "ownNone" }
  <2>1. \A v \in S : buffer[v].wraps \in S
    BY <1>16, <1>18 DEF IInv, TypeOK, OwnedOnce, Owns
  <2>2. S = {}
    <3>. HIDE DEF S
    <3>1. S \subseteq Buffers
      BY DEF S
    <3>. QED BY <2>1, <3>1 DEF IInv, NoCircle
  <2>. QED BY <1>1, <1>2, <1>4, <2>2 DEF IInv, TypeOK, WrapperHandleLive
<1>19. ASSUME ~Owns(b) PROVE WrapperHandleLive'
  BY <1>1, <1>2, <1>4, <1>19 DEF IInv, TypeOK, WrapperHandleLive
<1>20. WrapperHandleLive'
  BY <1>18, <1>19
<1>. QED BY <1>5, <1>6, <1>7, <1>8, <1>9, <1>10, <1>11, <1>12, <1>13, <1>14, <1>17,
            <1>20 DEF IInv

\* The last reference to a GraphicBuffer goes: nothing wraps it any more.
LEMMA DestroyInv ==
    ASSUME IInv, NEW b \in Buffers, Destroy(b)
    PROVE  IInv'
<1>1. CASE FreeHandle(b, "gone", NULL)
  BY <1>1, FreeHandleInv DEF Destroy
<1>2. CASE ~FreeHandle(b, "gone", NULL)
  <2>1. /\ buffer' \in [Buffers -> ObjectRecords]
        /\ \A o \in Buffers \ {b} : buffer'[o] = buffer[o]
        /\ buffer'[b].handle = NULL /\ buffer'[b].wraps = NULL
        /\ buffer[b].handle = NULL /\ buffer'[b].mOwner = buffer[b].mOwner
        /\ at[b] = "idle" /\ at' = [at EXCEPT ![b] = "gone"]
        /\ \A w \in Buffers : buffer[w].wraps # b
        /\ UNCHANGED <<gralloc, operand, heap, sAllocList, lost, recycled, stale,
                       fence, signalled, cutShort, guard>>
    <3>1. /\ buffer[b].handle = NULL
          /\ buffer' = [buffer EXCEPT ![b].wraps = NULL]
          /\ GoTo(b, "gone") /\ at[b] = "idle"
          /\ \A w \in Buffers : buffer[w].wraps # b
          /\ UNCHANGED <<gralloc, operand, heap, sAllocList, lost, recycled, stale,
                         fence, signalled, cutShort, guard>>
      BY <1>2 DEF Destroy, Idle, fences
    <3>2. /\ buffer \in [Buffers -> ObjectRecords]
          /\ at \in [Buffers -> {"gone", "idle", "alloc", "list", "unlist", "fill",
                                "wait", "locked"}]
      BY DEF IInv, TypeOK, ObjectRecords
    <3>. QED BY <3>1, <3>2 DEF GoTo, ObjectRecords
  <2>2. TypeOK'
    BY <2>1 DEF IInv, TypeOK, ObjectRecords
  <2>3. Operands'
    BY <2>1 DEF IInv, TypeOK, Operands
  <2>4. HandleAt'
    BY <2>1 DEF IInv, TypeOK, HandleAt
  <2>5. OwnedOnce'
    <3>1. \A c \in Buffers : Owns(c)' => c # b /\ Owns(c) /\ buffer'[c] = buffer[c]
      BY <2>1 DEF Owns
    <3>. QED BY <2>1, <3>1 DEF IInv, OwnedOnce
  <2>6. NothingElseLost'
    BY <2>1 DEF IInv, TypeOK, NothingElseLost, Owns
  <2>7. RecordsMatch'
    BY <2>1 DEF IInv, TypeOK, RecordsMatch
  <2>8. RecycledMarked'
    BY <2>1 DEF IInv, TypeOK, RecycledMarked
  <2>9. FencesRespected' /\ WaitsForHeld'
    BY <2>1 DEF IInv, TypeOK, FencesRespected, WaitsForHeld
  <2>10. GoingUnwrapped'
    BY <2>1, GraphicBuffersAssumption DEF IInv, TypeOK, GoingUnwrapped
  <2>11. NoCircle'
    BY <2>1, <2>2 DEF IInv, TypeOK, NoCircle
  <2>12. SharesHandle'
    BY <2>1 DEF IInv, TypeOK, SharesHandle
  <2>13. WrapperHandleLive'
    BY <2>1 DEF IInv, TypeOK, WrapperHandleLive
  <2>. QED
    BY <2>2, <2>3, <2>4, <2>5, <2>6, <2>7, <2>8, <2>9, <2>10, <2>11, <2>12, <2>13
    DEF IInv
<1>. QED BY <1>1, <1>2

\* reallocate or unflatten of an object without a handle has nothing to
\* release.
LEMMA DropNothingInv ==
    ASSUME IInv, NEW b \in Buffers, Idle(b), buffer[b].handle = NULL,
           NEW next, NEW with,
           \/ next = "alloc" /\ with \in Params /\ buffer[b].mOwner = "ownData"
           \/ next = "fill" /\ with \in Params \cup {NULL},
           Step(b, next, with), UNCHANGED <<gralloc, ownership, fences>>
    PROVE  IInv'
<1>1. /\ OwnedOnce' /\ NothingElseLost' /\ NoCircle'
      /\ SharesHandle' /\ WrapperHandleLive'
  BY UnchangedOwnership DEF IInv
<1>2. TypeOK'
  BY DEF IInv, TypeOK, Step, GoTo, ownership, fences
<1>3. Operands'
  BY DEF IInv, TypeOK, Operands, Step, GoTo
<1>4. HandleAt'
  BY DEF IInv, TypeOK, HandleAt, Step, GoTo, ownership
<1>5. RecordsMatch'
  BY DEF IInv, TypeOK, RecordsMatch, Step, GoTo, Idle, ownership
<1>6. RecycledMarked'
  BY DEF IInv, TypeOK, RecycledMarked, Step, GoTo, ownership
<1>7. FencesRespected' /\ WaitsForHeld'
  BY DEF IInv, TypeOK, FencesRespected, WaitsForHeld, Step, GoTo, Idle, fences
<1>8. GoingUnwrapped'
  BY DEF IInv, TypeOK, GoingUnwrapped, Step, GoTo, ownership
<1>. QED BY <1>1, <1>2, <1>3, <1>4, <1>5, <1>6, <1>7, <1>8 DEF IInv

\* reallocate releases the old handle and goes on to initSize.
LEMMA reallocateInv ==
    ASSUME IInv, NEW b \in Buffers, NEW size \in Params, reallocate(b, size)
    PROVE  IInv'
<1>1. CASE FreeHandle(b, "alloc", size)
  BY <1>1, FreeHandleInv DEF reallocate, MayReallocate
<1>2. CASE /\ buffer[b].handle = NULL
           /\ Step(b, "alloc", size)
           /\ UNCHANGED <<gralloc, ownership, fences>>
  BY <1>2, DropNothingInv DEF reallocate, MayReallocate
<1>. QED BY <1>1, <1>2 DEF reallocate

\* unflatten releases the old handle and goes on to fill the new.
LEMMA UnflattenInv ==
    ASSUME IInv, NEW b \in Buffers, NEW size \in Params \cup {NULL}, Unflatten(b, size)
    PROVE  IInv'
<1>1. CASE FreeHandle(b, "fill", size)
  BY <1>1, FreeHandleInv DEF Unflatten
<1>2. CASE /\ buffer[b].handle = NULL
           /\ Step(b, "fill", size)
           /\ UNCHANGED <<gralloc, ownership, fences>>
  BY <1>2, DropNothingInv DEF Unflatten
<1>. QED BY <1>1, <1>2 DEF Unflatten, ReleaseForUnflatten

\* lockAsync and its three ways, by what the module offers.
LEMMA lockAsyncInv ==
    ASSUME IInv, NEW b \in Buffers, NEW f \in Fresh, lockAsync(b, f)
    PROVE  IInv'
<1>1. CASE "async" \in gralloc
  BY <1>1, PassFenceInv DEF lockAsync
<1>2. CASE "async" \notin gralloc
  BY <1>2, WaitForFenceInv DEF lockAsync
<1>. QED BY <1>1, <1>2

\* lockAsyncYCbCr and its ways.
LEMMA lockAsyncYCbCrInv ==
    ASSUME IInv, NEW b \in Buffers, NEW f \in Fresh, lockAsyncYCbCr(b, f)
    PROVE  IInv'
<1>1. CASE TakesFenceYCbCr
  BY <1>1, PassFenceInv DEF lockAsyncYCbCr
<1>2. CASE ~TakesFenceYCbCr /\ "ycbcr" \in gralloc
  BY <1>2, WaitForFenceInv DEF lockAsyncYCbCr
<1>3. CASE ~TakesFenceYCbCr /\ "ycbcr" \notin gralloc
  BY <1>3, RefuseYCbCrInv DEF lockAsyncYCbCr
<1>. QED BY <1>1, <1>2, <1>3

\* A step of nothing preserves the invariant.
LEMMA StutterInv ==
    ASSUME IInv, UNCHANGED vars
    PROVE  IInv'
<1>1. /\ OwnedOnce' /\ NothingElseLost' /\ NoCircle'
      /\ SharesHandle' /\ WrapperHandleLive'
  BY UnchangedOwnership DEF IInv, vars, ownership
<1>2. TypeOK' /\ Operands' /\ HandleAt' /\ RecycledMarked' /\ GoingUnwrapped'
  BY DEF IInv, vars, TypeOK, Operands, HandleAt, RecycledMarked, GoingUnwrapped
<1>3. RecordsMatch' /\ FencesRespected' /\ WaitsForHeld'
  BY DEF IInv, vars, RecordsMatch, FencesRespected, WaitsForHeld
<1>. QED BY <1>1, <1>2, <1>3 DEF IInv

\* There is no object, handle, record or open descriptor.
LEMMA InitInv ==
    ASSUME Init
    PROVE  IInv
<1>1. TypeOK /\ Operands /\ HandleAt
  BY DEF Init, Blank, TypeOK, Operands, HandleAt
<1>2. OwnedOnce /\ NothingElseLost /\ SharesHandle /\ WrapperHandleLive
  BY DEF Init, Blank, OwnedOnce, Owns, NothingElseLost, SharesHandle,
         WrapperHandleLive
<1>3. RecordsMatch /\ RecycledMarked /\ FencesRespected /\ WaitsForHeld
  BY DEF Init, RecordsMatch, RecycledMarked, FencesRespected, WaitsForHeld
<1>4. GoingUnwrapped /\ NoCircle
  BY GraphicBuffersAssumption DEF Init, Blank, GoingUnwrapped, NoCircle
<1>. QED BY <1>1, <1>2, <1>3, <1>4 DEF IInv

\* Every step of every client preserves the invariant.
LEMMA NextInv ==
    ASSUME IInv, [Next]_vars
    PROVE  IInv'
<1>1. ASSUME NEW b \in Buffers, Allocator(b) PROVE IInv'
  BY <1>1, DeviceAllocatesInv, DeviceAllocFailsInv, ListAddInv, ListRemoveInv
  DEF Allocator
<1>2. ASSUME NEW b \in Buffers, Object(b) PROVE IInv'
  BY <1>2, ConstructEmptyInv, ConstructSizedInv, reallocateInv,
     ConstructAroundInv, ConstructWrapperInv, DestroyInv, UnflattenTooLargeInv,
     UnflattenInv, FillEmptyInv, FillHandleInv
  DEF Object
<1>3. ASSUME NEW b \in Buffers, Locking(b) PROVE IInv'
  BY <1>3, lockInv, unlockInv, FenceWaitedInv, LockOutOfBoundsInv, lockAsyncInv,
     lockAsyncYCbCrInv
  DEF Locking, lockYCbCr
<1>4. ASSUME NEW h \in Handles, CallerDeletes(h) PROVE IInv'
  BY <1>4, CallerDeletesInv
<1>5. ASSUME NEW f \in Fences, FenceSignals(f) \/ WaitFails(f) PROVE IInv'
  BY <1>5, FenceSignalsInv, WaitFailsInv
<1>. QED BY <1>1, <1>2, <1>3, <1>4, <1>5, StutterInv DEF Next

\* IInv holds in every state that any number of GraphicBuffer objects reach,
\* each used by one thread, over an allocator and a mapper that refuse any
\* call.
THEOREM InvariantHolds == Spec => []IInv
<1>1. Init => IInv
  BY InitInv
<1>2. IInv /\ [Next]_vars => IInv'
  BY NextInv
<1>. QED BY <1>1, <1>2, PTL DEF Spec

\* Handle, owner, wrapped buffer and size of each object, the records and the
\* descriptors keep their types.
THEOREM TypeCorrect == Spec => []TypeOK
<1>1. IInv => TypeOK
  BY DEF IInv
<1>. QED BY <1>1, InvariantHolds, PTL

\* A handle that is to be released has exactly the one owner that the heap
\* names: none is released twice, or by an object that only wraps it
\* (GraphicBuffer.cpp 100-115).
THEOREM ReleasedOnce == Spec => []OwnedOnce
<1>1. IInv => OwnedOnce
  BY DEF IInv
<1>. QED BY <1>1, InvariantHolds, PTL

\* A handle is lost only on the error paths of unflatten and where the device
\* refuses to free it.
THEOREM OnlyErrorPathsLeak == Spec => []NothingElseLost
<1>1. IInv => NothingElseLost
  BY DEF IInv
<1>. QED BY <1>1, InvariantHolds, PTL

\* A wrapper's handle is live, unless the buffer it wraps dropped it in
\* reallocate or unflatten (GraphicBuffer.cpp 102-112, 163).
THEOREM WrappersKeepTheirHandle == Spec => []WrapperHandleLive
<1>1. IInv => WrapperHandleLive
  BY DEF IInv
<1>. QED BY <1>1, InvariantHolds, PTL

\* The allocator's records are those of the handles the device has given out,
\* but for calls between the two and for addresses that were given out again
\* meanwhile (GraphicBufferAllocator.cpp 76-152).
THEOREM RecordsFollow == Spec => []RecordsMatch
<1>1. IInv => RecordsMatch
  BY DEF IInv
<1>. QED BY <1>1, InvariantHolds, PTL

\* Whichever way a lock with a fence goes and whatever fails: its descriptor is
\* never used after it was closed or given away, no call that ended holds one,
\* and pixels are locked only with the module waiting for their fence, after it
\* signalled, or after sync_wait failed (GraphicBufferMapper.cpp 113-175).
THEOREM LockedAfterFence == Spec => []FencesRespected
<1>1. IInv => FencesRespected
  BY DEF IInv
<1>. QED BY <1>1, InvariantHolds, PTL

-----------------------------------------------------------------------------
\* Every step is one of HandleOwnership's, or changes nothing of it.

Kept(b) == /\ Owns(b)' <=> Owns(b)
           /\ Owns(b) => buffer'[b].handle = buffer[b].handle

Owner == {"device", "native"}

\* Sets of pairs of a buffer and a handle are equal when they have the same pairs.
LEMMA SamePairs ==
    ASSUME NEW S, NEW T, S \subseteq Buffers \X Handles, T \subseteq Buffers \X Handles,
           \A b \in Buffers, h \in Handles : <<b, h>> \in S <=> <<b, h>> \in T
    PROVE  S = T
OBVIOUS

\* The pairs of Owned, in this state and the next.
LEMMA OwnedPairs ==
    /\ Owned \subseteq Buffers \X Handles /\ Owned' \subseteq Buffers \X Handles
    /\ \A b \in Buffers, h \in Handles :
         /\ <<b, h>> \in Owned <=> Owns(b) /\ buffer[b].handle = h
         /\ <<b, h>> \in Owned' <=> Owns(b)' /\ buffer'[b].handle = h
BY DEF Owned

\* A step that keeps what each buffer owns, and which handles live, is a stutter.
LEMMA OwnershipKept ==
    ASSUME \A b \in Buffers : Kept(b),
           \A h \in Handles : heap'[h] \in Owner <=> heap[h] \in Owner,
           lost' = lost
    PROVE  UNCHANGED Ownership!vars
<1>1. Owned' = Owned
  BY OwnedPairs, SamePairs DEF Kept
<1>2. Live' = Live
  BY DEF Live, Owner
<1>. QED BY <1>1, <1>2 DEF Ownership!vars

\* A buffer that owned none has come by a handle that was not live.
LEMMA OwnershipAcquired ==
    ASSUME NEW b \in Buffers, NEW h \in Handles, ~Owns(b), Owns(b)',
           buffer'[b].handle = h, \A o \in Buffers \ {b} : Kept(o),
           heap[h] \notin Owner, heap'[h] \in Owner,
           \A k \in Handles \ {h} : heap'[k] = heap[k], lost' = lost
    PROVE  Ownership!Next
<1>1. Owned' = Owned \cup {<<b, h>>}
  <2>1. ASSUME NEW o \in Buffers, NEW k \in Handles
        PROVE  <<o, k>> \in Owned' <=> <<o, k>> \in Owned \cup {<<b, h>>}
    BY <2>1, OwnedPairs DEF Kept
  <2>. QED BY <2>1, OwnedPairs, SamePairs
<1>2. Live' = Live \cup {h}
  BY DEF Live, Owner
<1>3. h \notin Live /\ \A k \in Handles : <<b, k>> \notin Owned
  BY OwnedPairs DEF Live, Owner
<1>4. Ownership!Acquire(b, h)
  BY <1>1, <1>2, <1>3 DEF Ownership!Acquire
<1>. QED BY <1>4 DEF Ownership!Next

\* A buffer that owned a handle has it no more: it was released, or is lost.
LEMMA OwnershipGivenUp ==
    ASSUME NEW b \in Buffers, NEW h \in Handles, Owns(b), buffer[b].handle = h,
           ~Owns(b)', \A o \in Buffers \ {b} : Kept(o),
           \/ /\ heap'[h] \notin Owner /\ lost' = lost
              /\ \A k \in Handles \ {h} : heap'[k] = heap[k]
           \/ heap' = heap /\ lost' = lost \cup {h}
    PROVE  Ownership!Next
<1>1. Owned' = Owned \ {<<b, h>>} /\ <<b, h>> \in Owned
  <2>1. ASSUME NEW o \in Buffers, NEW k \in Handles
        PROVE  <<o, k>> \in Owned' <=> <<o, k>> \in Owned \ {<<b, h>>}
    BY <2>1, OwnedPairs DEF Kept
  <2>. QED BY <2>1, OwnedPairs, SamePairs
<1>2. CASE /\ heap'[h] \notin Owner /\ lost' = lost
           /\ \A k \in Handles \ {h} : heap'[k] = heap[k]
  <2>1. Live' = Live \ {h}
    BY <1>2 DEF Live, Owner
  <2>2. Ownership!Release(b, h)
    BY <1>1, <1>2, <2>1 DEF Ownership!Release
  <2>. QED BY <2>2 DEF Ownership!Next
<1>3. CASE heap' = heap /\ lost' = lost \cup {h}
  <2>1. Live' = Live
    BY <1>3 DEF Live
  <2>2. Ownership!Forget(b, h)
    BY <1>1, <1>3, <2>1 DEF Ownership!Forget
  <2>. QED BY <2>2 DEF Ownership!Next
<1>. QED BY <1>2, <1>3

\* A handle was made that no buffer has.
LEMMA OwnershipWasted ==
    ASSUME NEW h \in Handles, \A b \in Buffers : Kept(b),
           heap[h] \notin Owner, heap'[h] \in Owner,
           \A k \in Handles \ {h} : heap'[k] = heap[k], lost' = lost \cup {h}
    PROVE  Ownership!Next
<1>1. Owned' = Owned
  BY OwnedPairs, SamePairs DEF Kept
<1>2. Live' = Live \cup {h} /\ h \notin Live
  BY DEF Live, Owner
<1>3. Ownership!Waste(h)
  BY <1>1, <1>2 DEF Ownership!Waste
<1>. QED BY <1>3 DEF Ownership!Next

\* The constructors: without a handle, around the caller's, around another
\* buffer.
LEMMA ConstructRefines ==
    ASSUME IInv, NEW b \in Buffers,
           \/ ConstructEmpty(b)
           \/ \E size \in Params : ConstructSized(b, size)
           \/ \E other \in Buffers \ {b} : ConstructWrapper(b, other)
    PROVE  UNCHANGED Ownership!vars
<1>1. at[b] = "gone" /\ buffer[b].handle = NULL
  BY DEF IInv, HandleAt, ConstructEmpty, ConstructSized, ConstructWrapper
<1>2. /\ buffer \in [Buffers -> ObjectRecords]
      /\ heap' = heap /\ lost' = lost
  BY DEF IInv, TypeOK, ObjectRecords, ConstructEmpty, ConstructSized, ConstructWrapper
<1>3. buffer' = [buffer EXCEPT ![b] = Blank]
        \/ \E other \in Buffers \ {b} : buffer' = [buffer EXCEPT ![b] = Wrapping(other)]
  BY DEF ConstructEmpty, ConstructSized, ConstructWrapper
<1>4. \A o \in Buffers \ {b} : buffer'[o] = buffer[o]
  BY <1>2, <1>3
<1>5. ~Owns(b) /\ ~Owns(b)'
  <2>1. CASE buffer' = [buffer EXCEPT ![b] = Blank]
    BY <1>1, <1>2, <2>1 DEF Owns, Blank
  <2>2. ASSUME NEW other \in Buffers, buffer' = [buffer EXCEPT ![b] = Wrapping(other)]
        PROVE  ~Owns(b) /\ ~Owns(b)'
    <3>1. buffer[other] \in ObjectRecords
      BY <1>2
    <3>2. Wrapping(other).mOwner = "ownNone"
      BY <3>1 DEF Wrapping, ObjectRecords
    <3>. QED BY <1>1, <1>2, <2>2, <3>2 DEF Owns
  <2>. QED BY <1>3, <2>1, <2>2
<1>6. \A o \in Buffers : Kept(o)
  BY <1>4, <1>5 DEF Kept, Owns
<1>. QED BY <1>2, <1>6, OwnershipKept

\* A buffer made around a caller's handle is to release it if it keeps the
\* ownership, and else changes nothing of who does (GraphicBuffer.cpp 87-100).
LEMMA ConstructAroundRefines ==
    ASSUME IInv, NEW b \in Buffers, NEW h \in Handles, NEW size \in Params,
           NEW keepOwnership \in BOOLEAN, ConstructAround(b, h, size, keepOwnership)
    PROVE  [Ownership!Next]_(Ownership!vars)
<1>1. /\ at[b] = "gone" /\ buffer[b].handle = NULL
      /\ heap[h] = "free" /\ lost' = lost
  BY DEF IInv, HandleAt, ConstructAround
<1>2. /\ DOMAIN buffer = Buffers
      /\ heap \in [Handles -> {"free", "device", "native", "caller"}]
  BY DEF IInv, TypeOK
<1>3. /\ buffer'[b].handle = h
      /\ buffer'[b].mOwner = IF keepOwnership THEN "ownHandle" ELSE "ownNone"
      /\ \A o \in Buffers \ {b} : buffer'[o] = buffer[o]
  BY <1>2 DEF ConstructAround
<1>4. /\ heap'[h] = IF keepOwnership THEN "native" ELSE "caller"
      /\ \A k \in Handles \ {h} : heap'[k] = heap[k]
  BY <1>2 DEF ConstructAround
<1>5. ~Owns(b) /\ (Owns(b)' <=> keepOwnership)
  BY <1>1, <1>3, GraphicBuffersAssumption DEF Owns
<1>6. \A o \in Buffers \ {b} : Kept(o)
  BY <1>3 DEF Kept, Owns
<1>7. CASE keepOwnership
  <2>1. heap[h] \notin Owner /\ heap'[h] \in Owner
    BY <1>1, <1>4, <1>7 DEF Owner
  <2>. QED BY <1>1, <1>3, <1>4, <1>5, <1>6, <1>7, <2>1, OwnershipAcquired
<1>8. CASE ~keepOwnership
  <2>1. \A o \in Buffers : Kept(o)
    BY <1>5, <1>6, <1>8 DEF Kept
  <2>2. \A k \in Handles : heap'[k] \in Owner <=> heap[k] \in Owner
    BY <1>1, <1>4, <1>8 DEF Owner
  <2>. QED BY <1>1, <2>1, <2>2, OwnershipKept
<1>. QED BY <1>7, <1>8

\* initSize: the device's handle becomes the buffer's at once; its record and
\* its size come later.
LEMMA DeviceAllocatesRefines ==
    ASSUME IInv, NEW b \in Buffers, NEW h \in Handles, DeviceAllocates(b, h)
    PROVE  Ownership!Next
<1>1. /\ buffer[b].handle = NULL /\ buffer[b].mOwner = "ownData"
      /\ heap[h] = "free" /\ lost' = lost
  BY DEF IInv, HandleAt, DeviceAllocates
<1>2. /\ buffer \in [Buffers -> ObjectRecords] /\ DOMAIN heap = Handles
  BY DEF IInv, TypeOK, ObjectRecords
<1>3. /\ buffer'[b].handle = h /\ buffer'[b].mOwner = "ownData"
      /\ \A o \in Buffers \ {b} : buffer'[o] = buffer[o]
  <2>1. buffer[b] \in ObjectRecords
    BY <1>2
  <2>. QED BY <1>1, <1>2, <2>1 DEF DeviceAllocates, ObjectRecords
<1>4. heap'[h] = "device" /\ \A k \in Handles \ {h} : heap'[k] = heap[k]
  BY <1>2 DEF DeviceAllocates
<1>5. ~Owns(b) /\ Owns(b)'
  BY <1>1, <1>3, GraphicBuffersAssumption DEF Owns
<1>6. \A o \in Buffers \ {b} : Kept(o)
  BY <1>3 DEF Kept, Owns
<1>7. heap[h] \notin Owner /\ heap'[h] \in Owner
  BY <1>1, <1>4 DEF Owner
<1>. QED BY <1>1, <1>3, <1>4, <1>5, <1>6, <1>7, OwnershipAcquired

\* The size of a buffer, or the owner of a handle it does not have, changes.
LEMMA ListAddOrFillEmptyRefines ==
    ASSUME IInv, NEW b \in Buffers, ListAdd(b) \/ FillEmpty(b)
    PROVE  UNCHANGED Ownership!vars
<1>1. buffer \in [Buffers -> ObjectRecords] /\ heap' = heap /\ lost' = lost
  BY DEF IInv, TypeOK, ObjectRecords, ListAdd, FillEmpty
<1>2. buffer[b] \in ObjectRecords
  BY <1>1
<1>3. \A o \in Buffers \ {b} : buffer'[o] = buffer[o]
  BY <1>1 DEF ListAdd, FillEmpty
<1>4. CASE ListAdd(b)
  <2>1. /\ buffer'[b].handle = buffer[b].handle
        /\ buffer'[b].mOwner = buffer[b].mOwner
    BY <1>1, <1>2, <1>4 DEF ListAdd, ObjectRecords
  <2>2. \A o \in Buffers : Kept(o)
    BY <1>3, <2>1 DEF Kept, Owns
  <2>. QED BY <1>1, <2>2, OwnershipKept
<1>5. CASE FillEmpty(b)
  <2>1. buffer[b].handle = NULL
    BY <1>5 DEF IInv, HandleAt, FillEmpty
  <2>2. PICK owner :
          buffer' = [buffer EXCEPT ![b].handle = NULL, ![b].size = NULL,
                                   ![b].mOwner = owner]
    BY <1>5 DEF FillEmpty
  <2>3. buffer'[b] = [buffer[b] EXCEPT !.handle = NULL, !.size = NULL,
                                       !.mOwner = owner]
    BY <1>1, <2>2
  <2>4. buffer'[b].handle = NULL
    BY <1>2, <2>3 DEF ObjectRecords
  <2>5. \A o \in Buffers : Kept(o)
    BY <1>3, <2>1, <2>4 DEF Kept, Owns
  <2>. QED BY <1>1, <2>5, OwnershipKept
<1>. QED BY <1>4, <1>5

\* free_handle releases what the buffer owns, or loses it where the device
\* refuses; a wrapper's handle is not its own.
LEMMA FreeHandleRefines ==
    ASSUME IInv, NEW b \in Buffers, NEW next, NEW with, FreeHandle(b, next, with)
    PROVE  [Ownership!Next]_(Ownership!vars)
<1>. DEFINE h == buffer[b].handle
<1>1. /\ buffer \in [Buffers -> ObjectRecords] /\ DOMAIN heap = Handles
      /\ h # NULL
  BY DEF IInv, TypeOK, ObjectRecords, FreeHandle
<1>2. buffer[b] \in ObjectRecords
  BY <1>1
<1>3. /\ buffer'[b].handle = NULL
      /\ \A o \in Buffers \ {b} : buffer'[o] = buffer[o]
  BY <1>1, <1>2 DEF FreeHandle, ObjectRecords
<1>4. h \in Handles /\ ~Owns(b)'
  BY <1>1, <1>2, <1>3 DEF Owns, ObjectRecords
<1>5. \A o \in Buffers \ {b} : Kept(o)
  BY <1>3 DEF Kept, Owns
<1>6. \/ buffer[b].mOwner = "ownNone" /\ heap' = heap /\ lost' = lost
      \/ /\ buffer[b].mOwner # "ownNone"
         /\ \/ heap' = [heap EXCEPT ![h] = "free"] /\ lost' = lost
            \/ heap' = heap /\ lost' = lost \cup {h}
  BY DEF FreeHandle
<1>7. CASE buffer[b].mOwner = "ownNone"
  <2>1. \A o \in Buffers : Kept(o)
    BY <1>4, <1>5, <1>7 DEF Kept, Owns
  <2>. QED BY <1>6, <1>7, <2>1, OwnershipKept
<1>8. CASE buffer[b].mOwner # "ownNone"
  <2>1. Owns(b)
    BY <1>1, <1>8 DEF Owns
  <2>2. \/ /\ heap'[h] \notin Owner /\ lost' = lost
           /\ \A k \in Handles \ {h} : heap'[k] = heap[k]
        \/ heap' = heap /\ lost' = lost \cup {h}
    BY <1>1, <1>4, <1>6, <1>8 DEF Owner
  <2>. QED BY <1>4, <1>5, <2>1, <2>2, OwnershipGivenUp
<1>. QED BY <1>7, <1>8

\* unflatten on absurd counts loses the handle the buffer owned.
LEMMA UnflattenTooLargeRefines ==
    ASSUME IInv, NEW b \in Buffers, UnflattenTooLarge(b)
    PROVE  [Ownership!Next]_(Ownership!vars)
<1>1. buffer \in [Buffers -> ObjectRecords] /\ heap' = heap
  BY DEF IInv, TypeOK, ObjectRecords, UnflattenTooLarge
<1>2. buffer[b] \in ObjectRecords
  BY <1>1
<1>3. /\ buffer'[b].handle = NULL
      /\ \A o \in Buffers \ {b} : buffer'[o] = buffer[o]
  BY <1>1, <1>2 DEF UnflattenTooLarge, ObjectRecords
<1>4. ~Owns(b)' /\ \A o \in Buffers \ {b} : Kept(o)
  BY <1>3 DEF Kept, Owns
<1>5. CASE Owns(b)
  <2>1. buffer[b].handle \in Handles
    BY <1>2, <1>5 DEF Owns, ObjectRecords
  <2>2. lost' = lost \cup {buffer[b].handle}
    BY <1>5 DEF UnflattenTooLarge, Owns
  <2>. QED BY <1>1, <1>4, <1>5, <2>1, <2>2, OwnershipGivenUp
<1>6. CASE ~Owns(b)
  <2>1. lost' = lost
    BY <1>6 DEF UnflattenTooLarge, Owns
  <2>2. \A o \in Buffers : Kept(o)
    BY <1>4, <1>6 DEF Kept
  <2>. QED BY <1>1, <2>1, <2>2, OwnershipKept
<1>. QED BY <1>5, <1>6

\* A message's handle becomes the buffer's, or is lost when the module does not
\* take it.
LEMMA FillHandleRefines ==
    ASSUME IInv, NEW b \in Buffers, NEW h \in Handles, FillHandle(b, h)
    PROVE  Ownership!Next
<1>1. /\ buffer \in [Buffers -> ObjectRecords] /\ DOMAIN heap = Handles
      /\ buffer[b].handle = NULL /\ heap[h] = "free"
  BY DEF IInv, TypeOK, HandleAt, ObjectRecords, FillHandle
<1>2. buffer[b] \in ObjectRecords
  BY <1>1
<1>3. heap'[h] = "native" /\ \A k \in Handles \ {h} : heap'[k] = heap[k]
  BY <1>1 DEF FillHandle
<1>4. heap[h] \notin Owner /\ heap'[h] \in Owner
  BY <1>1, <1>3 DEF Owner
<1>5. /\ \A o \in Buffers \ {b} : buffer'[o] = buffer[o]
      /\ \/ buffer'[b].handle = h /\ buffer'[b].mOwner = "ownHandle" /\ lost' = lost
         \/ buffer'[b].handle = NULL /\ lost' = lost \cup {h}
  BY <1>1, <1>2 DEF FillHandle, ObjectRecords
<1>6. ~Owns(b) /\ \A o \in Buffers \ {b} : Kept(o)
  BY <1>1, <1>5 DEF Kept, Owns
<1>7. CASE buffer'[b].handle = h /\ buffer'[b].mOwner = "ownHandle" /\ lost' = lost
  <2>1. Owns(b)'
    BY <1>7, GraphicBuffersAssumption DEF Owns
  <2>. QED BY <1>3, <1>4, <1>6, <1>7, <2>1, OwnershipAcquired
<1>8. CASE buffer'[b].handle = NULL /\ lost' = lost \cup {h}
  <2>1. \A o \in Buffers : Kept(o)
    BY <1>6, <1>8 DEF Kept, Owns
  <2>. QED BY <1>3, <1>4, <1>8, <2>1, OwnershipWasted
<1>. QED BY <1>5, <1>7, <1>8

\* The caller's handles, and steps that leave buffers and handles alone, are no
\* matter of the abstract specification.
LEMMA OthersRefine ==
    ASSUME IInv,
           UNCHANGED <<buffer, heap, lost>> \/ \E h \in Handles : CallerDeletes(h)
    PROVE  UNCHANGED Ownership!vars
<1>1. \A b \in Buffers : Kept(b)
  BY DEF CallerDeletes, Kept, Owns
<1>2. CASE UNCHANGED <<buffer, heap, lost>>
  BY <1>1, <1>2, OwnershipKept
<1>3. ASSUME NEW h \in Handles, CallerDeletes(h)
      PROVE  UNCHANGED Ownership!vars
  <2>1. DOMAIN heap = Handles
    BY DEF IInv, TypeOK
  <2>2. \A k \in Handles : heap'[k] \in Owner <=> heap[k] \in Owner
    BY <1>3, <2>1 DEF CallerDeletes, Owner
  <2>3. lost' = lost
    BY <1>3 DEF CallerDeletes
  <2>. QED BY <1>1, <2>2, <2>3, OwnershipKept
<1>. QED BY <1>2, <1>3

\* A buffer that has no handle goes.
LEMMA DestroyRefines ==
    ASSUME IInv, NEW b \in Buffers, Destroy(b)
    PROVE  [Ownership!Next]_(Ownership!vars)
<1>1. CASE FreeHandle(b, "gone", NULL)
  BY <1>1, FreeHandleRefines
<1>2. CASE /\ buffer[b].handle = NULL
           /\ buffer' = [buffer EXCEPT ![b].wraps = NULL]
           /\ heap' = heap /\ lost' = lost
  <2>1. buffer \in [Buffers -> ObjectRecords]
    BY DEF IInv, TypeOK, ObjectRecords
  <2>2. buffer[b] \in ObjectRecords
    BY <2>1
  <2>3. /\ buffer'[b].handle = NULL
        /\ \A o \in Buffers \ {b} : buffer'[o] = buffer[o]
    BY <1>2, <2>1, <2>2 DEF ObjectRecords
  <2>4. \A o \in Buffers : Kept(o)
    BY <1>2, <2>3 DEF Kept, Owns
  <2>. QED BY <1>2, <2>4, OwnershipKept
<1>. QED BY <1>1, <1>2 DEF Destroy

\* The graphic buffers implement HandleOwnership: every handle has one buffer to
\* release it from the moment it is made until that buffer releases or, on a
\* named error path, loses it, whatever the clients call and whatever fails.
THEOREM OwnershipIsLinear == Spec => ImplementsOwnership
<1>1. Init => Ownership!Init
  <2>1. SUFFICES ASSUME Init PROVE Ownership!Init
    OBVIOUS
  <2>2. \A b \in Buffers : ~Owns(b)
    BY <2>1 DEF Init, Blank, Owns
  <2>3. Owned = {} /\ Live = {} /\ lost = {}
    BY <2>1, <2>2 DEF Init, Owned, Live
  <2>. QED BY <2>3 DEF Ownership!Init
<1>2. IInv /\ [Next]_vars => [Ownership!Next]_(Ownership!vars)
  <2>1. SUFFICES ASSUME IInv, [Next]_vars PROVE [Ownership!Next]_(Ownership!vars)
    OBVIOUS
  <2>2. ASSUME NEW b \in Buffers, Allocator(b)
        PROVE  [Ownership!Next]_(Ownership!vars)
    <3>1. CASE DeviceAllocFails(b) \/ ListRemove(b)
      BY <2>1, <3>1, OthersRefine DEF DeviceAllocFails, ListRemove, ownership
    <3>2. CASE ListAdd(b)
      BY <2>1, <3>2, ListAddOrFillEmptyRefines
    <3>3. CASE \E h \in Handles : DeviceAllocates(b, h)
      BY <2>1, <3>3, DeviceAllocatesRefines
    <3>. QED BY <2>2, <3>1, <3>2, <3>3 DEF Allocator
  <2>3. ASSUME NEW b \in Buffers, Object(b)
        PROVE  [Ownership!Next]_(Ownership!vars)
    <3>1. CASE \/ ConstructEmpty(b)
               \/ \E size \in Params : ConstructSized(b, size)
               \/ \E other \in Buffers \ {b} : ConstructWrapper(b, other)
      BY <2>1, <3>1, ConstructRefines
    <3>2. ASSUME NEW h \in Handles, NEW size \in Params, NEW keepOwnership \in BOOLEAN,
                 ConstructAround(b, h, size, keepOwnership)
          PROVE  [Ownership!Next]_(Ownership!vars)
      BY <2>1, <3>2, ConstructAroundRefines
    <3>3. ASSUME NEW size \in Params, reallocate(b, size)
          PROVE  [Ownership!Next]_(Ownership!vars)
      <4>1. CASE FreeHandle(b, "alloc", size)
        BY <2>1, <4>1, FreeHandleRefines
      <4>2. CASE UNCHANGED ownership
        BY <2>1, <4>2, OthersRefine DEF ownership
      <4>. QED BY <3>3, <4>1, <4>2 DEF reallocate
    <3>4. ASSUME NEW size \in Params \cup {NULL}, Unflatten(b, size)
          PROVE  [Ownership!Next]_(Ownership!vars)
      <4>1. CASE FreeHandle(b, "fill", size)
        BY <2>1, <4>1, FreeHandleRefines
      <4>2. CASE UNCHANGED ownership
        BY <2>1, <4>2, OthersRefine DEF ownership
      <4>. QED BY <3>4, <4>1, <4>2 DEF Unflatten, ReleaseForUnflatten
    <3>5. CASE Destroy(b) \/ UnflattenTooLarge(b)
      BY <2>1, <3>5, DestroyRefines, UnflattenTooLargeRefines
    <3>6. CASE FillEmpty(b) \/ \E h \in Handles : FillHandle(b, h)
      BY <2>1, <3>6, ListAddOrFillEmptyRefines, FillHandleRefines
    <3>. QED BY <2>3, <3>1, <3>2, <3>3, <3>4, <3>5, <3>6 DEF Object
  <2>4. ASSUME NEW b \in Buffers, Locking(b)
        PROVE  [Ownership!Next]_(Ownership!vars)
    <3>1. UNCHANGED ownership
      BY <2>4 DEF Locking, lock, lockYCbCr, unlock, FenceWaited, LockOutOfBounds,
         lockAsync, lockAsyncYCbCr
    <3>. QED BY <2>1, <3>1, OthersRefine DEF ownership
  <2>5. CASE \E f \in Fences : FenceSignals(f) \/ WaitFails(f)
    BY <2>1, <2>5, OthersRefine DEF FenceSignals, WaitFails, ownership
  <2>6. CASE \E h \in Handles : CallerDeletes(h)
    BY <2>1, <2>6, OthersRefine
  <2>7. CASE UNCHANGED vars
    BY <2>1, <2>7, OthersRefine DEF vars
  <2>. QED BY <2>1, <2>2, <2>3, <2>4, <2>5, <2>6, <2>7 DEF Next
<1>. QED
  BY <1>1, <1>2, InvariantHolds, PTL DEF Spec, ImplementsOwnership, Ownership!Spec

=============================================================================
