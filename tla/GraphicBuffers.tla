---------------------------- MODULE GraphicBuffers ----------------------------
(***************************************************************************)
(* The graphic buffers of src/libshims/ui: GraphicBuffer objects, each     *)
(* used by the thread of one client, over the allocator and the mapper     *)
(* they share.  A buffer owns its handle in one of three ways; it drops,   *)
(* replaces and fills it along many error paths.  The gralloc module,      *)
(* native_handle_create and the fences are external: they may fail, and    *)
(* the address of a released handle is handed out again.                   *)
(***************************************************************************)
EXTENDS Naturals

CONSTANTS Buffers,       \* GraphicBuffer objects
          Handles,       \* addresses of native handles
          Params,        \* width, height, format and usage, as one value
          Fences,        \* fence descriptors; each is handed over once
          Grallocs,      \* what the gralloc module may offer (see Offers)
          NULL

Offers == {"async", "async_ycbcr", "ycbcr"}

ASSUME GraphicBuffersAssumption ==
    /\ Grallocs \subseteq SUBSET Offers
    /\ NULL \notin Buffers \cup Handles \cup Params \cup Fences

VARIABLES gralloc,        \* API 0.3 ("async"), lockAsync_ycbcr, lock_ycbcr
          buffer,         \* handle, mOwner, mWrappedBuffer and size of each
          at,             \* where the client's call on the buffer is
          operand,        \* what that call goes on with
          heap,           \* who is to release each handle, or "free"
          sAllocList,     \* the allocator's records
          fence,          \* each descriptor: unused, held by a call, handed to
                          \* the module, closed, left as it came, or misused
          signalled,      \* fences whose work is done
          cutShort,       \* fences whose sync_wait fails or is interrupted
          \* History:
          lost,           \* handles nobody will release: an error path, see there
          recycled,       \* device handles given out before an earlier free ended
          stale,          \* wrappers whose buffer has since dropped its handle
          guard           \* the fence that came with each buffer's present lock

vars == <<gralloc, buffer, at, operand, heap, sAllocList, fence,
          signalled, cutShort, lost, recycled, stale, guard>>

ownership == <<buffer, heap, sAllocList, lost, recycled, stale>>
fences    == <<fence, signalled, cutShort, guard>>

Blank == [handle |-> NULL, mOwner |-> "ownData", wraps |-> NULL, size |-> NULL]

Init ==
    /\ gralloc \in Grallocs
    /\ buffer = [b \in Buffers |-> Blank]
    /\ at = [b \in Buffers |-> "gone"]
    /\ operand = [b \in Buffers |-> NULL]
    /\ heap = [h \in Handles |-> "free"]
    /\ sAllocList = {}
    /\ fence = [f \in Fences |-> "unused"]
    /\ signalled = {} /\ cutShort = {}
    /\ lost = {} /\ recycled = {} /\ stale = {}
    /\ guard = [b \in Buffers |-> NULL]

Idle(b)       == at[b] = "idle"
GoTo(b, step) == at' = [at EXCEPT ![b] = step]

Step(b, step, with) == GoTo(b, step) /\ operand' = [operand EXCEPT ![b] = with]

\* The wrappers of a buffer, theirs, and so on: the least set with all of them.
Wrappers(b) ==
    { w \in Buffers : \A S \in SUBSET Buffers :
        (\A v \in Buffers : buffer[v].wraps \in S \cup {b} => v \in S) => w \in S }

-----------------------------------------------------------------------------
\* Constructors.

\* GraphicBuffer(), and with a size, which goes on to initSize.
ConstructEmpty(b) ==
    /\ at[b] = "gone"
    /\ buffer' = [buffer EXCEPT ![b] = Blank]
    /\ GoTo(b, "idle")
    /\ stale' = stale \ {b}
    /\ UNCHANGED <<gralloc, operand, heap, sAllocList, lost, recycled,
                   fences>>

ConstructSized(b, size) ==
    /\ at[b] = "gone"
    /\ buffer' = [buffer EXCEPT ![b] = Blank]
    /\ Step(b, "alloc", size)
    /\ stale' = stale \ {b}
    /\ UNCHANGED <<gralloc, heap, sAllocList, lost, recycled, fences>>

\* A handle made by the caller, who keeps it or (keepOwnership) gives it away.
ConstructAround(b, h, size, keepOwnership) ==
    /\ at[b] = "gone" /\ heap[h] = "free"
    /\ heap' = [heap EXCEPT ![h] = IF keepOwnership THEN "native" ELSE "caller"]
    /\ buffer' = [buffer EXCEPT ![b] =
         [handle |-> h, wraps |-> NULL, size |-> size,
          mOwner |-> IF keepOwnership THEN "ownHandle" ELSE "ownNone"]]
    /\ GoTo(b, "idle")
    /\ stale' = stale \ {b}
    /\ UNCHANGED <<gralloc, operand, sAllocList, lost, recycled, fences>>

\* Mutant: the wrapper keeps no reference to the buffer it wraps.
Wrapping_Unreferenced(other) ==
    [buffer[other] EXCEPT !.mOwner = "ownNone", !.wraps = NULL]

Wrapping(other) ==
    [buffer[other] EXCEPT !.mOwner = "ownNone", !.wraps = other]

\* A wrapper of a native window buffer that is a GraphicBuffer itself.
ConstructWrapper(b, other) ==
    /\ at[b] = "gone" /\ at[other] \in {"idle", "locked"}
    /\ buffer' = [buffer EXCEPT ![b] = Wrapping(other)]
    /\ stale' = IF other \in stale THEN stale \cup {b} ELSE stale \ {b}
    /\ GoTo(b, "idle")
    /\ UNCHANGED <<gralloc, operand, heap, sAllocList, lost, recycled,
                   fences>>

\* The caller deletes a handle it kept, when no buffer has it.
CallerDeletes(h) ==
    /\ heap[h] = "caller"
    /\ \A b \in Buffers : buffer[b].handle # h
    /\ heap' = [heap EXCEPT ![h] = "free"]
    /\ UNCHANGED <<gralloc, buffer, at, operand, sAllocList, lost,
                   recycled, stale, fences>>

-----------------------------------------------------------------------------
\* GraphicBufferAllocator: the device is called outside sLock, the list is
\* changed under it.

\* initSize: the device allocates, or fails and leaves handle and size alone.
DeviceAllocates(b, h) ==
    /\ at[b] = "alloc" /\ heap[h] = "free"
    /\ heap' = [heap EXCEPT ![h] = "device"]
    /\ recycled' = IF \E t \in Buffers : at[t] = "unlist" /\ operand[t].handle = h
                   THEN recycled \cup {h} ELSE recycled \ {h}
    /\ buffer' = [buffer EXCEPT ![b].handle = h]
    /\ GoTo(b, "list")
    /\ UNCHANGED <<gralloc, operand, sAllocList, lost, stale, fences>>

DeviceAllocFails(b) ==
    /\ at[b] = "alloc"
    /\ Step(b, "idle", NULL)
    /\ UNCHANGED <<gralloc, ownership, fences>>

\* The record is added and initSize takes over the size.
ListAdd(b) ==
    /\ at[b] = "list"
    /\ sAllocList' = sAllocList \cup {buffer[b].handle}
    /\ buffer' = [buffer EXCEPT ![b].size = operand[b]]
    /\ Step(b, "idle", NULL)
    /\ UNCHANGED <<gralloc, heap, lost, recycled, stale, fences>>

\* Mutant: the record of a freed handle stays.
Unlisted_Never(h) == sAllocList

Unlisted(h) == sAllocList \ {h}

\* The record of a freed handle is removed; the call goes on.
ListRemove(b) ==
    /\ at[b] = "unlist"
    /\ sAllocList' = Unlisted(operand[b].handle)
    /\ Step(b, operand[b].next, operand[b].with)
    /\ UNCHANGED <<gralloc, buffer, heap, lost, recycled, stale, fences>>

\* free_handle and allocator.free: the buffer lets its handle go as it owns
\* it, then the call goes on at step next with an operand.
FreeHandle(b, next, with) ==
    LET h == buffer[b].handle IN
    /\ h # NULL
    /\ buffer' = [buffer EXCEPT ![b].handle = NULL, ![b].wraps = NULL]
    /\ stale' = IF next = "gone" THEN stale ELSE stale \cup Wrappers(b)
    /\ \/ /\ buffer[b].mOwner = "ownNone"
          /\ Step(b, next, with)
          /\ UNCHANGED <<heap, lost>>
       \/ /\ buffer[b].mOwner = "ownHandle"
          /\ heap' = [heap EXCEPT ![h] = "free"]
          /\ Step(b, next, with)
          /\ UNCHANGED lost
       \/ /\ buffer[b].mOwner = "ownData"
          /\ heap' = [heap EXCEPT ![h] = "free"]
          /\ Step(b, "unlist", [handle |-> h, next |-> next, with |-> with])
          /\ UNCHANGED lost
       \/ /\ buffer[b].mOwner = "ownData"      \* the device's free fails
          /\ lost' = lost \cup {h}
          /\ Step(b, next, with)
          /\ UNCHANGED <<heap>>
    /\ UNCHANGED <<gralloc, sAllocList, recycled, fences>>

-----------------------------------------------------------------------------
\* Operations of a GraphicBuffer.

\* The last reference goes; wrappers hold one each.
Destroy(b) ==
    /\ Idle(b)
    /\ \A w \in Buffers : buffer[w].wraps # b
    /\ \/ FreeHandle(b, "gone", NULL)
       \/ /\ buffer[b].handle = NULL
          /\ buffer' = [buffer EXCEPT ![b].wraps = NULL]
          /\ GoTo(b, "gone")
          /\ UNCHANGED <<gralloc, operand, heap, sAllocList, lost, recycled,
                   stale, fences>>

\* Mutant: a wrapper or a received buffer allocates too.
MayReallocate_Any(b) == TRUE

MayReallocate(b) == buffer[b].mOwner = "ownData"

\* A new size: the handle is freed, then initSize.  The same size with a
\* handle in place, or a handle of another kind, is left alone.
reallocate(b, size) ==
    /\ Idle(b) /\ MayReallocate(b)
    /\ buffer[b].handle = NULL \/ buffer[b].size # size
    /\ \/ FreeHandle(b, "alloc", size)
       \/ /\ buffer[b].handle = NULL
          /\ Step(b, "alloc", size)
          /\ UNCHANGED <<gralloc, ownership, fences>>

\* unflatten refuses a message that is short or not one of its own, and
\* changes nothing; one with absurd counts makes it forget its handle ...
UnflattenTooLarge(b) ==
    /\ Idle(b)
    /\ buffer' = [buffer EXCEPT ![b].handle = NULL, ![b].size = NULL]
    /\ lost' = IF buffer[b].handle = NULL \/ buffer[b].mOwner = "ownNone"
               THEN lost ELSE lost \cup {buffer[b].handle}
    /\ stale' = IF buffer[b].handle = NULL THEN stale ELSE stale \cup Wrappers(b)
    /\ UNCHANGED <<gralloc, at, operand, heap, sAllocList, recycled, fences>>

\* Mutant: the previous handle is not freed.
ReleaseForUnflatten_Skipped(b, size) ==
    /\ Step(b, "fill", size)
    /\ UNCHANGED <<gralloc, ownership, fences>>

\* ... and any other frees the handle there was.
ReleaseForUnflatten(b, size) ==
    \/ FreeHandle(b, "fill", size)
    \/ /\ buffer[b].handle = NULL
       /\ Step(b, "fill", size)
       /\ UNCHANGED <<gralloc, ownership, fences>>

\* The message names a size, or neither descriptors nor data (NULL).
Unflatten(b, size) == Idle(b) /\ ReleaseForUnflatten(b, size)

\* A message without a handle, or no memory for one: mOwner changes only in
\* the first case.
FillEmpty(b) ==
    /\ at[b] = "fill"
    /\ \E owner \in IF operand[b] = NULL THEN {"ownHandle"} ELSE {buffer[b].mOwner} :
         buffer' = [buffer EXCEPT ![b].handle = NULL, ![b].size = NULL,
                                  ![b].mOwner = owner]
    /\ Step(b, "idle", NULL)
    /\ UNCHANGED <<gralloc, heap, sAllocList, lost, recycled, stale, fences>>

\* A new handle is filled and registered; one the module does not take is
\* forgotten.
FillHandle(b, h) ==
    /\ at[b] = "fill" /\ operand[b] # NULL /\ heap[h] = "free"
    /\ heap' = [heap EXCEPT ![h] = "native"]
    /\ \/ /\ buffer' = [buffer EXCEPT ![b].handle = h, ![b].size = operand[b],
                                      ![b].mOwner = "ownHandle"]
          /\ UNCHANGED lost
       \/ /\ lost' = lost \cup {h}
          /\ buffer' = [buffer EXCEPT ![b].handle = NULL, ![b].size = NULL,
                                      ![b].mOwner = "ownHandle"]
    /\ Step(b, "idle", NULL)
    /\ UNCHANGED <<gralloc, sAllocList, recycled, stale, fences>>

-----------------------------------------------------------------------------
\* Locking.  The module refuses a null handle and may refuse any.

ModuleLocks(b) ==
    \E outcome \in IF buffer[b].handle = NULL THEN {"idle"} ELSE {"idle", "locked"} :
        GoTo(b, outcome)

\* A lock, for as long as it lasts, with the fence that came with it, or NULL.
Guarded(b, f) ==
    guard' = [guard EXCEPT ![b] = IF at'[b] \in {"wait", "locked"} THEN f ELSE NULL]

lock(b) ==
    /\ Idle(b)
    /\ ModuleLocks(b)
    /\ Guarded(b, NULL)
    /\ UNCHANGED <<gralloc, operand, ownership, fence, signalled, cutShort>>

lockYCbCr(b) == "ycbcr" \in gralloc /\ lock(b)

\* unlock and unlockAsync.
unlock(b) ==
    /\ at[b] = "locked"
    /\ Step(b, "idle", NULL)
    /\ Guarded(b, NULL)
    /\ UNCHANGED <<gralloc, ownership, fence, signalled, cutShort>>

\* A call brings a fence nobody has had before, or none.
Fresh == { f \in Fences : fence[f] = "unused" } \cup {NULL}

\* What becomes of a descriptor.  One that was closed, or that the module has,
\* is not the call's any more; its number may be another file's by now.
Mark(f, state) ==
    fence' = IF f = NULL THEN fence
             ELSE [fence EXCEPT ![f] =
                     IF @ \in {"unused", "held"} THEN state ELSE "misused"]

\* A rectangle outside of the buffer: the descriptor stays as it came.
LockOutOfBounds(b, f) ==
    /\ Idle(b)
    /\ Mark(f, "left")
    /\ UNCHANGED <<gralloc, at, operand, ownership, signalled, cutShort, guard>>

\* The module takes the descriptor and waits for it itself, ...
PassFence(b, f) ==
    /\ Mark(f, "module")
    /\ ModuleLocks(b)
    /\ UNCHANGED <<operand, signalled, cutShort>>

\* Mutant: the mapper waits for no fence, too.
WaitForFence_Unchecked(b, f) ==
    /\ Mark(f, "held")
    /\ Step(b, "wait", f)
    /\ UNCHANGED <<signalled, cutShort>>

\* ... or, if it cannot, the mapper waits first, for a fence that may have
\* signalled already, ...
WaitForFence(b, f) ==
    \/ /\ f # NULL
       /\ Mark(f, "held")
       /\ signalled' \in {signalled, signalled \cup {f}}
       /\ Step(b, "wait", f)
       /\ UNCHANGED cutShort
    \/ /\ f = NULL
       /\ ModuleLocks(b)
       /\ UNCHANGED <<operand, fence, signalled, cutShort>>

\* ... or, when there is no such lock, closes it.
RefuseYCbCr(f) == Mark(f, "closed")

lockAsync(b, f) ==
    /\ Idle(b)
    /\ IF "async" \in gralloc THEN PassFence(b, f) ELSE WaitForFence(b, f)
    /\ Guarded(b, f)
    /\ UNCHANGED <<gralloc, ownership>>

TakesFenceYCbCr == {"async", "async_ycbcr"} \subseteq gralloc

lockAsyncYCbCr(b, f) ==
    /\ Idle(b)
    /\ \/ TakesFenceYCbCr /\ PassFence(b, f)
       \/ ~TakesFenceYCbCr /\ "ycbcr" \in gralloc /\ WaitForFence(b, f)
       \/ /\ ~TakesFenceYCbCr /\ "ycbcr" \notin gralloc
          /\ RefuseYCbCr(f)
          /\ UNCHANGED <<at, operand, signalled, cutShort>>
    /\ Guarded(b, f)
    /\ UNCHANGED <<gralloc, ownership>>

\* Mutant: sync_wait is given no time to wait.
WaitEnds_AtOnce(f) == TRUE

\* sync_wait returns when the fence signalled, or fails; the mapper does not
\* look which.
WaitEnds(f) == f \in signalled \cup cutShort

\* The descriptor is closed and the module called.
FenceWaited(b) ==
    LET f == operand[b] IN
    /\ at[b] = "wait"
    /\ WaitEnds(f)
    /\ Mark(f, "closed")
    /\ ModuleLocks(b)
    /\ Guarded(b, guard[b])
    /\ operand' = [operand EXCEPT ![b] = NULL]
    /\ UNCHANGED <<gralloc, ownership, signalled, cutShort>>

\* External: the producer's work ends, ...
FenceSignals(f) ==
    /\ fence[f] = "held" /\ f \notin signalled
    /\ signalled' = signalled \cup {f}
    /\ UNCHANGED <<gralloc, at, operand, ownership, fence, cutShort, guard>>

\* ... or the wait for it fails or is interrupted before that.
WaitFails(f) ==
    /\ fence[f] = "held" /\ f \notin signalled \cup cutShort
    /\ cutShort' = cutShort \cup {f}
    /\ UNCHANGED <<gralloc, at, operand, ownership, fence, signalled, guard>>

Allocator(b) == \/ \E h \in Handles : DeviceAllocates(b, h)
                \/ DeviceAllocFails(b) \/ ListAdd(b) \/ ListRemove(b)

Object(b) ==
    \/ ConstructEmpty(b)
    \/ \E size \in Params : ConstructSized(b, size) \/ reallocate(b, size)
    \/ \E h \in Handles, size \in Params, keepOwnership \in BOOLEAN :
         ConstructAround(b, h, size, keepOwnership)
    \/ \E other \in Buffers \ {b} : ConstructWrapper(b, other)
    \/ Destroy(b)
    \/ UnflattenTooLarge(b)
    \/ \E size \in Params \cup {NULL} : Unflatten(b, size)
    \/ FillEmpty(b) \/ \E h \in Handles : FillHandle(b, h)

Locking(b) ==
    \/ lock(b) \/ lockYCbCr(b) \/ unlock(b) \/ FenceWaited(b)
    \/ \E f \in Fresh : \/ LockOutOfBounds(b, f)
                        \/ lockAsync(b, f) \/ lockAsyncYCbCr(b, f)

Next == \/ \E b \in Buffers : Allocator(b) \/ Object(b) \/ Locking(b)
        \/ \E h \in Handles : CallerDeletes(h)
        \/ \E f \in Fences : FenceSignals(f) \/ WaitFails(f)

Spec == Init /\ [][Next]_vars

-----------------------------------------------------------------------------
\* Properties.

Owns(b) == buffer[b].handle # NULL /\ buffer[b].mOwner # "ownNone"

\* The variables have their types.
TypeOK ==
    /\ gralloc \in Grallocs
    /\ buffer \in [Buffers -> [handle : Handles \cup {NULL},
                               mOwner : {"ownNone", "ownHandle", "ownData"},
                               wraps  : Buffers \cup {NULL},
                               size   : Params \cup {NULL}]]
    /\ at \in [Buffers -> {"gone", "idle", "alloc", "list", "unlist", "fill",
                           "wait", "locked"}]
    /\ \A b \in Buffers : at[b] = "wait" => operand[b] \in Fences
    /\ heap \in [Handles -> {"free", "device", "native", "caller"}]
    /\ sAllocList \subseteq Handles
    /\ fence \in [Fences -> {"unused", "held", "module", "closed", "left", "misused"}]
    /\ guard \in [Buffers -> Fences \cup {NULL}]

\* Whatever operations fail or are repeated: a handle that a buffer is to
\* release is live, of the kind its mOwner says, and no other buffer is to
\* release it too.  So none is released twice or with the wrong function
\* (GraphicBuffer.cpp 122-133, 154-165, 366-405).
OwnedOnce ==
    \A b \in Buffers : Owns(b) =>
        /\ heap[buffer[b].handle] =
             IF buffer[b].mOwner = "ownData" THEN "device" ELSE "native"
        /\ \A other \in Buffers \ {b} :
             Owns(other) => buffer[other].handle # buffer[b].handle

\* Every live handle of the buffers' is with the buffer that will release it,
\* but for three error paths: the device refuses to free it, a message has
\* absurd counts (352-358), or the module does not register it (397-405).
NothingElseLost ==
    \A h \in Handles : heap[h] \in {"device", "native"} =>
        h \in lost \/ \E b \in Buffers : Owns(b) /\ buffer[b].handle = h

\* "this reference will make sure it doesn't get freed" (GraphicBuffer.h 166):
\* a wrapper never outlives the handle of the buffer it wraps, unless that
\* buffer dropped the handle itself (by reallocate or unflatten).
WrapperHandleLive ==
    \A b \in Buffers :
        buffer[b].handle # NULL /\ buffer[b].mOwner = "ownNone" /\ b \notin stale =>
            heap[buffer[b].handle] # "free"

\* The allocator's records, kept outside the device's calls: each is of a
\* device handle or of one whose free has not ended; and each device handle
\* has one, or soon will have, unless its address was given out again before
\* an earlier free of it removed "its" record (GraphicBufferAllocator.cpp).
RecordsMatch ==
    /\ \A h \in sAllocList :
         heap[h] = "device" \/ \E b \in Buffers : at[b] = "unlist" /\ operand[b].handle = h
    /\ \A h \in Handles : heap[h] = "device" =>
         \/ h \in sAllocList \cup recycled
         \/ \E b \in Buffers : at[b] = "list" /\ buffer[b].handle = h

\* Whichever of the three ways a lock with a fence goes: its descriptor is not
\* used again once it was closed or the module has it, is held by no call that
\* ended, and the pixels are locked only with the module waiting for the fence
\* or after it signalled (GraphicBufferMapper.cpp 123-175).  Where sync_wait
\* fails the mapper locks all the same (135, 160), which is let pass, as is a
\* descriptor refused for its rectangle (GraphicBuffer.cpp 255-261).
FencesRespected ==
    /\ \A f \in Fences : fence[f] # "misused"
    /\ \A f \in Fences : fence[f] = "held" =>
         \E b \in Buffers : at[b] = "wait" /\ operand[b] = f
    /\ \A b \in Buffers : at[b] = "locked" /\ guard[b] # NULL =>
         \/ fence[guard[b]] = "module"
         \/ fence[guard[b]] = "closed" /\ guard[b] \in signalled \cup cutShort

Owned == { pair \in Buffers \X Handles :
             Owns(pair[1]) /\ buffer[pair[1]].handle = pair[2] }

Live == { h \in Handles : heap[h] \in {"device", "native"} }

Ownership == INSTANCE HandleOwnership WITH owned <- Owned, live <- Live

\* Every handle goes one way: to the one buffer that is to release it, by whose
\* release or on whose error path it goes, whichever of the three kinds of
\* ownership, the constructors and the calls it went through (GraphicBuffer.cpp
\* 87-133, 151-196, 337-414).
ImplementsOwnership == Ownership!Spec

=============================================================================
