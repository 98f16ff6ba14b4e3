--------------------------- MODULE HandleOwnership ---------------------------
(***************************************************************************)
(* What the graphic buffers promise of native handles, without clients,    *)
(* wrappers, records or locks: a handle that is made has one buffer that   *)
(* will release it, and is released once, by that buffer, or is lost.  It  *)
(* never passes from one buffer to another, and what was lost stays lost.  *)
(***************************************************************************)

CONSTANTS Buffers,         \* GraphicBuffer objects
          Handles          \* addresses of native handles

VARIABLES owned,           \* <<b, h>>: b is to release h
          live,            \* handles made and not released
          lost             \* handles nobody will release

vars == <<owned, live, lost>>

Init == owned = {} /\ live = {} /\ lost = {}

\* A buffer that is to release none comes by a handle that nobody has.
Acquire(b, h) ==
    /\ h \notin live
    /\ \A k \in Handles : <<b, k>> \notin owned
    /\ owned' = owned \cup {<<b, h>>} /\ live' = live \cup {h}
    /\ UNCHANGED lost

\* It releases the handle; its address may be used again ...
Release(b, h) ==
    /\ <<b, h>> \in owned
    /\ owned' = owned \ {<<b, h>>} /\ live' = live \ {h}
    /\ UNCHANGED lost

\* ... or forgets it.
Forget(b, h) ==
    /\ <<b, h>> \in owned
    /\ owned' = owned \ {<<b, h>>} /\ lost' = lost \cup {h}
    /\ UNCHANGED live

\* A handle is made for a buffer and not taken by it.
Waste(h) ==
    /\ h \notin live
    /\ live' = live \cup {h} /\ lost' = lost \cup {h}
    /\ UNCHANGED owned

Next ==
    \E h \in Handles :
        \/ \E b \in Buffers : Acquire(b, h) \/ Release(b, h) \/ Forget(b, h)
        \/ Waste(h)

Spec == Init /\ [][Next]_vars

=============================================================================
