---------------------------- MODULE TwoSlotUpdate ----------------------------
(***************************************************************************)
(* What the firmware update promises of the two boot partitions, without   *)
(* mappings, write-back, force_ro or the order of its stores: while it has *)
(* a turn a partition may be torn in any way, the other one is left alone; *)
(* the turn passes on, and the call succeeds, only when the partition has  *)
(* all that was read of the file and the tokens it had before.  Only a     *)
(* power loss ends a call with a partition torn.                           *)
(*                                                                         *)
(* It does not promise the file: the rest of a file that was not read to   *)
(* its end is garbage, and behind a short file the partition is as it was. *)
(***************************************************************************)
EXTENDS Integers

CONSTANTS Files,           \* firmware files
          Length,          \* of each, in blocks
          Last,            \* block of a partition
          None             \* nobody's turn, no file, no result

Slots  == 0 .. 1
Places == 1 .. Last

VARIABLES slot,            \* what each partition holds
          turn,            \* the partition being replaced, or None
          file, got,       \* the file of the last call and how much it read
          kept,            \* what each partition held then
          result           \* of the last call, once it ended

vars == <<slot, turn, file, got, kept, result>>

Whole(firmware, tokens) ==
    [firmware |-> firmware, tokens |-> tokens, xor |-> <<firmware, tokens>>]

Init ==
    /\ slot = [p \in Slots |-> Whole([b \in Places |-> "old"], "device")]
    /\ turn = None /\ file = None /\ got = 0 /\ result = None
    /\ kept = slot

Call(f) ==
    /\ turn = None
    /\ file' = f /\ kept' = slot
    /\ UNCHANGED slot

Start(f, n) == Call(f) /\ got' = n /\ turn' = 0 /\ result' = None
Refuse(f)   == Call(f) /\ got' = 0 /\ turn' = None /\ result' = -1

\* What block b of a partition is to hold.
Due(p, b) == IF b <= got THEN file
             ELSE IF b <= Length[file] THEN "garbage" ELSE kept[p].firmware[b]

\* Nothing else gets into the partition that has its turn.
Tear ==
    /\ turn \in Slots
    /\ \A b \in Places :
          slot'[turn].firmware[b] \in {slot[turn].firmware[b], Due(turn, b)}
    /\ \A p \in Slots \ {turn} : slot'[p] = slot[p]
    /\ UNCHANGED <<turn, file, got, kept, result>>

Replaced(p) == slot[p] = Whole([b \in Places |-> Due(p, b)], kept[p].tokens)

Advance ==
    /\ turn = 0 /\ Replaced(0)
    /\ turn' = 1
    /\ UNCHANGED <<slot, file, got, kept, result>>

Finish ==
    /\ turn = 1 /\ \A p \in Slots : Replaced(p)
    /\ turn' = None /\ result' = 0
    /\ UNCHANGED <<slot, file, got, kept>>

GiveUp ==
    /\ turn \in Slots /\ \A p \in Slots : slot[p] = kept[p] \/ Replaced(p)
    /\ turn' = None /\ result' = -1
    /\ UNCHANGED <<slot, file, got, kept>>

PowerLoss ==
    /\ turn' = None /\ file' = None /\ got' = 0 /\ result' = None
    /\ UNCHANGED <<slot, kept>>

Next ==
    \/ \E f \in Files : Refuse(f) \/ \E n \in 0 .. Length[f] : Start(f, n)
    \/ Tear \/ Advance \/ Finish \/ GiveUp \/ PowerLoss

Spec == Init /\ [][Next]_vars

=============================================================================
