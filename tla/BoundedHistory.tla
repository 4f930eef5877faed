--------------------------- MODULE BoundedHistory ---------------------------
(***************************************************************************)
(* What a bounded history promises to its clients: it keeps the Capacity   *)
(* most recent items, oldest first, and a reader that asks for the latest  *)
(* n is given them as they were at one instant of its call.                *)
(*                                                                         *)
(* model.RingBuffer (packet history of a flow) and monitor.StatusLog       *)
(* (recent status messages) both make this promise, with different data    *)
(* structures.                                                             *)
(***************************************************************************)
EXTENDS Naturals, Sequences

CONSTANTS Items,      \* what is recorded
          Capacity,   \* how many of the latest items are kept
          Readers,    \* the goroutines that ask for the history
          Asked       \* how many items a reader may ask for

VARIABLES hist,     \* the items kept, oldest first
          answer    \* what each reader's latest call was given

vars == <<hist, answer>>

\* A history to which one item was just appended, cut back to Capacity.
Trimmed(s) == IF Len(s) > Capacity THEN Tail(s) ELSE s

\* The latest n items of s, or all of them if there are fewer.
Latest(s, n) == IF n < Len(s) THEN SubSeq(s, Len(s) - n + 1, Len(s)) ELSE s

Init == /\ hist = <<>>
        /\ answer = [r \in Readers |-> <<>>]

Record(x) == /\ hist' = Trimmed(Append(hist, x))
             /\ UNCHANGED answer

Report(r) == /\ \E n \in Asked : answer' = [answer EXCEPT ![r] = Latest(hist, n)]
             /\ UNCHANGED hist

Forget == /\ hist' = <<>>
          /\ UNCHANGED answer

Next == \/ \E x \in Items : Record(x)
        \/ \E r \in Readers : Report(r)
        \/ Forget

Spec == Init /\ [][Next]_vars
=============================================================================
