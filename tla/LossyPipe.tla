------------------------------ MODULE LossyPipe ------------------------------
(***************************************************************************)
(* What the way of a captured frame, from the kernel to the aggregator,    *)
(* promises: a frame that enters is delivered once, or is lost on the way  *)
(* and counted as lost, and frames are never delivered out of order.       *)
(***************************************************************************)
EXTENDS Naturals, Sequences

VARIABLES entered,    \* how many frames have entered, and the last one's number
          transit,    \* the numbers of the frames on the way
          delivered,  \* those delivered, in order
          lost        \* how many were lost

vars == <<entered, transit, delivered, lost>>

Init == entered = 0 /\ transit = <<>> /\ delivered = <<>> /\ lost = 0

Without(s, i) == SubSeq(s, 1, i - 1) \o SubSeq(s, i + 1, Len(s))

Enter == /\ entered' = entered + 1
         /\ transit' = Append(transit, entered')
         /\ UNCHANGED <<delivered, lost>>

Deliver == /\ transit # <<>>
           /\ delivered' = Append(delivered, Head(transit))
           /\ transit' = Tail(transit)
           /\ UNCHANGED <<entered, lost>>

Lose == /\ \E i \in DOMAIN transit : transit' = Without(transit, i)
        /\ lost' = lost + 1
        /\ UNCHANGED <<entered, delivered>>

Next == Enter \/ Deliver \/ Lose

Spec == Init /\ [][Next]_vars
=============================================================================
