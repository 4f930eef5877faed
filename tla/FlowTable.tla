------------------------------ MODULE FlowTable ------------------------------
(***************************************************************************)
(* What the flow aggregator promises to whoever looks at its flows: every  *)
(* packet is accounted for in the one open flow of its conversation, which *)
(* is opened when there is none, and a flow that has expired is never      *)
(* touched again.                                                          *)
(***************************************************************************)
EXTENDS Naturals, Sequences

CONSTANT Conversations   \* pairs <<set of hosts, protocol name>>

VARIABLE objs    \* the flows in the order they were opened

OpenFlow(i, c) == i \in DOMAIN objs /\ objs[i].conv = c /\ objs[i].status = "open"

Init == objs = <<>>

\* A packet of conversation c is counted in the conversation's open flow.
Continue(c) == \E i \in DOMAIN objs :
                 /\ OpenFlow(i, c)
                 /\ objs' = [objs EXCEPT ![i].pkts = @ + 1]

\* The first packet of conversation c, or the first since its flow expired; the
\* flow is shown in the direction of the host h that sent it.
Open(c, h) == /\ \A i \in DOMAIN objs : ~OpenFlow(i, c)
              /\ objs' = Append(objs, [conv |-> c, opener |-> h, pkts |-> 1, status |-> "open"])

\* Any of the flows may expire together.
Expire(S) == objs' = [i \in DOMAIN objs |-> IF i \in S
                                            THEN [objs[i] EXCEPT !.status = "expired"]
                                            ELSE objs[i]]

Next == \/ \E c \in Conversations : Continue(c) \/ \E h \in c[1] : Open(c, h)
        \/ \E S \in SUBSET DOMAIN objs : Expire(S)

Spec == Init /\ [][Next]_objs
=============================================================================
