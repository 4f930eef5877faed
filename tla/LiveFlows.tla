------------------------------ MODULE LiveFlows ------------------------------
(***************************************************************************)
(* The dashboard's table of flows on top of the running aggregator:        *)
(* updateFlows of internal/tui/dashboard.go against processEvent and       *)
(* closeIdleFlows.                                                         *)
(*                                                                         *)
(* GetAllFlows copies pointers under the lock; the Flow objects behind     *)
(* them stay shared.  updateFlows then assigns field by field, without the *)
(* lock, and in the usual case from an object to itself: each assignment   *)
(* is a load and a store, and the aggregator may run between the two.      *)
(*                                                                         *)
(* PacketHistory is a pointer and DNSQueryNames a map: assigning them makes *)
(* two flows share one history and one map.  A flow assigned to itself     *)
(* keeps its own; a row whose Flow was closed, while its conversation was   *)
(* reopened in another Flow, is given that one's from then on.             *)
(***************************************************************************)
EXTENDS FlowAggregator, SequencesExt

VARIABLES rows,      \* d.flows: places in heap, in the order shown
          snapshot,  \* newFlows of the latest refresh: a set of places
          todo,      \* assignments the refresh still has to do
          loaded,    \* the value the current assignment has loaded
          refs,      \* whose history and map a flow points to, where not its own
          uiPc,      \* "idle", "load" or "store"
          paused     \* d.paused

ui == <<rows, snapshot, todo, loaded, refs, uiPc, paused>>
liveVars == <<vars, ui>>

\* The fields updateFlows assigns, in its order.
Fields == <<"bytes", "pkts", "fwdBytes", "revBytes", "fwdPkts", "revPkts", "last",
            "dnsQueries", "dnsNames", "dnsFailures", "dnsLast", "history">>

\* Those of them that refer to an object, and the flow whose object it is.  The
\* aggregator writes to the objects of open flows, which own theirs.
References == {"dnsNames", "history"}
Target(i, field) == IF <<i, field>> \in DOMAIN refs THEN refs[<<i, field>>] ELSE i
HistoryOf(i) == heap[Target(i, "history")].history

\* getFlowId: the ends in the order of the flow's first packet.
getFlowId(i) == <<heap[i].src, heap[i].dst, heap[i].proto>>

\* What GetAllFlows returns: the objects the table points to.
Current == {flows[k] : k \in DOMAIN flows}

SameId(i, S) == {j \in S : getFlowId(j) = getFlowId(i)}

\* Mutant of CopiesOf: the assignments the other way round.
CopiesBack(i, j) == [n \in DOMAIN Fields |-> [to |-> j, from |-> i, field |-> Fields[n]]]

\* The assignments that bring row i up to date from the flow j found for it.
CopiesOf(i, j) == [n \in DOMAIN Fields |-> [to |-> i, from |-> j, field |-> Fields[n]]]
Copies(kept, S) ==
  FlattenSeq([n \in DOMAIN kept |-> CopiesOf(kept[n], CHOOSE j \in SameId(kept[n], S) : TRUE)])
-----------------------------------------------------------------------------
LiveInit == /\ Init
            /\ rows = <<>> /\ snapshot = {} /\ todo = <<>> /\ loaded = 0
            /\ refs = <<>> /\ uiPc = "idle" /\ paused = FALSE

\* The rows whose conversation the aggregator still has.
Kept(S) == FlattenSeq([n \in DOMAIN rows |-> IF SameId(rows[n], S) # {} THEN <<rows[n]>>
                                                                       ELSE <<>>])

\* RefreshFlowsMsg: updateFlows up to the first assignment.
RefreshBegins ==
  /\ uiPc = "idle" /\ ~paused
  /\ snapshot' = Current
  /\ rows' = Kept(Current)
  /\ todo' = Copies(Kept(Current), Current)
  /\ uiPc' = "load"
  /\ UNCHANGED <<vars, loaded, refs, paused>>

\* currentFlow.F = newFlow.F: the right-hand side ...
CopyLoads ==
  /\ uiPc = "load" /\ todo # <<>>
  /\ LET copy == Head(todo)
     IN  loaded' = IF copy.field \in References THEN Target(copy.from, copy.field)
                                                ELSE heap[copy.from][copy.field]
  /\ uiPc' = "store"
  /\ UNCHANGED <<vars, rows, snapshot, todo, refs, paused>>

\* ... and the left-hand side: of a reference the object is replaced, not what is
\* in it.
Redirected(i, field, j) ==
  [p \in DOMAIN refs \cup {<<i, field>>} |-> IF p = <<i, field>> THEN j ELSE refs[p]]
CopyStores ==
  /\ uiPc = "store"
  /\ LET copy == Head(todo)
     IN  \/ /\ copy.field \notin References
            /\ heap' = [heap EXCEPT ![copy.to] = [@ EXCEPT ![copy.field] = loaded]]
            /\ UNCHANGED refs
         \/ /\ copy.field \in References
            /\ refs' = IF loaded = Target(copy.to, copy.field) THEN refs
                       ELSE Redirected(copy.to, copy.field, loaded)
            /\ UNCHANGED heap
  /\ todo' = Tail(todo)
  /\ uiPc' = "load"
  /\ loaded' = 0
  /\ UNCHANGED <<flows, globalStats, input, loops, stopped, clock, rows, snapshot, paused>>

\* Mutant of Added: every flow of the snapshot is appended.
AddedAll(S) == S

\* The flows of the snapshot that no row stands for.
Added(S) == {j \in S : \A n \in DOMAIN rows : getFlowId(rows[n]) # getFlowId(j)}

\* The rest of updateFlows: brand new flows are appended and the table sorted;
\* the comparison reads counters the aggregator is changing and the sort is not
\* stable, so any order may result.
RefreshEnds ==
  /\ uiPc = "load" /\ todo = <<>>
  /\ \E shown \in SetToSeqs(ToSet(rows) \cup Added(snapshot)) : rows' = shown
  /\ uiPc' = "idle"
  /\ UNCHANGED <<vars, snapshot, todo, loaded, refs, paused>>

\* The key "p".
TogglePause == /\ uiPc = "idle"
               /\ paused' = ~paused
               /\ UNCHANGED <<vars, rows, snapshot, todo, loaded, refs, uiPc>>

LiveNext == \/ Next /\ UNCHANGED ui
            \/ RefreshBegins \/ CopyLoads \/ CopyStores \/ RefreshEnds
            \/ TogglePause

LiveSpec == LiveInit /\ [][LiveNext]_liveVars
-----------------------------------------------------------------------------
\* The table has one row for a conversation, however refreshes interleave with
\* flows that close and reopen, and a refresh that has ended shows exactly the
\* conversations GetAllFlows returned.
OneRowPerFlow ==
  /\ \A m, n \in DOMAIN rows : getFlowId(rows[m]) = getFlowId(rows[n]) => m = n
  /\ uiPc = "idle" => {getFlowId(rows[n]) : n \in DOMAIN rows} = {getFlowId(j) : j \in snapshot}

\* What no refresh assigns accounts for every packet, in flows that are closed
\* too: the counts of both ports and the statistics.  So does the history of every
\* open flow, for no open flow is ever left with another's; a closed one may have
\* been given that of the flow that reopened its conversation.  Whosever history a
\* flow shows, its records are of its own conversation and go its own way.
Seen(f) == Total(f.srcPorts)
Owns(i) == \A field \in References : Target(i, field) = i
HistoryComplete(i) ==
  Len(HistoryOf(i)) = IF Seen(heap[i]) < PacketBufferSize THEN Seen(heap[i])
                                                         ELSE PacketBufferSize
HistoryIsOf(i) ==
  \A n \in DOMAIN HistoryOf(i) :
    LET r == HistoryOf(i)[n]
    IN  /\ {r.src, r.dst} = {heap[i].src, heap[i].dst}
        /\ r.dir = "forward" <=> r.src = heap[i].src /\ r.dst = heap[i].dst
AllAccountedFor ==
  /\ globalStats.totalPackets = TotalOf(Seen)
  /\ \A i \in Places :
       /\ Total(heap[i].dstPorts) = Seen(heap[i])
       /\ heap[i].state # "closed" => Owns(i)
       /\ Owns(i) => HistoryComplete(i)
       /\ HistoryIsOf(i)

\* The unlocked assignments may lose packets of an open flow but never invent
\* any, and what they lose is lost to these counters only: they are at most what
\* the port counts say, which agree with everything else that counts packets.
CountersNeverAhead ==
  /\ AllAccountedFor
  /\ \A i \in Places : heap[i].state # "closed" =>
       /\ heap[i].pkts <= Seen(heap[i])
       /\ heap[i].fwdPkts + heap[i].revPkts <= Seen(heap[i])

\* "Flow idle timeout" (README.md:42): with the dashboard running too, a flow is
\* closed only when its conversation has been silent for that long.
LiveOnlyIdleFlowsClose ==
  [][\A i \in Places :
       (heap[i].state # "closed" /\ heap'[i].state = "closed") =>
         \A n \in DOMAIN HistoryOf(i) : clock - HistoryOf(i)[n].at > FlowTimeout]_liveVars
=============================================================================
