--------------------------- MODULE FlowAggregator ---------------------------
(***************************************************************************)
(* internal/monitor/aggregator.go: the engine that correlates packet       *)
(* events into bidirectional flows and closes the idle ones.               *)
(*                                                                         *)
(* Two goroutines share the flow table: aggregateLoop takes events from    *)
(* the reader's channel, timeoutLoop sweeps the table at every tick.       *)
(* flowMutex makes the locked part of processEvent and of closeIdleFlows   *)
(* one step each; what processEvent computes before it has the lock (its   *)
(* timestamp above all) is a step of its own.                              *)
(*                                                                         *)
(* A Flow is an object that outlives its entry in the table (the dashboard *)
(* keeps pointers), so the objects are in a heap and the table maps keys   *)
(* to places in it.  A host is the rank of its dotted-quad text in Go's    *)
(* string order, the order getFlowKey compares by.                         *)
(***************************************************************************)
EXTENDS Naturals, Sequences, FiniteSets, Functions

CONSTANTS PacketEvents,      \* the events the reader may send
          Hosts, Ports, Domains,
          NoDNS,             \* the payload is absent or ParseDNS returns nil
          FlowTimeout,       \* fa.flowTimeout
          PacketBufferSize,  \* fa.packetBufferSize: records kept per flow
          ChanCap,           \* capacity of the event channel (10000)
          NoJob,             \* processEvent is not running
          MaxEvents,         \* bound of the model: events sent
          MaxClock           \* bound of the model: the time that passes

ResponseCodes == {"NoError", "FormErr", "ServFail", "NXDomain", "NotImpl", "Refused", "?"}
DNSMessage == [names : Seq(Domains), isResponse : BOOLEAN, rcode : ResponseCodes]

\* model.PacketEvent; dns stands for what ParseDNS makes of the payload.
PacketEvent == [saddr : Hosts, daddr : Hosts, sport : Ports, dport : Ports,
                proto : Nat, len : Nat, dns : DNSMessage \cup {NoDNS}]

ASSUME HostsAreRanks == Hosts \subseteq Nat
ASSUME PortsAssumption == Ports \subseteq Nat /\ 0 \in Ports /\ IsFiniteSet(Ports)
ASSUME EventsAssumption == PacketEvents \subseteq PacketEvent
ASSUME BoundsAssumption == /\ FlowTimeout \in Nat
                           /\ PacketBufferSize \in Nat \ {0}
                           /\ ChanCap \in Nat
ASSUME NoJobAssumption == NoJob \notin [evt : PacketEvents, now : Nat]

VARIABLES flows,        \* fa.flows: key -> place of the Flow in heap
          heap,         \* every Flow ever allocated, oldest first
          globalStats,  \* fa.globalStats
          eventChan,    \* events the reader has sent and nobody received
          sent,         \* how many events the reader has sent so far
          job,          \* processEvent's evt and now, before it has the lock
          tick,         \* the ticker's channel holds a tick
          aggDone,      \* aggregateLoop has returned
          timeoutDone,  \* timeoutLoop has returned
          stopped,      \* stopChan is closed
          clock

table == <<flows, heap, globalStats>>
input == <<eventChan, sent>>
loops == <<job, tick, aggDone, timeoutDone>>
vars == <<flows, heap, globalStats, eventChan, sent, job, tick, aggDone,
          timeoutDone, stopped, clock>>

MaxStateChanges == 100
TCP == 6
UDP == 17
-----------------------------------------------------------------------------
\* model.ProtocolName
ProtocolName(p) ==
  CASE p = 1 -> "icmp" [] p = 2 -> "igmp" [] p = 6 -> "tcp" [] p = 17 -> "udp"
    [] p = 41 -> "ipv6" [] p = 47 -> "gre" [] p = 50 -> "esp" [] p = 51 -> "ah"
    [] p = 88 -> "eigrp" [] p = 89 -> "ospf" [] p = 132 -> "sctp"
    [] OTHER -> "other"

\* Mutant of FlowKey: the two addresses are not put in order.
FlowKeyAsSent(a, b, name) == <<a, b, name>>

\* The text getFlowKey builds: the smaller address first.
FlowKey(a, b, name) == IF a > b THEN <<b, a, name>> ELSE <<a, b, name>>

getFlowKey(e) == FlowKey(e.saddr, e.daddr, ProtocolName(e.proto))

\* The DNS questions processEvent extracts before it takes the lock.
QueriesOf(e) ==
  IF e.proto = UDP /\ e.dport = 53 /\ e.dns # NoDNS
  THEN [i \in DOMAIN e.dns.names |->
          [domain |-> e.dns.names[i], isResponse |-> e.dns.isResponse,
           rcode |-> e.dns.rcode]]
  ELSE <<>>

Occurrences(d, qs) == Cardinality({i \in DOMAIN qs : qs[i].domain = d})
Failed(q) == q.isResponse /\ q.rcode # "NoError"
Failures(qs) == Cardinality({i \in DOMAIN qs : Failed(qs[i])})

\* Mutant of IsForward: the two ends of the flow are swapped.
IsForwardSwapped(f, e) == e.saddr = f.dst /\ e.daddr = f.src

IsForward(f, e) == e.saddr = f.src /\ e.daddr = f.dst

\* Mutant of RecordOf: the direction of a reverse packet is not filled in.
RecordOfUndirected(f, e, now) ==
  [at |-> now, src |-> e.saddr, sport |-> e.sport, dst |-> e.daddr,
   dport |-> e.dport, len |-> e.len, tcpFlags |-> e.proto,
   dir |-> IF IsForward(f, e) THEN "forward" ELSE ""]

\* model.PacketRecord (TCPFlags is given the protocol number)
RecordOf(f, e, now) ==
  [at |-> now, src |-> e.saddr, sport |-> e.sport, dst |-> e.daddr,
   dport |-> e.dport, len |-> e.len, tcpFlags |-> e.proto,
   dir |-> IF IsForward(f, e) THEN "forward" ELSE "reverse"]

\* Mutant of Remember: a full history keeps its oldest records.
RememberOldest(h, r) == IF Len(h) < PacketBufferSize THEN Append(h, r) ELSE h

\* PacketHistory.Add, as BoundedHistory describes it.
Remember(h, r) == IF Len(h) < PacketBufferSize THEN Append(h, r)
                                               ELSE Tail(Append(h, r))

Bumped(counts, x) == [counts EXCEPT ![x] = @ + 1]

\* The leading port once p was counted: p only if it now beats the leader.
TopPort(counts, top, p) == IF counts[p] > counts[top] THEN p ELSE top

\* The "TCP state" is a function of how many packets were seen.
TcpState(n, old) ==
  CASE n = 1 -> "syn" [] n = 2 -> "syn-ack" [] n >= 3 -> "established" [] OTHER -> old

NewFlow(e, now) ==
  [src |-> e.saddr, dst |-> e.daddr, proto |-> ProtocolName(e.proto),
   srcPorts |-> [p \in Ports |-> 0], dstPorts |-> [p \in Ports |-> 0],
   topSrcPort |-> 0, topDstPort |-> 0,
   pkts |-> 0, bytes |-> 0, last |-> 0, first |-> now,
   fwdPkts |-> 0, fwdBytes |-> 0, revPkts |-> 0, revBytes |-> 0,
   tcpFlags |-> 0, state |-> "new", changes |-> <<>>, history |-> <<>>,
   dnsQueries |-> <<>>, dnsNames |-> [d \in Domains |-> 0],
   dnsFailures |-> 0, dnsLast |-> 0]

\* What the locked part of processEvent makes of the flow f.
Updated(f, e, now) ==
  LET forward == IsForward(f, e)
      qs      == QueriesOf(e)
      n       == f.pkts + 1
      state   == IF e.proto = TCP THEN TcpState(n, f.state) ELSE f.state
      sps     == Bumped(f.srcPorts, e.sport)
      dps     == Bumped(f.dstPorts, e.dport)
  IN  [src |-> f.src, dst |-> f.dst, proto |-> f.proto, first |-> f.first,
       last |-> now,
       pkts |-> n,
       bytes |-> f.bytes + e.len,
       fwdPkts |-> IF forward THEN f.fwdPkts + 1 ELSE f.fwdPkts,
       fwdBytes |-> IF forward THEN f.fwdBytes + e.len ELSE f.fwdBytes,
       revPkts |-> IF forward THEN f.revPkts ELSE f.revPkts + 1,
       revBytes |-> IF forward THEN f.revBytes ELSE f.revBytes + e.len,
       srcPorts |-> sps,
       dstPorts |-> dps,
       topSrcPort |-> TopPort(sps, f.topSrcPort, e.sport),
       topDstPort |-> TopPort(dps, f.topDstPort, e.dport),
       history |-> Remember(f.history, RecordOf(f, e, now)),
       dnsQueries |-> f.dnsQueries \o qs,
       dnsNames |-> [d \in Domains |-> f.dnsNames[d] + Occurrences(d, qs)],
       dnsLast |-> IF qs = <<>> THEN f.dnsLast ELSE now,
       dnsFailures |-> f.dnsFailures + Failures(qs),
       tcpFlags |-> IF e.proto = TCP THEN e.proto ELSE f.tcpFlags,
       state |-> state,
       changes |-> IF state # f.state /\ Len(f.changes) < MaxStateChanges
                   THEN Append(f.changes, [old |-> f.state, new |-> state])
                   ELSE f.changes]
-----------------------------------------------------------------------------
\* NewFlowAggregator and Start; the zero time.Time is 0, so the clock starts at 1.
Init == /\ flows = <<>>
        /\ heap = <<>>
        /\ globalStats = [totalPackets |-> 0, totalBytes |-> 0,
                          droppedPackets |-> 0, lastUpdated |-> 1]
        /\ eventChan = <<>>
        /\ sent = 0
        /\ job = NoJob
        /\ tick = FALSE
        /\ aggDone = FALSE
        /\ timeoutDone = FALSE
        /\ stopped = FALSE
        /\ clock = 1

\* The reader sends an event that the channel has room for.
Deliver(e) == /\ sent < MaxEvents
              /\ Len(eventChan) < ChanCap
              /\ eventChan' = Append(eventChan, e)
              /\ sent' = sent + 1
              /\ UNCHANGED <<table, loops, stopped, clock>>

\* Mutant of AggReceive: the channel is drained for the sake of one event.
AggReceiveDrains ==
  /\ ~aggDone /\ job = NoJob /\ eventChan # <<>>
  /\ job' = [evt |-> Head(eventChan), now |-> clock]
  /\ eventChan' = <<>>
  /\ UNCHANGED <<table, sent, tick, aggDone, timeoutDone, stopped, clock>>

\* aggregateLoop receives an event; processEvent up to flowMutex.Lock()
AggReceive ==
  /\ ~aggDone /\ job = NoJob /\ eventChan # <<>>
  /\ job' = [evt |-> Head(eventChan), now |-> clock]
  /\ eventChan' = Tail(eventChan)
  /\ UNCHANGED <<table, sent, tick, aggDone, timeoutDone, stopped, clock>>

Counted(e, now) == [globalStats EXCEPT !.totalPackets = @ + 1,
                                       !.totalBytes = @ + e.len,
                                       !.lastUpdated = now]

\* processEvent while it holds flowMutex
ProcessEvent ==
  /\ job # NoJob
  /\ LET e == job.evt
         k == getFlowKey(e)
     IN  /\ globalStats' = Counted(e, job.now)
         /\ \/ /\ k \in DOMAIN flows
               /\ heap' = [heap EXCEPT ![flows[k]] = Updated(@, e, job.now)]
               /\ UNCHANGED flows
            \/ /\ k \notin DOMAIN flows
               /\ heap' = Append(heap, Updated(NewFlow(e, job.now), e, job.now))
               /\ flows' = [key \in DOMAIN flows \cup {k} |->
                              IF key = k THEN Len(heap) + 1 ELSE flows[key]]
  /\ job' = NoJob
  /\ UNCHANGED <<input, tick, aggDone, timeoutDone, stopped, clock>>

\* aggregateLoop takes the stopChan case of its select.
AggStop == /\ ~aggDone /\ job = NoJob /\ stopped
           /\ aggDone' = TRUE
           /\ UNCHANGED <<table, input, job, tick, timeoutDone, stopped, clock>>

\* The runtime puts a tick into ticker.C, unless the previous one is still there.
TickerFires == /\ ~timeoutDone /\ ~tick
               /\ tick' = TRUE
               /\ UNCHANGED <<table, input, job, aggDone, timeoutDone, stopped, clock>>

\* Mutants of Expired: the idle time allowed is doubled; a flow's age is taken
\* for its idle time.
ExpiredLate(f) == clock - f.last > 2 * FlowTimeout
ExpiredByAge(f) == clock - f.first > FlowTimeout

Expired(f) == clock - f.last > FlowTimeout

\* Mutant of CloseIdleFlows: the table keeps its entries for the closed flows.
CloseWithoutDelete ==
  /\ ~timeoutDone /\ tick
  /\ LET idle == {k \in DOMAIN flows : Expired(heap[flows[k]])}
     IN  heap' = [i \in DOMAIN heap |-> IF \E k \in idle : flows[k] = i
                                        THEN [heap[i] EXCEPT !.state = "closed"]
                                        ELSE heap[i]]
  /\ tick' = FALSE
  /\ UNCHANGED <<flows, globalStats, input, job, aggDone, timeoutDone, stopped, clock>>

\* timeoutLoop receives a tick and closeIdleFlows sweeps the table.
CloseIdleFlows ==
  /\ ~timeoutDone /\ tick
  /\ LET idle == {k \in DOMAIN flows : Expired(heap[flows[k]])}
     IN  /\ heap' = [i \in DOMAIN heap |->
                       IF \E k \in idle : flows[k] = i
                       THEN [heap[i] EXCEPT !.state = "closed"] ELSE heap[i]]
         /\ flows' = [k \in DOMAIN flows \ idle |-> flows[k]]
  /\ tick' = FALSE
  /\ UNCHANGED <<globalStats, input, job, aggDone, timeoutDone, stopped, clock>>

\* Mutant of TimeoutStop: the stop is a value sent, which one loop receives.
TimeoutStopIfFirst ==
  /\ ~timeoutDone /\ stopped /\ ~aggDone
  /\ timeoutDone' = TRUE
  /\ UNCHANGED <<table, input, job, tick, aggDone, stopped, clock>>

\* timeoutLoop takes the stopChan case of its select.
TimeoutStop == /\ ~timeoutDone /\ stopped
               /\ timeoutDone' = TRUE
               /\ UNCHANGED <<table, input, job, tick, aggDone, stopped, clock>>

\* Stop; main calls it once, when the dashboard has ended.
Stop == /\ ~stopped
        /\ stopped' = TRUE
        /\ UNCHANGED <<table, input, loops, clock>>

TimePasses == /\ clock < MaxClock
              /\ clock' = clock + 1
              /\ UNCHANGED <<table, input, loops, stopped>>

Next == \/ \E e \in PacketEvents : Deliver(e)
        \/ AggReceive \/ ProcessEvent \/ AggStop
        \/ TickerFires \/ CloseIdleFlows \/ TimeoutStop
        \/ Stop \/ TimePasses

Spec == Init /\ [][Next]_vars

\* The Go scheduler runs a goroutine that can run, the runtime's timer fires,
\* and a select that finds several cases ready chooses among them at random,
\* so it does not pass over the stop case for ever.  Nothing is assumed of
\* the reader, of Stop or of the clock.
Fairness == /\ WF_vars(AggReceive) /\ WF_vars(ProcessEvent)
            /\ WF_vars(TickerFires) /\ WF_vars(CloseIdleFlows)
            /\ SF_vars(AggStop) /\ WF_vars(TimeoutStop)

FairSpec == Spec /\ Fairness
-----------------------------------------------------------------------------
Places == DOMAIN heap
Total(counts) == FoldFunction(+, 0, counts)
TotalOf(field(_)) == Total([i \in Places |-> field(heap[i])])

Names == {"icmp", "igmp", "tcp", "udp", "ipv6", "gre", "esp", "ah", "eigrp",
          "ospf", "sctp", "other"}

\* The states the code assigns.  They are not those that the comment on the field
\* lists ("new", "established", "closing", "closed", packet.go:92): a flow of TCP
\* goes through "syn" and "syn-ack" and is never "closing".
States == {"new", "syn", "syn-ack", "established", "closed"}
Counter == [Ports -> Nat]

Record == [at : Nat, src : Hosts, sport : Ports, dst : Hosts, dport : Ports,
           len : Nat, tcpFlags : Nat, dir : {"forward", "reverse"}]

Change == [old : States, new : States]
Question == [domain : Domains, isResponse : BOOLEAN, rcode : ResponseCodes]

Flow == [src : Hosts, dst : Hosts, proto : Names, srcPorts : Counter, dstPorts : Counter,
         topSrcPort : Ports, topDstPort : Ports,
         pkts : Nat, bytes : Nat, last : Nat, first : Nat,
         fwdPkts : Nat, fwdBytes : Nat, revPkts : Nat, revBytes : Nat,
         tcpFlags : Nat, state : States,
         changes : Seq(Change), history : Seq(Record),
         dnsQueries : Seq(Question),
         dnsNames : [Domains -> Nat], dnsFailures : Nat, dnsLast : Nat]

Keys == {getFlowKey(e) : e \in PacketEvents}

TypeOK ==
  /\ DOMAIN flows \subseteq Keys
  /\ flows \in [DOMAIN flows -> Places]
  /\ heap \in Seq(Flow)
  /\ globalStats \in [totalPackets : Nat, totalBytes : Nat,
                      droppedPackets : Nat, lastUpdated : Nat]
  /\ eventChan \in Seq(PacketEvents)
  /\ sent \in Nat
  /\ job \in [evt : PacketEvents, now : Nat] \cup {NoJob}
  /\ tick \in BOOLEAN /\ aggDone \in BOOLEAN /\ timeoutDone \in BOOLEAN
  /\ stopped \in BOOLEAN
  /\ clock \in Nat

\* What the reader sent is in the channel, in processEvent's hands or in the
\* global statistics, also while the program shuts down.
NoEventLost ==
  sent = globalStats.totalPackets + Len(eventChan) + IF job = NoJob THEN 0 ELSE 1

\* Two counts kept apart agree: the global totals, and the sum over every flow
\* there ever was, the ones closed meanwhile included.
TotalsAddUp ==
  LET Pkts(f) == f.pkts
      Bytes(f) == f.bytes
  IN  /\ globalStats.totalPackets = TotalOf(Pkts)
      /\ globalStats.totalBytes = TotalOf(Bytes)

\* A conversation is a pair of hosts and a protocol name, whichever end speaks.
ConversationOf(f) == <<{f.src, f.dst}, f.proto>>
Conversations == {<<{e.saddr, e.daddr}, ProtocolName(e.proto)>> : e \in PacketEvents}

\* An entry's object is the one its key names, the objects out of the table are
\* exactly the closed ones, and a conversation has one open flow at most,
\* whichever end speaks ("bidirectional flows are aggregated together").
KeyOf(f) == FlowKey(f.src, f.dst, f.proto)
InTable(i) == \E k \in DOMAIN flows : flows[k] = i
TableKeyed == \A k \in DOMAIN flows : KeyOf(heap[flows[k]]) = k
OpenIffInTable == \A i \in Places : InTable(i) <=> heap[i].state # "closed"
OneOpenFlow ==
  \A i, j \in Places : /\ heap[i].state # "closed" /\ heap[j].state # "closed"
                      /\ ConversationOf(heap[i]) = ConversationOf(heap[j])
                      => i = j
TableSound == TableKeyed /\ OpenIffInTable /\ OneOpenFlow

\* The counters processEvent keeps of one flow agree: the packets and bytes of
\* the two directions add up, and the retained history is the tail of what the
\* counters count, each record in the direction it was counted in.
Directed(h, dir) == {i \in DOMAIN h : h[i].dir = dir}
Lengths(h, S) == Total([i \in S |-> h[i].len])
DirectionsAddUp(f) == /\ f.pkts = f.fwdPkts + f.revPkts
                      /\ f.bytes = f.fwdBytes + f.revBytes
HistoryIsComplete(f) ==
  LET fwd == Directed(f.history, "forward")
      rev == Directed(f.history, "reverse")
  IN  /\ f.fwdPkts = Cardinality(fwd) /\ f.fwdBytes = Lengths(f.history, fwd)
      /\ f.revPkts = Cardinality(rev) /\ f.revBytes = Lengths(f.history, rev)
CountersMatchHistory ==
  \A i \in Places :
    LET f == heap[i]
    IN  /\ DirectionsAddUp(f)
        /\ Len(f.history) = IF f.pkts < PacketBufferSize THEN f.pkts ELSE PacketBufferSize
        /\ f.pkts <= PacketBufferSize => HistoryIsComplete(f)

\* A retained packet was sent between the two ends of the flow that shows it,
\* "forward" exactly when it goes the way the flow's first packet went.
HistoryBelongs ==
  \A i \in Places : \A r \in {heap[i].history[n] : n \in DOMAIN heap[i].history} :
    /\ {r.src, r.dst} = {heap[i].src, heap[i].dst}
    /\ r.dir = "forward" <=> r.src = heap[i].src /\ r.dst = heap[i].dst

\* The port counts account for every packet, and no port is ahead of the one
\* shown as the most common, which was really used.
TopPortsLead ==
  \A i \in Places :
    LET f == heap[i]
    IN  /\ Total(f.srcPorts) = f.pkts /\ Total(f.dstPorts) = f.pkts
        /\ \A p \in Ports : /\ f.srcPorts[p] <= f.srcPorts[f.topSrcPort]
                            /\ f.dstPorts[p] <= f.dstPorts[f.topDstPort]

\* What statements far apart in processEvent keep of the same packets agrees over
\* the whole life of every flow: totals, directions, history and ports.
CountersAgree == /\ TotalsAddUp
                 /\ CountersMatchHistory
                 /\ HistoryBelongs
                 /\ TopPortsLead

\* Time is consistent across the two goroutines: packets are remembered in the
\* order they were taken, the newest one is the flow's last activity, and no
\* flow is ahead of the statistics, or these of the clock.
TimesAgree ==
  /\ globalStats.lastUpdated <= clock
  /\ \A i \in Places :
       LET f == heap[i]
           h == f.history
       IN  /\ f.first <= f.last /\ f.last <= globalStats.lastUpdated
           /\ h[Len(h)].at = f.last
           /\ \A a, b \in DOMAIN h : a <= b => h[a].at <= h[b].at /\ f.first <= h[a].at

\* A flow that was closed is out of reach of both goroutines: a late packet of
\* its conversation opens another flow and never revives or changes it.
ClosedStaysUntouched ==
  [][\A i \in Places : heap[i].state = "closed" => heap'[i] = heap[i]]_vars

\* A flow is closed only when its conversation has been silent for longer than
\* the timeout: no packet it remembers is younger ("flow idle timeout").
OnlyIdleFlowsClose ==
  [][\A i \in Places :
       (heap[i].state # "closed" /\ heap'[i].state = "closed") =>
         \A n \in DOMAIN heap[i].history : clock - heap[i].history[n].at > FlowTimeout]_vars

\* A flow that is idle for longer than the timeout is closed, unless a packet
\* of its conversation comes in time or the program is stopped.
Idle(i) == /\ i \in Places
           /\ heap[i].state # "closed" /\ clock - heap[i].last > FlowTimeout
IdleFlowsClose == \A i \in 1 .. MaxEvents : Idle(i) ~> (~Idle(i) \/ stopped)

\* Every event the reader managed to send is counted, unless it is stopped.
EventsAreCounted ==
  \A n \in 1 .. MaxEvents : sent >= n ~> (globalStats.totalPackets >= n \/ stopped)

\* After Stop both goroutines return, however many events and ticks are left.
StopEndsBothLoops == stopped ~> (aggDone /\ timeoutDone)

\* To its clients the aggregator is the flow table of FlowTable.
Objects == [i \in Places |-> [conv |-> ConversationOf(heap[i]), opener |-> heap[i].src,
                              pkts |-> heap[i].pkts,
                              status |-> IF heap[i].state = "closed" THEN "expired"
                                                                     ELSE "open"]]
Table == INSTANCE FlowTable WITH objs <- Objects
ImplementsFlowTable == Table!Spec
=============================================================================
