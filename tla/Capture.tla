------------------------------- MODULE Capture -------------------------------
(***************************************************************************)
(* The way of a packet from the wire to the aggregator: the XDP probe of   *)
(* bpf/packet.c on every CPU, the kernel's ring buffer, readLoop of        *)
(* internal/monitor/monitor.go and the channel to aggregateLoop, with the  *)
(* shutdown that main runs across all of them.                             *)
(*                                                                         *)
(* A probe reserves its place in the ring and fills it afterwards, so      *)
(* another CPU's record may be complete before an earlier one; the reader  *)
(* takes records in the order of the reservations.  The ring buffer and    *)
(* its reader are a library's; they are modelled as this code uses them.   *)
(* What the fields of a record are is the matter of Headers; here a record *)
(* and the event made of it are told by their place in the order.          *)
(***************************************************************************)
EXTENDS Naturals, Sequences, FiniteSets

CONSTANTS CPUs,
          NoEvent,      \* readLoop holds no event
          RingCap,      \* records the ring has room for (1 MiB in the code)
          ChanCap,      \* capacity of eventsChan (10000)
          MaxFrames     \* bound of the model: frames that arrive

ASSUME CPUsAssumption == IsFiniteSet(CPUs)
ASSUME BoundsAssumption == RingCap \in Nat /\ ChanCap \in Nat /\ MaxFrames \in Nat

\* struct packet_event and model.PacketEvent; id numbers the reservations.
Record == [id : Nat]
ASSUME NoEventAssumption == NoEvent \notin Record

VARIABLES stats,      \* the packets counter of packet_count_map
          reserved,   \* how many records were ever reserved in the ring
          probe,      \* what each CPU's probe is handling, and how far it is
          ring,       \* the records in the ring, in the order reserved
          readPc,     \* where readLoop is
          evt,        \* the event readLoop holds
          dropped,    \* er.droppedInUserspace
          eventsChan,
          received,   \* what aggregateLoop has received, in order
          aggDone,    \* aggregateLoop has returned
          closed      \* how many of main's shutdown steps are done

kernel == <<stats, reserved, probe>>
reader == <<readPc, evt, dropped>>
aggregator == <<received, aggDone>>
vars == <<stats, reserved, probe, ring, readPc, evt, dropped, eventsChan,
          received, aggDone, closed>>

Idle == [at |-> "idle", id |-> 0]

\* What main shuts down when the dashboard has ended, in this order.
CloseOrder == <<"aggregator", "stopChan", "ringReader", "xdpLink", "objs">>
Closed(what) == \E n \in 1 .. closed : CloseOrder[n] = what
-----------------------------------------------------------------------------
Init == /\ stats = 0 /\ reserved = 0 /\ probe = [c \in CPUs |-> Idle]
        /\ ring = <<>>
        /\ readPc = "check" /\ evt = NoEvent /\ dropped = 0
        /\ eventsChan = <<>>
        /\ received = <<>> /\ aggDone = FALSE
        /\ closed = 0

\* xdp_probe_func counts a frame, atomically, before it looks whether it is a complete
\* IPv4 packet.
ProbeCounts(c, isIPv4) ==
  /\ probe[c] = Idle /\ ~Closed("xdpLink") /\ stats < MaxFrames
  /\ stats' = stats + 1
  /\ probe' = IF isIPv4 THEN [probe EXCEPT ![c] = [at |-> "counted", id |-> 0]] ELSE probe
  /\ UNCHANGED <<reserved, ring, reader, eventsChan, aggregator, closed>>

\* bpf_ringbuf_reserve gives the record a place.
Reserves(c) ==
  /\ ring' = Append(ring, [id |-> reserved + 1])
  /\ reserved' = reserved + 1
  /\ probe' = [probe EXCEPT ![c] = [at |-> "filling", id |-> reserved + 1]]
  /\ UNCHANGED <<stats, reader, eventsChan, aggregator, closed>>

\* Mutant of ProbeReserves: the ring is taken to be boundless.
ProbeReservesUnchecked(c) == probe[c].at = "counted" /\ Reserves(c)

\* The reservation fails when the ring is full, and the probe lets the frame go.
ProbeReserves(c) ==
  /\ probe[c].at = "counted"
  /\ \/ Len(ring) < RingCap /\ Reserves(c)
     \/ /\ Len(ring) >= RingCap
        /\ probe' = [probe EXCEPT ![c] = Idle]
        /\ UNCHANGED <<stats, reserved, ring, reader, eventsChan, aggregator, closed>>

\* The record is filled and submitted.
ProbeSubmits(c) == /\ probe[c].at = "filling"
                   /\ probe' = [probe EXCEPT ![c] = Idle]
                   /\ UNCHANGED <<stats, reserved, ring, reader, eventsChan, aggregator, closed>>

Submitted(id) == \A c \in CPUs : ~(probe[c].at = "filling" /\ probe[c].id = id)
-----------------------------------------------------------------------------
\* readLoop's first select
LoopCheck == /\ readPc = "check"
             /\ readPc' = IF Closed("stopChan") THEN "done" ELSE "read"
             /\ UNCHANGED <<kernel, ring, evt, dropped, eventsChan, aggregator, closed>>

\* Mutant of ReadRecord: a record complete already overtakes the one before it.
ReadOvertakes ==
  /\ readPc = "read" /\ ~Closed("ringReader")
  /\ \E i \in DOMAIN ring :
       /\ Submitted(ring[i].id)
       /\ evt' = ring[i]
       /\ ring' = SubSeq(ring, 1, i - 1) \o SubSeq(ring, i + 1, Len(ring))
  /\ readPc' = "send"
  /\ UNCHANGED <<kernel, dropped, eventsChan, aggregator, closed>>

\* ringReader.Read returns the oldest record, waiting until it is submitted.
ReadRecord ==
  /\ readPc = "read" /\ ~Closed("ringReader")
  /\ ring # <<>> /\ Submitted(Head(ring).id)
  /\ evt' = Head(ring)
  /\ ring' = Tail(ring)
  /\ readPc' = "send"
  /\ UNCHANGED <<kernel, dropped, eventsChan, aggregator, closed>>

\* Any error but ErrClosed: readLoop sleeps for 10 ms and goes on.
ReadFails == /\ readPc = "read" /\ ~Closed("ringReader")
             /\ readPc' = "check"
             /\ UNCHANGED <<kernel, ring, evt, dropped, eventsChan, aggregator, closed>>

\* Mutant of ReadClosed: ErrClosed is retried like any other error.
ReadClosedRetries ==
  /\ readPc = "read" /\ Closed("ringReader")
  /\ readPc' = "read"
  /\ UNCHANGED <<kernel, ring, evt, dropped, eventsChan, aggregator, closed>>

\* Read returns ErrClosed, also to a readLoop that was blocked in it.
ReadClosed == /\ readPc = "read" /\ Closed("ringReader")
              /\ readPc' = "done"
              /\ UNCHANGED <<kernel, ring, evt, dropped, eventsChan, aggregator, closed>>

\* readLoop's second select: of the cases that are ready any may be taken.
SendEvent == /\ readPc = "send" /\ Len(eventsChan) < ChanCap
             /\ eventsChan' = Append(eventsChan, evt)
             /\ evt' = NoEvent /\ readPc' = "check"
             /\ UNCHANGED <<kernel, ring, dropped, aggregator, closed>>

SendStops == /\ readPc = "send" /\ Closed("stopChan")
             /\ readPc' = "done"
             /\ UNCHANGED <<kernel, ring, evt, dropped, eventsChan, aggregator, closed>>

\* Mutants of DropEvent: the loss is not counted; the loop gives up.
DropUncounted == /\ readPc = "send" /\ Len(eventsChan) >= ChanCap /\ ~Closed("stopChan")
                 /\ evt' = NoEvent /\ readPc' = "check"
                 /\ UNCHANGED <<kernel, ring, dropped, eventsChan, aggregator, closed>>
DropGivesUp == /\ readPc = "send" /\ Len(eventsChan) >= ChanCap /\ ~Closed("stopChan")
               /\ dropped' = dropped + 1
               /\ evt' = NoEvent /\ readPc' = "done"
               /\ UNCHANGED <<kernel, ring, eventsChan, aggregator, closed>>

\* The default case: the channel is full.
DropEvent == /\ readPc = "send" /\ Len(eventsChan) >= ChanCap /\ ~Closed("stopChan")
             /\ dropped' = dropped + 1
             /\ evt' = NoEvent /\ readPc' = "check"
             /\ UNCHANGED <<kernel, ring, eventsChan, aggregator, closed>>
-----------------------------------------------------------------------------
\* aggregateLoop, which FlowAggregator models in full
AggReceive == /\ ~aggDone /\ eventsChan # <<>>
              /\ received' = Append(received, Head(eventsChan))
              /\ eventsChan' = Tail(eventsChan)
              /\ UNCHANGED <<kernel, ring, reader, aggDone, closed>>

AggStop == /\ ~aggDone /\ Closed("aggregator")
           /\ aggDone' = TRUE
           /\ UNCHANGED <<kernel, ring, reader, eventsChan, received, closed>>

\* main after p.Run has returned: aggregator.Stop(), then the deferred Close.
ShutDown == /\ closed < Len(CloseOrder)
            /\ closed' = closed + 1
            /\ UNCHANGED <<kernel, ring, reader, eventsChan, aggregator>>

Probe(c) == (\E isIPv4 \in BOOLEAN : ProbeCounts(c, isIPv4)) \/ ProbeReserves(c) \/ ProbeSubmits(c)

ReadLoop == LoopCheck \/ ReadRecord \/ ReadFails \/ ReadClosed
            \/ SendEvent \/ SendStops \/ DropEvent

Next == (\E c \in CPUs : Probe(c)) \/ ReadLoop \/ AggReceive \/ AggStop \/ ShutDown

Spec == Init /\ [][Next]_vars

\* A probe that runs runs to its end; Read does not fail for ever while there
\* are records; the goroutines are scheduled, and main, once it has begun to
\* shut down, goes on.  Nobody has to quit the dashboard, and no frame to come.
Fairness == /\ \A c \in CPUs : WF_vars(ProbeReserves(c)) /\ WF_vars(ProbeSubmits(c))
            /\ WF_vars(ReadLoop) /\ SF_vars(ReadRecord)
            /\ WF_vars(AggReceive) /\ SF_vars(AggStop)
            /\ WF_vars(closed > 0 /\ ShutDown)

FairSpec == Spec /\ Fairness
-----------------------------------------------------------------------------
TypeOK ==
  /\ stats \in Nat /\ reserved \in Nat /\ dropped \in Nat
  /\ probe \in [CPUs -> [at : {"idle", "counted", "filling"}, id : Nat]]
  /\ ring \in Seq(Record) /\ Len(ring) <= RingCap
  /\ readPc \in {"check", "read", "send", "done"}
  /\ evt \in Record \cup {NoEvent}
  /\ eventsChan \in Seq(Record) /\ Len(eventsChan) <= ChanCap
  /\ received \in Seq(Record)
  /\ aggDone \in BOOLEAN
  /\ closed \in 0 .. Len(CloseOrder)

\* The records on their way, the ones nearest the aggregator first.
Held == IF evt = NoEvent THEN <<>> ELSE <<evt.id>>
Ids(s) == [i \in DOMAIN s |-> s[i].id]
Transit == Ids(eventsChan) \o Held \o Ids(ring)

\* The counters kept in the kernel, in the reader and in the aggregator fit
\* together, during the shutdown too: a frame that got a record is received, on
\* its way, or counted as dropped, and no more frames got one than were seen.
\* readLoop holds an event exactly while it sends, and the one that the stop
\* case takes from it stays in its hands.
Conserved == reserved = Len(received) + Len(Transit) + dropped
Waiting == {c \in CPUs : probe[c].at = "counted"}
SeenFirst == reserved + Cardinality(Waiting) <= stats
HeldToSend == /\ readPc = "send" => evt # NoEvent
              /\ evt # NoEvent => readPc \in {"send", "done"}
CountersFit == Conserved /\ SeenFirst /\ HeldToSend

\* The aggregator receives frames in the order they got their records, each
\* once, and what it does not receive was counted as dropped: all in all the
\* way from the kernel is a lossy pipe.
Pipe == INSTANCE LossyPipe WITH entered <- reserved, transit <- Transit,
                                delivered <- Ids(received), lost <- dropped
ImplementsLossyPipe == Pipe!Spec

\* A record is received or dropped in the end, unless the program shuts down:
\* neither a full channel nor a failing Read stops the reader for good.
RecordsAreHandled ==
  \A n \in 1 .. MaxFrames : reserved >= n ~> (Len(received) + dropped >= n \/ closed > 0)

\* Once main has begun to shut down, the reader's and the aggregator's
\* goroutines return, also a readLoop that is blocked in Read or has no room to
\* send: Close closes the ring reader after stopChan.
ShutdownEndsLoops == closed > 0 ~> (readPc = "done" /\ aggDone)
=============================================================================
