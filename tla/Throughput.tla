----------------------------- MODULE Throughput -----------------------------
(***************************************************************************)
(* The throughput of the dashboard: updateThroughputHistory of             *)
(* internal/tui/dashboard.go, which View calls when the main view is on    *)
(* the screen, takes the difference of the probe's packet and byte counts  *)
(* (bpf/packet.c) to those of its last look at them.  KernelStats of       *)
(* internal/monitor/monitor.go reads both out of a map entry that the      *)
(* probes of all CPUs go on incrementing, one count after the other, and   *)
(* answers 0, 0 when the lookup fails.  A difference is unsigned, so it    *)
(* wraps around at Modulus.                                                *)
(*                                                                         *)
(* A sample also records the traffic that there really was since the look  *)
(* before, for the properties only; so does looked.                        *)
(***************************************************************************)
EXTENDS Integers, Sequences

CONSTANTS CPUs,
          Sizes,       \* how many bytes a frame may have
          Modulus,     \* of a uint64 (2^64)
          Second,      \* how many ticks of the clock a second has
          Window,      \* how many samples are kept (60)
          MaxGap,      \* bound: how far the clock runs between two looks
          MaxPackets   \* bound: how many frames arrive

ASSUME CountersAssumption == /\ Sizes \subseteq Nat
                             /\ Modulus \in Nat \ {0} /\ Second \in Nat \ {0}
                             /\ Window \in Nat \ {0}

VARIABLES kernel,      \* packet_count_map
          counted,     \* per CPU: the size of a frame whose packet is counted,
                       \* but not yet its bytes
          timeDiff,    \* ticks since lastStatsTime (it stands still in an update)
          lookup,      \* the lookup of KernelStats: the packets it has loaded
          lastTotal,   \* lastTotalPackets, lastTotalBytes
          throughputHistory,
          looked       \* the counts at the last look

traffic == <<kernel, counted>>
dashboard == <<lastTotal, throughputHistory, looked>>
vars == <<traffic, timeDiff, lookup, dashboard>>

Idle == -1   \* no lookup, no frame: no number of packets or bytes
Counts == [packets : Nat, bytes : Nat]
Zeros == [packets |-> 0, bytes |-> 0]

\* Frames may have arrived between the start of the probe and NewDashboard.
Init == /\ kernel \in {Zeros} \cup {[packets |-> 1, bytes |-> n] : n \in Sizes}
        /\ counted = [c \in CPUs |-> Idle]
        /\ timeDiff = 0 /\ lookup = Idle
        /\ lastTotal = Zeros /\ throughputHistory = <<>> /\ looked = Zeros

\* A probe counts a frame, first as a packet and then its bytes.
CountPacket(c) == /\ counted[c] = Idle /\ kernel.packets < MaxPackets
                  /\ \E n \in Sizes : counted' = [counted EXCEPT ![c] = n]
                  /\ kernel' = [kernel EXCEPT !.packets = @ + 1]
                  /\ UNCHANGED <<timeDiff, lookup, dashboard>>

CountBytes(c) == /\ counted[c] # Idle
                 /\ kernel' = [kernel EXCEPT !.bytes = @ + counted[c]]
                 /\ counted' = [counted EXCEPT ![c] = Idle]
                 /\ UNCHANGED <<timeDiff, lookup, dashboard>>

\* The clock runs, also while another view hides the main view.
TimePasses == /\ lookup = Idle /\ timeDiff < MaxGap
              /\ timeDiff' = timeDiff + 1
              /\ UNCHANGED <<traffic, lookup, dashboard>>

\* View calls updateThroughputHistory, and a second has passed since the last
\* update; the lookup copies the packets of the map entry
BeginUpdate == /\ lookup = Idle /\ timeDiff >= Second
               /\ lookup' = kernel.packets
               /\ UNCHANGED <<traffic, timeDiff, dashboard>>

\* and then its bytes.
Loaded == [packets |-> lookup, bytes |-> kernel.bytes]

\* uint64: whatever the counts, their difference is taken modulo Modulus.
Difference(now, last) == (now - last) % Modulus
Rate(now, last) == (Difference(now, last) * Second) \div timeDiff

\* The sample for a reading when real is what the counts really are
Sample(read, real) ==
  [packets |-> Rate(read.packets, lastTotal.packets),
   bytes |-> Rate(read.bytes, lastTotal.bytes),
   arrived |-> [packets |-> real.packets - looked.packets,
                bytes |-> real.bytes - looked.bytes],
   over |-> timeDiff,
   lookup |-> IF read = real THEN "done" ELSE "failed"]

\* Mutant of Kept: the window is measured before the sample is appended.
KeptLate(samples) == IF Len(samples) - 1 > Window THEN Tail(samples) ELSE samples

Kept(samples) == IF Len(samples) > Window THEN Tail(samples) ELSE samples

\* Mutants of IsBaseline: only the very first counts are one; none are.
IsBaselineAtFirst(read) == throughputHistory = <<>> /\ read.packets > 0
IsBaselineNever(read) == FALSE

\* The first counts after a zero are only a baseline: no sample.
IsBaseline(read) == lastTotal.packets = 0 /\ read.packets > 0

\* The rest of updateThroughputHistory, after the lookup gave the counts read
EndUpdate(read, real) ==
  /\ lookup # Idle /\ lookup' = Idle
  /\ throughputHistory' = IF IsBaseline(read) THEN throughputHistory
                          ELSE Kept(Append(throughputHistory, Sample(read, real)))
  /\ timeDiff' = 0 /\ lastTotal' = read /\ looked' = real
  /\ UNCHANGED traffic

Update == EndUpdate(Loaded, Loaded)
UpdateFails == EndUpdate(Zeros, Loaded)

Next == \/ \E c \in CPUs : CountPacket(c) \/ CountBytes(c)
        \/ TimePasses \/ BeginUpdate \/ Update \/ UpdateFails

Spec == Init /\ [][Next]_vars
-----------------------------------------------------------------------------
Sampled == [packets : Nat, bytes : Nat, arrived : Counts, over : Nat,
            lookup : {"done", "failed"}]

TypeOK == /\ kernel \in Counts /\ lastTotal \in Counts /\ looked \in Counts
          /\ counted \in [CPUs -> Sizes \cup {Idle}]
          /\ timeDiff \in Nat /\ lookup \in Nat \cup {Idle}
          /\ throughputHistory \in Seq(Sampled)
          /\ Len(throughputHistory) <= Window

\* rate is how many of n per second came over so many ticks, rounded down.
IsRate(rate, n, ticks) == rate * ticks <= n * Second /\ n * Second < (rate + 1) * ticks

\* A sample that a lookup was made for shows the rate of exactly the traffic
\* since the last look, whether that one succeeded, failed or was torn by the
\* probes, and however long another view hid the main view (dashboard.go:545-566),
\* provided less than 2^64 came.
IsTrue(s) == /\ s.over >= Second
             /\ s.arrived.packets < Modulus => IsRate(s.packets, s.arrived.packets, s.over)
             /\ s.arrived.bytes < Modulus => IsRate(s.bytes, s.arrived.bytes, s.over)
SamplesAreTraffic ==
  \A i \in DOMAIN throughputHistory :
    throughputHistory[i].lookup = "done" => IsTrue(throughputHistory[i])

\* A failed lookup wraps the difference around and spoils one sample; until
\* there is a baseline again no further one goes above the traffic, however
\* often the lookup fails ("Prevent massive spike", dashboard.go:553).
Spike(s) == s.packets > s.arrived.packets \/ s.bytes > s.arrived.bytes
OutageSpoilsOneSample ==
  [][lastTotal # looked /\ throughputHistory' # throughputHistory =>
       ~Spike(throughputHistory'[Len(throughputHistory')])]_vars
=============================================================================
