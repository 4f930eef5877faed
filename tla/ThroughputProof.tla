--------------------------- MODULE ThroughputProof ---------------------------
(***************************************************************************)
(* Proofs about Throughput for every number of CPUs, all frame sizes, every *)
(* width of the counters and every window: its type, that a sample shows   *)
(* the rate of exactly the traffic since the last look, and that a failed  *)
(* lookup spoils no more than one sample.                                  *)
(***************************************************************************)
EXTENDS Throughput, SequenceTheorems, TLAPS

\* The counts at the last look are what the difference is taken to, unless that
\* lookup failed.
LastIsKnown == lastTotal \in {looked, Zeros}

\* Looks go forward: the counts of a look, of the lookup under way and of the
\* map entry come in this order.
LooksGoForward ==
  /\ looked.packets <= kernel.packets /\ looked.bytes <= kernel.bytes
  /\ lookup # Idle => /\ looked.packets <= lookup /\ lookup <= kernel.packets
                      /\ timeDiff >= Second

\* A frame is counted as a packet first, so as long as a look, or the lookup
\* under way, found no packets, none before it found bytes.
PacketsComeFirst ==
  /\ kernel.packets = 0 => /\ kernel.bytes = 0
                           /\ \A c \in CPUs : counted[c] = Idle
  /\ lookup = 0 => looked.bytes = 0

Inv == /\ TypeOK /\ LastIsKnown /\ LooksGoForward /\ PacketsComeFirst
       /\ SamplesAreTraffic
-----------------------------------------------------------------------------
\* An unsigned difference that stays below the modulus is the difference.
LEMMA DifferenceExact ==
  ASSUME NEW d \in Nat, d < Modulus
  PROVE  d % Modulus = d
  BY CountersAssumption

\* An unsigned difference is a natural number, also when it wraps around.
LEMMA DifferenceType ==
  ASSUME NEW d \in Int
  PROVE  d % Modulus \in Nat
  BY CountersAssumption

\* An integer division rounds down.
LEMMA Division ==
  ASSUME NEW x \in Nat, NEW t \in Nat \ {0}
  PROVE  /\ x \div t \in Nat
         /\ (x \div t) * t <= x /\ x < ((x \div t) + 1) * t
<1>1. x \div t \in Nat
  OBVIOUS
<1>2. (x \div t) * t <= x
  OBVIOUS
<1>3. x < ((x \div t) + 1) * t
  OBVIOUS
<1> QED BY <1>1, <1>2, <1>3

\* A rate is a natural number (Rate divides by what is a second at least).
LEMMA RateType ==
  ASSUME NEW now \in Nat, NEW last \in Nat, NEW t \in Nat, t >= Second
  PROVE  (((now - last) % Modulus) * Second) \div t \in Nat
<1>1. (now - last) % Modulus \in Nat
  BY DifferenceType
<1>2. Second \in Nat /\ t \in Nat \ {0}
  BY CountersAssumption
<1>3. ((now - last) % Modulus) * Second \in Nat
  BY <1>1, <1>2
<1> QED BY <1>2, <1>3, Division

\* The rate of a difference that does not wrap around is that of the traffic.
LEMMA RateExact ==
  ASSUME NEW now \in Nat, NEW last \in Nat, last <= now, now - last < Modulus,
         NEW t \in Nat, t >= Second
  PROVE  IsRate((((now - last) % Modulus) * Second) \div t, now - last, t)
<1>1. now - last \in Nat /\ (now - last) % Modulus = now - last
  BY DifferenceExact
<1>2. Second \in Nat /\ t \in Nat \ {0}
  BY CountersAssumption
<1>3. (now - last) * Second \in Nat
  BY <1>1, <1>2
<1> DEFINE x == (now - last) * Second
<1>4. (x \div t) * t <= x /\ x < ((x \div t) + 1) * t
  BY <1>2, <1>3, Division
<1> QED BY <1>1, <1>4 DEF IsRate

\* A lookup that finds the zeros it found before shows no traffic.
LEMMA RateOfNothing ==
  ASSUME NEW t \in Nat, t >= Second
  PROVE  (((0 - 0) % Modulus) * Second) \div t = 0
<1>1. (0 - 0) % Modulus = 0
  BY CountersAssumption
<1>2. Second \in Nat /\ t \in Nat \ {0}
  BY CountersAssumption
<1>3. 0 * Second = 0 /\ 0 \div t = 0
  BY <1>2
<1> QED BY <1>1, <1>3

\* What Kept leaves are the latest samples: it adds none, it is not longer than
\* the window, and the sample just taken is its last one.
LEMMA KeptLatest ==
  ASSUME NEW S, NEW h \in Seq(S), NEW s \in S, Len(h) <= Window
  PROVE  /\ Kept(Append(h, s)) \in Seq(S)
         /\ Len(Kept(Append(h, s))) <= Window
         /\ Len(Kept(Append(h, s))) > 0
         /\ Kept(Append(h, s))[Len(Kept(Append(h, s)))] = s
         /\ \A i \in DOMAIN Kept(Append(h, s)) :
              \/ Kept(Append(h, s))[i] = s
              \/ \E j \in DOMAIN h : Kept(Append(h, s))[i] = h[j]
<1> DEFINE a == Append(h, s)
<1>1. /\ a \in Seq(S) /\ Len(a) = Len(h) + 1 /\ a # <<>> /\ a[Len(a)] = s
      /\ \A i \in 1 .. Len(h) : a[i] = h[i]
  BY AppendProperties
<1>2. Window \in Nat \ {0} /\ Len(h) \in Nat
  BY CountersAssumption, LenProperties
<1>3. CASE Len(a) > Window
  <2>1. Kept(a) = Tail(a)
    BY <1>3 DEF Kept
  <2>2. /\ Tail(a) \in Seq(S) /\ Len(Tail(a)) = Len(a) - 1
        /\ \A i \in 1 .. Len(Tail(a)) : Tail(a)[i] = a[i + 1]
    BY <1>1, HeadTailProperties
  <2>3. DOMAIN Tail(a) = 1 .. Len(h) /\ DOMAIN h = 1 .. Len(h)
    BY <1>1, <2>2, LenProperties
  <2>4. \A i \in DOMAIN Tail(a) : Tail(a)[i] = s \/ \E j \in DOMAIN h : Tail(a)[i] = h[j]
    <3> TAKE i \in DOMAIN Tail(a)
    <3>1. Tail(a)[i] = a[i + 1] /\ i \in 1 .. Len(h)
      BY <1>1, <1>2, <2>2, <2>3
    <3>2. CASE i = Len(h)
      BY <1>1, <3>1, <3>2
    <3>3. CASE i # Len(h)
      <4>1. i + 1 \in 1 .. Len(h)
        BY <1>2, <3>1, <3>3
      <4> QED BY <1>1, <2>3, <3>1, <4>1
    <3> QED BY <3>2, <3>3
  <2>5. Len(Tail(a)) = Len(h) /\ Len(h) >= Window
    BY <1>1, <1>2, <1>3, <2>2
  <2>6. Tail(a)[Len(Tail(a))] = s
    <3>1. Len(Tail(a)) \in 1 .. Len(Tail(a))
      BY <1>2, <2>5
    <3>2. Tail(a)[Len(Tail(a))] = a[Len(Tail(a)) + 1]
      BY <2>2, <3>1
    <3> QED BY <1>1, <2>5, <3>2
  <2> HIDE DEF a
  <2> QED BY <1>2, <2>1, <2>2, <2>4, <2>5, <2>6 DEF a
<1>4. CASE ~(Len(a) > Window)
  <2>1. Kept(a) = a
    BY <1>4 DEF Kept
  <2>2. DOMAIN a = 1 .. Len(h) + 1 /\ DOMAIN h = 1 .. Len(h)
    BY <1>1, LenProperties
  <2>3. \A i \in DOMAIN a : a[i] = s \/ \E j \in DOMAIN h : a[i] = h[j]
    <3> TAKE i \in DOMAIN a
    <3>1. CASE i = Len(h) + 1
      BY <1>1, <3>1
    <3>2. CASE i # Len(h) + 1
      <4>1. i \in 1 .. Len(h)
        BY <1>2, <2>2, <3>2
      <4> QED BY <1>1, <2>2, <4>1
    <3> QED BY <3>1, <3>2
  <2> HIDE DEF a
  <2> QED BY <1>1, <1>2, <1>4, <2>1, <2>3 DEF a
<1> QED BY <1>3, <1>4
-----------------------------------------------------------------------------
\* What an update has before it: counts that have not gone back since the last
\* look, which lastTotal remembers unless that one failed.
LEMMA AtUpdate ==
  ASSUME Inv, lookup # Idle
  PROVE  /\ timeDiff \in Nat /\ timeDiff >= Second
         /\ Loaded.packets \in Nat /\ Loaded.packets = lookup
         /\ Loaded.bytes \in Nat /\ Loaded.bytes = kernel.bytes
         /\ looked.packets \in Nat /\ looked.packets <= Loaded.packets
         /\ looked.bytes \in Nat /\ looked.bytes <= Loaded.bytes
         /\ lastTotal.packets \in Nat /\ lastTotal.bytes \in Nat
         /\ Loaded \in Counts /\ Zeros \in Counts
  BY DEF Inv, TypeOK, LooksGoForward, Loaded, Counts, Zeros

\* A look that found no packets, when the last one failed, is the first one
\* that there could be anything to find: nothing has come so far.
LEMMA NothingCame ==
  ASSUME Inv, lookup # Idle, lastTotal # looked, Loaded.packets = 0
  PROVE  FALSE
<1>1. looked.packets = 0 /\ looked.bytes = 0
  BY AtUpdate DEF Inv, PacketsComeFirst
<1>2. looked = Zeros
  BY <1>1 DEF Inv, TypeOK, Counts, Zeros
<1> QED BY <1>2 DEF Inv, LastIsKnown

\* The sample that an update takes is well formed, true if its lookup was
\* made, and no spike if the lookup before failed.
LEMMA SampleIsSound ==
  ASSUME Inv, lookup # Idle, NEW read \in {Loaded, Zeros}, ~IsBaseline(read)
  PROVE  /\ Sample(read, Loaded) \in Sampled
         /\ Sample(read, Loaded).lookup = "done" => IsTrue(Sample(read, Loaded))
         /\ lastTotal # looked => ~Spike(Sample(read, Loaded))
<1> DEFINE s == Sample(read, Loaded)
<1>1. /\ s.packets = Rate(read.packets, lastTotal.packets)
      /\ s.bytes = Rate(read.bytes, lastTotal.bytes)
      /\ s.arrived.packets = Loaded.packets - looked.packets
      /\ s.arrived.bytes = Loaded.bytes - looked.bytes
      /\ s.over = timeDiff
      /\ s.lookup = IF read = Loaded THEN "done" ELSE "failed"
  BY DEF Sample
<1>2. /\ s.arrived.packets \in Nat /\ s.arrived.bytes \in Nat
  BY <1>1, AtUpdate
<1>3. read.packets \in Nat /\ read.bytes \in Nat
  BY AtUpdate DEF Counts
<1>4. s.packets \in Nat /\ s.bytes \in Nat
  BY <1>1, <1>3, AtUpdate, RateType DEF Rate, Difference
<1>5. s \in Sampled
  <2>1. s.arrived \in Counts
    BY <1>1, <1>2 DEF Sample, Counts
  <2> QED BY <1>1, <1>4, <2>1, AtUpdate DEF Sample, Sampled
<1>6. s.lookup = "done" => IsTrue(s)
  <2> SUFFICES ASSUME s.lookup = "done" PROVE IsTrue(s)
    OBVIOUS
  <2>1. read = Loaded
    BY <1>1
  <2>2. lastTotal = looked
    <3> SUFFICES ASSUME lastTotal # looked PROVE FALSE
      OBVIOUS
    <3>1. lastTotal = Zeros
      BY DEF Inv, LastIsKnown
    <3>2. Loaded.packets = 0
      BY <2>1, <3>1, AtUpdate DEF IsBaseline, Zeros
    <3> QED BY <3>2, NothingCame
  <2>3. /\ s.packets = (((Loaded.packets - looked.packets) % Modulus) * Second) \div timeDiff
        /\ s.bytes = (((Loaded.bytes - looked.bytes) % Modulus) * Second) \div timeDiff
    BY <1>1, <2>1, <2>2 DEF Rate, Difference
  <2> HIDE DEF s
  <2>4. s.arrived.packets < Modulus => IsRate(s.packets, s.arrived.packets, s.over)
    <3> SUFFICES ASSUME s.arrived.packets < Modulus
                 PROVE  IsRate(s.packets, s.arrived.packets, s.over)
      OBVIOUS
    <3>1. IsRate((((Loaded.packets - looked.packets) % Modulus) * Second) \div timeDiff,
                 Loaded.packets - looked.packets, timeDiff)
      BY <1>1, AtUpdate, RateExact
    <3> QED BY <1>1, <2>3, <3>1
  <2>5. s.arrived.bytes < Modulus => IsRate(s.bytes, s.arrived.bytes, s.over)
    <3> SUFFICES ASSUME s.arrived.bytes < Modulus
                 PROVE  IsRate(s.bytes, s.arrived.bytes, s.over)
      OBVIOUS
    <3>1. IsRate((((Loaded.bytes - looked.bytes) % Modulus) * Second) \div timeDiff,
                 Loaded.bytes - looked.bytes, timeDiff)
      BY <1>1, AtUpdate, RateExact
    <3> QED BY <1>1, <2>3, <3>1
  <2> QED BY <1>1, <2>4, <2>5, AtUpdate DEF IsTrue
<1>7. lastTotal # looked => ~Spike(s)
  <2> SUFFICES ASSUME lastTotal # looked PROVE ~Spike(s)
    OBVIOUS
  <2>1. lastTotal = Zeros
    BY DEF Inv, LastIsKnown
  <2>2. read.packets = 0
    BY <1>3, <2>1 DEF IsBaseline, Zeros
  <2>3. read = Zeros
    BY <2>2, NothingCame
  <2>4. read.packets = 0 /\ read.bytes = 0 /\ lastTotal.packets = 0 /\ lastTotal.bytes = 0
    BY <2>1, <2>3 DEF Zeros
  <2>5. s.packets = 0 /\ s.bytes = 0
    BY <1>1, <2>4, AtUpdate, RateOfNothing DEF Rate, Difference
  <2> HIDE DEF s
  <2> QED BY <1>2, <2>5 DEF Spike
<1> QED BY <1>5, <1>6, <1>7

\* What an update does to the window, with whatever counts the lookup answered
LEMMA WindowAfterUpdate ==
  ASSUME Inv, NEW read \in {Loaded, Zeros}, EndUpdate(read, Loaded)
  PROVE  /\ throughputHistory' \in Seq(Sampled) /\ Len(throughputHistory') <= Window
         /\ SamplesAreTraffic'
         /\ lastTotal # looked /\ throughputHistory' # throughputHistory =>
              ~Spike(throughputHistory'[Len(throughputHistory')])
<1>1. CASE IsBaseline(read)
  <2>1. throughputHistory' = throughputHistory
    BY <1>1 DEF EndUpdate
  <2> QED BY <2>1 DEF Inv, TypeOK, SamplesAreTraffic, IsTrue
<1>2. CASE ~IsBaseline(read)
  <2> DEFINE s == Sample(read, Loaded)
             h == throughputHistory
             k == Kept(Append(h, s))
  <2>1. throughputHistory' = k
    BY <1>2 DEF EndUpdate
  <2>2. /\ s \in Sampled
        /\ s.lookup = "done" => IsTrue(s)
        /\ lastTotal # looked => ~Spike(s)
    BY <1>2, SampleIsSound DEF EndUpdate
  <2>3. h \in Seq(Sampled) /\ Len(h) <= Window
    BY DEF Inv, TypeOK
  <2> HIDE DEF s
  <2>4. /\ k \in Seq(Sampled) /\ Len(k) <= Window /\ k[Len(k)] = s
        /\ \A i \in DOMAIN k : k[i] = s \/ \E j \in DOMAIN h : k[i] = h[j]
    BY <2>2, <2>3, KeptLatest
  <2> HIDE DEF k
  <2>5. \A i \in DOMAIN k : k[i].lookup = "done" => IsTrue(k[i])
    BY <2>2, <2>4 DEF Inv, SamplesAreTraffic
  <2>6. SamplesAreTraffic'
    BY <2>1, <2>5 DEF SamplesAreTraffic, IsTrue
  <2> QED BY <2>1, <2>2, <2>4, <2>6
<1> QED BY <1>1, <1>2
-----------------------------------------------------------------------------
\* Initially nothing was looked at.
LEMMA InitInv == Init => Inv
<1> SUFFICES ASSUME Init PROVE Inv
  OBVIOUS
<1>1. TypeOK
  BY CountersAssumption DEF Init, TypeOK, Counts, Zeros, Idle
<1>2. kernel.packets = 0 => kernel.bytes = 0
  BY DEF Init, Zeros
<1>3. kernel.packets \in Nat /\ kernel.bytes \in Nat
  BY <1>1 DEF TypeOK, Counts
<1> QED BY <1>1, <1>2, <1>3 DEF Init, Inv, LastIsKnown, LooksGoForward, PacketsComeFirst,
                               SamplesAreTraffic, Zeros, Idle

\* A step that leaves the samples alone leaves what they say alone.
LEMMA SamplesStay ==
  ASSUME SamplesAreTraffic, UNCHANGED throughputHistory
  PROVE  SamplesAreTraffic'
  BY DEF SamplesAreTraffic, IsTrue

\* The probes only count up, packets first.
LEMMA ProbePreservesInv ==
  ASSUME Inv, NEW c \in CPUs, CountPacket(c) \/ CountBytes(c)
  PROVE  Inv'
<1>1. UNCHANGED <<timeDiff, lookup, dashboard>>
  BY DEF CountPacket, CountBytes
<1>2. UNCHANGED <<timeDiff, lookup, lastTotal, throughputHistory, looked>>
  BY <1>1 DEF dashboard
<1>3. /\ kernel' \in Counts /\ kernel'.packets >= kernel.packets
      /\ kernel'.bytes >= kernel.bytes
      /\ counted' \in [CPUs -> Sizes \cup {Idle}]
      /\ kernel'.packets > 0
  <2>1. CASE CountPacket(c)
    <3>1. kernel' = [kernel EXCEPT !.packets = @ + 1]
      BY <2>1 DEF CountPacket
    <3>2. PICK n \in Sizes : counted' = [counted EXCEPT ![c] = n]
      BY <2>1 DEF CountPacket
    <3> QED BY <3>1, <3>2 DEF Inv, TypeOK, Counts
  <2>2. CASE CountBytes(c)
    <3>1. kernel' = [kernel EXCEPT !.bytes = @ + counted[c]] /\ counted[c] # Idle
      BY <2>2 DEF CountBytes
    <3>2. counted[c] \in Nat
      BY <3>1, CountersAssumption DEF Inv, TypeOK
    <3>3. kernel.packets > 0
      BY <3>1 DEF Inv, PacketsComeFirst, TypeOK, Counts
    <3>4. counted' \in [CPUs -> Sizes \cup {Idle}]
      BY <2>2 DEF CountBytes, Inv, TypeOK
    <3> QED BY <3>1, <3>2, <3>3, <3>4 DEF Inv, TypeOK, Counts
  <2> QED BY <2>1, <2>2
<1>4. TypeOK'
  BY <1>2, <1>3 DEF Inv, TypeOK
<1>5. LastIsKnown'
  BY <1>2 DEF Inv, LastIsKnown
<1>6. LooksGoForward'
  <2>1. kernel.packets \in Nat /\ kernel.bytes \in Nat /\ kernel'.packets \in Nat
        /\ kernel'.bytes \in Nat /\ looked.packets \in Nat /\ looked.bytes \in Nat
    BY <1>3 DEF Inv, TypeOK, Counts
  <2>2. lookup # Idle => lookup \in Nat
    BY DEF Inv, TypeOK
  <2> QED BY <1>2, <1>3, <2>1, <2>2 DEF Inv, LooksGoForward
<1>7. PacketsComeFirst'
  BY <1>2, <1>3 DEF Inv, PacketsComeFirst, Counts
<1>8. SamplesAreTraffic'
  BY <1>2, SamplesStay DEF Inv
<1> QED BY <1>4, <1>5, <1>6, <1>7, <1>8 DEF Inv

\* An update looks at what there is.
LEMMA UpdatePreservesInv ==
  ASSUME Inv, NEW read \in {Loaded, Zeros}, EndUpdate(read, Loaded)
  PROVE  Inv'
<1>1. /\ lookup # Idle /\ lookup' = Idle /\ timeDiff' = 0
      /\ lastTotal' = read /\ looked' = Loaded /\ kernel' = kernel /\ counted' = counted
  BY DEF EndUpdate, traffic
<1>2. TypeOK'
  <2>1. lastTotal' \in Counts /\ looked' \in Counts
    BY <1>1, AtUpdate
  <2> QED BY <1>1, <2>1, WindowAfterUpdate DEF Inv, TypeOK
<1>3. LastIsKnown'
  BY <1>1 DEF LastIsKnown, Zeros
<1>4. LooksGoForward'
  <2>1. Loaded.packets <= kernel.packets /\ Loaded.bytes <= kernel.bytes
    BY <1>1, AtUpdate DEF Inv, LooksGoForward
  <2> QED BY <1>1, <2>1 DEF LooksGoForward
<1>5. PacketsComeFirst'
  BY <1>1 DEF Inv, PacketsComeFirst, Idle
<1>6. SamplesAreTraffic'
  BY WindowAfterUpdate
<1> QED BY <1>2, <1>3, <1>4, <1>5, <1>6 DEF Inv

\* Every step preserves the invariant.
LEMMA NextInv == Inv /\ [Next]_vars => Inv'
<1> SUFFICES ASSUME Inv, [Next]_vars PROVE Inv'
  OBVIOUS
<1>1. ASSUME NEW c \in CPUs, CountPacket(c) \/ CountBytes(c) PROVE Inv'
  BY <1>1, ProbePreservesInv
<1>2. CASE TimePasses
  <2>1. /\ timeDiff' = timeDiff + 1 /\ lookup = Idle
        /\ UNCHANGED <<kernel, counted, lookup, lastTotal, throughputHistory, looked>>
    BY <1>2 DEF TimePasses, traffic, dashboard
  <2>2. SamplesAreTraffic'
    BY <2>1, SamplesStay DEF Inv
  <2> QED BY <2>1, <2>2 DEF Inv, TypeOK, LastIsKnown, LooksGoForward, PacketsComeFirst
<1>3. CASE BeginUpdate
  <2>1. /\ lookup' = kernel.packets /\ timeDiff >= Second
        /\ UNCHANGED <<kernel, counted, timeDiff, lastTotal, throughputHistory, looked>>
    BY <1>3 DEF BeginUpdate, traffic, dashboard
  <2>2. SamplesAreTraffic'
    BY <2>1, SamplesStay DEF Inv
  <2>3. kernel.packets \in Nat /\ kernel.bytes \in Nat /\ looked.bytes \in Nat
    BY DEF Inv, TypeOK, Counts
  <2>4. TypeOK' /\ LastIsKnown'
    BY <2>1, <2>3 DEF Inv, TypeOK, LastIsKnown
  <2>5. LooksGoForward'
    BY <2>1, <2>3 DEF Inv, LooksGoForward
  <2>6. PacketsComeFirst'
    BY <2>1, <2>3 DEF Inv, LooksGoForward, PacketsComeFirst
  <2> QED BY <2>2, <2>4, <2>5, <2>6 DEF Inv
<1>4. CASE Update
  BY <1>4, UpdatePreservesInv DEF Update
<1>5. CASE UpdateFails
  BY <1>5, UpdatePreservesInv DEF UpdateFails
<1>6. CASE UNCHANGED vars
  <2>1. UNCHANGED <<kernel, counted, timeDiff, lookup, lastTotal, throughputHistory, looked>>
    BY <1>6 DEF vars, traffic, dashboard
  <2>2. SamplesAreTraffic'
    BY <2>1, SamplesStay DEF Inv
  <2> QED BY <2>1, <2>2 DEF Inv, TypeOK, LastIsKnown, LooksGoForward, PacketsComeFirst
<1> QED BY <1>1, <1>2, <1>3, <1>4, <1>5, <1>6 DEF Next

\* The invariant holds throughout, for all values of the constants.
THEOREM Invariance == Spec => []Inv
  BY InitInv, NextInv, PTL DEF Spec

\* Counts and samples keep their types and the window its length
\* (dashboard.go:573-578).
THEOREM TypeCorrect == Spec => []TypeOK
<1>1. Inv => TypeOK
  BY DEF Inv
<1> QED BY <1>1, Invariance, PTL

\* A sample shows the rate of exactly the traffic since the last look
\* (dashboard.go:561-571), for every width of the counters.
THEOREM ShowsTheTraffic == Spec => []SamplesAreTraffic
<1>1. Inv => SamplesAreTraffic
  BY DEF Inv
<1> QED BY <1>1, Invariance, PTL

\* A failed lookup (monitor.go:194-196) spoils one sample at most
\* (dashboard.go:553-559).
THEOREM SpoilsOne == Spec => OutageSpoilsOneSample
<1> DEFINE Quiet == lastTotal # looked /\ throughputHistory' # throughputHistory =>
                      ~Spike(throughputHistory'[Len(throughputHistory')])
<1>1. Inv /\ [Next]_vars => [Quiet]_vars
  <2> SUFFICES ASSUME Inv, Next, throughputHistory' # throughputHistory PROVE Quiet
    BY DEF vars
  <2>1. CASE Update
    BY <2>1, WindowAfterUpdate DEF Update
  <2>2. CASE UpdateFails
    BY <2>2, WindowAfterUpdate DEF UpdateFails
  <2>3. CASE ~Update /\ ~UpdateFails
    BY <2>3 DEF Next, CountPacket, CountBytes, TimePasses, BeginUpdate, dashboard
  <2> QED BY <2>1, <2>2, <2>3
<1> QED BY <1>1, Invariance, PTL DEF Spec, OutageSpoilsOneSample
=============================================================================
