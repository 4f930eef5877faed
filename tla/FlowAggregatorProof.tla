------------------------ MODULE FlowAggregatorProof ------------------------
(***************************************************************************)
(* Proofs about the flow aggregator, alone and with the dashboard's        *)
(* refreshes running against it, for any set of events, any timeout,       *)
(* history size and channel capacity.                                      *)
(***************************************************************************)
EXTENDS LiveFlows, FiniteSetTheorems, SequenceTheorems, WellFoundedInduction, TLAPS
-----------------------------------------------------------------------------
\* A set of numbers that is not empty has a least one.
LEMMA LeastNumber ==
  ASSUME NEW T \in SUBSET Nat, T # {}
  PROVE  \E n \in T : \A m \in T : n <= m
<1> DEFINE R == {ss \in Nat \X Nat : ss[1] < ss[2]}
<1>1. IsWellFoundedOn(R, Nat)
  BY NatLessThanWellFounded DEF OpToRel
<1>2. \E x \in T : \A y \in T : <<y, x>> \notin R
  <2> HIDE DEF R
  <2> QED BY <1>1, WFMin
<1>3. \A x \in T, y \in T : <<y, x>> \notin R => x <= y
  OBVIOUS
<1> QED BY <1>2, <1>3

\* Among subsets of a finite set that are somehow bad, if there are any, there is
\* one from which no element can be taken without making it good.
LEMMA SmallestSet ==
  ASSUME NEW D, IsFiniteSet(D), NEW B \in SUBSET SUBSET D, B # {}
  PROVE  \E s \in B : \A x \in s : s \ {x} \notin B
<1> DEFINE N == {Cardinality(s) : s \in B}
<1>1. \A s \in B : IsFiniteSet(s) /\ Cardinality(s) \in Nat
  BY FS_Subset, FS_CardinalityType
<1>2. N \in SUBSET Nat /\ N # {}
  BY <1>1
<1>3. PICK n \in N : \A m \in N : n <= m
  <2> HIDE DEF N
  <2> QED BY <1>2, LeastNumber
<1>4. PICK s \in B : Cardinality(s) = n
  OBVIOUS
<1>5. ASSUME NEW x \in s, s \ {x} \in B PROVE FALSE
  <2>1. Cardinality(s \ {x}) = n - 1
    BY <1>1, <1>4, FS_RemoveElement
  <2>2. n <= Cardinality(s \ {x})
    BY <1>3, <1>5
  <2>3. n \in Nat
    BY <1>2
  <2> QED BY <2>1, <2>2, <2>3
<1> QED BY <1>5

\* What picks an element of each subset of D, and a function F that folds g over
\* each of them, one picked element after the other
Picks(pick, D) == \A s \in SUBSET D : s # {} => pick[s] \in s
IsFold(F, D, base, pick, g) ==
  \A s \in SUBSET D : F[s] = IF s = {} THEN base ELSE g[<<pick[s], F[s \ {pick[s]}]>>]

\* A recursion over the subsets of a finite set, one element less at a time, is
\* one that some function satisfies.
LEMMA FoldIsDefined ==
  ASSUME NEW D, IsFiniteSet(D), NEW V, NEW base \in V,
         NEW pick, Picks(pick, D),
         NEW g \in [D \X V -> V]
  PROVE  \E F \in [SUBSET D -> V] : IsFold(F, D, base, pick, g)
<1> USE DEF Picks
<1> DEFINE L(n) == {t \in SUBSET D : Cardinality(t) <= n}
           Rule(F, s) == F[s] = IF s = {} THEN base ELSE g[<<pick[s], F[s \ {pick[s]}]>>]
           Good(n) == \E F \in [L(n) -> V] : \A s \in L(n) : Rule(F, s)
<1>1. \A s \in SUBSET D : IsFiniteSet(s) /\ Cardinality(s) \in Nat
  BY FS_Subset, FS_CardinalityType
<1>2. \A s \in SUBSET D : \A x \in s : Cardinality(s \ {x}) = Cardinality(s) - 1
  BY <1>1, FS_RemoveElement
<1>3. Good(0)
  <2>1. L(0) = {{}}
    BY <1>1, FS_EmptySet
  <2>2. [s \in L(0) |-> base] \in [L(0) -> V]
    OBVIOUS
  <2> QED BY <2>1, <2>2
<1>4. ASSUME NEW n \in Nat, Good(n) PROVE Good(n + 1)
  <2>1. PICK F \in [L(n) -> V] : \A s \in L(n) : Rule(F, s)
    BY <1>4
  <2> DEFINE G == [s \in L(n + 1) |-> IF s \in L(n) THEN F[s]
                                      ELSE g[<<pick[s], F[s \ {pick[s]}]>>]]
  <2>2. \A s \in L(n) : s \in L(n + 1) /\ (s # {} => s \ {pick[s]} \in L(n))
    BY <1>1, <1>2
  <2>3. \A s \in L(n + 1) : s # {} => pick[s] \in D /\ s \ {pick[s]} \in L(n)
    BY <1>1, <1>2
  <2>4. {} \in L(n)
    BY FS_EmptySet
  <2> HIDE DEF L
  <2>5. \A s \in L(n + 1) : G[s] \in V
    BY <2>1, <2>3, <2>4
  <2>6. \A s \in L(n + 1) : Rule(G, s)
    BY <2>1, <2>2, <2>3, <2>4
  <2> QED BY <2>5, <2>6
<1>5. \A n \in Nat : Good(n)
  <2> DEFINE Bad == {n \in Nat : ~Good(n)}
  <2> HIDE DEF Good
  <2> SUFFICES ASSUME Bad # {} PROVE FALSE
    OBVIOUS
  <2>1. PICK n \in Bad : \A m \in Bad : n <= m
    BY LeastNumber
  <2>2. n # 0 /\ n - 1 \in Nat
    BY <1>3
  <2>3. Good(n - 1)
    BY <2>1, <2>2
  <2> QED BY <1>4, <2>2, <2>3
<1>6. L(Cardinality(D)) = SUBSET D /\ Cardinality(D) \in Nat
  BY <1>1, FS_Subset
<1>7. Good(Cardinality(D))
  BY <1>5, <1>6
<1> QED BY <1>6, <1>7 DEF IsFold

\* A finite family of numbers
Summable(f) == IsFiniteSet(DOMAIN f) /\ \A x \in DOMAIN f : f[x] \in Nat

Pick(s) == CHOOSE x \in s : TRUE
\* F gives the sum of f over each subset of its domain.
Sums(F, f) == \A s \in SUBSET DOMAIN f :
                F[s] = IF s = {} THEN 0 ELSE f[Pick(s)] + F[s \ {Pick(s)}]

\* The total of a finite family of numbers is such a sum.
LEMMA TotalIsSum ==
  ASSUME NEW f, Summable(f)
  PROVE  \E F \in [SUBSET DOMAIN f -> Nat] : Sums(F, f) /\ Total(f) = F[DOMAIN f]
<1> DEFINE D == DOMAIN f
           pick == [s \in SUBSET D |-> Pick(s)]
           g == [p \in D \X Nat |-> f[p[1]] + p[2]]
           Rule(F) == [s \in SUBSET D |-> IF s = {} THEN 0 ELSE f[Pick(s)] + F[s \ {Pick(s)}]]
           C == CHOOSE F : F = Rule(F)
<1>1. \A s \in SUBSET D : s # {} => Pick(s) \in s
  BY DEF Pick
<1>2. \E F \in [SUBSET D -> Nat] : IsFold(F, D, 0, pick, g)
  <2>1. g \in [D \X Nat -> Nat]
    BY DEF Summable
  <2>2. Picks(pick, D)
    BY <1>1 DEF Picks
  <2>3. IsFiniteSet(D) /\ 0 \in Nat
    BY DEF Summable
  <2> HIDE DEF D, g, pick
  <2> QED BY <2>1, <2>2, <2>3, FoldIsDefined
<1>3. PICK F \in [SUBSET D -> Nat] : IsFold(F, D, 0, pick, g)
  BY <1>2
<1>4. \A s \in SUBSET D : F[s] = IF s = {} THEN 0 ELSE f[Pick(s)] + F[s \ {Pick(s)}]
  BY <1>1, <1>3 DEF IsFold
<1>5. F = Rule(F)
  BY <1>4
<1>6. C = Rule(C)
  <2> HIDE DEF Rule
  <2> QED BY <1>5
<1>7. \A s \in SUBSET D : C[s] = F[s]
  <2> DEFINE B == {s \in SUBSET D : C[s] # F[s]}
  <2> SUFFICES ASSUME B # {} PROVE FALSE
    OBVIOUS
  <2> HIDE DEF C
  <2>1. PICK s \in B : \A x \in s : s \ {x} \notin B
    <3> HIDE DEF B
    <3>1. B \in SUBSET SUBSET D /\ IsFiniteSet(D)
      BY DEF B, Summable
    <3> QED BY <3>1, SmallestSet
  <2>2. C[s] = IF s = {} THEN 0 ELSE f[Pick(s)] + C[s \ {Pick(s)}]
    BY <1>6
  <2> QED BY <1>1, <1>4, <2>1, <2>2
<1>8. Total(f) = C[D]
  BY DEF Total, FoldFunction, FoldFunctionOnSet, MapThenFoldSet, Pick
<1> QED BY <1>4, <1>7, <1>8 DEF Sums

\* A sum is the sum without an element and that element, whichever is taken first.
LEMMA SumSplits ==
  ASSUME NEW f, Summable(f),
         NEW F \in [SUBSET DOMAIN f -> Nat], Sums(F, f),
         NEW s \in SUBSET DOMAIN f, NEW x \in s
  PROVE  F[s] = f[x] + F[s \ {x}]
<1> DEFINE D == DOMAIN f
           B == {t \in SUBSET D : \E y \in t : F[t] # f[y] + F[t \ {y}]}
<1>1. ASSUME NEW t \in B, \A y \in t : t \ {y} \notin B PROVE FALSE
  <2>1. PICK y \in t : F[t] # f[y] + F[t \ {y}]
    OBVIOUS
  <2> DEFINE c == Pick(t)
             u == t \ {c}
             v == t \ {y}
             w == (t \ {c}) \ {y}
  <2>2. c \in t /\ c \in D /\ y \in D /\ t \in SUBSET D
    BY DEF Pick
  <2>3. F[t] = f[c] + F[u]
    BY <2>2 DEF Sums
  <2>4. y # c
    BY <2>1, <2>3
  <2>5. F[u] = f[y] + F[w]
    <3>1. u \in SUBSET D /\ u \notin B /\ y \in u
      BY <1>1, <2>2, <2>4
    <3> QED BY <3>1
  <2>6. F[v] = f[c] + F[w]
    <3>1. v \in SUBSET D /\ v \notin B /\ c \in v
      BY <1>1, <2>2, <2>4
    <3>2. v \ {c} = w
      OBVIOUS
    <3> QED BY <3>1, <3>2
  <2>7. f[c] \in Nat /\ f[y] \in Nat /\ F[w] \in Nat
    BY <2>2 DEF Summable
  <2> HIDE DEF B, D, c, u, v, w
  <2> QED BY <2>1, <2>3, <2>5, <2>6, <2>7 DEF v
<1>2. B = {}
  <2> SUFFICES ASSUME B # {} PROVE FALSE
    OBVIOUS
  <2>1. B \in SUBSET SUBSET D /\ IsFiniteSet(D)
    BY DEF Summable
  <2> HIDE DEF B, D
  <2> QED BY <1>1, <2>1, SmallestSet
<1> QED BY <1>2

\* Sums of families that agree on a set agree there.
LEMMA SumsAgree ==
  ASSUME NEW f, NEW g, IsFiniteSet(DOMAIN f), NEW F, NEW G, Sums(F, f), Sums(G, g),
         NEW s \in SUBSET DOMAIN f, s \subseteq DOMAIN g, \A x \in s : f[x] = g[x]
  PROVE  F[s] = G[s]
<1> DEFINE B == {t \in SUBSET s : F[t] # G[t]}
<1>1. ASSUME NEW t \in B, \A y \in t : t \ {y} \notin B PROVE FALSE
  <2>1. t # {} => Pick(t) \in t
    BY DEF Pick
  <2>2. /\ F[t] = IF t = {} THEN 0 ELSE f[Pick(t)] + F[t \ {Pick(t)}]
        /\ G[t] = IF t = {} THEN 0 ELSE g[Pick(t)] + G[t \ {Pick(t)}]
    BY DEF Sums
  <2> QED BY <1>1, <2>1, <2>2
<1>2. B = {}
  <2> SUFFICES ASSUME B # {} PROVE FALSE
    OBVIOUS
  <2>1. B \in SUBSET SUBSET s /\ IsFiniteSet(s)
    BY FS_Subset
  <2> HIDE DEF B
  <2> QED BY <1>1, <2>1, SmallestSet
<1> QED BY <1>2

\* So is the total.
LEMMA TotalSplits ==
  ASSUME NEW f, Summable(f), NEW x \in DOMAIN f
  PROVE  \E F \in [SUBSET DOMAIN f -> Nat] :
           Sums(F, f) /\ Total(f) = f[x] + F[DOMAIN f \ {x}]
<1>1. PICK F \in [SUBSET DOMAIN f -> Nat] : Sums(F, f) /\ Total(f) = F[DOMAIN f]
  BY TotalIsSum
<1>2. \A s \in SUBSET DOMAIN f : x \in s => F[s] = f[x] + F[s \ {x}]
  BY <1>1, SumSplits
<1> QED BY <1>1, <1>2

\* A total is a number,
LEMMA TotalType ==
  ASSUME NEW f, Summable(f)
  PROVE  Total(f) \in Nat
<1>1. PICK F \in [SUBSET DOMAIN f -> Nat] : Sums(F, f) /\ Total(f) = F[DOMAIN f]
  BY TotalIsSum
<1>2. DOMAIN f \in SUBSET DOMAIN f
  OBVIOUS
<1> QED BY <1>1, <1>2

\* zero when all of its members are, and no less than any of them.
LEMMA TotalZero ==
  ASSUME NEW f, IsFiniteSet(DOMAIN f), \A x \in DOMAIN f : f[x] = 0
  PROVE  Total(f) = 0
<1>0. Summable(f)
  BY DEF Summable
<1>1. PICK F \in [SUBSET DOMAIN f -> Nat] : Sums(F, f) /\ Total(f) = F[DOMAIN f]
  BY <1>0, TotalIsSum
<1> DEFINE B == {t \in SUBSET DOMAIN f : F[t] # 0}
<1>2. ASSUME NEW t \in B, \A y \in t : t \ {y} \notin B PROVE FALSE
  <2>1. t # {} => Pick(t) \in t
    BY DEF Pick
  <2>2. F[t] = IF t = {} THEN 0 ELSE f[Pick(t)] + F[t \ {Pick(t)}]
    BY <1>1 DEF Sums
  <2> QED BY <1>2, <2>1, <2>2
<1>3. B = {}
  <2> SUFFICES ASSUME B # {} PROVE FALSE
    OBVIOUS
  <2>1. B \in SUBSET SUBSET DOMAIN f
    OBVIOUS
  <2> HIDE DEF B
  <2> QED BY <1>2, <2>1, SmallestSet
<1> QED BY <1>1, <1>3

\* When one member changes the total changes by as much.
LEMMA TotalChanges ==
  ASSUME NEW f, Summable(f),
         NEW g, DOMAIN g = DOMAIN f, NEW x \in DOMAIN f, NEW d \in Nat, g[x] = f[x] + d,
         \A y \in DOMAIN f : y # x => g[y] = f[y]
  PROVE  Total(g) = Total(f) + d
<1> DEFINE s == DOMAIN f \ {x}
<1>1. PICK F \in [SUBSET DOMAIN f -> Nat] : Sums(F, f) /\ Total(f) = f[x] + F[s]
  BY TotalSplits
<1>2. Summable(g) /\ x \in DOMAIN g
  BY DEF Summable
<1>3. PICK G \in [SUBSET DOMAIN g -> Nat] : Sums(G, g) /\ Total(g) = g[x] + G[DOMAIN g \ {x}]
  BY <1>2, TotalSplits
<1>4. F[s] = G[s]
  BY <1>1, <1>3, SumsAgree DEF Summable
<1>5. f[x] \in Nat /\ F[s] \in Nat
  BY <1>1 DEF Summable
<1> HIDE DEF s
<1> QED BY <1>1, <1>3, <1>4, <1>5 DEF s

\* A new member adds what it is to the total.
LEMMA TotalGrows ==
  ASSUME NEW f, Summable(f),
         NEW g, NEW x, x \notin DOMAIN f, DOMAIN g = DOMAIN f \cup {x}, g[x] \in Nat,
         \A y \in DOMAIN f : g[y] = f[y]
  PROVE  Total(g) = Total(f) + g[x]
<1>1. PICK F \in [SUBSET DOMAIN f -> Nat] : Sums(F, f) /\ Total(f) = F[DOMAIN f]
  BY TotalIsSum
<1>2. Summable(g) /\ x \in DOMAIN g
  BY FS_AddElement DEF Summable
<1>3. PICK G \in [SUBSET DOMAIN g -> Nat] : Sums(G, g) /\ Total(g) = g[x] + G[DOMAIN g \ {x}]
  BY <1>2, TotalSplits
<1>4. DOMAIN g \ {x} = DOMAIN f
  OBVIOUS
<1>5. F[DOMAIN f] = G[DOMAIN f] /\ F[DOMAIN f] \in Nat
  BY <1>1, <1>3, SumsAgree DEF Summable
<1> QED BY <1>1, <1>3, <1>4, <1>5
-----------------------------------------------------------------------------
\* What Occurrences and Failures return, the size of a set of positions of a
\* sequence, is a number.
LEMMA CountIsNat ==
  ASSUME NEW n \in Nat, NEW S \in SUBSET (1 .. n)
  PROVE  Cardinality(S) \in Nat
<1>1. IsFiniteSet(1 .. n)
  BY FS_Interval
<1>2. IsFiniteSet(S)
  BY <1>1, FS_Subset
<1> QED BY <1>2, FS_CardinalityType

\* The questions taken from an event are well-formed, so their counts are numbers.
LEMMA QueriesType ==
  ASSUME NEW e \in PacketEvents
  PROVE  /\ QueriesOf(e) \in Seq(Question)
         /\ Failures(QueriesOf(e)) \in Nat
         /\ \A d \in Domains : Occurrences(d, QueriesOf(e)) \in Nat
<1> DEFINE qs == QueriesOf(e)
<1>1. qs \in Seq(Question)
  <2>1. CASE e.proto = UDP /\ e.dport = 53 /\ e.dns # NoDNS
    <3>1. e.dns \in DNSMessage
      BY <2>1, EventsAssumption DEF PacketEvent
    <3> DEFINE names == e.dns.names
    <3>2. names \in Seq(Domains) /\ e.dns.isResponse \in BOOLEAN /\ e.dns.rcode \in ResponseCodes
      BY <3>1 DEF DNSMessage
    <3>3. Len(names) \in Nat /\ DOMAIN names = 1 .. Len(names)
      BY <3>2
    <3>4. \A i \in 1 .. Len(names) : names[i] \in Domains
      BY <3>2
    <3>5. qs = [i \in 1 .. Len(names) |-> [domain |-> names[i], isResponse |-> e.dns.isResponse,
                                           rcode |-> e.dns.rcode]]
      BY <2>1, <3>3 DEF QueriesOf
    <3> HIDE DEF qs, names
    <3>6. \A i \in 1 .. Len(names) : qs[i] \in Question
      BY <3>2, <3>4, <3>5 DEF Question
    <3>7. qs \in [1 .. Len(names) -> Question]
      BY <3>5, <3>6
    <3> QED BY <3>3, <3>7, SeqDef
  <2>2. CASE ~(e.proto = UDP /\ e.dport = 53 /\ e.dns # NoDNS)
    BY <2>2 DEF QueriesOf
  <2> QED BY <2>1, <2>2
<1>2. Len(qs) \in Nat /\ DOMAIN qs = 1 .. Len(qs)
  BY <1>1
<1> HIDE DEF qs
<1>3. Failures(qs) \in Nat
  BY <1>2, CountIsNat DEF Failures
<1>4. \A d \in Domains : Occurrences(d, qs) \in Nat
  BY <1>2, CountIsNat DEF Occurrences
<1> QED BY <1>1, <1>3, <1>4 DEF qs

\* The text of a key does not depend on which end is the source, and names the
\* conversation: two keys are equal only for the same hosts and protocol name.
LEMMA KeyNamesConversation ==
  ASSUME NEW a \in Hosts, NEW b \in Hosts, NEW c \in Hosts, NEW d \in Hosts, NEW m, NEW n
  PROVE  FlowKey(a, b, m) = FlowKey(c, d, n)
           <=> ((a = c /\ b = d) \/ (a = d /\ b = c)) /\ m = n
BY HostsAreRanks DEF FlowKey

\* Every protocol number has one of the names the aggregator gives flows.
LEMMA ProtocolNameIsText == ASSUME NEW p \in Nat PROVE ProtocolName(p) \in Names
BY DEF ProtocolName, Names

\* What the fields of an event are.
LEMMA EventType ==
  ASSUME NEW e \in PacketEvents
  PROVE  /\ e.saddr \in Hosts /\ e.daddr \in Hosts /\ e.sport \in Ports /\ e.dport \in Ports
         /\ e.proto \in Nat /\ e.len \in Nat
BY EventsAssumption DEF PacketEvent

\* A new flow has the type of flows, is open, and has the key of its event.
LEMMA NewFlowType ==
  ASSUME NEW e \in PacketEvents, NEW now \in Nat
  PROVE  /\ NewFlow(e, now) \in Flow
         /\ KeyOf(NewFlow(e, now)) = getFlowKey(e)
         /\ NewFlow(e, now).state # "closed"
<1>1. /\ [p \in Ports |-> 0] \in Counter
      /\ [d \in Domains |-> 0] \in [Domains -> Nat]
      /\ 0 \in Ports
  BY PortsAssumption DEF Counter
<1>2. ProtocolName(e.proto) \in Names
  BY ProtocolNameIsText, EventType
<1>3. << >> \in Seq(Change) /\ << >> \in Seq(Record)
      /\ << >> \in Seq(Question)
  OBVIOUS
<1>4. NewFlow(e, now) \in Flow
  BY <1>1, <1>2, <1>3, EventType DEF NewFlow, Flow, States
<1> QED BY <1>4 DEF NewFlow, KeyOf, getFlowKey

\* The TCP state that processEvent derives from the count of packets is one of
\* the states of a flow, and never "closed".
LEMMA TcpStateType ==
  ASSUME NEW n \in Nat, NEW old \in States \ {"closed"}
  PROVE  TcpState(n, old) \in States \ {"closed"}
BY DEF TcpState, States

\* The history stays a sequence of records.
LEMMA RememberType ==
  ASSUME NEW h \in Seq(Record), NEW r \in Record
  PROVE  Remember(h, r) \in Seq(Record)
<1>1. Append(h, r) \in Seq(Record) /\ Append(h, r) # << >>
  BY AppendProperties
<1>2. Tail(Append(h, r)) \in Seq(Record)
  BY <1>1, HeadTailProperties
<1> QED BY <1>1, <1>2 DEF Remember

\* The locked part of processEvent: an open flow stays open, keeps its type and
\* its ends, and has counted one packet more.
LEMMA UpdatedType ==
  ASSUME NEW f \in Flow, f.state # "closed", NEW e \in PacketEvents, NEW now \in Nat
  PROVE  LET u == Updated(f, e, now)
         IN  /\ u \in Flow /\ u.state # "closed" /\ u.pkts = f.pkts + 1
             /\ u.src = f.src /\ u.dst = f.dst /\ u.proto = f.proto
<1> DEFINE u  == Updated(f, e, now)
           n  == f.pkts + 1
           st == IF e.proto = TCP THEN TcpState(n, f.state) ELSE f.state
           sps == Bumped(f.srcPorts, e.sport)
           dps == Bumped(f.dstPorts, e.dport)
           qs  == QueriesOf(e)
           his == Remember(f.history, RecordOf(f, e, now))
           chs == IF st # f.state /\ Len(f.changes) < MaxStateChanges
                  THEN Append(f.changes, [old |-> f.state, new |-> st]) ELSE f.changes
           nms == [d \in Domains |-> f.dnsNames[d] + Occurrences(d, qs)]
<1>1. n \in Nat /\ st \in States \ {"closed"}
  BY TcpStateType DEF Flow
<1>2. /\ sps \in Counter /\ dps \in Counter
      /\ TopPort(sps, f.topSrcPort, e.sport) \in Ports
      /\ TopPort(dps, f.topDstPort, e.dport) \in Ports
  <2>1. /\ f.srcPorts \in [Ports -> Nat] /\ f.dstPorts \in [Ports -> Nat]
        /\ f.topSrcPort \in Ports /\ f.topDstPort \in Ports
    BY DEF Flow, Counter
  <2>2. e.sport \in Ports /\ e.dport \in Ports
    BY EventType
  <2> QED BY <2>1, <2>2 DEF Counter, Bumped, TopPort
<1>3. his \in Seq(Record)
  <2>1. RecordOf(f, e, now) \in Record
    BY EventType DEF RecordOf, Record
  <2> QED BY <2>1, RememberType DEF Flow
<1>4. chs \in Seq(Change)
  <2>1. f.changes \in Seq(Change) /\ f.state \in States
    BY DEF Flow
  <2>2. [old |-> f.state, new |-> st] \in Change
    BY <1>1, <2>1 DEF Change
  <2>3. Append(f.changes, [old |-> f.state, new |-> st]) \in Seq(Change)
    BY <2>1, <2>2, AppendProperties, Zenon
  <2> QED BY <2>1, <2>3, Zenon
<1>5. nms \in [Domains -> Nat]
  <2>1. \A d \in Domains : f.dnsNames[d] \in Nat
    BY DEF Flow
  <2>2. \A d \in Domains : Occurrences(d, qs) \in Nat
    BY QueriesType
  <2> QED BY <2>1, <2>2
<1>6. f.dnsQueries \o qs \in Seq(Question)
  <2>1. f.dnsQueries \in Seq(Question)
    BY DEF Flow
  <2> QED BY <2>1, QueriesType, ConcatProperties
<1>7. f.dnsFailures + Failures(qs) \in Nat
  BY QueriesType DEF Flow
<1>8. /\ f.first \in Nat /\ f.bytes + e.len \in Nat
      /\ f.fwdPkts \in Nat /\ f.fwdPkts + 1 \in Nat /\ f.fwdBytes \in Nat
      /\ f.fwdBytes + e.len \in Nat
      /\ f.revPkts \in Nat /\ f.revPkts + 1 \in Nat /\ f.revBytes \in Nat
      /\ f.revBytes + e.len \in Nat
      /\ f.dnsLast \in Nat /\ e.proto \in Nat /\ f.tcpFlags \in Nat
      /\ f.src \in Hosts /\ f.dst \in Hosts /\ f.proto \in Names
  <2>1. e.len \in Nat /\ e.proto \in Nat
    BY EventType
  <2>2. /\ f.first \in Nat /\ f.bytes \in Nat /\ f.fwdPkts \in Nat /\ f.fwdBytes \in Nat
        /\ f.revPkts \in Nat /\ f.revBytes \in Nat /\ f.dnsLast \in Nat /\ f.tcpFlags \in Nat
        /\ f.src \in Hosts /\ f.dst \in Hosts /\ f.proto \in Names
    BY DEF Flow
  <2> QED BY <2>1, <2>2
<1>9. u = [src |-> f.src, dst |-> f.dst, proto |-> f.proto,
           srcPorts |-> sps, dstPorts |-> dps,
           topSrcPort |-> TopPort(sps, f.topSrcPort, e.sport),
           topDstPort |-> TopPort(dps, f.topDstPort, e.dport),
           pkts |-> n, bytes |-> f.bytes + e.len, last |-> now, first |-> f.first,
           fwdPkts |-> IF IsForward(f, e) THEN f.fwdPkts + 1 ELSE f.fwdPkts,
           fwdBytes |-> IF IsForward(f, e) THEN f.fwdBytes + e.len ELSE f.fwdBytes,
           revPkts |-> IF IsForward(f, e) THEN f.revPkts ELSE f.revPkts + 1,
           revBytes |-> IF IsForward(f, e) THEN f.revBytes ELSE f.revBytes + e.len,
           tcpFlags |-> IF e.proto = TCP THEN e.proto ELSE f.tcpFlags,
           state |-> st, changes |-> chs, history |-> his,
           dnsQueries |-> f.dnsQueries \o qs, dnsNames |-> nms,
           dnsFailures |-> f.dnsFailures + Failures(qs),
           dnsLast |-> IF qs = <<>> THEN f.dnsLast ELSE now]
  BY DEF Updated
<1> HIDE DEF u, n, st, sps, dps, qs, his, chs, nms
<1>10. u \in Flow
  BY <1>1, <1>2, <1>3, <1>4, <1>5, <1>6, <1>7, <1>8, <1>9 DEF Flow
<1>11. u.state = st /\ u.pkts = n /\ u.src = f.src /\ u.dst = f.dst /\ u.proto = f.proto
  BY <1>9
<1> QED BY <1>1, <1>10, <1>11 DEF u, n

-----------------------------------------------------------------------------
\* The inductive invariant: the types, and what relates the table and the heap.
Inv == TypeOK /\ TableKeyed /\ OpenIffInTable

\* No conversation has two open flows: both would be in the table, under the
\* same key.
LEMMA OpenFlowIsUnique == Inv => OneOpenFlow
<1> SUFFICES ASSUME Inv, NEW i \in Places, NEW j \in Places,
                    heap[i].state # "closed", heap[j].state # "closed",
                    ConversationOf(heap[i]) = ConversationOf(heap[j])
             PROVE  i = j
  BY DEF OneOpenFlow
<1>1. heap[i] \in Flow /\ heap[j] \in Flow
  BY DEF Inv, TypeOK, Places
<1>2. KeyOf(heap[i]) = KeyOf(heap[j])
  <2>1. /\ heap[i].src \in Hosts /\ heap[i].dst \in Hosts
        /\ heap[j].src \in Hosts /\ heap[j].dst \in Hosts
    BY <1>1 DEF Flow
  <2>2. /\ {heap[i].src, heap[i].dst} = {heap[j].src, heap[j].dst}
        /\ heap[i].proto = heap[j].proto
    BY DEF ConversationOf
  <2>3. \/ heap[i].src = heap[j].src /\ heap[i].dst = heap[j].dst
        \/ heap[i].src = heap[j].dst /\ heap[i].dst = heap[j].src
    BY <2>2
  <2> QED BY <2>1, <2>2, <2>3, KeyNamesConversation DEF KeyOf
<1>3. PICK k \in DOMAIN flows : flows[k] = i
  BY DEF Inv, OpenIffInTable, InTable
<1>4. PICK m \in DOMAIN flows : flows[m] = j
  BY DEF Inv, OpenIffInTable, InTable
<1>5. k = m
  BY <1>2, <1>3, <1>4 DEF Inv, TableKeyed
<1> QED BY <1>3, <1>4, <1>5

\* NewFlowAggregator establishes the invariant: an empty table and no objects.
LEMMA InitInv == Init => Inv
<1> SUFFICES ASSUME Init PROVE Inv
  OBVIOUS
<1>1. flows = << >> /\ heap = << >> /\ DOMAIN flows = {} /\ Places = {}
  BY DEF Init, Places
<1>2. DOMAIN flows \subseteq Keys /\ flows \in [DOMAIN flows -> Places]
  BY <1>1
<1>3. globalStats \in [totalPackets : Nat, totalBytes : Nat,
                      droppedPackets : Nat, lastUpdated : Nat]
  BY DEF Init
<1>4. heap \in Seq(Flow) /\ eventChan \in Seq(PacketEvents)
  BY DEF Init
<1>5. TypeOK
  BY <1>2, <1>3, <1>4 DEF Init, TypeOK
<1> QED BY <1>1, <1>5 DEF Inv, TableKeyed, OpenIffInTable, InTable

\* A step that leaves the table alone preserves what is said of it.
LEMMA TableUnchanged ==
  ASSUME Inv, TypeOK', UNCHANGED table
  PROVE  Inv'
BY DEF Inv, table, TableKeyed, OpenIffInTable, InTable, Places

\* processEvent's locked part preserves the invariant, whether it finds the
\* flow in the table or allocates it and enters it there.
LEMMA ProcessEventInv ==
  ASSUME Inv, ProcessEvent
  PROVE  Inv'
<1> DEFINE e == job.evt
           now == job.now
           k == getFlowKey(e)
<1>1. e \in PacketEvents /\ now \in Nat
  BY DEF Inv, TypeOK, ProcessEvent
<1>2. k \in Keys
  BY <1>1 DEF Keys
<1>3. /\ globalStats' \in [totalPackets : Nat, totalBytes : Nat,
                          droppedPackets : Nat, lastUpdated : Nat]
      /\ e.len \in Nat
  <2>1. e.len \in Nat
    BY <1>1, EventType
  <2>2. globalStats \in [totalPackets : Nat, totalBytes : Nat,
                        droppedPackets : Nat, lastUpdated : Nat]
    BY DEF Inv, TypeOK
  <2>3. globalStats' = Counted(e, now)
    BY DEF ProcessEvent
  <2> HIDE DEF e, now
  <2>4. globalStats.totalPackets + 1 \in Nat /\ globalStats.totalBytes + e.len \in Nat
    BY <2>1, <2>2
  <2> QED BY <1>1, <2>1, <2>2, <2>3, <2>4 DEF Counted
<1>4. /\ heap \in Seq(Flow) /\ flows \in [DOMAIN flows -> Places] /\ DOMAIN flows \subseteq Keys
      /\ Places = 1 .. Len(heap) /\ Len(heap) \in Nat
  BY DEF Inv, TypeOK, Places
<1>5. CASE k \in DOMAIN flows
  <2> DEFINE n == flows[k]
             u == Updated(heap[n], e, now)
  <2>1. heap' = [heap EXCEPT ![n] = u] /\ flows' = flows
    BY <1>5 DEF ProcessEvent
  <2>2. n \in Places /\ heap[n] \in Flow /\ heap[n].state # "closed"
    BY <1>4, <1>5 DEF Inv, OpenIffInTable, InTable
  <2>3. /\ u \in Flow /\ u.state # "closed"
        /\ u.src = heap[n].src /\ u.dst = heap[n].dst /\ u.proto = heap[n].proto
    BY <1>1, <2>2, UpdatedType
  <2>4. KeyOf(u) = KeyOf(heap[n])
    BY <2>3 DEF KeyOf
  <2> HIDE DEF n, u
  <2>5. /\ heap' \in Seq(Flow) /\ Places' = Places /\ heap'[n] = u
        /\ \A i \in Places : i # n => heap'[i] = heap[i]
    BY <1>4, <2>1, <2>2, <2>3 DEF Places
  <2>6. TypeOK'
    <3>1. DOMAIN flows' \subseteq Keys /\ flows' \in [DOMAIN flows' -> Places']
      BY <1>4, <2>1, <2>5
    <3>2. /\ UNCHANGED <<eventChan, sent, tick, aggDone, timeoutDone, stopped, clock>>
          /\ job' = NoJob
      BY DEF ProcessEvent, input
    <3> QED BY <1>3, <2>5, <3>1, <3>2 DEF Inv, TypeOK
  <2>7. TableKeyed'
    BY <1>4, <2>1, <2>4, <2>5 DEF Inv, TableKeyed
  <2>8. OpenIffInTable'
    BY <1>4, <2>1, <2>2, <2>3, <2>5 DEF Inv, OpenIffInTable, InTable
  <2> QED BY <2>6, <2>7, <2>8 DEF Inv
<1>6. CASE k \notin DOMAIN flows
  <2> DEFINE n == Len(heap) + 1
             f == NewFlow(e, now)
             u == Updated(f, e, now)
  <2>1. /\ heap' = Append(heap, u)
        /\ flows' = [key \in DOMAIN flows \cup {k} |-> IF key = k THEN n ELSE flows[key]]
    BY <1>6 DEF ProcessEvent
  <2>2. f \in Flow /\ KeyOf(f) = k /\ f.state # "closed"
    BY <1>1, NewFlowType
  <2>3. /\ u \in Flow /\ u.state # "closed"
        /\ u.src = f.src /\ u.dst = f.dst /\ u.proto = f.proto
    BY <1>1, <2>2, UpdatedType
  <2>4. KeyOf(u) = k
    BY <2>2, <2>3 DEF KeyOf
  <2> HIDE DEF f, u, k
  <2>5. /\ heap' \in Seq(Flow) /\ Places' = Places \cup {n} /\ heap'[n] = u
        /\ n \notin Places
        /\ \A i \in Places : heap'[i] = heap[i]
    <3>1. heap' \in Seq(Flow) /\ Len(heap') = n
          /\ heap'[n] = u /\ \A i \in 1 .. Len(heap) : heap'[i] = heap[i]
      BY <1>4, <2>1, <2>3, AppendProperties
    <3>2. Places' = 1 .. n
      BY <3>1 DEF Places
    <3> QED BY <1>4, <3>1, <3>2
  <2>6. /\ DOMAIN flows' = DOMAIN flows \cup {k} /\ flows'[k] = n
        /\ \A key \in DOMAIN flows : flows'[key] = flows[key] /\ flows[key] \in Places
        /\ flows' \in [DOMAIN flows' -> Places']
    BY <1>4, <1>6, <2>1, <2>5
  <2>7. TypeOK'
    <3>1. DOMAIN flows' \subseteq Keys /\ flows' \in [DOMAIN flows' -> Places']
      BY <1>2, <1>4, <2>6
    <3>2. /\ UNCHANGED <<eventChan, sent, tick, aggDone, timeoutDone, stopped, clock>>
          /\ job' = NoJob
      BY DEF ProcessEvent, input
    <3> QED BY <1>3, <2>5, <3>1, <3>2 DEF Inv, TypeOK
  <2>8. TableKeyed'
    BY <1>6, <2>4, <2>5, <2>6 DEF Inv, TableKeyed
  <2>9. OpenIffInTable'
    BY <2>3, <2>5, <2>6 DEF Inv, OpenIffInTable, InTable
  <2> QED BY <2>7, <2>8, <2>9 DEF Inv
<1> QED BY <1>5, <1>6

\* The sweep preserves the invariant: what it closes it takes out of the table.
LEMMA CloseIdleFlowsInv ==
  ASSUME Inv, CloseIdleFlows
  PROVE  Inv'
<1> DEFINE idle == {k \in DOMAIN flows : Expired(heap[flows[k]])}
           swept(i) == \E k \in idle : flows[k] = i
<1>1. /\ heap' = [i \in DOMAIN heap |-> IF swept(i)
                                        THEN [heap[i] EXCEPT !.state = "closed"] ELSE heap[i]]
      /\ flows' = [k \in DOMAIN flows \ idle |-> flows[k]]
  BY DEF CloseIdleFlows
<1>2. /\ heap \in Seq(Flow) /\ flows \in [DOMAIN flows -> Places] /\ DOMAIN flows \subseteq Keys
      /\ Places = 1 .. Len(heap) /\ Len(heap) \in Nat
  BY DEF Inv, TypeOK, Places
<1>3. \A f \in Flow : /\ [f EXCEPT !.state = "closed"] \in Flow
                      /\ [f EXCEPT !.state = "closed"].state = "closed"
                      /\ KeyOf([f EXCEPT !.state = "closed"]) = KeyOf(f)
  BY DEF Flow, States, KeyOf
<1> HIDE DEF idle, swept
<1>4. \A i \in Places : heap[i] \in Flow
  BY <1>2
<1>5. \A i \in Places : /\ heap'[i] \in Flow /\ KeyOf(heap'[i]) = KeyOf(heap[i])
                        /\ swept(i) => heap'[i].state = "closed"
                        /\ ~swept(i) => heap'[i] = heap[i]
  BY <1>1, <1>3, <1>4 DEF Places
<1>6. heap' \in Seq(Flow) /\ Places' = Places
  <2>1. heap' \in [1 .. Len(heap) -> Flow]
    BY <1>1, <1>2, <1>5 DEF Places
  <2>2. heap' \in Seq(Flow)
    BY <1>2, <2>1, SeqDef
  <2> QED BY <1>1, <2>2 DEF Places
<1>7. DOMAIN flows' = DOMAIN flows \ idle /\ \A k \in DOMAIN flows' : flows'[k] = flows[k]
  BY <1>1
<1>8. TypeOK'
  <2>1. \A k \in DOMAIN flows : flows[k] \in Places
    BY <1>2
  <2>2. flows' \in [DOMAIN flows' -> Places']
    BY <1>1, <1>6, <1>7, <2>1
  <2>3. DOMAIN flows' \subseteq Keys
    BY <1>2, <1>7
  <2>4. /\ UNCHANGED <<globalStats, eventChan, sent, job, aggDone, timeoutDone, stopped, clock>>
        /\ tick' = FALSE
    BY DEF CloseIdleFlows, input
  <2> QED BY <1>6, <2>2, <2>3, <2>4 DEF Inv, TypeOK
<1>9. TableKeyed'
  BY <1>2, <1>5, <1>6, <1>7 DEF Inv, TableKeyed
<1>10. \A k, m \in DOMAIN flows : flows[k] = flows[m] => k = m
  BY DEF Inv, TableKeyed
<1>11. ASSUME NEW i \in Places
       PROVE  InTable(i)' <=> InTable(i) /\ ~swept(i)
  BY <1>7, <1>10 DEF InTable, swept, idle
<1>12. OpenIffInTable'
  BY <1>5, <1>6, <1>11 DEF Inv, OpenIffInTable
<1> QED BY <1>8, <1>9, <1>12 DEF Inv

\* The other steps leave the table alone.
LEMMA StepInv == Inv /\ [Next]_vars => Inv'
<1> SUFFICES ASSUME Inv, [Next]_vars PROVE Inv'
  OBVIOUS
<1> USE DEF input, loops, table
<1>1. ASSUME NEW e \in PacketEvents, Deliver(e)
      PROVE  Inv'
  <2>1. eventChan' \in Seq(PacketEvents)
    BY <1>1, AppendProperties DEF Inv, TypeOK, Deliver
  <2>2. TypeOK'
    BY <1>1, <2>1 DEF Inv, TypeOK, Deliver, Places
  <2> QED BY <1>1, <2>2, TableUnchanged DEF Deliver
<1>2. CASE AggReceive
  <2>1. /\ eventChan \in Seq(PacketEvents) /\ eventChan # << >> /\ clock \in Nat
    BY <1>2 DEF Inv, TypeOK, AggReceive
  <2>2. Head(eventChan) \in PacketEvents /\ Tail(eventChan) \in Seq(PacketEvents)
    BY <2>1, HeadTailProperties
  <2>3. job' \in [evt : PacketEvents, now : Nat]
    BY <1>2, <2>1, <2>2 DEF AggReceive
  <2>4. /\ UNCHANGED <<table, sent, tick, aggDone, timeoutDone, stopped, clock>>
        /\ eventChan' = Tail(eventChan)
    BY <1>2 DEF AggReceive
  <2>5. /\ flows' = flows /\ heap' = heap /\ globalStats' = globalStats
        /\ sent' = sent /\ tick' = tick /\ aggDone' = aggDone
        /\ timeoutDone' = timeoutDone /\ stopped' = stopped /\ clock' = clock
    BY <2>4
  <2>6. TypeOK'
    BY <2>2, <2>3, <2>4, <2>5 DEF Inv, TypeOK, Places
  <2> QED BY <2>4, <2>6, TableUnchanged
<1>3. CASE ProcessEvent
  BY <1>3, ProcessEventInv
<1>4. CASE CloseIdleFlows
  BY <1>4, CloseIdleFlowsInv
<1>5. CASE AggStop \/ TickerFires \/ TimeoutStop \/ Stop \/ TimePasses
  <2>1. UNCHANGED table
    BY <1>5 DEF AggStop, TickerFires, TimeoutStop, Stop, TimePasses
  <2>2. TypeOK'
    <3>1. CASE AggStop
      BY <3>1 DEF Inv, TypeOK, Places, AggStop
    <3>2. CASE TickerFires
      BY <3>2 DEF Inv, TypeOK, Places, TickerFires
    <3>3. CASE TimeoutStop
      BY <3>3 DEF Inv, TypeOK, Places, TimeoutStop
    <3>4. CASE Stop
      BY <3>4 DEF Inv, TypeOK, Places, Stop
    <3>5. CASE TimePasses
      BY <3>5 DEF Inv, TypeOK, Places, TimePasses
    <3> QED BY <1>5, <3>1, <3>2, <3>3, <3>4, <3>5
  <2> QED BY <2>1, <2>2, TableUnchanged
<1>6. CASE UNCHANGED vars
  <2>1. TypeOK'
    BY <1>6 DEF vars, Inv, TypeOK, Places
  <2> QED BY <1>6, <2>1, TableUnchanged DEF vars
<1> QED BY <1>1, <1>2, <1>3, <1>4, <1>5, <1>6 DEF Next

\* The table, the objects and their types stay consistent under every
\* interleaving of the two goroutines, the ticker and the shutdown.
THEOREM Invariance == Spec => []Inv
BY InitInv, StepInv, PTL DEF Spec

\* The variables always have their types.
THEOREM TypeCorrect == Spec => []TypeOK
<1>1. Inv => TypeOK
  BY DEF Inv
<1> QED BY <1>1, Invariance, PTL

\* The flow table and the Flow objects agree at every moment, whatever packets
\* come, in both directions, and however the sweeps fall between them.
THEOREM TableIsSound == Spec => []TableSound
<1>1. Inv => TableSound
  BY OpenFlowIsUnique DEF Inv, TableSound
<1> QED BY <1>1, Invariance, PTL

\* No step changes a Flow that was closed: both goroutines reach a Flow only
\* through the table, and the closed ones have left it.
LEMMA StepLeavesClosed ==
  Inv /\ [Next]_vars => \A i \in Places : heap[i].state = "closed" => heap'[i] = heap[i]
<1> SUFFICES ASSUME Inv, [Next]_vars, NEW i \in Places, heap[i].state = "closed"
             PROVE  heap'[i] = heap[i]
  OBVIOUS
<1>1. /\ heap \in Seq(Flow) /\ Places = 1 .. Len(heap) /\ Len(heap) \in Nat
  BY DEF Inv, TypeOK, Places
<1>2. \A k \in DOMAIN flows : flows[k] # i
  BY DEF Inv, OpenIffInTable, InTable
<1>3. CASE ProcessEvent
  <2>1. CASE getFlowKey(job.evt) \in DOMAIN flows
    BY <1>1, <1>2, <1>3, <2>1 DEF ProcessEvent
  <2>2. CASE getFlowKey(job.evt) \notin DOMAIN flows
    <3>1. PICK u : heap' = Append(heap, u)
      BY <1>3, <2>2 DEF ProcessEvent
    <3> QED BY <1>1, <3>1
  <2> QED BY <2>1, <2>2
<1>4. CASE CloseIdleFlows
  <2>1. ~ \E k \in {m \in DOMAIN flows : Expired(heap[flows[m]])} : flows[k] = i
    BY <1>2
  <2> QED BY <1>4, <2>1 DEF CloseIdleFlows, Places
<1>5. CASE UNCHANGED heap
  BY <1>5
<1> QED
  BY <1>3, <1>4, <1>5
     DEF Next, vars, table, Deliver, AggReceive, AggStop, TickerFires, TimeoutStop, Stop, TimePasses

\* A Flow that was closed is never written again by the aggregator, though the
\* dashboard may still hold a pointer to it.
THEOREM ClosedFlowsStayUntouched == Spec => ClosedStaysUntouched
<1>1. Inv /\ [Next]_vars => [\A i \in Places : heap[i].state = "closed" => heap'[i] = heap[i]]_vars
  BY StepLeavesClosed
<1> QED BY <1>1, Invariance, PTL DEF Spec, ClosedStaysUntouched

-----------------------------------------------------------------------------
\* An event moves from the channel to processEvent and from there to the
\* counters; no step takes one away or counts one twice.
LEMMA StepLosesNoEvent == TypeOK /\ NoEventLost /\ [Next]_vars => NoEventLost'
<1> SUFFICES ASSUME TypeOK, NoEventLost, [Next]_vars PROVE NoEventLost'
  OBVIOUS
<1>1. /\ eventChan \in Seq(PacketEvents) /\ Len(eventChan) \in Nat /\ sent \in Nat
      /\ globalStats.totalPackets \in Nat
  BY DEF TypeOK
<1>2. ASSUME NEW e \in PacketEvents, Deliver(e)
      PROVE  NoEventLost'
  <2>1. Len(eventChan') = Len(eventChan) + 1
    BY <1>1, <1>2, AppendProperties DEF Deliver
  <2> QED BY <1>1, <1>2, <2>1 DEF NoEventLost, Deliver, table, loops
<1>3. CASE AggReceive
  <2>1. Len(eventChan') = Len(eventChan) - 1
    BY <1>1, <1>3, HeadTailProperties DEF AggReceive
  <2>2. job = NoJob /\ job' # NoJob
    <3>1. eventChan # << >>
      BY <1>3 DEF AggReceive
    <3>2. Head(eventChan) \in PacketEvents /\ clock \in Nat
      BY <1>1, <3>1, HeadTailProperties DEF TypeOK
    <3>3. job' \in [evt : PacketEvents, now : Nat]
      BY <1>3, <3>2 DEF AggReceive
    <3> QED BY <1>3, <3>3, NoJobAssumption DEF AggReceive
  <2> QED BY <1>1, <1>3, <2>1, <2>2 DEF NoEventLost, AggReceive, table
<1>4. CASE ProcessEvent
  <2>1. globalStats'.totalPackets = globalStats.totalPackets + 1
    BY <1>4 DEF ProcessEvent, Counted, TypeOK
  <2> QED BY <1>1, <1>4, <2>1 DEF NoEventLost, ProcessEvent, input
<1>5. CASE UNCHANGED <<globalStats, eventChan, sent, job>>
  BY <1>5 DEF NoEventLost
<1> QED
  BY <1>2, <1>3, <1>4, <1>5
     DEF Next, vars, table, input, loops, AggStop, TickerFires, CloseIdleFlows, TimeoutStop, Stop, TimePasses

\* Whatever the interleaving, an event the channel accepted is in the channel,
\* in processEvent's hands, or counted, exactly once.
THEOREM EventsAreConserved == Spec => []NoEventLost
<1>1. Init => NoEventLost
  BY DEF Init, NoEventLost
<1>2. Inv => TypeOK
  BY DEF Inv
<1> QED BY <1>1, <1>2, StepLosesNoEvent, Invariance, PTL DEF Spec
-----------------------------------------------------------------------------
\* An event's key finds the open flow of the event's conversation.
LEMMA KeyFindsConversation ==
  ASSUME TypeOK, NEW e \in PacketEvents, NEW f \in Flow
  PROVE  KeyOf(f) = getFlowKey(e)
           <=> ConversationOf(f) = <<{e.saddr, e.daddr}, ProtocolName(e.proto)>>
<1>1. f.src \in Hosts /\ f.dst \in Hosts
  BY DEF Flow
<1>2. e.saddr \in Hosts /\ e.daddr \in Hosts
  BY EventType
<1>3. KeyOf(f) = getFlowKey(e)
        <=> {f.src, f.dst} = {e.saddr, e.daddr} /\ f.proto = ProtocolName(e.proto)
  <2> DEFINE a == f.src
             b == f.dst
             c == e.saddr
             d == e.daddr
             pf == f.proto
             pe == ProtocolName(e.proto)
  <2>1. KeyOf(f) = FlowKey(a, b, pf) /\ getFlowKey(e) = FlowKey(c, d, pe)
    BY DEF KeyOf, getFlowKey
  <2>2. FlowKey(a, b, pf) = FlowKey(c, d, pe) <=> {a, b} = {c, d} /\ pf = pe
    <3>1. a \in Hosts /\ b \in Hosts /\ c \in Hosts /\ d \in Hosts
      BY <1>1, <1>2
    <3> HIDE DEF a, b, c, d, pf, pe
    <3>2. {a, b} = {c, d} <=> ((a = c /\ b = d) \/ (a = d /\ b = c))
      OBVIOUS
    <3> QED BY <3>1, <3>2, KeyNamesConversation
  <2> QED BY <2>1, <2>2, Zenon
<1> DEFINE A == {f.src, f.dst}
           B == {e.saddr, e.daddr}
           m == f.proto
           n == ProtocolName(e.proto)
<1>4. ConversationOf(f) = <<A, m>>
  BY DEF ConversationOf
<1>5. KeyOf(f) = getFlowKey(e) <=> A = B /\ m = n
  BY <1>3
<1>6. (KeyOf(f) = getFlowKey(e)) <=> (ConversationOf(f) = <<B, n>>)
  <2> HIDE DEF A, B, m, n
  <2> QED BY <1>4, <1>5
<1> QED BY <1>6 DEF B, n

\* processEvent is Continue or Open of the conversation it counts.
LEMMA ProcessEventRefines ==
  ASSUME Inv, ProcessEvent
  PROVE  Table!Next
<1> DEFINE e == job.evt
           k == getFlowKey(e)
           c == <<{e.saddr, e.daddr}, ProtocolName(e.proto)>>
           obj(f) == [conv |-> ConversationOf(f), opener |-> f.src, pkts |-> f.pkts, status |-> IF f.state = "closed" THEN "expired" ELSE "open"]
<1>1. e \in PacketEvents /\ job.now \in Nat /\ c \in Conversations
  BY DEF Inv, TypeOK, ProcessEvent, Conversations
<1>2. /\ heap \in Seq(Flow) /\ flows \in [DOMAIN flows -> Places]
      /\ Places = 1 .. Len(heap) /\ Len(heap) \in Nat
  BY DEF Inv, TypeOK, Places
<1>3. Objects = [i \in Places |-> obj(heap[i])] /\ Objects' = [i \in Places' |-> obj(heap'[i])]
  BY DEF Objects
<1>4. CASE k \in DOMAIN flows
  <2> DEFINE n == flows[k]
             u == Updated(heap[n], e, job.now)
  <2>1. heap' = [heap EXCEPT ![n] = u]
    BY <1>4 DEF ProcessEvent
  <2>2. n \in Places /\ heap[n] \in Flow /\ heap[n].state # "closed" /\ KeyOf(heap[n]) = k
    BY <1>2, <1>4 DEF Inv, OpenIffInTable, InTable, TableKeyed
  <2>3. obj(u) = [obj(heap[n]) EXCEPT !.pkts = @ + 1] /\ u \in Flow
    <3>1. /\ u \in Flow /\ u.state # "closed" /\ u.pkts = heap[n].pkts + 1
          /\ u.src = heap[n].src /\ u.dst = heap[n].dst /\ u.proto = heap[n].proto
      BY <1>1, <2>2, UpdatedType
    <3>2. ConversationOf(u) = ConversationOf(heap[n])
      BY <3>1 DEF ConversationOf
    <3> HIDE DEF u
    <3> QED BY <2>2, <3>1, <3>2
  <2>4. ConversationOf(heap[n]) = c
    BY <1>1, <2>2, KeyFindsConversation DEF Inv
  <2> HIDE DEF n, u, c
  <2>5. Objects' = [Objects EXCEPT ![n].pkts = @ + 1]
    BY <1>2, <1>3, <2>1, <2>2, <2>3 DEF Places
  <2>6. n \in DOMAIN Objects /\ Objects[n].conv = c /\ Objects[n].status = "open"
    BY <1>3, <2>2, <2>4
  <2>7. Table!Continue(c)
    BY <2>5, <2>6 DEF Table!Continue, Table!OpenFlow
  <2> QED BY <1>1, <2>7 DEF Table!Next
<1>5. CASE k \notin DOMAIN flows
  <2> DEFINE f == NewFlow(e, job.now)
             u == Updated(f, e, job.now)
  <2>1. heap' = Append(heap, u)
    BY <1>5 DEF ProcessEvent
  <2>2. f \in Flow /\ KeyOf(f) = k /\ f.state # "closed" /\ f.pkts = 0
        /\ f.src = e.saddr
    BY <1>1, NewFlowType DEF NewFlow
  <2>3. obj(u) = [conv |-> ConversationOf(f), opener |-> f.src, pkts |-> 1, status |-> "open"]
    <3>1. /\ u.state # "closed" /\ u.pkts = f.pkts + 1
          /\ u.src = f.src /\ u.dst = f.dst /\ u.proto = f.proto
      BY <1>1, <2>2, UpdatedType
    <3>2. ConversationOf(u) = ConversationOf(f)
      BY <3>1 DEF ConversationOf
    <3> HIDE DEF u, f
    <3> QED BY <2>2, <3>1, <3>2
  <2>4. ConversationOf(f) = c
    BY <1>1, <2>2, KeyFindsConversation DEF Inv
  <2>5. \A i \in Places : ~(ConversationOf(heap[i]) = c /\ heap[i].state # "closed")
    <3> SUFFICES ASSUME NEW i \in Places, ConversationOf(heap[i]) = c, heap[i].state # "closed"
                 PROVE  FALSE
      OBVIOUS
    <3>1. heap[i] \in Flow
      BY <1>2
    <3>2. KeyOf(heap[i]) = k
      BY <1>1, <3>1, KeyFindsConversation DEF Inv
    <3>3. PICK m \in DOMAIN flows : flows[m] = i
      BY DEF Inv, OpenIffInTable, InTable
    <3> QED BY <1>5, <3>2, <3>3 DEF Inv, TableKeyed
  <2> HIDE DEF f, u, c
  <2>6. Objects' = Append(Objects, [conv |-> c, opener |-> e.saddr, pkts |-> 1, status |-> "open"])
    <3>1. Places' = 1 .. Len(heap) + 1
      BY <1>2, <2>1 DEF Places
    <3>2. \A i \in 1 .. Len(heap) : heap'[i] = heap[i]
      BY <1>2, <2>1
    <3>3. heap'[Len(heap) + 1] = u
      BY <1>2, <2>1
    <3>4. Len(Objects) = Len(heap)
      BY <1>2, <1>3
    <3>5. obj(u) = [conv |-> c, opener |-> e.saddr, pkts |-> 1, status |-> "open"]
      BY <2>2, <2>3, <2>4
    <3> HIDE DEF obj
    <3> QED BY <1>2, <1>3, <3>1, <3>2, <3>3, <3>4, <3>5
  <2>7. \A i \in DOMAIN Objects : ~(Objects[i].conv = c /\ Objects[i].status = "open")
    BY <1>3, <2>5
  <2>8. Table!Open(c, e.saddr)
    BY <2>6, <2>7 DEF Table!Open, Table!OpenFlow
  <2>9. e.saddr \in c[1]
    BY DEF c
  <2> QED BY <1>1, <2>8, <2>9 DEF Table!Next
<1> QED BY <1>4, <1>5

\* closeIdleFlows is Expire of the flows it closes.
LEMMA CloseIdleFlowsRefines ==
  ASSUME Inv, CloseIdleFlows
  PROVE  Table!Next
<1> DEFINE idle == {k \in DOMAIN flows : Expired(heap[flows[k]])}
           swept(i) == \E k \in idle : flows[k] = i
           S == {i \in Places : swept(i)}
           obj(f) == [conv |-> ConversationOf(f), opener |-> f.src, pkts |-> f.pkts, status |-> IF f.state = "closed" THEN "expired" ELSE "open"]
           closed(f) == [f EXCEPT !.state = "closed"]
<1>1. heap' = [i \in Places |-> IF swept(i) THEN closed(heap[i]) ELSE heap[i]]
  BY DEF CloseIdleFlows, Places
<1> HIDE DEF swept, idle
<1>2. \A f \in Flow : obj(closed(f)) = [obj(f) EXCEPT !.status = "expired"]
  <2> SUFFICES ASSUME NEW f \in Flow
               PROVE  obj(closed(f)) = [obj(f) EXCEPT !.status = "expired"]
    OBVIOUS
  <2>1. /\ closed(f).src = f.src /\ closed(f).dst = f.dst /\ closed(f).proto = f.proto
        /\ closed(f).pkts = f.pkts /\ closed(f).state = "closed"
    BY DEF Flow
  <2>2. ConversationOf(closed(f)) = ConversationOf(f)
    BY <2>1 DEF ConversationOf
  <2> HIDE DEF closed
  <2> QED BY <2>1, <2>2
<1>3. \A i \in Places : heap[i] \in Flow
  BY DEF Inv, TypeOK, Places
<1>4. Objects = [i \in Places |-> obj(heap[i])] /\ Objects' = [i \in Places' |-> obj(heap'[i])]
  BY DEF Objects
<1>5. Places' = Places /\ DOMAIN Objects = Places
  BY <1>1, <1>4 DEF Places
<1>6. \A i \in Places : obj(heap'[i]) = IF i \in S THEN [Objects[i] EXCEPT !.status = "expired"]
                                         ELSE Objects[i]
  <2> SUFFICES ASSUME NEW i \in Places
               PROVE  obj(heap'[i]) = IF i \in S THEN [Objects[i] EXCEPT !.status = "expired"]
                                                 ELSE Objects[i]
    OBVIOUS
  <2>1. Objects[i] = obj(heap[i]) /\ (i \in S <=> swept(i))
    BY <1>4
  <2>2. heap'[i] = IF swept(i) THEN closed(heap[i]) ELSE heap[i]
    BY <1>1
  <2>3. obj(closed(heap[i])) = [obj(heap[i]) EXCEPT !.status = "expired"]
    BY <1>2, <1>3
  <2> HIDE DEF obj, closed, S
  <2> QED BY <2>1, <2>2, <2>3
<1> HIDE DEF S, obj
<1>7. Objects' = [i \in DOMAIN Objects |-> IF i \in S THEN [Objects[i] EXCEPT !.status = "expired"]
                                          ELSE Objects[i]]
  BY <1>4, <1>5, <1>6
<1>8. S \in SUBSET DOMAIN Objects
  BY <1>5 DEF S
<1> QED BY <1>7, <1>8 DEF Table!Next, Table!Expire

\* Every step is a step of the abstract flow table or leaves its flows alone.
LEMMA StepRefines == Inv /\ [Next]_vars => [Table!Next]_Objects
<1> SUFFICES ASSUME Inv, [Next]_vars PROVE Table!Next \/ UNCHANGED Objects
  OBVIOUS
<1>1. CASE ProcessEvent
  BY <1>1, ProcessEventRefines
<1>2. CASE CloseIdleFlows
  BY <1>2, CloseIdleFlowsRefines
<1>3. CASE UNCHANGED heap
  BY <1>3 DEF Objects, Places
<1> QED
  BY <1>1, <1>2, <1>3
     DEF Next, vars, table, Deliver, AggReceive, AggStop, TickerFires, TimeoutStop, Stop, TimePasses

\* To whoever holds its Flow pointers the aggregator is a FlowTable: each packet
\* is counted in the one open flow of its conversation, and flows only close.
THEOREM RefinesFlowTable == Spec => ImplementsFlowTable
<1>1. Init => Table!Init
  BY DEF Init, Table!Init, Objects, Places
<1> QED BY <1>1, StepRefines, Invariance, PTL DEF Spec, ImplementsFlowTable, Table!Spec
-----------------------------------------------------------------------------
\* What the counters of one flow say of its packets.
RecordBelongs(f, r) == /\ {r.src, r.dst} = {f.src, f.dst}
                       /\ r.dir = "forward" <=> r.src = f.src /\ r.dst = f.dst
Retained(f) ==
  /\ Len(f.history) = IF f.pkts < PacketBufferSize THEN f.pkts ELSE PacketBufferSize
  /\ f.pkts <= PacketBufferSize => HistoryIsComplete(f)
  /\ \A n \in DOMAIN f.history : RecordBelongs(f, f.history[n])
Leads(counts, top, n) == Total(counts) = n /\ \A p \in Ports : counts[p] <= counts[top]
FlowAgrees(f) == /\ DirectionsAddUp(f) /\ Retained(f)
                 /\ Leads(f.srcPorts, f.topSrcPort, f.pkts)
                 /\ Leads(f.dstPorts, f.topDstPort, f.pkts)

\* Where a record of a full history moves when another is added.
Dropped(h) == IF Len(h) < PacketBufferSize THEN 0 ELSE 1

\* The history ends with the new record; the others keep their order.
LEMMA RememberKeeps ==
  ASSUME NEW h \in Seq(Record), NEW r \in Record, Len(h) <= PacketBufferSize
  PROVE  /\ Remember(h, r) \in Seq(Record)
         /\ Len(Remember(h, r)) = Len(h) + 1 - Dropped(h)
         /\ \A n \in 1 .. Len(Remember(h, r)) :
              IF n = Len(Remember(h, r)) THEN Remember(h, r)[n] = r
              ELSE n + Dropped(h) \in DOMAIN h /\ Remember(h, r)[n] = h[n + Dropped(h)]
<1> DEFINE a == Append(h, r)
<1>1. /\ a \in Seq(Record) /\ a # <<>> /\ Len(a) = Len(h) + 1 /\ Len(h) \in Nat
      /\ a[Len(h) + 1] = r /\ \A n \in 1 .. Len(h) : a[n] = h[n]
      /\ DOMAIN h = 1 .. Len(h)
  BY AppendProperties, LenProperties
<1> HIDE DEF a
<1>2. CASE Len(h) < PacketBufferSize
  <2>1. Remember(h, r) = a /\ Dropped(h) = 0
    BY <1>2 DEF Remember, Dropped, a
  <2> QED BY <1>1, <2>1
<1>3. CASE ~(Len(h) < PacketBufferSize)
  <2>1. Remember(h, r) = Tail(a) /\ Dropped(h) = 1
    BY <1>3 DEF Remember, Dropped, a
  <2>2. /\ Tail(a) \in Seq(Record) /\ Len(Tail(a)) = Len(h)
        /\ \A n \in 1 .. Len(h) : Tail(a)[n] = a[n + 1]
    BY <1>1, HeadTailProperties
  <2> QED BY <1>1, <2>1, <2>2
<1> QED BY <1>2, <1>3

\* How many records of a direction there are, and how long they are, are numbers.
LEMMA DirectedType ==
  ASSUME NEW h \in Seq(Record), NEW dir
  PROVE  /\ Directed(h, dir) \in SUBSET DOMAIN h /\ IsFiniteSet(Directed(h, dir))
         /\ Summable([i \in Directed(h, dir) |-> h[i].len])
         /\ Cardinality(Directed(h, dir)) \in Nat /\ Lengths(h, Directed(h, dir)) \in Nat
<1> DEFINE S == Directed(h, dir)
           lens == [i \in S |-> h[i].len]
<1>1. S \in SUBSET (1 .. Len(h)) /\ Len(h) \in Nat /\ DOMAIN h = 1 .. Len(h)
  BY LenProperties DEF Directed
<1>2. IsFiniteSet(S)
  <2>1. IsFiniteSet(1 .. Len(h))
    BY <1>1, FS_Interval
  <2> QED BY <1>1, <2>1, FS_Subset
<1>3. \A i \in S : h[i] \in Record
  BY <1>1, ElementOfSeq
<1>4. Summable(lens)
  BY <1>2, <1>3 DEF Summable, Record
<1>5. Total(lens) \in Nat
  <2> HIDE DEF lens
  <2> QED BY <1>4, TotalType
<1> QED BY <1>1, <1>2, <1>4, <1>5, FS_CardinalityType DEF Lengths

\* Another record counts in its own direction.
LEMMA DirectedGrows ==
  ASSUME NEW h \in Seq(Record), NEW r \in Record, NEW dir
  PROVE  LET g == Append(h, r)
         IN  /\ Cardinality(Directed(g, dir)) =
                  Cardinality(Directed(h, dir)) + (IF r.dir = dir THEN 1 ELSE 0)
             /\ Lengths(g, Directed(g, dir)) =
                  Lengths(h, Directed(h, dir)) + (IF r.dir = dir THEN r.len ELSE 0)
<1> DEFINE g == Append(h, r)
           n == Len(h) + 1
           S == Directed(h, dir)
           T == Directed(g, dir)
           lens == [i \in S |-> h[i].len]
           more == [i \in T |-> g[i].len]
<1>1. /\ Len(h) \in Nat /\ DOMAIN h = 1 .. Len(h) /\ DOMAIN g = 1 .. n
      /\ g[n] = r /\ \A i \in 1 .. Len(h) : g[i] = h[i]
  BY AppendProperties, LenProperties
<1>2. /\ S \in SUBSET DOMAIN h /\ IsFiniteSet(S) /\ Summable(lens)
      /\ Cardinality(S) \in Nat /\ Total(lens) \in Nat
  BY DirectedType DEF Lengths
<1>3. n \notin S /\ \A i \in S : g[i] = h[i]
  BY <1>1, <1>2
<1>4. r.len \in Nat
  BY DEF Record
<1>5. CASE r.dir = dir
  <2>1. T = S \cup {n}
    BY <1>1, <1>5 DEF Directed
  <2>2. Cardinality(T) = Cardinality(S) + 1
    BY <1>2, <1>3, <2>1, FS_AddElement
  <2>3. /\ n \notin DOMAIN lens /\ DOMAIN more = DOMAIN lens \cup {n}
        /\ more[n] = r.len /\ \A i \in DOMAIN lens : more[i] = lens[i]
    BY <1>1, <1>3, <2>1
  <2>4. Total(more) = Total(lens) + r.len
    <3> HIDE DEF more, lens
    <3> QED BY <1>2, <1>4, <2>3, TotalGrows
  <2> QED BY <1>5, <2>2, <2>4 DEF Lengths
<1>6. CASE r.dir # dir
  <2>1. T = S
    BY <1>1, <1>6 DEF Directed
  <2>2. more = lens
    BY <1>3, <2>1
  <2> QED BY <1>2, <1>6, <2>1, <2>2 DEF Lengths
<1> QED BY <1>5, <1>6

\* Counting a port adds one to the total, and the leader stays ahead.
LEMMA PortCounted ==
  ASSUME NEW counts \in Counter, NEW top \in Ports, NEW p \in Ports, NEW n, Leads(counts, top, n)
  PROVE  Leads(Bumped(counts, p), TopPort(Bumped(counts, p), top, p), n + 1)
<1> DEFINE more == Bumped(counts, p)
<1>1. /\ DOMAIN counts = Ports /\ DOMAIN more = Ports
      /\ \A q \in Ports : counts[q] \in Nat
      /\ more[p] = counts[p] + 1 /\ \A q \in Ports : q # p => more[q] = counts[q]
  BY DEF Bumped, Counter
<1> HIDE DEF more
<1>2. Summable(counts)
  BY <1>1, PortsAssumption DEF Summable
<1>3. Total(more) = Total(counts) + 1
  BY <1>1, <1>2, TotalChanges
<1>4. \A q \in Ports : more[q] <= more[TopPort(more, top, p)]
  BY <1>1 DEF Leads, TopPort
<1> QED BY <1>3, <1>4 DEF Leads, more

\* A flow that has counted nothing yet agrees with itself.
LEMMA NewFlowAgrees ==
  ASSUME NEW e \in PacketEvents, NEW now \in Nat
  PROVE  FlowAgrees(NewFlow(e, now))
<1> DEFINE f == NewFlow(e, now)
           zeros == [p \in Ports |-> 0]
<1>1. /\ f.pkts = 0 /\ f.bytes = 0 /\ f.fwdPkts = 0 /\ f.revPkts = 0 /\ f.fwdBytes = 0
      /\ f.revBytes = 0 /\ f.history = <<>>
      /\ f.srcPorts = zeros /\ f.dstPorts = zeros /\ f.topSrcPort = 0 /\ f.topDstPort = 0
  BY DEF NewFlow
<1> HIDE DEF f
<1>2. Leads(zeros, 0, 0)
  <2>1. IsFiniteSet(DOMAIN zeros) /\ \A p \in DOMAIN zeros : zeros[p] = 0
    BY PortsAssumption
  <2>2. \A p \in Ports : zeros[p] <= zeros[0]
    BY PortsAssumption
  <2> HIDE DEF zeros
  <2>3. Total(zeros) = 0
    BY <2>1, TotalZero
  <2> QED BY <2>2, <2>3 DEF Leads
<1>3. HistoryIsComplete(f)
  <2> DEFINE none == [i \in {} |-> f.history[i].len]
  <2>1. \A dir : Directed(f.history, dir) = {}
    BY <1>1 DEF Directed
  <2>2. Total(none) = 0
    <3>1. IsFiniteSet(DOMAIN none) /\ \A p \in DOMAIN none : none[p] = 0
      BY FS_EmptySet
    <3> HIDE DEF none
    <3> QED BY <3>1, TotalZero
  <2>3. Lengths(f.history, {}) = 0
    BY <2>2 DEF Lengths
  <2> QED BY <1>1, <2>1, <2>3, FS_EmptySet DEF HistoryIsComplete
<1>4. Retained(f)
  <2>1. Len(f.history) = 0 /\ DOMAIN f.history = {}
    BY <1>1
  <2> QED BY <1>1, <1>3, <2>1, BoundsAssumption DEF Retained
<1> QED BY <1>1, <1>2, <1>4 DEF FlowAgrees, DirectionsAddUp, f

\* The record of an event goes the way of the flow or the other way.
LEMMA RecordOfBelongs ==
  ASSUME NEW e \in PacketEvents, NEW now \in Nat, NEW f \in Flow,
         ConversationOf(f) = <<{e.saddr, e.daddr}, ProtocolName(e.proto)>>
  PROVE  LET r == RecordOf(f, e, now)
         IN  /\ r \in Record /\ RecordBelongs(f, r) /\ r.len = e.len /\ r.at = now
             /\ r.dir = IF IsForward(f, e) THEN "forward" ELSE "reverse"
<1> DEFINE r == RecordOf(f, e, now)
<1>1. r \in Record /\ r.src = e.saddr /\ r.dst = e.daddr /\ r.len = e.len /\ r.at = now
  BY EventType DEF RecordOf, Record
<1>2. r.dir = IF IsForward(f, e) THEN "forward" ELSE "reverse"
  BY DEF RecordOf
<1>3. {e.saddr, e.daddr} = {f.src, f.dst}
  BY DEF ConversationOf
<1> HIDE DEF r
<1>4. RecordBelongs(f, r)
  BY <1>1, <1>2, <1>3 DEF RecordBelongs, IsForward
<1> QED BY <1>1, <1>2, <1>4 DEF r

\* What is counted in one of two parts is counted in the whole.
LEMMA OnePartGrows ==
  ASSUME NEW a \in Nat, NEW b \in Nat, NEW c \in Nat, NEW n \in Nat, a = b + c
  PROVE  a + n = (b + n) + c /\ a + n = b + (c + n)
OBVIOUS

\* The history after another packet still is what the counters count.
LEMMA UpdatedRetains ==
  ASSUME NEW e \in PacketEvents, NEW now \in Nat, NEW f \in Flow, DirectionsAddUp(f), Retained(f),
         ConversationOf(f) = <<{e.saddr, e.daddr}, ProtocolName(e.proto)>>
  PROVE  DirectionsAddUp(Updated(f, e, now)) /\ Retained(Updated(f, e, now))
<1> DEFINE u == Updated(f, e, now)
           r == RecordOf(f, e, now)
           h == f.history
           g == u.history
           forward == IsForward(f, e)
<1>1. /\ r \in Record /\ RecordBelongs(f, r) /\ r.len = e.len
      /\ r.dir = IF forward THEN "forward" ELSE "reverse"
  BY RecordOfBelongs
<1>2. /\ u.pkts = f.pkts + 1 /\ u.bytes = f.bytes + e.len /\ g = Remember(h, r)
      /\ u.fwdPkts = IF forward THEN f.fwdPkts + 1 ELSE f.fwdPkts
      /\ u.fwdBytes = IF forward THEN f.fwdBytes + e.len ELSE f.fwdBytes
      /\ u.revPkts = IF forward THEN f.revPkts ELSE f.revPkts + 1
      /\ u.revBytes = IF forward THEN f.revBytes ELSE f.revBytes + e.len
      /\ u.src = f.src /\ u.dst = f.dst
  BY DEF Updated
<1>3. /\ h \in Seq(Record) /\ Len(h) \in Nat /\ f.pkts \in Nat /\ f.bytes \in Nat /\ e.len \in Nat
      /\ f.fwdPkts \in Nat /\ f.revPkts \in Nat /\ f.fwdBytes \in Nat /\ f.revBytes \in Nat
  BY EventType, LenProperties DEF Flow
<1>4. /\ Len(h) = IF f.pkts < PacketBufferSize THEN f.pkts ELSE PacketBufferSize
      /\ f.pkts <= PacketBufferSize => HistoryIsComplete(f)
      /\ \A n \in DOMAIN h : RecordBelongs(f, h[n])
  BY DEF Retained
<1> HIDE DEF u, r, h, g, forward
<1>5. DirectionsAddUp(u)
  <2>1. f.pkts = f.fwdPkts + f.revPkts /\ f.bytes = f.fwdBytes + f.revBytes
    BY DEF DirectionsAddUp
  <2>2. /\ f.pkts + 1 = (f.fwdPkts + 1) + f.revPkts /\ f.pkts + 1 = f.fwdPkts + (f.revPkts + 1)
        /\ f.bytes + e.len = (f.fwdBytes + e.len) + f.revBytes
        /\ f.bytes + e.len = f.fwdBytes + (f.revBytes + e.len)
    <3>1. f.pkts + 1 = (f.fwdPkts + 1) + f.revPkts /\ f.pkts + 1 = f.fwdPkts + (f.revPkts + 1)
      <4>1. /\ f.pkts \in Nat /\ f.fwdPkts \in Nat /\ f.revPkts \in Nat /\ 1 \in Nat
            /\ f.pkts = f.fwdPkts + f.revPkts
        BY <1>3, <2>1
      <4> QED BY ONLY <4>1, OnePartGrows
    <3>2. /\ f.bytes + e.len = (f.fwdBytes + e.len) + f.revBytes
          /\ f.bytes + e.len = f.fwdBytes + (f.revBytes + e.len)
      <4>1. /\ f.bytes \in Nat /\ f.fwdBytes \in Nat /\ f.revBytes \in Nat /\ e.len \in Nat
            /\ f.bytes = f.fwdBytes + f.revBytes
        BY <1>3, <2>1
      <4> QED BY ONLY <4>1, OnePartGrows
    <3> QED BY <3>1, <3>2
  <2>3. u.pkts = f.pkts + 1 /\ u.bytes = f.bytes + e.len
    BY <1>2
  <2>4. CASE forward
    <3>1. /\ u.fwdPkts = f.fwdPkts + 1 /\ u.revPkts = f.revPkts
          /\ u.fwdBytes = f.fwdBytes + e.len /\ u.revBytes = f.revBytes
      BY <1>2, <2>4
    <3> QED BY <2>2, <2>3, <3>1, Zenon DEF DirectionsAddUp
  <2>5. CASE ~forward
    <3>1. /\ u.fwdPkts = f.fwdPkts /\ u.revPkts = f.revPkts + 1
          /\ u.fwdBytes = f.fwdBytes /\ u.revBytes = f.revBytes + e.len
      BY <1>2, <2>5
    <3> QED BY <2>2, <2>3, <3>1, Zenon DEF DirectionsAddUp
  <2> QED BY <2>4, <2>5
<1>6. Len(h) <= PacketBufferSize /\ PacketBufferSize \in Nat \ {0}
  BY <1>3, <1>4, BoundsAssumption
<1>7. /\ g \in Seq(Record) /\ Len(g) = Len(h) + 1 - Dropped(h)
      /\ \A n \in 1 .. Len(g) :
           IF n = Len(g) THEN g[n] = r
           ELSE n + Dropped(h) \in DOMAIN h /\ g[n] = h[n + Dropped(h)]
  BY <1>1, <1>2, <1>3, <1>6, RememberKeeps
<1>8. Len(g) = IF u.pkts < PacketBufferSize THEN u.pkts ELSE PacketBufferSize
  BY <1>2, <1>3, <1>4, <1>6, <1>7 DEF Dropped
<1>9. \A n \in DOMAIN g : RecordBelongs(u, g[n])
  <2>1. \A n \in DOMAIN g : RecordBelongs(f, g[n])
    BY <1>1, <1>4, <1>7, LenProperties
  <2> QED BY <1>2, <2>1 DEF RecordBelongs
<1>10. ASSUME u.pkts <= PacketBufferSize PROVE HistoryIsComplete(u)
  <2>1. f.pkts <= PacketBufferSize /\ Len(h) < PacketBufferSize
    BY <1>2, <1>3, <1>4, <1>6, <1>10
  <2>2. g = Append(h, r)
    BY <1>2, <2>1 DEF Remember
  <2>3. HistoryIsComplete(f)
    BY <1>4, <2>1
  <2>4. \A dir : /\ Cardinality(Directed(g, dir)) =
                      Cardinality(Directed(h, dir)) + (IF r.dir = dir THEN 1 ELSE 0)
                 /\ Lengths(g, Directed(g, dir)) =
                      Lengths(h, Directed(h, dir)) + (IF r.dir = dir THEN r.len ELSE 0)
    BY <1>1, <1>3, <2>2, DirectedGrows
  <2> DEFINE C(q, dir) == Cardinality(Directed(q, dir))
             L(q, dir) == Lengths(q, Directed(q, dir))
  <2>5. /\ f.fwdPkts = C(h, "forward") /\ f.revPkts = C(h, "reverse")
        /\ f.fwdBytes = L(h, "forward") /\ f.revBytes = L(h, "reverse")
    BY <2>3 DEF HistoryIsComplete, h
  <2>6. /\ C(g, "forward") = C(h, "forward") + (IF forward THEN 1 ELSE 0)
        /\ C(g, "reverse") = C(h, "reverse") + (IF forward THEN 0 ELSE 1)
        /\ L(g, "forward") = L(h, "forward") + (IF forward THEN e.len ELSE 0)
        /\ L(g, "reverse") = L(h, "reverse") + (IF forward THEN 0 ELSE e.len)
    BY <1>1, <2>4
  <2> HIDE DEF C, L
  <2>7. /\ u.fwdPkts = C(g, "forward") /\ u.revPkts = C(g, "reverse")
        /\ u.fwdBytes = L(g, "forward") /\ u.revBytes = L(g, "reverse")
    BY <1>2, <1>3, <2>5, <2>6
  <2> QED BY <2>7 DEF HistoryIsComplete, C, L, g
<1> QED BY <1>5, <1>8, <1>9, <1>10 DEF Retained, u, g

\* Another packet of its conversation leaves a flow in agreement.
LEMMA UpdatedAgrees ==
  ASSUME NEW e \in PacketEvents, NEW now \in Nat, NEW f \in Flow, FlowAgrees(f),
         ConversationOf(f) = <<{e.saddr, e.daddr}, ProtocolName(e.proto)>>
  PROVE  FlowAgrees(Updated(f, e, now))
<1> DEFINE u == Updated(f, e, now)
<1>1. DirectionsAddUp(u) /\ Retained(u)
  BY UpdatedRetains DEF FlowAgrees
<1>2. /\ f.srcPorts \in Counter /\ f.dstPorts \in Counter /\ f.topSrcPort \in Ports
      /\ f.topDstPort \in Ports
  BY DEF Flow
<1>3. /\ u.pkts = f.pkts + 1
      /\ u.srcPorts = Bumped(f.srcPorts, e.sport) /\ u.dstPorts = Bumped(f.dstPorts, e.dport)
      /\ u.topSrcPort = TopPort(u.srcPorts, f.topSrcPort, e.sport)
      /\ u.topDstPort = TopPort(u.dstPorts, f.topDstPort, e.dport)
  BY DEF Updated
<1>4. /\ Leads(u.srcPorts, u.topSrcPort, u.pkts)
      /\ Leads(u.dstPorts, u.topDstPort, u.pkts)
  BY <1>2, <1>3, EventType, PortCounted DEF FlowAgrees
<1> QED BY <1>1, <1>4 DEF FlowAgrees

\* processEvent writes one flow: it updates the flow of the conversation, which
\* is in the table or which it has just allocated.
LEMMA ProcessEventWrites ==
  ASSUME Inv, ProcessEvent
  PROVE  /\ job.evt \in PacketEvents /\ job.now \in Nat
         /\ globalStats' = Counted(job.evt, job.now)
         /\ \E n \in Places', f \in Flow :
              /\ ConversationOf(f) = <<{job.evt.saddr, job.evt.daddr}, ProtocolName(job.evt.proto)>>
              /\ heap'[n] = Updated(f, job.evt, job.now)
              /\ \A i \in Places' : i # n => i \in Places /\ heap'[i] = heap[i]
              /\ \/ n \in Places /\ f = heap[n] /\ Places' = Places
                 \/ n \notin Places /\ f = NewFlow(job.evt, job.now) /\ Places' = Places \cup {n}
<1> DEFINE e == job.evt
           now == job.now
           k == getFlowKey(e)
<1>1. e \in PacketEvents /\ now \in Nat /\ globalStats' = Counted(e, now)
  BY DEF Inv, TypeOK, ProcessEvent
<1>2. /\ heap \in Seq(Flow) /\ flows \in [DOMAIN flows -> Places]
      /\ Places = 1 .. Len(heap) /\ Len(heap) \in Nat
  BY DEF Inv, TypeOK, Places
<1>3. CASE k \in DOMAIN flows
  <2> DEFINE n == flows[k]
             f == heap[n]
             u == Updated(f, e, now)
  <2>1. heap' = [heap EXCEPT ![n] = u]
    BY <1>3 DEF ProcessEvent
  <2>2. n \in Places /\ f \in Flow /\ KeyOf(f) = k
    BY <1>2, <1>3 DEF Inv, TableKeyed
  <2>3. ConversationOf(f) = <<{e.saddr, e.daddr}, ProtocolName(e.proto)>>
    BY <1>1, <2>2, KeyFindsConversation DEF Inv
  <2> HIDE DEF u, n
  <2>4. Places' = Places /\ heap'[n] = u /\ \A i \in Places : i # n => heap'[i] = heap[i]
    BY <1>2, <2>1, <2>2 DEF Places
  <2> QED BY <1>1, <2>2, <2>3, <2>4 DEF u
<1>4. CASE k \notin DOMAIN flows
  <2> DEFINE n == Len(heap) + 1
             f == NewFlow(e, now)
             u == Updated(f, e, now)
  <2>1. heap' = Append(heap, u)
    BY <1>4 DEF ProcessEvent
  <2>2. f \in Flow /\ KeyOf(f) = k
    BY <1>1, NewFlowType
  <2>3. ConversationOf(f) = <<{e.saddr, e.daddr}, ProtocolName(e.proto)>>
    BY <1>1, <2>2, KeyFindsConversation DEF Inv
  <2> HIDE DEF u, f
  <2>4. /\ Places' = 1 .. n /\ heap'[n] = u
        /\ \A i \in 1 .. Len(heap) : heap'[i] = heap[i]
    BY <1>2, <2>1 DEF Places
  <2>5. Places' = Places \cup {n} /\ n \notin Places
    BY <1>2, <2>4
  <2>6. \A i \in Places' : i # n => i \in Places /\ heap'[i] = heap[i]
    BY <1>2, <2>4, <2>5
  <2> HIDE DEF n
  <2> QED BY <1>1, <2>2, <2>3, <2>4, <2>5, <2>6 DEF u, f
<1> QED BY <1>1, <1>3, <1>4

\* The sweep writes only the state of flows, and only of idle ones.
LEMMA CloseIdleFlowsWrites ==
  ASSUME CloseIdleFlows
  PROVE  /\ Places' = Places /\ UNCHANGED <<globalStats, job, clock>>
         /\ \A i \in Places : \/ heap'[i] = heap[i]
                              \/ /\ heap'[i] = [heap[i] EXCEPT !.state = "closed"]
                                 /\ Expired(heap[i])
BY DEF CloseIdleFlows, Places

\* No other step writes flows.
LEMMA OthersWriteNothing ==
  ASSUME [Next]_vars, ~ProcessEvent, ~CloseIdleFlows
  PROVE  UNCHANGED <<heap, globalStats>>
BY DEF Next, vars, table, Deliver, AggReceive, AggStop, TickerFires, TimeoutStop, Stop, TimePasses

\* Every flow agrees with itself, and all of them with the statistics.
SumsMatch == /\ globalStats.totalPackets = Total([i \in Places |-> heap[i].pkts])
             /\ globalStats.totalBytes = Total([i \in Places |-> heap[i].bytes])
CountInv == (\A i \in Places : FlowAgrees(heap[i])) /\ SumsMatch

\* There are finitely many flows, and their counters are numbers.
LEMMA FlowsSummable ==
  ASSUME TypeOK
  PROVE  /\ Summable([i \in Places |-> heap[i].pkts]) /\ Summable([i \in Places |-> heap[i].bytes])
<1>1. IsFiniteSet(Places)
  <2>1. Places = 1 .. Len(heap) /\ Len(heap) \in Nat
    BY DEF TypeOK, Places
  <2> QED BY <2>1, FS_Interval
<1>2. \A i \in Places : heap[i].pkts \in Nat /\ heap[i].bytes \in Nat
  <2>1. \A i \in Places : heap[i] \in Flow
    BY DEF TypeOK, Places
  <2> QED BY <2>1 DEF Flow
<1> QED BY <1>1, <1>2 DEF Summable

\* A packet is counted in its flow and in the statistics alike.
LEMMA ProcessEventCounts ==
  ASSUME Inv, CountInv, ProcessEvent
  PROVE  CountInv'
<1> DEFINE e == job.evt
           now == job.now
<1>1. /\ e \in PacketEvents /\ now \in Nat /\ globalStats' = Counted(e, now)
      /\ e.len \in Nat
  BY ProcessEventWrites, EventType
<1> DEFINE Case(n, f) ==
             /\ ConversationOf(f) = <<{e.saddr, e.daddr}, ProtocolName(e.proto)>>
             /\ heap'[n] = Updated(f, e, now)
             /\ \A i \in Places' : i # n => i \in Places /\ heap'[i] = heap[i]
             /\ \/ n \in Places /\ f = heap[n] /\ Places' = Places
                \/ n \notin Places /\ f = NewFlow(e, now) /\ Places' = Places \cup {n}
<1>2. PICK n \in Places' : \E f \in Flow : Case(n, f)
  BY ProcessEventWrites
<1>3. PICK f \in Flow : Case(n, f)
  BY <1>2
<1> DEFINE u == Updated(f, e, now)
<1> HIDE DEF e, now
<1>4. FlowAgrees(f)
  BY <1>1, <1>3, NewFlowAgrees DEF CountInv
<1>5. FlowAgrees(u)
  BY <1>1, <1>3, <1>4, UpdatedAgrees
<1>6. u.pkts = f.pkts + 1 /\ u.bytes = f.bytes + e.len
  BY DEF Updated
<1>7. f.pkts \in Nat /\ f.bytes \in Nat
  BY DEF Flow
<1> HIDE DEF u
<1>8. heap'[n] = u
  BY <1>3 DEF u
<1>9. (\A i \in Places : FlowAgrees(heap[i]))'
  BY <1>3, <1>5, <1>8 DEF CountInv
<1> DEFINE pkts == [i \in Places |-> heap[i].pkts]
           bytes == [i \in Places |-> heap[i].bytes]
           morePkts == [i \in Places' |-> heap'[i].pkts]
           moreBytes == [i \in Places' |-> heap'[i].bytes]
<1>10. Summable(pkts) /\ Summable(bytes)
  BY FlowsSummable DEF Inv
<1>11. Total(morePkts) = Total(pkts) + 1 /\ Total(moreBytes) = Total(bytes) + e.len
  <2>1. \A i \in Places' : i # n => i \in Places /\ heap'[i] = heap[i]
    BY <1>3
  <2>2. CASE n \in Places /\ f = heap[n] /\ Places' = Places
    <3>1. /\ DOMAIN morePkts = DOMAIN pkts /\ n \in DOMAIN pkts /\ morePkts[n] = pkts[n] + 1
          /\ \A i \in DOMAIN pkts : i # n => morePkts[i] = pkts[i]
      BY <1>6, <1>8, <2>1, <2>2
    <3>2. /\ DOMAIN moreBytes = DOMAIN bytes /\ n \in DOMAIN bytes /\ moreBytes[n] = bytes[n] + e.len
          /\ \A i \in DOMAIN bytes : i # n => moreBytes[i] = bytes[i]
      BY <1>6, <1>8, <2>1, <2>2
    <3> HIDE DEF pkts, bytes, morePkts, moreBytes
    <3> QED BY <1>1, <1>10, <3>1, <3>2, TotalChanges
  <2>3. CASE n \notin Places /\ f = NewFlow(e, now) /\ Places' = Places \cup {n}
    <3>0. u.pkts = 1 /\ u.bytes = e.len
      BY <1>1, <1>6, <2>3 DEF NewFlow
    <3>1. /\ n \notin DOMAIN pkts /\ DOMAIN morePkts = DOMAIN pkts \cup {n} /\ morePkts[n] = 1
          /\ \A i \in DOMAIN pkts : morePkts[i] = pkts[i]
      BY <1>8, <2>1, <2>3, <3>0
    <3>2. /\ n \notin DOMAIN bytes /\ DOMAIN moreBytes = DOMAIN bytes \cup {n}
          /\ moreBytes[n] = e.len /\ \A i \in DOMAIN bytes : moreBytes[i] = bytes[i]
      BY <1>8, <2>1, <2>3, <3>0
    <3> HIDE DEF pkts, bytes, morePkts, moreBytes
    <3>3. Total(morePkts) = Total(pkts) + morePkts[n]
      BY <1>10, <3>1, TotalGrows
    <3>4. Total(moreBytes) = Total(bytes) + moreBytes[n]
      BY <1>1, <1>10, <3>2, TotalGrows
    <3> QED BY <3>1, <3>2, <3>3, <3>4
  <2> QED BY <1>3, <2>2, <2>3
<1>12. /\ globalStats'.totalPackets = globalStats.totalPackets + 1
       /\ globalStats'.totalBytes = globalStats.totalBytes + e.len
  BY <1>1 DEF Counted, Inv, TypeOK
<1>13. globalStats.totalPackets = Total(pkts) /\ globalStats.totalBytes = Total(bytes)
  BY DEF CountInv, SumsMatch
<1>14. SumsMatch'
  <2> HIDE DEF pkts, bytes
  <2>1. globalStats'.totalPackets = Total(morePkts) /\ globalStats'.totalBytes = Total(moreBytes)
    BY <1>11, <1>12, <1>13
  <2> QED BY <2>1 DEF SumsMatch
<1> QED BY <1>9, <1>14 DEF CountInv

\* Closing a flow leaves what it counted.
LEMMA CloseIdleFlowsCounts ==
  ASSUME Inv, CountInv, CloseIdleFlows
  PROVE  CountInv'
<1>1. \A i \in Places : heap[i] \in Flow
  BY DEF Inv, TypeOK, Places
<1> DEFINE closed(f) == [f EXCEPT !.state = "closed"]
<1>2. ASSUME NEW f \in Flow PROVE /\ closed(f).pkts = f.pkts /\ closed(f).bytes = f.bytes
                                  /\ FlowAgrees(f) => FlowAgrees(closed(f))
  <2>1. /\ closed(f).pkts = f.pkts /\ closed(f).bytes = f.bytes /\ closed(f).history = f.history
        /\ closed(f).fwdPkts = f.fwdPkts /\ closed(f).revPkts = f.revPkts
        /\ closed(f).fwdBytes = f.fwdBytes /\ closed(f).revBytes = f.revBytes
        /\ closed(f).src = f.src /\ closed(f).dst = f.dst
        /\ closed(f).srcPorts = f.srcPorts /\ closed(f).dstPorts = f.dstPorts
        /\ closed(f).topSrcPort = f.topSrcPort /\ closed(f).topDstPort = f.topDstPort
    BY DEF Flow
  <2> HIDE DEF closed
  <2>2. DirectionsAddUp(f) => DirectionsAddUp(closed(f))
    BY <2>1 DEF DirectionsAddUp
  <2>3. HistoryIsComplete(f) => HistoryIsComplete(closed(f))
    BY <2>1 DEF HistoryIsComplete
  <2>4. \A r : RecordBelongs(f, r) => RecordBelongs(closed(f), r)
    BY <2>1 DEF RecordBelongs
  <2>5. Retained(f) => Retained(closed(f))
    BY <2>1, <2>3, <2>4 DEF Retained
  <2> QED BY <2>1, <2>2, <2>5 DEF FlowAgrees
<1> HIDE DEF closed
<1>3. /\ Places' = Places /\ UNCHANGED globalStats
      /\ \A i \in Places : heap'[i] = heap[i] \/ heap'[i] = closed(heap[i])
  BY CloseIdleFlowsWrites DEF closed
<1>4. \A i \in Places : /\ FlowAgrees(heap'[i])
                        /\ heap'[i].pkts = heap[i].pkts /\ heap'[i].bytes = heap[i].bytes
  BY <1>1, <1>2, <1>3 DEF CountInv
<1>5. /\ [i \in Places |-> heap[i].pkts] = [i \in Places' |-> heap'[i].pkts]
      /\ [i \in Places |-> heap[i].bytes] = [i \in Places' |-> heap'[i].bytes]
  BY <1>3, <1>4
<1>6. SumsMatch'
  <2>1. /\ globalStats'.totalPackets = Total([i \in Places' |-> heap'[i].pkts])
        /\ globalStats'.totalBytes = Total([i \in Places' |-> heap'[i].bytes])
    BY <1>3, <1>5 DEF CountInv, SumsMatch
  <2> QED BY <2>1 DEF SumsMatch
<1> QED BY <1>3, <1>4, <1>6 DEF CountInv

\* The counters agree in every step.
LEMMA StepCounts == Inv /\ CountInv /\ [Next]_vars => CountInv'
<1> SUFFICES ASSUME Inv, CountInv, [Next]_vars PROVE CountInv'
  OBVIOUS
<1>1. CASE ProcessEvent
  BY <1>1, ProcessEventCounts
<1>2. CASE CloseIdleFlows
  BY <1>2, CloseIdleFlowsCounts
<1>3. CASE ~ProcessEvent /\ ~CloseIdleFlows
  <2>1. UNCHANGED <<heap, globalStats>>
    BY <1>3, OthersWriteNothing
  <2> QED BY <2>1 DEF CountInv, SumsMatch, Places
<1> QED BY <1>1, <1>2, <1>3

\* The counters agree before the first packet.
LEMMA InitCounts == Init => CountInv
<1> SUFFICES ASSUME Init PROVE CountInv
  OBVIOUS
<1>1. Places = {} /\ globalStats.totalPackets = 0 /\ globalStats.totalBytes = 0
  BY DEF Init, Places
<1> DEFINE pkts == [i \in Places |-> heap[i].pkts]
           bytes == [i \in Places |-> heap[i].bytes]
<1>2. Total(pkts) = 0 /\ Total(bytes) = 0
  <2>1. IsFiniteSet(DOMAIN pkts) /\ IsFiniteSet(DOMAIN bytes) /\ DOMAIN pkts = {} /\ DOMAIN bytes = {}
    BY <1>1, FS_EmptySet
  <2> HIDE DEF pkts, bytes
  <2> QED BY <2>1, TotalZero
<1> QED BY <1>1, <1>2 DEF CountInv, SumsMatch

\* Whatever packets come and however the sweeps fall between them, the global
\* totals are the sums over the flows, and in each flow the directions, the
\* history and the ports account for the packets it counts.
THEOREM CountersAlwaysAgree == Spec => []CountersAgree
<1>1. Inv /\ CountInv => CountersAgree
  <2> SUFFICES ASSUME CountInv PROVE CountersAgree
    OBVIOUS
  <2>1. TotalsAddUp /\ \A i \in Places : FlowAgrees(heap[i])
    BY DEF CountInv, SumsMatch, TotalsAddUp, TotalOf
  <2>2. CountersMatchHistory
    BY <2>1 DEF CountersMatchHistory, FlowAgrees, Retained
  <2>3. HistoryBelongs
    BY <2>1 DEF HistoryBelongs, FlowAgrees, Retained, RecordBelongs
  <2>4. TopPortsLead
    BY <2>1 DEF TopPortsLead, FlowAgrees, Leads
  <2> QED BY <2>1, <2>2, <2>3, <2>4 DEF CountersAgree
<1> QED BY <1>1, InitCounts, StepCounts, Invariance, PTL DEF Spec
-----------------------------------------------------------------------------
\* The records of a flow are in the order of their times, none is older than the
\* flow, and the newest one is its last activity.
Ordered(f) == \A a, b \in DOMAIN f.history :
                a <= b => f.history[a].at <= f.history[b].at /\ f.first <= f.history[a].at
Timely(f) == /\ f.first <= f.last /\ Len(f.history) >= 1
             /\ f.history[Len(f.history)].at = f.last
             /\ Ordered(f)

\* No flow is ahead of the statistics, nor these of the event in processEvent's
\* hands, whose time was taken before the lock, nor that of the clock.
TimeInv == /\ globalStats.lastUpdated <= clock
           /\ job # NoJob => globalStats.lastUpdated <= job.now /\ job.now <= clock
           /\ \A i \in Places : Timely(heap[i]) /\ heap[i].last <= globalStats.lastUpdated

\* The types of the times of a flow.
LEMMA TimesType ==
  ASSUME NEW f \in Flow
  PROVE  /\ f.first \in Nat /\ f.last \in Nat /\ f.history \in Seq(Record)
         /\ Len(f.history) \in Nat /\ DOMAIN f.history = 1 .. Len(f.history)
         /\ \A n \in DOMAIN f.history : f.history[n].at \in Nat
<1>1. f.first \in Nat /\ f.last \in Nat /\ f.history \in Seq(Record)
  BY DEF Flow
<1>2. Len(f.history) \in Nat /\ DOMAIN f.history = 1 .. Len(f.history)
  BY <1>1, LenProperties
<1>3. \A n \in DOMAIN f.history : f.history[n] \in Record
  BY <1>1, <1>2, ElementOfSeq
<1> QED BY <1>1, <1>2, <1>3 DEF Record

\* No record of a flow is younger than its last activity.
LEMMA LastIsNewest ==
  ASSUME NEW f \in Flow, Timely(f), NEW n \in DOMAIN f.history
  PROVE  f.history[n].at <= f.last
<1>1. Len(f.history) \in DOMAIN f.history /\ n <= Len(f.history)
  BY TimesType DEF Timely
<1> QED BY <1>1 DEF Timely, Ordered

\* A packet that is no older than what the flow remembers keeps the order.
LEMMA UpdatedTimely ==
  ASSUME NEW e \in PacketEvents, NEW now \in Nat, NEW f \in Flow,
         Len(f.history) <= PacketBufferSize, f.first <= now, Ordered(f),
         \A n \in DOMAIN f.history : f.history[n].at <= now
  PROVE  Timely(Updated(f, e, now)) /\ Updated(f, e, now).last = now
<1> DEFINE u == Updated(f, e, now)
           r == RecordOf(f, e, now)
           h == f.history
           g == u.history
<1>1. /\ h \in Seq(Record) /\ Len(h) \in Nat /\ DOMAIN h = 1 .. Len(h) /\ f.first \in Nat
      /\ \A n \in DOMAIN h : h[n].at \in Nat
  BY TimesType
<1>2. r \in Record /\ r.at = now
  BY EventType DEF RecordOf, Record
<1>3. u.last = now /\ u.first = f.first /\ g = Remember(h, r)
  BY DEF Updated
<1> HIDE DEF u, r, g
<1>4. /\ g \in Seq(Record) /\ Len(g) = Len(h) + 1 - Dropped(h)
      /\ \A n \in 1 .. Len(g) :
           IF n = Len(g) THEN g[n] = r
           ELSE n + Dropped(h) \in DOMAIN h /\ g[n] = h[n + Dropped(h)]
  <2>1. h \in Seq(Record) /\ Len(h) <= PacketBufferSize
    BY <1>1
  <2> HIDE DEF h
  <2> QED BY <1>2, <1>3, <2>1, RememberKeeps
<1>5. Dropped(h) \in {0, 1} /\ Len(g) \in Nat /\ Len(g) >= 1 /\ DOMAIN g = 1 .. Len(g)
  <2>1. Dropped(h) = 0 \/ (Dropped(h) = 1 /\ Len(h) >= 1)
    BY <1>1, BoundsAssumption DEF Dropped
  <2>2. Len(g) \in Nat /\ DOMAIN g = 1 .. Len(g)
    BY <1>4, LenProperties
  <2>3. Len(g) = Len(h) + 1 - Dropped(h)
    BY <1>4
  <2> QED BY <1>1, <2>1, <2>2, <2>3
<1>6. g[Len(g)].at = now
  BY <1>2, <1>4, <1>5
<1>7. ASSUME NEW a \in DOMAIN g, NEW b \in DOMAIN g, a <= b
      PROVE  g[a].at <= g[b].at /\ f.first <= g[a].at
  <2>1. CASE a = Len(g)
    BY <1>5, <1>6, <1>7, <2>1
  <2>2. CASE a # Len(g) /\ b = Len(g)
    <3>1. a + Dropped(h) \in DOMAIN h /\ g[a] = h[a + Dropped(h)]
      BY <1>4, <1>5, <2>2
    <3> QED BY <1>6, <2>2, <3>1 DEF Ordered
  <2>3. CASE a # Len(g) /\ b # Len(g)
    <3>1. /\ a + Dropped(h) \in DOMAIN h /\ g[a] = h[a + Dropped(h)]
          /\ b + Dropped(h) \in DOMAIN h /\ g[b] = h[b + Dropped(h)]
      BY <1>4, <1>5, <2>3
    <3>2. a + Dropped(h) <= b + Dropped(h)
      BY <1>5, <1>7
    <3> QED BY <3>1, <3>2 DEF Ordered
  <2> QED BY <2>1, <2>2, <2>3
<1>8. Ordered(u)
  BY <1>3, <1>7 DEF Ordered, g
<1> QED BY <1>3, <1>5, <1>6, <1>8 DEF Timely, g, u

\* What processEvent does with an event keeps the times in order.
LEMMA ProcessEventTimely ==
  ASSUME Inv, CountInv, TimeInv, ProcessEvent
  PROVE  TimeInv'
<1> DEFINE e == job.evt
           now == job.now
           Case(n, f) ==
             /\ ConversationOf(f) = <<{e.saddr, e.daddr}, ProtocolName(e.proto)>>
             /\ heap'[n] = Updated(f, e, now)
             /\ \A i \in Places' : i # n => i \in Places /\ heap'[i] = heap[i]
             /\ \/ n \in Places /\ f = heap[n] /\ Places' = Places
                \/ n \notin Places /\ f = NewFlow(e, now) /\ Places' = Places \cup {n}
<1>1. e \in PacketEvents /\ now \in Nat /\ globalStats' = Counted(e, now)
  BY ProcessEventWrites
<1>2. PICK n \in Places' : \E f \in Flow : Case(n, f)
  BY ProcessEventWrites
<1>3. PICK f \in Flow : Case(n, f)
  BY <1>2
<1>4. /\ job # NoJob /\ job' = NoJob /\ clock' = clock
      /\ globalStats.lastUpdated <= now /\ now <= clock
  BY DEF ProcessEvent, TimeInv
<1>5. globalStats'.lastUpdated = now /\ globalStats.lastUpdated \in Nat
  BY <1>1 DEF Counted, Inv, TypeOK
<1>6. \A i \in Places : heap[i] \in Flow
  BY DEF Inv, TypeOK, Places
<1> HIDE DEF e, now
<1>7. Timely(Updated(f, e, now)) /\ Updated(f, e, now).last = now
  <2>1. /\ Len(f.history) <= PacketBufferSize /\ f.first <= now /\ Ordered(f)
        /\ \A m \in DOMAIN f.history : f.history[m].at <= now
    <3>1. CASE n \in Places /\ f = heap[n]
      <4>1. FlowAgrees(f) /\ Timely(f) /\ f.last <= globalStats.lastUpdated
        BY <3>1 DEF CountInv, TimeInv
      <4>2. Len(f.history) <= PacketBufferSize
        BY <4>1, BoundsAssumption DEF FlowAgrees, Retained, Flow
      <4>3. \A m \in DOMAIN f.history : f.history[m].at <= f.last
        BY <4>1, LastIsNewest
      <4> QED BY <1>1, <1>4, <1>5, <4>1, <4>2, <4>3, TimesType DEF Timely
    <3>2. CASE f = NewFlow(e, now)
      <4>1. f.first = now /\ f.history = <<>>
        BY <3>2 DEF NewFlow
      <4> QED BY <1>1, <4>1, BoundsAssumption DEF Ordered
    <3> QED BY <1>3, <3>1, <3>2
  <2> QED BY <1>1, <2>1, UpdatedTimely
<1>8. ASSUME NEW i \in Places'
      PROVE  Timely(heap'[i]) /\ heap'[i].last <= now
  <2>1. CASE i = n
    BY <1>1, <1>3, <1>7, <2>1
  <2>2. CASE i # n
    <3>1. i \in Places /\ heap'[i] = heap[i]
      BY <1>3, <2>2
    <3>2. Timely(heap[i]) /\ heap[i].last <= globalStats.lastUpdated /\ heap[i].last \in Nat
      BY <1>6, <3>1, TimesType DEF TimeInv
    <3> QED BY <1>1, <1>4, <1>5, <3>1, <3>2
  <2> QED BY <2>1, <2>2
<1> QED BY <1>4, <1>5, <1>8 DEF TimeInv

\* The times stay in order in every step.
LEMMA StepTimely == Inv /\ CountInv /\ TimeInv /\ [Next]_vars => TimeInv'
<1> SUFFICES ASSUME Inv, CountInv, TimeInv, [Next]_vars PROVE TimeInv'
  OBVIOUS
<1>1. globalStats.lastUpdated \in Nat /\ clock \in Nat
  BY DEF Inv, TypeOK
<1>2. \A i \in Places : heap[i] \in Flow
  BY DEF Inv, TypeOK, Places
<1>3. CASE ProcessEvent
  BY <1>3, ProcessEventTimely
<1>4. CASE CloseIdleFlows
  <2> DEFINE closed(f) == [f EXCEPT !.state = "closed"]
  <2>1. ASSUME NEW f \in Flow, Timely(f) PROVE Timely(closed(f)) /\ closed(f).last = f.last
    <3>1. /\ closed(f).first = f.first /\ closed(f).last = f.last
          /\ closed(f).history = f.history
      BY DEF Flow
    <3> HIDE DEF closed
    <3> QED BY <2>1, <3>1 DEF Timely, Ordered
  <2> HIDE DEF closed
  <2>2. /\ Places' = Places /\ UNCHANGED <<globalStats, job, clock>>
        /\ \A i \in Places : heap'[i] = heap[i] \/ heap'[i] = closed(heap[i])
    BY <1>4, CloseIdleFlowsWrites DEF closed
  <2> QED BY <1>2, <2>1, <2>2 DEF TimeInv
<1>5. CASE AggReceive
  <2>1. /\ job' = [evt |-> Head(eventChan), now |-> clock] /\ clock' = clock
        /\ globalStats' = globalStats /\ heap' = heap
    BY <1>5 DEF AggReceive, table
  <2> QED BY <1>1, <2>1 DEF TimeInv, Places
<1>6. CASE TimePasses
  <2>1. /\ clock' = clock + 1 /\ job' = job /\ globalStats' = globalStats /\ heap' = heap
    BY <1>6 DEF TimePasses, table, loops
  <2>2. job # NoJob => job.now \in Nat
    BY DEF Inv, TypeOK
  <2> QED BY <1>1, <2>1, <2>2 DEF TimeInv, Places
<1>7. CASE UNCHANGED <<table, job, clock>>
  BY <1>7 DEF TimeInv, Places, table
<1> QED
  BY <1>3, <1>4, <1>5, <1>6, <1>7
     DEF Next, vars, table, loops, input, Deliver, AggStop, TickerFires, TimeoutStop, Stop

\* The order of the times is an invariant, on top of the others.
LEMMA TimeInvariance == Spec => [](Inv /\ CountInv /\ TimeInv)
<1>1. Init => TimeInv
  BY DEF Init, TimeInv, Places
<1> QED BY <1>1, InitCounts, StepCounts, StepTimely, Invariance, PTL DEF Spec

\* However long processEvent waits for the lock after it has read the clock,
\* packets are remembered in the order of their times, the newest one is the
\* flow's last activity, and neither is ahead of the statistics or the clock.
THEOREM TimesAlwaysAgree == Spec => []TimesAgree
<1>1. Inv /\ TimeInv => TimesAgree
  BY DEF TimeInv, TimesAgree, Timely, Ordered
<1> QED BY <1>1, TimeInvariance, PTL

\* Only the sweep closes flows, and only after the newest packet they remember,
\* hence every packet, is older than the timeout.
LEMMA StepClosesIdle ==
  ASSUME Inv, TimeInv, [Next]_vars, NEW i \in Places,
         heap[i].state # "closed", heap'[i].state = "closed"
  PROVE  \A n \in DOMAIN heap[i].history : clock - heap[i].history[n].at > FlowTimeout
<1>1. heap[i] \in Flow /\ Timely(heap[i]) /\ clock \in Nat
  BY DEF Inv, TypeOK, Places, TimeInv
<1>2. Expired(heap[i])
  <2>1. CASE ProcessEvent
    <3> DEFINE e == job.evt
               now == job.now
               Case(n, f) ==
                 /\ heap'[n] = Updated(f, e, now)
                 /\ \A j \in Places' : j # n => j \in Places /\ heap'[j] = heap[j]
                 /\ \/ n \in Places /\ f = heap[n] /\ Places' = Places
                    \/ n \notin Places /\ f = NewFlow(e, now) /\ Places' = Places \cup {n}
    <3>1. e \in PacketEvents /\ now \in Nat
      BY <2>1, ProcessEventWrites
    <3>2. PICK n \in Places' : \E f \in Flow : Case(n, f)
      BY <2>1, ProcessEventWrites
    <3>3. PICK f \in Flow : Case(n, f)
      BY <3>2
    <3>4. i = n /\ f = heap[i]
      BY <3>3
    <3> HIDE DEF e, now
    <3>5. Updated(f, e, now).state # "closed"
      BY <3>1, <3>4, UpdatedType
    <3> QED BY <3>3, <3>4, <3>5
  <2>2. CASE CloseIdleFlows
    BY <2>2, CloseIdleFlowsWrites
  <2>3. CASE ~ProcessEvent /\ ~CloseIdleFlows
    BY <2>3, OthersWriteNothing
  <2> QED BY <2>1, <2>2, <2>3
<1>3. ASSUME NEW n \in DOMAIN heap[i].history
      PROVE  clock - heap[i].history[n].at > FlowTimeout
  <2>1. /\ heap[i].history[n].at <= heap[i].last
        /\ heap[i].history[n].at \in Nat /\ heap[i].last \in Nat
    BY <1>1, LastIsNewest, TimesType
  <2> QED BY <1>1, <1>2, <2>1, BoundsAssumption DEF Expired
<1> QED BY <1>3

\* A flow is closed only when its conversation was silent for longer than the
\* timeout, though timeoutLoop sweeps while packets are between the channel and
\* the lock.
THEOREM FlowsCloseOnlyWhenIdle == Spec => OnlyIdleFlowsClose
<1> DEFINE Closes == \A i \in Places :
                       (heap[i].state # "closed" /\ heap'[i].state = "closed") =>
                         \A n \in DOMAIN heap[i].history :
                           clock - heap[i].history[n].at > FlowTimeout
<1>1. Inv /\ TimeInv /\ [Next]_vars => [Closes]_vars
  BY StepClosesIdle
<1> QED BY <1>1, TimeInvariance, PTL DEF Spec, OnlyIdleFlowsClose
-----------------------------------------------------------------------------
\* F gives the concatenation of each prefix of ss.
Flattens(F, ss) == /\ F[1] = ss[1]
                   /\ \A i \in 1 .. Len(ss) : i # 1 => F[i] = F[i - 1] \o ss[i]

\* Flattening a sequence of sequences concatenates them one by one.
LEMMA FlattenIsDefined ==
  ASSUME NEW S, NEW ss \in Seq(Seq(S)), ss # <<>>
  PROVE  \E F \in [1 .. Len(ss) -> Seq(S)] : Flattens(F, ss) /\ FlattenSeq(ss) = F[Len(ss)]
<1> DEFINE N == Len(ss)
           Rule(F) == [i \in 1 .. N |-> IF i = 1 THEN ss[i] ELSE F[i - 1] \o ss[i]]
           C == CHOOSE F : F = Rule(F)
           Good(n) == \E F \in [1 .. n -> Seq(S)] :
                        \A i \in 1 .. n : F[i] = IF i = 1 THEN ss[i] ELSE F[i - 1] \o ss[i]
<1>1. N \in Nat \ {0} /\ DOMAIN ss = 1 .. N /\ \A i \in 1 .. N : ss[i] \in Seq(S)
  BY LenProperties, EmptySeq, ElementOfSeq
<1>2. Good(0)
  <2>1. 1 .. 0 = {}
    OBVIOUS
  <2>2. [i \in 1 .. 0 |-> <<>>] \in [1 .. 0 -> Seq(S)]
    BY <2>1
  <2> QED BY <2>1, <2>2
<1>3. ASSUME NEW n \in Nat, n < N, Good(n) PROVE Good(n + 1)
  <2>1. PICK F \in [1 .. n -> Seq(S)] :
               \A i \in 1 .. n : F[i] = IF i = 1 THEN ss[i] ELSE F[i - 1] \o ss[i]
    BY <1>3
  <2> DEFINE G == [i \in 1 .. n + 1 |-> IF i \in 1 .. n THEN F[i]
                                        ELSE IF i = 1 THEN ss[i] ELSE F[i - 1] \o ss[i]]
  <2>2. \A i \in 1 .. n + 1 : i \in 1 .. N /\ ss[i] \in Seq(S)
    BY <1>1, <1>3
  <2>3. \A i \in 1 .. n + 1 : G[i] = IF i = 1 THEN ss[i] ELSE G[i - 1] \o ss[i]
    <3> SUFFICES ASSUME NEW i \in 1 .. n + 1
                 PROVE  G[i] = IF i = 1 THEN ss[i] ELSE G[i - 1] \o ss[i]
      OBVIOUS
    <3>1. i # 1 => i - 1 \in 1 .. n /\ G[i - 1] = F[i - 1]
      OBVIOUS
    <3>2. CASE i \in 1 .. n
      <4>1. G[i] = F[i]
        BY <3>2
      <4> HIDE DEF G
      <4> QED BY <2>1, <3>1, <3>2, <4>1
    <3>3. CASE i \notin 1 .. n
      <4>1. G[i] = IF i = 1 THEN ss[i] ELSE F[i - 1] \o ss[i]
        BY <3>3
      <4> HIDE DEF G
      <4> QED BY <3>1, <4>1
    <3> QED BY <3>2, <3>3
  <2>4. \A i \in 1 .. n + 1 : G[i] \in Seq(S)
    <3> SUFFICES ASSUME NEW i \in 1 .. n + 1 PROVE G[i] \in Seq(S)
      OBVIOUS
    <3>1. CASE i \in 1 .. n
      BY <2>1, <3>1
    <3>2. CASE i = n + 1 /\ i = 1
      BY <2>2, <3>2
    <3>3. CASE i = n + 1 /\ i # 1
      <4>1. F[i - 1] \in Seq(S) /\ ss[i] \in Seq(S)
        BY <2>1, <2>2, <3>3
      <4>2. F[i - 1] \o ss[i] \in Seq(S)
        BY <4>1, ConcatProperties
      <4> QED BY <3>3, <4>2
    <3> QED BY <3>1, <3>2, <3>3
  <2> HIDE DEF G
  <2>5. G \in [1 .. n + 1 -> Seq(S)]
    BY <2>4 DEF G
  <2> QED BY <2>3, <2>5
<1>4. Good(N)
  <2> DEFINE Bad == {n \in Nat : n <= N /\ ~Good(n)}
  <2> HIDE DEF Good
  <2>1. CASE Bad = {}
    BY <1>1, <2>1
  <2>2. CASE Bad # {}
    <3>1. PICK n \in Bad : \A m \in Bad : n <= m
      BY <2>2, LeastNumber
    <3>2. n # 0 /\ n - 1 \in Nat /\ n - 1 < N
      BY <1>1, <1>2, <3>1
    <3>3. Good(n - 1)
      BY <1>1, <3>1, <3>2
    <3> QED BY <1>3, <3>1, <3>2, <3>3
  <2> QED BY <2>1, <2>2
<1>5. PICK F \in [1 .. N -> Seq(S)] :
             \A i \in 1 .. N : F[i] = IF i = 1 THEN ss[i] ELSE F[i - 1] \o ss[i]
  BY <1>4
<1>6. F = Rule(F)
  BY <1>5
<1>7. C = Rule(C)
  <2> HIDE DEF Rule
  <2> QED BY <1>6
<1>8. \A i \in 1 .. N : C[i] = F[i]
  <2> DEFINE Bad == {i \in 1 .. N : C[i] # F[i]}
  <2> SUFFICES ASSUME Bad # {} PROVE FALSE
    OBVIOUS
  <2> HIDE DEF C
  <2>1. PICK i \in Bad : \A j \in Bad : i <= j
    <3>1. Bad \in SUBSET Nat
      OBVIOUS
    <3> HIDE DEF Bad
    <3> QED BY <3>1, LeastNumber
  <2>2. C[i] = IF i = 1 THEN ss[i] ELSE C[i - 1] \o ss[i]
    BY <1>7
  <2>3. i # 1 => i - 1 \in 1 .. N /\ C[i - 1] = F[i - 1]
    BY <1>1, <2>1
  <2> QED BY <1>5, <2>2, <2>3
<1>9. FlattenSeq(ss) = C[N]
  BY <1>1 DEF FlattenSeq
<1>10. F[1] = ss[1] /\ \A i \in 1 .. N : i # 1 => F[i] = F[i - 1] \o ss[i]
  BY <1>1, <1>5
<1>11. FlattenSeq(ss) = F[N]
  <2>1. N \in 1 .. N
    BY <1>1
  <2> HIDE DEF C
  <2> QED BY <1>8, <1>9, <2>1
<1>12. Flattens(F, ss)
  BY <1>10 DEF Flattens
<1> QED BY <1>5, <1>11, <1>12

\* What holds at the first place and passes from each place to the next holds at
\* the last one.
LEMMA PassedOn ==
  ASSUME NEW N \in Nat, N # 0, NEW G, 1 \in G, \A i \in 1 .. N : i # 1 /\ i - 1 \in G => i \in G
  PROVE  \A i \in 1 .. N : i \in G
<1> DEFINE Bad == {i \in 1 .. N : i \notin G}
<1> SUFFICES ASSUME Bad # {} PROVE FALSE
  OBVIOUS
<1>1. Bad \in SUBSET Nat
  OBVIOUS
<1>2. PICK i \in Bad : \A j \in Bad : i <= j
  <2> HIDE DEF Bad
  <2> QED BY <1>1, LeastNumber
<1>3. i # 1 /\ i - 1 \in 1 .. N
  OBVIOUS
<1>4. i - 1 \in G
  BY <1>2, <1>3
<1> QED BY <1>3, <1>4

\* What is in a flattened sequence is in one of its parts.
LEMMA FlattenMembers ==
  ASSUME NEW S, NEW ss \in Seq(Seq(S))
  PROVE  /\ FlattenSeq(ss) \in Seq(S)
         /\ \A m \in DOMAIN FlattenSeq(ss) :
              \E i \in DOMAIN ss : \E n \in DOMAIN ss[i] : FlattenSeq(ss)[m] = ss[i][n]
<1> DEFINE N == Len(ss)
<1>1. N \in Nat /\ DOMAIN ss = 1 .. N /\ \A i \in 1 .. N : ss[i] \in Seq(S)
  BY LenProperties, ElementOfSeq
<1>2. CASE ss = <<>>
  BY <1>2 DEF FlattenSeq
<1>3. CASE ss # <<>>
  <2>1. PICK F \in [1 .. N -> Seq(S)] : Flattens(F, ss) /\ FlattenSeq(ss) = F[N]
    BY <1>3, FlattenIsDefined
  <2> DEFINE Found(x) == \E i \in 1 .. N : \E n \in DOMAIN ss[i] : x = ss[i][n]
             G == {i \in 1 .. N : \A m \in DOMAIN F[i] : Found(F[i][m])}
  <2>2. N # 0
    BY <1>1, <1>3, EmptySeq
  <2>3. 1 \in G
    BY <1>1, <2>1, <2>2 DEF Flattens
  <2>4. ASSUME NEW i \in 1 .. N, i # 1, i - 1 \in G PROVE i \in G
    <3> DEFINE a == F[i - 1]
               b == ss[i]
    <3>1. a \in Seq(S) /\ b \in Seq(S) /\ F[i] = a \o b
      BY <1>1, <2>1, <2>4 DEF Flattens
    <3>2. \A m \in DOMAIN a : Found(a[m])
      BY <2>4
    <3>3. \A m \in DOMAIN b : Found(b[m])
      BY <1>1
    <3> HIDE DEF Found, a, b
    <3>4. \A m \in DOMAIN (a \o b) : Found((a \o b)[m])
      <4>1. /\ Len(a) \in Nat /\ Len(b) \in Nat /\ DOMAIN a = 1 .. Len(a) /\ DOMAIN b = 1 .. Len(b)
            /\ DOMAIN (a \o b) = 1 .. Len(a) + Len(b)
            /\ \A m \in 1 .. Len(a) + Len(b) :
                 (a \o b)[m] = IF m <= Len(a) THEN a[m] ELSE b[m - Len(a)]
        BY <3>1, ConcatProperties, LenProperties
      <4>2. ASSUME NEW m \in 1 .. Len(a) + Len(b) PROVE Found((a \o b)[m])
        <5>1. CASE m <= Len(a)
          BY <3>2, <4>1, <5>1
        <5>2. CASE ~(m <= Len(a))
          <6>1. m - Len(a) \in DOMAIN b
            BY <4>1, <5>2
          <6> QED BY <3>3, <4>1, <5>2, <6>1
        <5> QED BY <5>1, <5>2
      <4> QED BY <4>1, <4>2
    <3> QED BY <3>1, <3>4
  <2>5. N \in 1 .. N
    BY <1>1, <2>2
  <2> HIDE DEF G
  <2>6. N \in G
    BY <1>1, <2>2, <2>3, <2>4, <2>5, PassedOn
  <2>7. \A m \in DOMAIN F[N] : Found(F[N][m])
    BY <2>6 DEF G
  <2>8. FlattenSeq(ss) \in Seq(S)
    BY <2>1, <2>5
  <2>9. \A m \in DOMAIN FlattenSeq(ss) : Found(FlattenSeq(ss)[m])
    <3> HIDE DEF Found
    <3> QED BY <2>1, <2>7
  <2> QED BY <1>1, <2>8, <2>9
<1> QED BY <1>2, <1>3

\* An element of a sequence with one more is the new one or was there.
LEMMA AppendMembers ==
  ASSUME NEW S, NEW a \in Seq(S), NEW x \in S
  PROVE  \A m \in DOMAIN Append(a, x) :
           \/ m \in DOMAIN a /\ Append(a, x)[m] = a[m]
           \/ m = Len(Append(a, x)) /\ Append(a, x)[m] = x
<1> DEFINE b == Append(a, x)
<1>1. /\ Len(a) \in Nat /\ DOMAIN a = 1 .. Len(a) /\ b \in Seq(S) /\ Len(b) = Len(a) + 1
      /\ b[Len(a) + 1] = x /\ \A m \in 1 .. Len(a) : b[m] = a[m]
  BY AppendProperties, LenProperties
<1>2. DOMAIN b = 1 .. Len(a) + 1
  BY <1>1, LenProperties
<1> HIDE DEF b
<1>3. ASSUME NEW m \in 1 .. Len(a) + 1, m # Len(a) + 1 PROVE m \in 1 .. Len(a)
  BY <1>1, <1>3
<1>4. \A m \in DOMAIN b : (m \in DOMAIN a /\ b[m] = a[m]) \/ (m = Len(b) /\ b[m] = x)
  BY <1>1, <1>2, <1>3
<1> QED BY <1>4 DEF b

\* Flattening what is left of each element of a sequence without repetitions, it
\* or nothing, gives one without repetitions.
LEMMA FlattenKeepsApart ==
  ASSUME NEW S, NEW s \in Seq(S), NEW ss \in Seq(Seq(S)), Len(ss) = Len(s),
         \A i \in 1 .. Len(s) : ss[i] = <<>> \/ ss[i] = <<s[i]>>,
         \A m, n \in DOMAIN s : s[m] = s[n] => m = n
  PROVE  \A m, n \in DOMAIN FlattenSeq(ss) : FlattenSeq(ss)[m] = FlattenSeq(ss)[n] => m = n
<1> DEFINE N == Len(ss)
           Apart(t) == \A m, n \in DOMAIN t : t[m] = t[n] => m = n
<1>1. /\ N \in Nat /\ DOMAIN ss = 1 .. N /\ \A i \in 1 .. N : ss[i] \in Seq(S)
      /\ DOMAIN s = 1 .. N
  BY LenProperties, ElementOfSeq
<1>2. CASE ss = <<>>
  BY <1>2 DEF FlattenSeq
<1>3. CASE ss # <<>>
  <2>1. PICK F \in [1 .. N -> Seq(S)] : Flattens(F, ss) /\ FlattenSeq(ss) = F[N]
    BY <1>3, FlattenIsDefined
  <2> DEFINE Earlier(t, i) == \A m \in DOMAIN t : \E j \in 1 .. i : t[m] = s[j]
             G == {i \in 1 .. N : Apart(F[i]) /\ Earlier(F[i], i)}
  <2>2. N # 0
    BY <1>1, <1>3, EmptySeq
  <2>3. 1 \in G
    <3>1. F[1] = <<>> \/ F[1] = <<s[1]>>
      BY <1>1, <2>1, <2>2 DEF Flattens
    <3> QED BY <1>1, <2>2, <3>1
  <2>4. ASSUME NEW i \in 1 .. N, i # 1, i - 1 \in G PROVE i \in G
    <3> DEFINE a == F[i - 1]
    <3>1. a \in Seq(S) /\ F[i] = a \o ss[i] /\ Apart(a) /\ Earlier(a, i - 1)
      BY <1>1, <2>1, <2>4 DEF Flattens
    <3> HIDE DEF a
    <3>2. Len(a) \in Nat /\ DOMAIN a = 1 .. Len(a)
      BY <3>1, LenProperties
    <3>3. CASE ss[i] = <<>>
      <4>1. F[i] = a
        BY <3>1, <3>3
      <4>2. Earlier(a, i)
        <5>1. \A j \in 1 .. i - 1 : j \in 1 .. i
          BY <1>1
        <5> QED BY <3>1, <5>1
      <4> QED BY <3>1, <4>1, <4>2
    <3>4. CASE ss[i] = <<s[i]>>
      <4> DEFINE b == Append(a, s[i])
      <4>1. F[i] = b /\ s[i] \in S
        BY <1>1, <3>1, <3>4, ElementOfSeq
      <4>2. \A m \in DOMAIN b : \/ m \in DOMAIN a /\ b[m] = a[m]
                                \/ m = Len(b) /\ b[m] = s[i]
        BY <3>1, <4>1, AppendMembers
      <4> HIDE DEF b
      <4>3. ASSUME NEW m \in DOMAIN a
            PROVE  a[m] # s[i] /\ \E j \in 1 .. i : a[m] = s[j]
        <5>1. PICK j \in 1 .. i - 1 : a[m] = s[j]
          BY <3>1
        <5>2. j \in DOMAIN s /\ i \in DOMAIN s /\ j # i /\ j \in 1 .. i
          BY <1>1
        <5> QED BY <5>1, <5>2
      <4>4. Earlier(b, i)
        <5>1. i \in 1 .. i
          BY <1>1
        <5> QED BY <4>2, <4>3, <5>1
      <4>5. Apart(b)
        BY <3>1, <4>2, <4>3
      <4> QED BY <4>1, <4>4, <4>5
    <3> QED BY <1>1, <3>3, <3>4
  <2>5. N \in 1 .. N
    BY <1>1, <2>2
  <2> HIDE DEF G
  <2>6. N \in G
    BY <1>1, <2>2, <2>3, <2>4, <2>5, PassedOn
  <2> QED BY <2>1, <2>5, <2>6 DEF G
<1> QED BY <1>2, <1>3
-----------------------------------------------------------------------------
\* The fields the refresh assigns, those of them it must not invent packets in,
\* what a load of one yields (of a reference, a place), and an assignment.
FieldNames == {"bytes", "pkts", "fwdBytes", "revBytes", "fwdPkts", "revPkts", "last",
               "dnsQueries", "dnsNames", "dnsFailures", "dnsLast", "history"}
PacketCounts == {"pkts", "fwdPkts", "revPkts"}
Held(x) == IF x = "dnsQueries" THEN Seq(Question) ELSE Nat
Copy == [to : Nat, from : Nat, field : FieldNames]

\* The types of what the refresh keeps.
UiType == /\ rows \in Seq(Nat) /\ \A n \in DOMAIN rows : rows[n] \in Places
          /\ snapshot \in SUBSET Places
          /\ todo \in Seq(Copy)
          /\ \A n \in DOMAIN todo : todo[n].to \in Places /\ todo[n].from \in Places
          /\ uiPc \in {"idle", "load", "store"}
          /\ uiPc = "store" => todo # <<>> /\ loaded \in Held(todo[1].field)

\* Rows are told apart, so are the flows of the snapshot, every row is of one of
\* these, and after a refresh each of these has a row.
RowsInv == /\ \A m, n \in DOMAIN rows : getFlowId(rows[m]) = getFlowId(rows[n]) => m = n
           /\ \A i, j \in snapshot : getFlowId(i) = getFlowId(j) => i = j
           /\ \A n \in DOMAIN rows : \E j \in snapshot : getFlowId(j) = getFlowId(rows[n])
           /\ uiPc = "idle" => \A j \in snapshot :
                                 \E n \in DOMAIN rows : getFlowId(rows[n]) = getFlowId(j)

\* An open flow is only ever assigned to itself, what was loaded from it is not
\* ahead of it, and its counters are not ahead of its port counts.
NotAhead(f) == /\ f.pkts <= Total(f.srcPorts)
               /\ f.fwdPkts + f.revPkts <= Total(f.srcPorts)
Open(i) == heap[i].state # "closed"
SelfCopies == \A n \in DOMAIN todo : Open(todo[n].to) => todo[n].to = todo[n].from
LoadedBehind == uiPc = "store" =>
                  (Open(todo[1].to) /\ todo[1].field \in PacketCounts =>
                     loaded <= heap[todo[1].to][todo[1].field])
CopyInv == SelfCopies /\ LoadedBehind /\ \A i \in Places : Open(i) => NotAhead(heap[i])

\* What a flow refers to was made for a flow of the same ends, an open flow
\* refers to its own, and an assignment is between flows of the same ends, so the
\* object it has loaded is one that its left-hand side may be given.
RefsOwned ==
  /\ \A p \in DOMAIN refs : p[1] \in Places
  /\ \A i \in Places, x \in References :
       /\ Target(i, x) \in Places /\ getFlowId(Target(i, x)) = getFlowId(i)
       /\ Open(i) => Target(i, x) = i
CopiesMatch == \A n \in DOMAIN todo : getFlowId(todo[n].to) = getFlowId(todo[n].from)
LoadedMatches ==
  uiPc = "store" =>
    (todo[1].field \in References =>
       /\ loaded \in Places /\ getFlowId(loaded) = getFlowId(todo[1].to)
       /\ Open(todo[1].to) => loaded = todo[1].to)
RefInv == RefsOwned /\ CopiesMatch /\ LoadedMatches

LiveInv == Inv /\ UiType /\ RowsInv /\ CopyInv /\ RefInv

\* What a flow keeps for ever.
Remains(f, g) == /\ g.src = f.src /\ g.dst = f.dst /\ g.proto = f.proto
                 /\ f.state = "closed" => g.state = "closed"
Persists == \A i \in Places : i \in Places' /\ Remains(heap[i], heap'[i])

\* The port counts of a flow add up to a number.
LEMMA PortsSummable ==
  ASSUME NEW counts \in Counter
  PROVE  Summable(counts) /\ Total(counts) \in Nat
<1>1. Summable(counts)
  BY PortsAssumption DEF Summable, Counter
<1> QED BY <1>1, TotalType

\* The counters of an updated flow are at most one ahead of what they were, and
\* the port counts are one ahead.
LEMMA UpdatedNotAhead ==
  ASSUME NEW e \in PacketEvents, NEW now \in Nat, NEW f \in Flow
  PROVE  LET u == Updated(f, e, now)
         IN  /\ f.pkts <= u.pkts /\ f.fwdPkts <= u.fwdPkts /\ f.revPkts <= u.revPkts
             /\ NotAhead(f) => NotAhead(u)
<1> DEFINE u == Updated(f, e, now)
           old == f.srcPorts
           new == u.srcPorts
<1>1. /\ f.pkts \in Nat /\ f.fwdPkts \in Nat /\ f.revPkts \in Nat /\ old \in Counter
      /\ e.sport \in Ports
  BY EventType DEF Flow
<1>2. /\ u.pkts = f.pkts + 1 /\ new = Bumped(old, e.sport)
      /\ u.fwdPkts = IF IsForward(f, e) THEN f.fwdPkts + 1 ELSE f.fwdPkts
      /\ u.revPkts = IF IsForward(f, e) THEN f.revPkts ELSE f.revPkts + 1
  BY DEF Updated
<1>3. Summable(old) /\ Total(old) \in Nat
  BY <1>1, PortsSummable
<1> HIDE DEF u, old, new
<1>4. Total(new) = Total(old) + 1
  <2>1. /\ DOMAIN old = Ports /\ DOMAIN new = DOMAIN old /\ e.sport \in DOMAIN old
        /\ new[e.sport] = old[e.sport] + 1
        /\ \A p \in DOMAIN old : p # e.sport => new[p] = old[p]
    BY <1>1, <1>2 DEF Bumped, Counter
  <2> QED BY <1>3, <2>1, TotalChanges
<1>5. /\ f.pkts <= u.pkts /\ f.fwdPkts <= u.fwdPkts /\ f.revPkts <= u.revPkts
      /\ u.pkts = f.pkts + 1 /\ u.fwdPkts + u.revPkts = f.fwdPkts + f.revPkts + 1
  BY <1>1, <1>2
<1>6. NotAhead(f) => NotAhead(u)
  BY <1>1, <1>3, <1>4, <1>5 DEF NotAhead, old, new
<1> QED BY <1>5, <1>6 DEF u

\* The aggregator's steps keep the ends of flows, reopen none, take nothing from
\* the counters, and keep those of open flows behind their port counts.
LEMMA NextPersists ==
  ASSUME Inv, [Next]_vars
  PROVE  /\ Persists
         /\ \A i \in Places : /\ heap[i].pkts <= heap'[i].pkts
                              /\ heap[i].fwdPkts <= heap'[i].fwdPkts
                              /\ heap[i].revPkts <= heap'[i].revPkts
         /\ (\A i \in Places : Open(i) => NotAhead(heap[i]))
              => (\A i \in Places : Open(i) => NotAhead(heap[i]))'
<1> DEFINE Ahead(f, g) == f.pkts <= g.pkts /\ f.fwdPkts <= g.fwdPkts /\ f.revPkts <= g.revPkts
<1>1. \A i \in Places : heap[i] \in Flow
  BY DEF Inv, TypeOK, Places
<1>2. \A f \in Flow : Ahead(f, f) /\ Remains(f, f)
  BY DEF Flow, Remains
<1>3. CASE ProcessEvent
  <2> DEFINE e == job.evt
             now == job.now
             Case(n, f) ==
               /\ heap'[n] = Updated(f, e, now)
               /\ \A i \in Places' : i # n => i \in Places /\ heap'[i] = heap[i]
               /\ \/ n \in Places /\ f = heap[n] /\ Places' = Places
                  \/ n \notin Places /\ f = NewFlow(e, now) /\ Places' = Places \cup {n}
  <2>1. e \in PacketEvents /\ now \in Nat
    BY <1>3, ProcessEventWrites
  <2>2. PICK n \in Places' : \E f \in Flow : Case(n, f)
    BY <1>3, ProcessEventWrites
  <2>3. PICK f \in Flow : Case(n, f)
    BY <2>2
  <2> HIDE DEF e, now
  <2>4. \A i \in Places : i \in Places' /\ (i # n => heap'[i] = heap[i])
    BY <2>3
  <2>5. \A i \in Places : heap[i].state = "closed" => heap'[i] = heap[i]
    BY StepLeavesClosed
  <2>6. Ahead(f, heap'[n]) /\ (NotAhead(f) => NotAhead(heap'[n]))
    BY <2>1, <2>3, UpdatedNotAhead
  <2>7. Remains(f, heap'[n])
    <3>1. CASE f.state # "closed"
      BY <2>1, <2>3, <3>1, UpdatedType DEF Remains
    <3>2. CASE f.state = "closed"
      <4>1. n \in Places /\ f = heap[n]
        BY <2>1, <2>3, <3>2, NewFlowType
      <4> QED BY <1>2, <2>5, <3>2, <4>1
    <3> QED BY <3>1, <3>2
  <2>8. ASSUME NEW i \in Places
        PROVE  i \in Places' /\ Ahead(heap[i], heap'[i]) /\ Remains(heap[i], heap'[i])
    <3>1. CASE i = n
      BY <2>3, <2>4, <2>6, <2>7, <3>1
    <3>2. CASE i # n
      BY <1>1, <1>2, <2>4, <3>2
    <3> QED BY <3>1, <3>2
  <2>9. ASSUME \A i \in Places : Open(i) => NotAhead(heap[i]),
               NEW i \in Places', heap'[i].state # "closed"
        PROVE  NotAhead(heap'[i])
    <3>1. CASE i = n
      <4>1. CASE n \in Places /\ f = heap[n]
        <5>1. NotAhead(f)
          BY <2>5, <2>9, <3>1, <4>1 DEF Open
        <5> QED BY <2>6, <3>1, <5>1
      <4>2. CASE f = NewFlow(e, now)
        <5>1. f.pkts = 0 /\ f.fwdPkts = 0 /\ f.revPkts = 0 /\ f.srcPorts \in Counter
          BY <2>3, <4>2 DEF NewFlow, Flow
        <5>2. NotAhead(f)
          BY <5>1, PortsSummable DEF NotAhead
        <5> QED BY <2>6, <3>1, <5>2
      <4> QED BY <2>3, <4>1, <4>2
    <3>2. CASE i # n
      BY <2>3, <2>9, <3>2 DEF Open
    <3> QED BY <3>1, <3>2
  <2> QED BY <2>8, <2>9 DEF Persists, Open
<1>4. CASE CloseIdleFlows
  <2> DEFINE closed(f) == [f EXCEPT !.state = "closed"]
  <2>1. \A f \in Flow : Ahead(f, closed(f)) /\ Remains(f, closed(f)) /\ closed(f).state = "closed"
    BY DEF Flow, Remains
  <2> HIDE DEF closed
  <2>2. /\ Places' = Places
        /\ \A i \in Places : heap'[i] = heap[i] \/ heap'[i] = closed(heap[i])
    BY <1>4, CloseIdleFlowsWrites DEF closed
  <2>3. \A i \in Places : Ahead(heap[i], heap'[i]) /\ Remains(heap[i], heap'[i])
    BY <1>1, <1>2, <2>1, <2>2
  <2>4. (\A i \in Places : Open(i) => NotAhead(heap[i]))
          => (\A i \in Places : Open(i) => NotAhead(heap[i]))'
    BY <1>1, <2>1, <2>2 DEF Open
  <2> QED BY <2>2, <2>3, <2>4 DEF Persists
<1>5. CASE ~ProcessEvent /\ ~CloseIdleFlows
  <2>1. UNCHANGED heap
    BY <1>5, OthersWriteNothing
  <2> QED BY <1>1, <1>2, <2>1 DEF Persists, Places, Open
<1> QED BY <1>3, <1>4, <1>5

\* What a step that leaves the refresh alone keeps of it, for flows keep their
\* ends.
LEMMA UiPersists ==
  ASSUME UiType, RowsInv, SelfCopies, Persists,
         UNCHANGED <<rows, snapshot, todo, loaded, uiPc>>
  PROVE  UiType' /\ RowsInv' /\ SelfCopies'
<1>1. \A i \in Places : i \in Places' /\ (getFlowId(i))' = getFlowId(i)
  BY DEF Persists, Remains, getFlowId
<1>2. UiType'
  BY <1>1 DEF UiType
<1>3. /\ \A n \in DOMAIN rows : rows[n] \in Places
      /\ \A j \in snapshot : j \in Places
      /\ \A n \in DOMAIN todo : todo[n].to \in Places
  BY DEF UiType
<1>4. RowsInv'
  BY <1>1, <1>3 DEF RowsInv
<1>5. \A i \in Places : Open(i)' => Open(i)
  BY DEF Persists, Remains, Open
<1>6. SelfCopies'
  BY <1>3, <1>5 DEF SelfCopies
<1> QED BY <1>2, <1>4, <1>6

\* What flows refer to stays theirs while they keep their ends and none reopens.
LEMMA RefsPersist ==
  ASSUME RefsOwned, Persists, UNCHANGED refs
  PROVE  RefsOwned'
<1>1. \A i \in Places : i \in Places' /\ (getFlowId(i))' = getFlowId(i)
  BY DEF Persists, Remains, getFlowId
<1>2. \A i \in Places : Open(i)' => Open(i)
  BY DEF Persists, Remains, Open
<1>3. \A p \in DOMAIN refs : p[1] \in Places
  BY DEF RefsOwned
<1>4. \A i, x : Target(i, x)' = Target(i, x)
  BY DEF Target
<1>5. ASSUME NEW i \in Places', NEW x \in References
      PROVE  /\ Target(i, x) \in Places' /\ (getFlowId(Target(i, x)))' = (getFlowId(i))'
             /\ Open(i)' => Target(i, x) = i
  <2>1. CASE i \in Places
    <3>1. PICK j \in Places : /\ j = Target(i, x)
                              /\ getFlowId(j) = getFlowId(i)
                              /\ Open(i) => j = i
      BY <2>1 DEF RefsOwned
    <3>2. (getFlowId(Target(i, x)))' = (getFlowId(j))'
      BY <1>4, <3>1 DEF getFlowId
    <3>3. (getFlowId(j))' = getFlowId(i) /\ (getFlowId(i))' = getFlowId(i) /\ j \in Places'
      BY <1>1, <2>1, <3>1
    <3> QED BY <1>2, <2>1, <3>1, <3>2, <3>3
  <2>2. CASE i \notin Places
    <3>1. <<i, x>> \notin DOMAIN refs
      BY <1>3, <2>2
    <3> QED BY <1>4, <3>1 DEF Target
  <2> QED BY <2>1, <2>2
<1> QED BY <1>1, <1>3, <1>4, <1>5 DEF RefsOwned

\* A loaded object still may be assigned after such a step.
LEMMA LoadedPersists ==
  ASSUME UiType, CopiesMatch, LoadedMatches, Persists, UNCHANGED <<todo, loaded, uiPc>>
  PROVE  CopiesMatch' /\ LoadedMatches'
<1>1. \A i \in Places : i \in Places' /\ (getFlowId(i))' = getFlowId(i)
  BY DEF Persists, Remains, getFlowId
<1>2. \A i \in Places : Open(i)' => Open(i)
  BY DEF Persists, Remains, Open
<1>3. \A n \in DOMAIN todo : todo[n].to \in Places /\ todo[n].from \in Places
  BY DEF UiType
<1>4. CopiesMatch'
  BY <1>1, <1>3 DEF CopiesMatch
<1>5. CASE uiPc = "store"
  <2>1. todo \in Seq(Copy) /\ todo # <<>>
    BY <1>5 DEF UiType
  <2>2. 1 \in DOMAIN todo
    BY <2>1
  <2> QED BY <1>1, <1>2, <1>3, <1>4, <2>2 DEF LoadedMatches
<1>6. CASE uiPc # "store"
  BY <1>4, <1>6 DEF LoadedMatches
<1> QED BY <1>5, <1>6

\* The aggregator's steps keep the invariant of the refresh.
LEMMA NextLive ==
  ASSUME LiveInv, Next, UNCHANGED ui
  PROVE  LiveInv'
<1>1. Inv'
  BY StepInv DEF LiveInv
<1>2. /\ Persists
      /\ \A i \in Places : /\ heap[i].pkts <= heap'[i].pkts
                           /\ heap[i].fwdPkts <= heap'[i].fwdPkts
                           /\ heap[i].revPkts <= heap'[i].revPkts
      /\ (\A i \in Places : Open(i) => NotAhead(heap[i]))'
  BY NextPersists DEF LiveInv, CopyInv
<1>3. UiType' /\ RowsInv' /\ SelfCopies'
  BY <1>2, UiPersists DEF LiveInv, CopyInv, ui
<1>4. LoadedBehind'
  <2> SUFFICES ASSUME uiPc = "store", heap'[todo[1].to].state # "closed",
                      todo[1].field \in PacketCounts
               PROVE  loaded <= heap'[todo[1].to][todo[1].field]
    BY DEF LoadedBehind, Open, ui
  <2> DEFINE i == todo[1].to
             x == todo[1].field
  <2>1. i \in Places /\ loaded \in Nat
    <3>1. todo \in Seq(Copy) /\ todo # <<>> /\ loaded \in Held(x)
      BY DEF LiveInv, UiType, ui
    <3>2. 1 \in DOMAIN todo
      BY <3>1
    <3>3. Held(x) = Nat
      BY DEF PacketCounts, Held
    <3> QED BY <3>1, <3>2, <3>3 DEF LiveInv, UiType
  <2> HIDE DEF i, x
  <2>2. heap[i] \in Flow /\ heap'[i] \in Flow
    <3>1. heap[i] \in Flow
      BY <2>1 DEF LiveInv, Inv, TypeOK, Places
    <3>2. heap' \in Seq(Flow) /\ i \in DOMAIN heap'
      BY <1>1, <1>2, <2>1 DEF Inv, TypeOK, Places, Persists
    <3> QED BY <3>1, <3>2
  <2>3. Open(i)
    BY <1>2, <2>1 DEF Persists, Remains, Open, i
  <2>4. loaded <= heap[i][x]
    BY <2>3 DEF LiveInv, CopyInv, LoadedBehind, i, x
  <2>5. heap[i][x] <= heap'[i][x] /\ heap[i][x] \in Nat /\ heap'[i][x] \in Nat
    <3>1. x = "pkts" \/ x = "fwdPkts" \/ x = "revPkts"
      BY DEF PacketCounts, x
    <3> QED BY <1>2, <2>1, <2>2, <3>1 DEF Flow
  <2>6. loaded <= heap'[i][x]
    BY <2>1, <2>4, <2>5
  <2> QED BY <2>6 DEF i, x, ui
<1>5. RefInv'
  BY <1>2, RefsPersist, LoadedPersists DEF LiveInv, RefInv, ui
<1> QED BY <1>1, <1>2, <1>3, <1>4, <1>5 DEF LiveInv, CopyInv

\* What the first assignment is of.
LEMMA FirstCopy ==
  ASSUME UiType, todo # <<>>
  PROVE  /\ Head(todo) = todo[1] /\ 1 \in DOMAIN todo
         /\ todo[1].to \in Places /\ todo[1].from \in Places /\ todo[1].field \in FieldNames
         /\ Tail(todo) \in Seq(Copy)
         /\ \A n \in DOMAIN Tail(todo) : n + 1 \in DOMAIN todo /\ Tail(todo)[n] = todo[n + 1]
<1>1. todo \in Seq(Copy)
  BY DEF UiType
<1>2. 1 \in DOMAIN todo /\ Head(todo) = todo[1]
  BY <1>1
<1>3. todo[1] \in Copy
  BY <1>1, <1>2
<1>4. /\ Tail(todo) \in Seq(Copy)
      /\ \A n \in DOMAIN Tail(todo) : n + 1 \in DOMAIN todo /\ Tail(todo)[n] = todo[n + 1]
  BY <1>1
<1> QED BY <1>2, <1>3, <1>4 DEF UiType, Copy

\* What a copied field holds that refers to nothing.
LEMMA FieldType ==
  ASSUME NEW f \in Flow, NEW x \in FieldNames \ References
  PROVE  f[x] \in Held(x)
BY DEF Flow, FieldNames, References, Held

\* Loading the value of a flow's own field.
LEMMA CopyLoadsLive ==
  ASSUME LiveInv, CopyLoads
  PROVE  LiveInv'
<1> DEFINE c == todo[1]
           Value == IF c.field \in References THEN Target(c.from, c.field)
                                              ELSE heap[c.from][c.field]
<1>1. /\ todo # <<>> /\ uiPc' = "store"
      /\ UNCHANGED <<vars, rows, snapshot, todo, refs, paused>> /\ uiPc = "load"
  BY DEF CopyLoads
<1>2. Head(todo) = c /\ c.to \in Places /\ c.from \in Places /\ c.field \in FieldNames /\ 1 \in DOMAIN todo
  BY <1>1, FirstCopy DEF LiveInv
<1>3. heap[c.from] \in Flow
  BY <1>2 DEF LiveInv, Inv, TypeOK, Places
<1>4. loaded' = Value
  BY <1>2 DEF CopyLoads
<1>5. /\ heap' = heap /\ flows' = flows /\ Places' = Places /\ rows' = rows /\ todo' = todo
      /\ snapshot' = snapshot /\ refs' = refs
  BY <1>1 DEF vars, Places
<1>a. /\ c.field \in References => /\ loaded' \in Places
                                   /\ getFlowId(loaded') = getFlowId(c.from)
                                   /\ Open(c.from) => loaded' = c.from
  BY <1>2, <1>4 DEF LiveInv, RefInv, RefsOwned
<1>b. loaded' \in Held(c.field)
  <2>1. CASE c.field \in References
    <3>1. Places \in SUBSET Nat
      BY LenProperties DEF LiveInv, Inv, TypeOK, Places
    <3> QED BY <1>a, <2>1, <3>1 DEF References, Held
  <2>2. CASE c.field \notin References
    BY <1>2, <1>3, <1>4, <2>2, FieldType
  <2> QED BY <2>1, <2>2
<1>6. Inv'
  BY <1>1, <1>5 DEF LiveInv, Inv, TypeOK, vars, TableKeyed, OpenIffInTable, InTable
<1>7. UiType'
  BY <1>1, <1>5, <1>b DEF LiveInv, UiType
<1>8. RowsInv'
  BY <1>1, <1>5 DEF LiveInv, RowsInv, getFlowId
<1>c. Open(c.to) => c.to = c.from
  BY <1>2 DEF LiveInv, CopyInv, SelfCopies
<1>d. getFlowId(c.to) = getFlowId(c.from)
  BY <1>2 DEF LiveInv, RefInv, CopiesMatch
<1>9. LoadedBehind'
  <2> SUFFICES ASSUME Open(c.to), c.field \in PacketCounts PROVE loaded' <= heap[c.to][c.field]
    BY <1>5 DEF LoadedBehind, Open
  <2> HIDE DEF c
  <2>1. loaded' = heap[c.to][c.field]
    BY <1>4, <1>c DEF PacketCounts, References
  <2>2. loaded' \in Nat
    BY <1>b DEF PacketCounts, Held
  <2> QED BY <2>1, <2>2
<1>10. CopyInv'
  BY <1>5, <1>9 DEF LiveInv, CopyInv, SelfCopies, Open
<1>11. LoadedMatches'
  <2> SUFFICES ASSUME c.field \in References
               PROVE  /\ loaded' \in Places /\ getFlowId(loaded') = getFlowId(c.to)
                      /\ Open(c.to) => loaded' = c.to
    BY <1>5 DEF LoadedMatches, Open, getFlowId
  <2> HIDE DEF c
  <2> QED BY <1>a, <1>c, <1>d
<1>12. RefInv'
  <2>1. RefsOwned' /\ CopiesMatch'
    BY <1>5 DEF LiveInv, RefInv, RefsOwned, CopiesMatch, Target, getFlowId, Open
  <2> QED BY <1>11, <2>1 DEF RefInv
<1> QED BY <1>6, <1>7, <1>8, <1>10, <1>12 DEF LiveInv

\* What assigning such a field changes of a flow.
LEMMA FieldAssigned ==
  ASSUME NEW f \in Flow, NEW x \in FieldNames \ References, NEW v \in Held(x)
  PROVE  LET g == [f EXCEPT ![x] = v]
         IN  /\ g \in Flow /\ g.src = f.src /\ g.dst = f.dst /\ g.proto = f.proto
             /\ g.state = f.state /\ g.srcPorts = f.srcPorts
             /\ g.pkts = (IF x = "pkts" THEN v ELSE f.pkts)
             /\ g.fwdPkts = (IF x = "fwdPkts" THEN v ELSE f.fwdPkts)
             /\ g.revPkts = (IF x = "revPkts" THEN v ELSE f.revPkts)
BY DEF Flow, FieldNames, References, Held

\* The assignment that is done is no longer to be done.
LEMMA OneCopyLess ==
  ASSUME LiveInv, CopyStores, Persists, RefsOwned'
  PROVE  /\ (todo \in Seq(Copy))' /\ SelfCopies' /\ RefInv'
         /\ \A n \in DOMAIN todo' : n + 1 \in DOMAIN todo /\ todo'[n] = todo[n + 1]
<1>1. uiPc = "store" /\ todo # <<>> /\ todo' = Tail(todo) /\ uiPc' = "load"
  BY DEF CopyStores, LiveInv, UiType
<1>2. /\ todo' \in Seq(Copy)
      /\ \A n \in DOMAIN todo' : n + 1 \in DOMAIN todo /\ todo'[n] = todo[n + 1]
  BY <1>1, FirstCopy DEF LiveInv
<1>3. \A n \in DOMAIN todo : todo[n].to \in Places /\ todo[n].from \in Places
  BY DEF LiveInv, UiType
<1>4. \A i \in Places : (getFlowId(i))' = getFlowId(i) /\ (Open(i)' => Open(i))
  BY DEF Persists, Remains, getFlowId, Open
<1>5. SelfCopies'
  BY <1>2, <1>3, <1>4 DEF LiveInv, CopyInv, SelfCopies
<1>6. CopiesMatch'
  BY <1>2, <1>3, <1>4 DEF LiveInv, RefInv, CopiesMatch
<1>7. LoadedMatches'
  BY <1>1 DEF LoadedMatches
<1> QED BY <1>2, <1>5, <1>6, <1>7 DEF RefInv

\* Giving a flow what another of the same ends refers to.
LEMMA CopyStoresReferenceLive ==
  ASSUME LiveInv, CopyStores, todo[1].field \in References
  PROVE  LiveInv'
<1> DEFINE i == todo[1].to
           x == todo[1].field
<1>1. uiPc = "store" /\ todo # <<>>
  BY DEF CopyStores, LiveInv, UiType
<1>2. Head(todo) = todo[1] /\ i \in Places
  BY <1>1, FirstCopy DEF LiveInv
<1>3. /\ heap' = heap /\ flows' = flows /\ Places' = Places /\ rows' = rows
      /\ uiPc' = "load" /\ snapshot' = snapshot /\ UNCHANGED vars
      /\ refs' = refs \/ refs' = Redirected(i, x, loaded)
  BY <1>2 DEF CopyStores, Places, vars, input, loops
<1>4. loaded \in Places /\ getFlowId(loaded) = getFlowId(i) /\ (Open(i) => loaded = i)
  BY <1>1 DEF LiveInv, RefInv, LoadedMatches
<1> HIDE DEF i, x
<1>5. RefsOwned'
  <2>1. CASE refs' = refs
    BY <1>3, <2>1 DEF LiveInv, RefInv, RefsOwned, Target, getFlowId, Open
  <2>2. CASE refs' = Redirected(i, x, loaded)
    <3>1. /\ DOMAIN refs' = DOMAIN refs \cup {<<i, x>>} /\ refs'[<<i, x>>] = loaded
          /\ \A p \in DOMAIN refs : p # <<i, x>> => refs'[p] = refs[p]
      BY <2>2 DEF Redirected
    <3>2. \A p \in DOMAIN refs' : p[1] \in Places
      BY <1>2, <3>1 DEF LiveInv, RefInv, RefsOwned, i
    <3>3. ASSUME NEW j \in Places, NEW y \in References
          PROVE  /\ Target(j, y)' \in Places /\ getFlowId(Target(j, y)') = getFlowId(j)
                 /\ Open(j) => Target(j, y)' = j
      <4>1. CASE <<j, y>> = <<i, x>>
        <5>1. j = i /\ Target(j, y)' = loaded
          BY <3>1, <4>1 DEF Target
        <5> QED BY <1>4, <5>1
      <4>2. CASE <<j, y>> # <<i, x>>
        <5>1. Target(j, y)' = Target(j, y)
          BY <3>1, <4>2 DEF Target
        <5> QED BY <5>1 DEF LiveInv, RefInv, RefsOwned
      <4> QED BY <4>1, <4>2
    <3> QED BY <1>3, <3>2, <3>3 DEF RefsOwned, getFlowId, Open
  <2> QED BY <1>3, <2>1, <2>2
<1>6. Persists
  BY <1>3 DEF Persists, Remains
<1>7. (todo \in Seq(Copy))' /\ SelfCopies' /\ RefInv'
      /\ \A n \in DOMAIN todo' : n + 1 \in DOMAIN todo /\ todo'[n] = todo[n + 1]
  BY <1>5, <1>6, OneCopyLess
<1>8. Inv'
  BY <1>3 DEF LiveInv, Inv, TypeOK, vars, TableKeyed, OpenIffInTable, InTable
<1>9. UiType'
  BY <1>3, <1>7 DEF LiveInv, UiType
<1>10. RowsInv'
  BY <1>3 DEF LiveInv, RowsInv, getFlowId
<1>11. CopyInv'
  BY <1>3, <1>7 DEF LiveInv, CopyInv, LoadedBehind, Open
<1> QED BY <1>7, <1>8, <1>9, <1>10, <1>11 DEF LiveInv

\* Storing the value in the same field, of which an open flow has no less.
LEMMA CopyStoresValueLive ==
  ASSUME LiveInv, CopyStores, todo[1].field \notin References
  PROVE  LiveInv'
<1> DEFINE i == todo[1].to
           x == todo[1].field
           g == [heap[i] EXCEPT ![x] = loaded]
<1>1. uiPc = "store" /\ todo # <<>>
  BY DEF CopyStores, LiveInv, UiType
<1>2. Head(todo) = todo[1] /\ i \in Places /\ x \in FieldNames \ References
      /\ loaded \in Held(x)
  BY <1>1, FirstCopy DEF LiveInv, UiType
<1>3. heap \in Seq(Flow) /\ heap[i] \in Flow
  BY <1>2 DEF LiveInv, Inv, TypeOK, Places
<1>4. /\ heap' = [heap EXCEPT ![i] = g] /\ todo' = Tail(todo) /\ uiPc' = "load" /\ loaded' = 0
      /\ UNCHANGED <<flows, globalStats, input, loops, stopped, clock, rows, snapshot, paused>>
      /\ refs' = refs
  BY <1>2 DEF CopyStores
<1>5. /\ g \in Flow /\ g.src = heap[i].src /\ g.dst = heap[i].dst /\ g.proto = heap[i].proto
      /\ g.state = heap[i].state /\ g.srcPorts = heap[i].srcPorts
      /\ g.pkts = (IF x = "pkts" THEN loaded ELSE heap[i].pkts)
      /\ g.fwdPkts = (IF x = "fwdPkts" THEN loaded ELSE heap[i].fwdPkts)
      /\ g.revPkts = (IF x = "revPkts" THEN loaded ELSE heap[i].revPkts)
  BY <1>2, <1>3, FieldAssigned
<1> HIDE DEF g
<1>6. /\ heap' \in Seq(Flow) /\ Places' = Places /\ heap'[i] = g
      /\ \A j \in Places : j # i => heap'[j] = heap[j]
  BY <1>2, <1>3, <1>4, <1>5 DEF Places
<1> HIDE DEF i, x
<1>7. \A j \in Places : /\ heap'[j].src = heap[j].src /\ heap'[j].dst = heap[j].dst
                        /\ heap'[j].proto = heap[j].proto /\ heap'[j].state = heap[j].state
  BY <1>5, <1>6
<1>8. Inv'
  <2>1. TypeOK'
    BY <1>4, <1>6 DEF LiveInv, Inv, TypeOK, input, loops
  <2>2. \A k \in DOMAIN flows : flows[k] \in Places
    BY DEF LiveInv, Inv, TypeOK
  <2>3. TableKeyed'
    BY <1>4, <1>7, <2>2 DEF LiveInv, Inv, TableKeyed, KeyOf
  <2>4. OpenIffInTable'
    BY <1>4, <1>6, <1>7 DEF LiveInv, Inv, OpenIffInTable, InTable
  <2> QED BY <2>1, <2>3, <2>4 DEF Inv
<1>9. \A j \in Places : (getFlowId(j))' = getFlowId(j) /\ (Open(j)' <=> Open(j))
  BY <1>7 DEF getFlowId, Open
<1>a. Persists
  BY <1>6, <1>7 DEF Persists, Remains
<1>b. RefsOwned'
  BY <1>4, <1>a, RefsPersist DEF LiveInv, RefInv
<1>10. /\ todo' \in Seq(Copy) /\ SelfCopies' /\ RefInv'
       /\ \A n \in DOMAIN todo' : n + 1 \in DOMAIN todo /\ todo'[n] = todo[n + 1]
  BY <1>a, <1>b, OneCopyLess
<1>11. UiType'
  BY <1>4, <1>6, <1>10 DEF LiveInv, UiType
<1>12. RowsInv'
  <2>1. /\ \A n \in DOMAIN rows : rows[n] \in Places
        /\ \A j \in snapshot : j \in Places
    BY DEF LiveInv, UiType
  <2> QED BY <1>4, <1>9, <2>1 DEF LiveInv, RowsInv
<1>14. LoadedBehind'
  BY <1>4 DEF LoadedBehind
<1>15. ASSUME NEW j \in Places, Open(j) PROVE NotAhead(heap'[j])
  <2>1. NotAhead(heap[j])
    BY <1>15 DEF LiveInv, CopyInv
  <2>2. CASE j = i
    <3>1. x \in PacketCounts => loaded <= heap[i][x] /\ loaded \in Nat
      BY <1>1, <1>2, <1>15, <2>2
         DEF LiveInv, CopyInv, LoadedBehind, i, x, Held, PacketCounts
    <3>2. /\ heap[i].pkts \in Nat /\ heap[i].fwdPkts \in Nat /\ heap[i].revPkts \in Nat
          /\ Total(heap[i].srcPorts) \in Nat
      BY <1>3, PortsSummable DEF Flow
    <3>3. /\ g.pkts <= heap[i].pkts /\ g.fwdPkts <= heap[i].fwdPkts
          /\ g.revPkts <= heap[i].revPkts
          /\ g.pkts \in Nat /\ g.fwdPkts \in Nat /\ g.revPkts \in Nat
      BY <1>5, <3>1, <3>2 DEF PacketCounts
    <3>4. NotAhead(g)
      BY <1>5, <2>1, <2>2, <3>2, <3>3 DEF NotAhead
    <3> QED BY <1>6, <2>2, <3>4
  <2>3. CASE j # i
    BY <1>6, <2>1, <2>3
  <2> QED BY <2>2, <2>3
<1>16. CopyInv'
  BY <1>6, <1>9, <1>10, <1>14, <1>15 DEF CopyInv
<1> QED BY <1>8, <1>10, <1>11, <1>12, <1>16 DEF LiveInv

\* So every assignment keeps the invariant.
LEMMA CopyStoresLive ==
  ASSUME LiveInv, CopyStores
  PROVE  LiveInv'
BY CopyStoresReferenceLive, CopyStoresValueLive

\* The table's flows are open, and no two of them are of one identity.
LEMMA CurrentFlows ==
  ASSUME Inv
  PROVE  /\ Current \in SUBSET Places
         /\ \A i \in Current : Open(i)
         /\ \A i, j \in Current : getFlowId(i) = getFlowId(j) => i = j
<1>1. Current \in SUBSET Places
  BY DEF Inv, TypeOK, Current
<1>2. \A i \in Current : Open(i)
  BY <1>1 DEF Inv, OpenIffInTable, InTable, Current, Open
<1>3. ASSUME NEW i \in Current, NEW j \in Current, getFlowId(i) = getFlowId(j)
      PROVE  i = j
  <2>1. PICK k \in DOMAIN flows : flows[k] = i
    BY DEF Current
  <2>2. PICK m \in DOMAIN flows : flows[m] = j
    BY DEF Current
  <2>3. KeyOf(heap[i]) = KeyOf(heap[j])
    BY <1>3 DEF getFlowId, KeyOf
  <2> QED BY <2>1, <2>2, <2>3 DEF Inv, TableKeyed
<1> QED BY <1>1, <1>2, <1>3

\* The rows that are kept are rows whose identity the snapshot has, each once.
LEMMA KeptRows ==
  ASSUME UiType, RowsInv, NEW S
  PROVE  /\ Kept(S) \in Seq(Nat)
         /\ \A m \in DOMAIN Kept(S) :
              \E n \in DOMAIN rows : Kept(S)[m] = rows[n] /\ SameId(rows[n], S) # {}
         /\ \A m, n \in DOMAIN Kept(S) :
              getFlowId(Kept(S)[m]) = getFlowId(Kept(S)[n]) => m = n
<1> DEFINE ss == [n \in DOMAIN rows |-> IF SameId(rows[n], S) # {} THEN <<rows[n]>> ELSE <<>>]
           kept == FlattenSeq(ss)
<1>1. /\ rows \in Seq(Nat) /\ Len(rows) \in Nat /\ DOMAIN rows = 1 .. Len(rows)
      /\ \A n \in DOMAIN rows : rows[n] \in Nat
  BY LenProperties, ElementOfSeq DEF UiType
<1>2. ss \in Seq(Seq(Nat)) /\ Len(ss) = Len(rows) /\ DOMAIN ss = DOMAIN rows
  <2>1. ss \in [1 .. Len(rows) -> Seq(Nat)]
    BY <1>1
  <2>2. ss \in Seq(Seq(Nat))
    BY <1>1, <2>1, SeqDef
  <2> QED BY <1>1, <2>1, <2>2, LenProperties
<1>3. \A n \in DOMAIN rows : \/ SameId(rows[n], S) # {} /\ ss[n] = <<rows[n]>>
                             \/ ss[n] = <<>>
  OBVIOUS
<1>4. Kept(S) = kept
  BY DEF Kept
<1> HIDE DEF ss, kept
<1>5. /\ kept \in Seq(Nat)
      /\ \A m \in DOMAIN kept : \E i \in DOMAIN ss : \E n \in DOMAIN ss[i] : kept[m] = ss[i][n]
  BY <1>2, FlattenMembers DEF kept
<1>6. \A m \in DOMAIN kept :
        \E n \in DOMAIN rows : kept[m] = rows[n] /\ SameId(rows[n], S) # {}
  <2> SUFFICES ASSUME NEW m \in DOMAIN kept
               PROVE  \E n \in DOMAIN rows : kept[m] = rows[n] /\ SameId(rows[n], S) # {}
    OBVIOUS
  <2>1. PICK i \in DOMAIN ss : \E n \in DOMAIN ss[i] : kept[m] = ss[i][n]
    BY <1>5
  <2>2. PICK n \in DOMAIN ss[i] : kept[m] = ss[i][n]
    BY <2>1
  <2>3. ss[i] = <<rows[i]>> /\ n = 1 /\ SameId(rows[i], S) # {} /\ i \in DOMAIN rows
    BY <1>2, <1>3
  <2> QED BY <2>2, <2>3
<1>7. \A m, n \in DOMAIN kept : kept[m] = kept[n] => m = n
  <2>1. \A m, n \in DOMAIN rows : rows[m] = rows[n] => m = n
    BY DEF RowsInv
  <2>2. \A i \in 1 .. Len(rows) : ss[i] = <<>> \/ ss[i] = <<rows[i]>>
    BY <1>1, <1>3
  <2> QED BY <1>1, <1>2, <2>1, <2>2, FlattenKeepsApart DEF kept
<1>8. \A m, n \in DOMAIN kept : getFlowId(kept[m]) = getFlowId(kept[n]) => kept[m] = kept[n]
  BY <1>6 DEF RowsInv
<1> QED BY <1>4, <1>5, <1>6, <1>7, <1>8

\* The assignments are from the flow of the snapshot to the row of its identity.
LEMMA CopiesAreOfOneFlow ==
  ASSUME NEW kept \in Seq(Nat), NEW S \in SUBSET Nat,
         \A n \in DOMAIN kept : SameId(kept[n], S) # {}
  PROVE  /\ Copies(kept, S) \in Seq(Copy)
         /\ \A m \in DOMAIN Copies(kept, S) :
              LET c == Copies(kept, S)[m]
              IN  /\ \E n \in DOMAIN kept : c.to = kept[n]
                  /\ c.from \in S /\ getFlowId(c.from) = getFlowId(c.to)
<1> DEFINE found(n) == CHOOSE j \in SameId(kept[n], S) : TRUE
           ss == [n \in DOMAIN kept |-> CopiesOf(kept[n], found(n))]
           all == FlattenSeq(ss)
<1>1. /\ Len(kept) \in Nat /\ DOMAIN kept = 1 .. Len(kept)
      /\ \A n \in DOMAIN kept : kept[n] \in Nat
  BY LenProperties, ElementOfSeq
<1>2. \A n \in DOMAIN kept : /\ found(n) \in S /\ found(n) \in Nat
                             /\ getFlowId(found(n)) = getFlowId(kept[n])
  BY DEF SameId
<1>3. Copies(kept, S) = all
  BY DEF Copies
<1> HIDE DEF found
<1>4. \A n \in DOMAIN kept : /\ ss[n] = CopiesOf(kept[n], found(n))
                             /\ ss[n] \in Seq(Copy)
                             /\ \A x \in DOMAIN ss[n] : /\ ss[n][x].to = kept[n]
                                                        /\ ss[n][x].from = found(n)
  <2> SUFFICES ASSUME NEW n \in DOMAIN kept
               PROVE  LET cs == CopiesOf(kept[n], found(n))
                      IN  /\ cs \in Seq(Copy)
                          /\ \A x \in DOMAIN cs : cs[x].to = kept[n] /\ cs[x].from = found(n)
    OBVIOUS
  <2> DEFINE cs == CopiesOf(kept[n], found(n))
  <2>1. Fields \in Seq(FieldNames)
    BY DEF Fields, FieldNames
  <2>2. /\ Len(Fields) \in Nat /\ DOMAIN Fields = 1 .. Len(Fields)
        /\ \A x \in DOMAIN Fields : Fields[x] \in FieldNames
    BY <2>1, LenProperties, ElementOfSeq
  <2>3. cs = [x \in DOMAIN Fields |-> [to |-> kept[n], from |-> found(n), field |-> Fields[x]]]
    BY DEF CopiesOf
  <2>4. cs \in [1 .. Len(Fields) -> Copy]
    BY <1>1, <1>2, <2>2, <2>3 DEF Copy
  <2> HIDE DEF cs
  <2>5. cs \in Seq(Copy)
    BY <2>2, <2>4, SeqDef
  <2> QED BY <2>3, <2>5 DEF cs
<1>5. ss \in Seq(Seq(Copy)) /\ DOMAIN ss = DOMAIN kept
  <2>1. ss \in [1 .. Len(kept) -> Seq(Copy)]
    <3> DEFINE T == Seq(Copy)
    <3>1. \A n \in 1 .. Len(kept) : ss[n] \in T
      BY <1>1, <1>4
    <3> HIDE DEF T
    <3> QED BY <1>1, <3>1 DEF T
  <2> HIDE DEF ss
  <2>2. ss \in Seq(Seq(Copy))
    BY <1>1, <2>1, SeqDef
  <2> QED BY <1>1, <2>1, <2>2
<1> HIDE DEF ss
<1>6. /\ all \in Seq(Copy)
      /\ \A m \in DOMAIN all : \E i \in DOMAIN ss : \E n \in DOMAIN ss[i] : all[m] = ss[i][n]
  BY <1>5, FlattenMembers
<1> HIDE DEF all
<1>7. ASSUME NEW m \in DOMAIN all
      PROVE  /\ \E n \in DOMAIN kept : all[m].to = kept[n]
             /\ all[m].from \in S /\ getFlowId(all[m].from) = getFlowId(all[m].to)
  <2>1. PICK i \in DOMAIN ss : \E n \in DOMAIN ss[i] : all[m] = ss[i][n]
    BY <1>6
  <2>2. PICK n \in DOMAIN ss[i] : all[m] = ss[i][n]
    BY <2>1
  <2> QED BY <1>2, <1>4, <1>5, <2>2
<1> QED BY <1>3, <1>6, <1>7

\* The first part of a refresh: the kept rows and their assignments.
LEMMA RefreshBeginsLive ==
  ASSUME LiveInv, RefreshBegins
  PROVE  LiveInv'
<1>1. /\ snapshot' = Current /\ rows' = Kept(Current) /\ todo' = Copies(Kept(Current), Current)
      /\ uiPc' = "load" /\ loaded' = loaded /\ refs' = refs
      /\ flows' = flows /\ heap' = heap /\ Places' = Places /\ UNCHANGED vars
  BY DEF RefreshBegins, vars, Places
<1>2. Inv'
  BY <1>1 DEF LiveInv, Inv, TypeOK, vars, TableKeyed, OpenIffInTable, InTable
<1>3. /\ Current \in SUBSET Places /\ \A i \in Current : Open(i)
      /\ \A i, j \in Current : getFlowId(i) = getFlowId(j) => i = j
  BY CurrentFlows DEF LiveInv
<1> DEFINE kept == Kept(Current)
           all == Copies(kept, Current)
<1>4. /\ kept \in Seq(Nat)
      /\ \A m \in DOMAIN kept :
           \E n \in DOMAIN rows : kept[m] = rows[n] /\ SameId(rows[n], Current) # {}
      /\ \A m, n \in DOMAIN kept : getFlowId(kept[m]) = getFlowId(kept[n]) => m = n
  BY KeptRows DEF LiveInv
<1> HIDE DEF kept
<1>5. \A n \in DOMAIN kept : kept[n] \in Places /\ SameId(kept[n], Current) # {}
  BY <1>4 DEF LiveInv, UiType
<1>6. Current \in SUBSET Nat
  <2>1. Places \in SUBSET Nat
    BY LenProperties DEF LiveInv, Inv, TypeOK, Places
  <2> QED BY <1>3, <2>1
<1>7. /\ all \in Seq(Copy)
      /\ \A m \in DOMAIN all : /\ \E n \in DOMAIN kept : all[m].to = kept[n]
                               /\ all[m].from \in Current
                               /\ getFlowId(all[m].from) = getFlowId(all[m].to)
  BY <1>4, <1>5, <1>6, CopiesAreOfOneFlow
<1> HIDE DEF all
<1>8. rows' = kept /\ todo' = all
  BY <1>1 DEF kept, all
<1>9. \A m \in DOMAIN all : all[m].to \in Places /\ all[m].from \in Places
  BY <1>3, <1>5, <1>7
<1>10. UiType'
  BY <1>1, <1>3, <1>4, <1>5, <1>7, <1>8, <1>9 DEF LiveInv, UiType
<1>11. \A i : (getFlowId(i))' = getFlowId(i) /\ (Open(i)' <=> Open(i))
  BY <1>1 DEF getFlowId, Open
<1>12. RowsInv'
  <2>1. \A n \in DOMAIN kept : \E j \in Current : getFlowId(j) = getFlowId(kept[n])
    BY <1>5 DEF SameId
  <2> QED BY <1>1, <1>3, <1>4, <1>8, <1>11, <2>1 DEF RowsInv
<1>13. ASSUME NEW m \in DOMAIN all, Open(all[m].to)
       PROVE  all[m].to = all[m].from
  <2> DEFINE i == all[m].to
             j == all[m].from
  <2>1. i \in Places /\ j \in Places /\ Open(i) /\ Open(j)
    BY <1>3, <1>7, <1>9, <1>13
  <2>2. getFlowId(i) = getFlowId(j)
    BY <1>7
  <2> HIDE DEF i, j
  <2>3. ConversationOf(heap[i]) = ConversationOf(heap[j])
    BY <2>2 DEF getFlowId, ConversationOf
  <2>4. OneOpenFlow
    BY OpenFlowIsUnique DEF LiveInv
  <2>5. i = j
    BY <2>1, <2>3, <2>4 DEF OneOpenFlow, Open
  <2> QED BY <2>5 DEF i, j
<1>14. SelfCopies'
  BY <1>8, <1>11, <1>13 DEF SelfCopies
<1>15. CopyInv'
  BY <1>1, <1>11, <1>14 DEF LiveInv, CopyInv, LoadedBehind
<1>16. RefInv'
  <2>1. RefsOwned'
    BY <1>1 DEF LiveInv, RefInv, RefsOwned, Target, getFlowId, Open
  <2>2. CopiesMatch'
    BY <1>7, <1>8, <1>11 DEF CopiesMatch
  <2> QED BY <1>1, <2>1, <2>2 DEF RefInv, LoadedMatches
<1> QED BY <1>2, <1>10, <1>12, <1>15, <1>16 DEF LiveInv

\* Putting a finite set in any order gives each member one row.
LEMMA ShownOnce ==
  ASSUME NEW S, IsFiniteSet(S), NEW s \in SetToSeqs(S)
  PROVE  /\ s \in Seq(S)
         /\ \A x \in S : \E n \in DOMAIN s : s[n] = x
         /\ \A m, n \in DOMAIN s : s[m] = s[n] => m = n
<1> DEFINE D == 1 .. Cardinality(S)
<1>1. Cardinality(S) \in Nat
  BY FS_CardinalityType
<1>2. s \in [D -> S] /\ \A m, n \in D : m # n => s[m] # s[n]
  BY DEF SetToSeqs
<1>3. IsFiniteSet(D) /\ Cardinality(D) = Cardinality(S)
  BY <1>1, FS_Interval
<1>4. s \in Injection(D, S)
  BY <1>2 DEF Injection, IsInjective
<1>5. s \in Surjection(D, S)
  BY <1>3, <1>4, FS_Injection
<1>6. \A x \in S : \E n \in D : s[n] = x
  BY <1>5 DEF Surjection
<1>7. s \in Seq(S) /\ DOMAIN s = D
  BY <1>1, <1>2
<1> QED BY <1>2, <1>6, <1>7

\* The last part of a refresh: a row for each flow that has none yet.
LEMMA RefreshEndsLive ==
  ASSUME LiveInv, RefreshEnds
  PROVE  LiveInv'
<1> DEFINE S == ToSet(rows) \cup Added(snapshot)
<1>1. /\ uiPc' = "idle" /\ todo' = todo /\ loaded' = loaded /\ snapshot' = snapshot
      /\ refs' = refs
      /\ flows' = flows /\ heap' = heap /\ Places' = Places /\ UNCHANGED vars
  BY DEF RefreshEnds, vars, Places
<1>2. Inv'
  BY <1>1 DEF LiveInv, Inv, TypeOK, vars, TableKeyed, OpenIffInTable, InTable
<1>3. PICK shown \in SetToSeqs(S) : rows' = shown
  BY DEF RefreshEnds
<1>4. S \in SUBSET Places /\ Places \in SUBSET Nat /\ IsFiniteSet(S)
  <2>1. \A n \in DOMAIN rows : rows[n] \in Places
    BY DEF LiveInv, UiType
  <2>2. S \in SUBSET Places
    BY <2>1 DEF LiveInv, UiType, ToSet, Added
  <2>3. Places = 1 .. Len(heap) /\ Len(heap) \in Nat
    BY DEF LiveInv, Inv, TypeOK, Places
  <2>4. IsFiniteSet(Places)
    BY <2>3, FS_Interval
  <2> HIDE DEF S
  <2>5. IsFiniteSet(S)
    BY <2>2, <2>4, FS_Subset
  <2>6. Places \in SUBSET Nat
    BY <2>3
  <2> QED BY <2>2, <2>5, <2>6
<1>5. \A i, j \in S : getFlowId(i) = getFlowId(j) => i = j
  <2>1. \A i, j \in ToSet(rows) : getFlowId(i) = getFlowId(j) => i = j
    BY DEF LiveInv, RowsInv, ToSet
  <2>2. \A i, j \in Added(snapshot) : getFlowId(i) = getFlowId(j) => i = j
    BY DEF LiveInv, RowsInv, Added
  <2>3. \A i \in ToSet(rows), j \in Added(snapshot) : getFlowId(i) # getFlowId(j)
    BY DEF ToSet, Added
  <2> QED BY <2>1, <2>2, <2>3
<1>6. \A i \in S : \E j \in snapshot : getFlowId(j) = getFlowId(i)
  <2>1. \A i \in ToSet(rows) : \E j \in snapshot : getFlowId(j) = getFlowId(i)
    BY DEF LiveInv, RowsInv, ToSet
  <2>2. \A i \in Added(snapshot) : i \in snapshot
    BY DEF Added
  <2> QED BY <2>1, <2>2
<1>7. \A j \in snapshot : \E i \in S : getFlowId(i) = getFlowId(j)
  <2> SUFFICES ASSUME NEW j \in snapshot PROVE \E i \in S : getFlowId(i) = getFlowId(j)
    OBVIOUS
  <2>1. CASE j \in Added(snapshot)
    BY <2>1
  <2>2. CASE j \notin Added(snapshot)
    <3>1. PICK n \in DOMAIN rows : getFlowId(rows[n]) = getFlowId(j)
      BY <2>2 DEF Added
    <3>2. rows[n] \in S
      BY DEF ToSet
    <3> QED BY <3>1, <3>2
  <2> QED BY <2>1, <2>2
<1> HIDE DEF S
<1>8. /\ shown \in Seq(S)
      /\ \A x \in S : \E n \in DOMAIN shown : shown[n] = x
      /\ \A m, n \in DOMAIN shown : shown[m] = shown[n] => m = n
  BY <1>4, ShownOnce
<1>9. \A n \in DOMAIN shown : shown[n] \in S
  BY <1>8, LenProperties, ElementOfSeq
<1>10. shown \in Seq(Nat)
  <2>1. Len(shown) \in Nat /\ shown \in [1 .. Len(shown) -> S]
    BY <1>8, LenProperties
  <2>2. \A i \in S : i \in Nat
    BY <1>4
  <2>3. shown \in [1 .. Len(shown) -> Nat]
    BY <2>1, <2>2
  <2> QED BY <2>1, <2>3, SeqDef
<1>11. UiType'
  BY <1>1, <1>3, <1>4, <1>9, <1>10 DEF LiveInv, UiType
<1>12. \A i : (getFlowId(i))' = getFlowId(i) /\ (Open(i)' <=> Open(i))
  BY <1>1 DEF getFlowId, Open
<1>13. RowsInv'
  <2>1. \A m, n \in DOMAIN shown : getFlowId(shown[m]) = getFlowId(shown[n]) => m = n
    BY <1>5, <1>8, <1>9
  <2>2. \A n \in DOMAIN shown : \E j \in snapshot : getFlowId(j) = getFlowId(shown[n])
    BY <1>6, <1>9
  <2>3. \A j \in snapshot : \E n \in DOMAIN shown : getFlowId(shown[n]) = getFlowId(j)
    BY <1>7, <1>8
  <2>4. \A i, j \in snapshot : getFlowId(i) = getFlowId(j) => i = j
    BY DEF LiveInv, RowsInv
  <2> QED BY <1>1, <1>3, <1>12, <2>1, <2>2, <2>3, <2>4 DEF RowsInv
<1>14. CopyInv'
  BY <1>1, <1>12 DEF LiveInv, CopyInv, SelfCopies, LoadedBehind
<1>15. RefInv'
  BY <1>1 DEF LiveInv, RefInv, RefsOwned, CopiesMatch, LoadedMatches, Target, getFlowId, Open
<1> QED BY <1>2, <1>11, <1>13, <1>14, <1>15 DEF LiveInv

\* The invariant holds before the first refresh,
LEMMA LiveInitInv == LiveInit => LiveInv
<1> SUFFICES ASSUME LiveInit PROVE LiveInv
  OBVIOUS
<1>1. /\ Inv /\ rows = <<>> /\ snapshot = {} /\ todo = <<>> /\ uiPc = "idle"
      /\ DOMAIN refs = {}
      /\ Places = {}
  BY InitInv DEF LiveInit, Init, Places
<1>2. UiType
  BY <1>1 DEF UiType
<1>3. RefInv
  BY <1>1 DEF RefInv, RefsOwned, CopiesMatch, LoadedMatches
<1> QED BY <1>1, <1>2, <1>3 DEF LiveInv, RowsInv, CopyInv, SelfCopies, LoadedBehind

\* and in every step of the aggregator and of the dashboard.
LEMMA LiveStepInv == LiveInv /\ [LiveNext]_liveVars => LiveInv'
<1> SUFFICES ASSUME LiveInv, [LiveNext]_liveVars PROVE LiveInv'
  OBVIOUS
<1>1. CASE Next /\ UNCHANGED ui
  BY <1>1, NextLive
<1>2. CASE RefreshBegins
  BY <1>2, RefreshBeginsLive
<1>3. CASE CopyLoads
  BY <1>3, CopyLoadsLive
<1>4. CASE CopyStores
  BY <1>4, CopyStoresLive
<1>5. CASE RefreshEnds
  BY <1>5, RefreshEndsLive
<1>6. CASE UNCHANGED <<vars, rows, snapshot, todo, loaded, refs, uiPc>>
  <2>1. Inv' /\ UiType' /\ RowsInv' /\ CopyInv'
    BY <1>6
       DEF vars, LiveInv, Inv, TypeOK, Places, TableKeyed, OpenIffInTable, InTable, UiType,
           RowsInv, getFlowId, CopyInv, SelfCopies, LoadedBehind, Open
  <2>2. RefInv'
    BY <1>6
       DEF vars, LiveInv, RefInv, RefsOwned, CopiesMatch, LoadedMatches, Target, Places,
           getFlowId, Open
  <2> QED BY <2>1, <2>2 DEF LiveInv
<1> QED
  BY <1>1, <1>2, <1>3, <1>4, <1>5, <1>6 DEF LiveNext, liveVars, ui, TogglePause

\* What the aggregator and the dashboard keep true together.
THEOREM LiveInvariance == LiveSpec => []LiveInv
BY LiveInitInv, LiveStepInv, PTL DEF LiveSpec

\* However refreshes fall between packets and sweeps, no conversation has two
\* rows, and a refresh that has ended shows exactly what GetAllFlows returned.
THEOREM OneRowAlways == LiveSpec => []OneRowPerFlow
<1>1. LiveInv => OneRowPerFlow
  BY DEF LiveInv, RowsInv, OneRowPerFlow
<1> QED BY <1>1, LiveInvariance, PTL

\* What a flow keeps of its packets out of the refresh's reach, and that the
\* statistics have as many.
Keeps(f) == /\ Total(f.dstPorts) = Seen(f)
            /\ Len(f.history) = IF Seen(f) < PacketBufferSize THEN Seen(f) ELSE PacketBufferSize
            /\ \A n \in DOMAIN f.history : RecordBelongs(f, f.history[n])
AllSeen == globalStats.totalPackets = Total([i \in Places |-> Seen(heap[i])])
KeepInv == (\A i \in Places : Keeps(heap[i])) /\ AllSeen

\* A flow that has counted nothing yet has nothing to keep.
LEMMA NewFlowKeeps ==
  ASSUME NEW e \in PacketEvents, NEW now \in Nat
  PROVE  Keeps(NewFlow(e, now)) /\ Seen(NewFlow(e, now)) = 0
<1> DEFINE f == NewFlow(e, now)
           zeros == [p \in Ports |-> 0]
<1>1. f.history = <<>> /\ f.srcPorts = zeros /\ f.dstPorts = zeros
  BY DEF NewFlow
<1> HIDE DEF f
<1>2. Total(zeros) = 0
  <2>1. IsFiniteSet(DOMAIN zeros) /\ \A p \in DOMAIN zeros : zeros[p] = 0
    BY PortsAssumption
  <2> HIDE DEF zeros
  <2> QED BY <2>1, TotalZero
<1> HIDE DEF zeros
<1>3. Seen(f) = 0 /\ Total(f.dstPorts) = 0
  BY <1>1, <1>2 DEF Seen
<1>4. Len(f.history) = 0 /\ DOMAIN f.history = {}
  BY <1>1
<1> QED BY <1>3, <1>4, BoundsAssumption DEF Keeps, f

\* Counting a port adds one to the total, whichever port it is.
LEMMA OneMoreSeen ==
  ASSUME NEW counts \in Counter, NEW p \in Ports
  PROVE  Total(Bumped(counts, p)) = Total(counts) + 1
<1> DEFINE more == Bumped(counts, p)
<1>1. /\ DOMAIN counts = Ports /\ DOMAIN more = DOMAIN counts
      /\ more[p] = counts[p] + 1 /\ \A q \in DOMAIN counts : q # p => more[q] = counts[q]
  BY DEF Bumped, Counter
<1> HIDE DEF more
<1> QED BY <1>1, PortsSummable, TotalChanges DEF more

\* Another packet of its conversation is kept like those before it.
LEMMA UpdatedKeeps ==
  ASSUME NEW e \in PacketEvents, NEW now \in Nat, NEW f \in Flow, Keeps(f),
         ConversationOf(f) = <<{e.saddr, e.daddr}, ProtocolName(e.proto)>>
  PROVE  Keeps(Updated(f, e, now)) /\ Seen(Updated(f, e, now)) = Seen(f) + 1
<1> DEFINE u == Updated(f, e, now)
           r == RecordOf(f, e, now)
           h == f.history
           g == u.history
<1>1. r \in Record /\ RecordBelongs(f, r)
  BY RecordOfBelongs
<1>2. /\ g = Remember(h, r) /\ u.src = f.src /\ u.dst = f.dst
      /\ u.srcPorts = Bumped(f.srcPorts, e.sport) /\ u.dstPorts = Bumped(f.dstPorts, e.dport)
  BY DEF Updated
<1>3. /\ h \in Seq(Record) /\ Len(h) \in Nat
      /\ f.srcPorts \in Counter /\ f.dstPorts \in Counter
      /\ e.sport \in Ports /\ e.dport \in Ports
  BY EventType, LenProperties DEF Flow
<1>4. /\ Len(h) = IF Seen(f) < PacketBufferSize THEN Seen(f) ELSE PacketBufferSize
      /\ Total(f.dstPorts) = Seen(f)
      /\ \A n \in DOMAIN h : RecordBelongs(f, h[n])
  BY DEF Keeps
<1> HIDE DEF u, r, h, g
<1>5. Seen(f) \in Nat /\ Seen(u) = Seen(f) + 1 /\ Total(u.dstPorts) = Seen(f) + 1
  BY <1>2, <1>3, <1>4, PortsSummable, OneMoreSeen DEF Seen
<1>6. Len(h) <= PacketBufferSize /\ PacketBufferSize \in Nat \ {0}
  BY <1>3, <1>4, BoundsAssumption
<1>7. /\ g \in Seq(Record) /\ Len(g) = Len(h) + 1 - Dropped(h)
      /\ \A n \in 1 .. Len(g) :
           IF n = Len(g) THEN g[n] = r
           ELSE n + Dropped(h) \in DOMAIN h /\ g[n] = h[n + Dropped(h)]
  BY <1>1, <1>2, <1>3, <1>6, RememberKeeps
<1>8. Len(g) = IF Seen(u) < PacketBufferSize THEN Seen(u) ELSE PacketBufferSize
  BY <1>3, <1>4, <1>5, <1>6, <1>7 DEF Dropped
<1>9. \A n \in DOMAIN g : RecordBelongs(u, g[n])
  <2>1. \A n \in DOMAIN g : RecordBelongs(f, g[n])
    BY <1>1, <1>4, <1>7, LenProperties
  <2> QED BY <1>2, <2>1 DEF RecordBelongs
<1> QED BY <1>5, <1>8, <1>9 DEF Keeps, u, g

\* There are finitely many flows, each of which has seen a number of packets.
LEMMA SeenSummable ==
  ASSUME TypeOK
  PROVE  Summable([i \in Places |-> Seen(heap[i])])
<1>1. IsFiniteSet(Places)
  BY FlowsSummable DEF Summable
<1>2. ASSUME NEW i \in Places PROVE Seen(heap[i]) \in Nat
  <2>1. heap[i] \in Flow
    BY DEF TypeOK, Places
  <2> QED BY <2>1, PortsSummable DEF Flow, Seen
<1> QED BY <1>1, <1>2 DEF Summable

\* A packet is seen by its flow and by the statistics alike.
LEMMA ProcessEventKeeps ==
  ASSUME Inv, KeepInv, ProcessEvent
  PROVE  KeepInv'
<1> DEFINE e == job.evt
           now == job.now
<1>1. /\ e \in PacketEvents /\ now \in Nat /\ globalStats' = Counted(e, now)
  BY ProcessEventWrites
<1> DEFINE Case(n, f) ==
             /\ ConversationOf(f) = <<{e.saddr, e.daddr}, ProtocolName(e.proto)>>
             /\ heap'[n] = Updated(f, e, now)
             /\ \A i \in Places' : i # n => i \in Places /\ heap'[i] = heap[i]
             /\ \/ n \in Places /\ f = heap[n] /\ Places' = Places
                \/ n \notin Places /\ f = NewFlow(e, now) /\ Places' = Places \cup {n}
<1>2. PICK n \in Places' : \E f \in Flow : Case(n, f)
  BY ProcessEventWrites
<1>3. PICK f \in Flow : Case(n, f)
  BY <1>2
<1> DEFINE u == Updated(f, e, now)
<1> HIDE DEF e, now
<1>4. Keeps(f)
  BY <1>1, <1>3, NewFlowKeeps DEF KeepInv
<1>5. Keeps(u) /\ Seen(u) = Seen(f) + 1
  BY <1>1, <1>3, <1>4, UpdatedKeeps
<1> HIDE DEF u
<1>6. heap'[n] = u
  BY <1>3 DEF u
<1>7. (\A i \in Places : Keeps(heap[i]))'
  BY <1>3, <1>5, <1>6 DEF KeepInv
<1> DEFINE seen == [i \in Places |-> Seen(heap[i])]
           more == [i \in Places' |-> Seen(heap'[i])]
<1>8. Summable(seen)
  BY SeenSummable DEF Inv
<1>9. Total(more) = Total(seen) + 1
  <2>1. \A i \in Places' : i # n => i \in Places /\ heap'[i] = heap[i]
    BY <1>3
  <2>2. CASE n \in Places /\ f = heap[n] /\ Places' = Places
    <3>1. /\ DOMAIN more = DOMAIN seen /\ n \in DOMAIN seen /\ more[n] = seen[n] + 1
          /\ \A i \in DOMAIN seen : i # n => more[i] = seen[i]
      BY <1>5, <1>6, <2>1, <2>2
    <3> HIDE DEF seen, more
    <3> QED BY <1>8, <3>1, TotalChanges
  <2>3. CASE n \notin Places /\ f = NewFlow(e, now) /\ Places' = Places \cup {n}
    <3>1. Seen(u) = 1
      BY <1>1, <1>5, <2>3, NewFlowKeeps
    <3>2. /\ n \notin DOMAIN seen /\ DOMAIN more = DOMAIN seen \cup {n} /\ more[n] = 1
          /\ \A i \in DOMAIN seen : more[i] = seen[i]
      BY <1>6, <2>1, <2>3, <3>1
    <3> HIDE DEF seen, more
    <3>3. Total(more) = Total(seen) + more[n]
      BY <1>8, <3>2, TotalGrows
    <3> QED BY <3>2, <3>3
  <2> QED BY <1>3, <2>2, <2>3
<1>10. globalStats'.totalPackets = globalStats.totalPackets + 1
  BY <1>1 DEF Counted, Inv, TypeOK
<1>11. globalStats.totalPackets = Total(seen)
  BY DEF KeepInv, AllSeen
<1>12. AllSeen'
  <2> HIDE DEF seen
  <2>1. globalStats'.totalPackets = Total(more)
    BY <1>9, <1>10, <1>11
  <2> QED BY <2>1 DEF AllSeen
<1> QED BY <1>7, <1>12 DEF KeepInv

\* What Keeps speaks of, the sweep and the refresh leave as it is.
SameKept(f, g) == /\ g.src = f.src /\ g.dst = f.dst /\ g.history = f.history
                  /\ g.srcPorts = f.srcPorts /\ g.dstPorts = f.dstPorts

\* So everything stays accounted for.
LEMMA NothingSeenChanges ==
  ASSUME KeepInv, Places' = Places, UNCHANGED globalStats,
         \A i \in Places : SameKept(heap[i], heap'[i])
  PROVE  KeepInv'
<1>1. ASSUME NEW i \in Places PROVE Keeps(heap'[i]) /\ Seen(heap'[i]) = Seen(heap[i])
  <2> DEFINE f == heap[i]
             g == heap'[i]
  <2>1. Keeps(f) /\ SameKept(f, g)
    BY DEF KeepInv
  <2> HIDE DEF f, g
  <2>2. Seen(g) = Seen(f) /\ \A r : RecordBelongs(f, r) <=> RecordBelongs(g, r)
    BY <2>1 DEF SameKept, Seen, RecordBelongs
  <2> QED BY <2>1, <2>2 DEF Keeps, SameKept, f, g
<1>2. [i \in Places |-> Seen(heap[i])] = [i \in Places' |-> Seen(heap'[i])]
  BY <1>1
<1>3. AllSeen'
  <2>1. globalStats'.totalPackets = Total([i \in Places' |-> Seen(heap'[i])])
    BY <1>2 DEF KeepInv, AllSeen
  <2> QED BY <2>1 DEF AllSeen
<1> QED BY <1>1, <1>3 DEF KeepInv

\* Everything is accounted for before the first packet,
LEMMA InitKeeps == Init => KeepInv
<1> SUFFICES ASSUME Init PROVE KeepInv
  OBVIOUS
<1>1. Places = {} /\ globalStats.totalPackets = 0
  BY DEF Init, Places
<1> DEFINE seen == [i \in Places |-> Seen(heap[i])]
<1>2. Total(seen) = 0
  <2>1. IsFiniteSet(DOMAIN seen) /\ DOMAIN seen = {}
    BY <1>1, FS_EmptySet
  <2> HIDE DEF seen
  <2> QED BY <2>1, TotalZero
<1> QED BY <1>1, <1>2 DEF KeepInv, AllSeen

\* and after every step of the aggregator and of the dashboard.
LEMMA LiveStepKeeps == LiveInv /\ KeepInv /\ [LiveNext]_liveVars => KeepInv'
<1> SUFFICES ASSUME LiveInv, KeepInv, [LiveNext]_liveVars PROVE KeepInv'
  OBVIOUS
<1>1. \A i \in Places : heap[i] \in Flow
  BY DEF LiveInv, Inv, TypeOK, Places
<1>2. CASE [Next]_vars
  <2>1. CASE ProcessEvent
    BY <2>1, ProcessEventKeeps DEF LiveInv
  <2>2. CASE CloseIdleFlows
    <3>1. /\ Places' = Places /\ UNCHANGED globalStats
          /\ \A i \in Places : \/ heap'[i] = heap[i]
                               \/ heap'[i] = [heap[i] EXCEPT !.state = "closed"]
      BY <2>2, CloseIdleFlowsWrites
    <3>2. \A f \in Flow : SameKept(f, [f EXCEPT !.state = "closed"])
      BY DEF Flow, SameKept
    <3>3. \A i \in Places : SameKept(heap[i], heap'[i])
      BY <1>1, <3>1, <3>2 DEF SameKept
    <3> QED BY <3>1, <3>3, NothingSeenChanges
  <2>3. CASE ~ProcessEvent /\ ~CloseIdleFlows
    <3>1. UNCHANGED <<heap, globalStats>>
      BY <1>2, <2>3, OthersWriteNothing
    <3> QED BY <3>1, NothingSeenChanges DEF SameKept, Places
  <2> QED BY <2>1, <2>2, <2>3
<1>3. CASE CopyStores
  <2> DEFINE i == todo[1].to
             x == todo[1].field
             g == [heap[i] EXCEPT ![x] = loaded]
  <2>1. uiPc = "store" /\ todo # <<>>
    BY <1>3 DEF CopyStores, LiveInv, UiType
  <2>2. Head(todo) = todo[1] /\ i \in Places /\ x \in FieldNames
    BY <2>1, FirstCopy DEF LiveInv, UiType
  <2>3. /\ UNCHANGED globalStats
        /\ heap' = heap \/ (x \notin References /\ heap' = [heap EXCEPT ![i] = g])
    BY <1>3, <2>2 DEF CopyStores
  <2>4. x \notin References => SameKept(heap[i], g)
    BY <1>1, <2>2 DEF Flow, FieldNames, References, SameKept
  <2> HIDE DEF i, x, g
  <2>5. Places' = Places /\ \A j \in Places : SameKept(heap[j], heap'[j])
    <3>1. CASE heap' = heap
      BY <3>1 DEF Places, SameKept
    <3>2. CASE x \notin References /\ heap' = [heap EXCEPT ![i] = g]
      <4>1. Places' = Places /\ \A j \in Places : heap'[j] = IF j = i THEN g ELSE heap[j]
        BY <3>2 DEF Places
      <4> QED BY <2>4, <3>2, <4>1 DEF SameKept
    <3> QED BY <2>3, <3>1, <3>2
  <2> QED BY <2>3, <2>5, NothingSeenChanges
<1>4. CASE UNCHANGED vars
  BY <1>4, NothingSeenChanges DEF vars, SameKept, Places
<1> QED
  BY <1>2, <1>3, <1>4
     DEF LiveNext, liveVars, RefreshBegins, CopyLoads, RefreshEnds, TogglePause

\* The dashboard's unlocked assignments, each a load and a store with the
\* aggregator's updates in between, never put an open flow's packet counters
\* ahead of the packets there were, and whatever these counters lose, the port
\* counts, the statistics (internal/monitor/aggregator.go:190-262) and the history
\* that every open flow keeps for itself have all of it, though the refresh gives
\* a closed flow's row another's history (internal/tui/dashboard.go:1228).
THEOREM CountersStayBehind == LiveSpec => []CountersNeverAhead
<1>1. LiveInit => KeepInv
  BY InitKeeps DEF LiveInit
<1>2. LiveSpec => []KeepInv
  BY <1>1, LiveInvariance, LiveStepKeeps, PTL DEF LiveSpec
<1>3. LiveInv /\ KeepInv => AllAccountedFor
  <2> SUFFICES ASSUME LiveInv, KeepInv PROVE AllAccountedFor
    OBVIOUS
  <2>1. globalStats.totalPackets = TotalOf(Seen)
    BY DEF KeepInv, AllSeen, TotalOf
  <2>2. \A i \in Places : Keeps(heap[i])
    BY DEF KeepInv
  <2>3. ASSUME NEW i \in Places
        PROVE  /\ Total(heap[i].dstPorts) = Seen(heap[i])
               /\ heap[i].state # "closed" => Owns(i)
               /\ Owns(i) => HistoryComplete(i)
               /\ HistoryIsOf(i)
    <3> DEFINE j == Target(i, "history")
    <3>1. j \in Places /\ getFlowId(j) = getFlowId(i)
      BY DEF LiveInv, RefInv, RefsOwned, References
    <3>2. heap[i].state # "closed" => Owns(i)
      BY DEF LiveInv, RefInv, RefsOwned, Owns, Open
    <3>3. Owns(i) => j = i
      BY DEF Owns, References
    <3>4. HistoryOf(i) = heap[j].history
      BY DEF HistoryOf
    <3> HIDE DEF j
    <3>5. heap[j].src = heap[i].src /\ heap[j].dst = heap[i].dst
      BY <3>1 DEF getFlowId
    <3>6. HistoryIsOf(i)
      <4>1. \A n \in DOMAIN heap[j].history : RecordBelongs(heap[j], heap[j].history[n])
        BY <2>2, <3>1 DEF Keeps
      <4>2. \A r : RecordBelongs(heap[j], r) <=> RecordBelongs(heap[i], r)
        BY <3>5 DEF RecordBelongs
      <4>3. \A n \in DOMAIN HistoryOf(i) : RecordBelongs(heap[i], HistoryOf(i)[n])
        BY <3>4, <4>1, <4>2
      <4> QED BY <4>3 DEF HistoryIsOf, RecordBelongs
    <3>7. Owns(i) => HistoryComplete(i)
      BY <2>2, <3>3, <3>4 DEF HistoryComplete, Keeps
    <3> QED BY <2>2, <3>2, <3>6, <3>7 DEF Keeps
  <2> QED BY <2>1, <2>3 DEF AllAccountedFor
<1>4. LiveInv /\ KeepInv => CountersNeverAhead
  BY <1>3 DEF LiveInv, CopyInv, Open, NotAhead, CountersNeverAhead, Seen
<1> QED BY <1>2, <1>4, LiveInvariance, PTL

\* Those assignments disturb neither the table nor which flows are closed.
THEOREM LiveTableIsSound == LiveSpec => []TableSound
<1>1. LiveInv => TableSound
  BY OpenFlowIsUnique DEF LiveInv, Inv, TableSound
<1> QED BY <1>1, LiveInvariance, PTL

\* Nor do they lose an event: the statistics are out of their reach, and so is what
\* processEvent has in its hands (internal/monitor/aggregator.go:98-262).
THEOREM LiveEventsAreConserved == LiveSpec => []NoEventLost
<1>1. LiveInit => NoEventLost
  BY DEF LiveInit, Init, NoEventLost
<1>2. LiveInv /\ NoEventLost /\ [LiveNext]_liveVars => NoEventLost'
  <2> SUFFICES ASSUME LiveInv, NoEventLost, [LiveNext]_liveVars PROVE NoEventLost'
    OBVIOUS
  <2>1. CASE [Next]_vars
    BY <2>1, StepLosesNoEvent DEF LiveInv, Inv
  <2>2. CASE UNCHANGED <<globalStats, input, loops>>
    BY <2>2 DEF NoEventLost, input, loops
  <2> QED
    BY <2>1, <2>2
       DEF LiveNext, liveVars, vars, input, loops, RefreshBegins, CopyLoads, CopyStores,
           RefreshEnds, TogglePause
<1> QED BY <1>1, <1>2, LiveInvariance, PTL DEF LiveSpec
=============================================================================
