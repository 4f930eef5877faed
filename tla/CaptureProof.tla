---------------------------- MODULE CaptureProof ----------------------------
(***************************************************************************)
(* For any number of CPUs and every size of the ring and of the channel,   *)
(* the counters kept along the way of a packet fit together, and the way   *)
(* is a lossy pipe: in order, at most once, every loss counted.            *)
(***************************************************************************)
EXTENDS Capture, FiniteSetTheorems, SequenceTheorems, TLAPS

Inv == TypeOK /\ CountersFit

\* The numbers of a sequence of records or events, one for each.
LEMMA IdsType ==
  ASSUME NEW S, NEW s \in Seq(S), \A x \in S : x.id \in Nat
  PROVE  /\ Ids(s) \in Seq(Nat) /\ Len(Ids(s)) = Len(s)
         /\ \A i \in 1 .. Len(s) : Ids(s)[i] = s[i].id
<1>1. DOMAIN s = 1 .. Len(s) /\ Len(s) \in Nat
  OBVIOUS
<1>2. \A i \in 1 .. Len(s) : s[i].id \in Nat
  OBVIOUS
<1>3. Ids(s) = [i \in 1 .. Len(s) |-> s[i].id]
  BY <1>1 DEF Ids
<1>4. Ids(s) \in Seq(Nat)
  BY <1>1, <1>2, <1>3
<1>5. QED
  BY <1>1, <1>3, <1>4

\* A number is added where its record or event is.
LEMMA IdsAppend ==
  ASSUME NEW S, NEW s \in Seq(S), NEW x \in S, \A y \in S : y.id \in Nat
  PROVE  Ids(Append(s, x)) = Append(Ids(s), x.id)
<1>1. Append(s, x) \in Seq(S) /\ Len(Append(s, x)) = Len(s) + 1
  OBVIOUS
<1>2. \A i \in 1 .. Len(s) + 1 : Append(s, x)[i] = IF i = Len(s) + 1 THEN x ELSE s[i]
  OBVIOUS
<1>3. /\ Ids(s) \in Seq(Nat) /\ Len(Ids(s)) = Len(s)
      /\ \A i \in 1 .. Len(s) : Ids(s)[i] = s[i].id
  BY IdsType
<1>4. /\ Ids(Append(s, x)) \in Seq(Nat) /\ Len(Ids(Append(s, x))) = Len(s) + 1
      /\ \A i \in 1 .. Len(s) + 1 : Ids(Append(s, x))[i] = Append(s, x)[i].id
  BY <1>1, IdsType
<1>5. /\ Append(Ids(s), x.id) \in Seq(Nat) /\ Len(Append(Ids(s), x.id)) = Len(s) + 1
      /\ \A i \in 1 .. Len(s) + 1 :
           Append(Ids(s), x.id)[i] = IF i = Len(s) + 1 THEN x.id ELSE Ids(s)[i]
  <2> DEFINE t == Ids(s)
             v == x.id
  <2>1. t \in Seq(Nat) /\ Len(t) = Len(s) /\ v \in Nat
    BY <1>3
  <2> HIDE DEF t, v
  <2>2. /\ Append(t, v) \in Seq(Nat) /\ Len(Append(t, v)) = Len(t) + 1
        /\ \A i \in 1 .. Len(t) + 1 : Append(t, v)[i] = IF i = Len(t) + 1 THEN v ELSE t[i]
    BY ONLY <2>1
  <2> QED BY <2>1, <2>2 DEF t, v
<1>6. \A i \in 1 .. Len(s) + 1 : Ids(Append(s, x))[i] = Append(Ids(s), x.id)[i]
  <2> DEFINE n == Len(s)
             f == Append(s, x)
             t == Ids(s)
             v == Append(t, x.id)
             w == Ids(f)
  <2>1. n \in Nat
    BY LenProperties
  <2>2. \A i \in 1 .. n + 1 : /\ f[i] = IF i = n + 1 THEN x ELSE s[i]
                              /\ w[i] = f[i].id
                              /\ v[i] = IF i = n + 1 THEN x.id ELSE t[i]
    BY <1>2, <1>4, <1>5
  <2>3. \A i \in 1 .. n : t[i] = s[i].id
    BY <1>3
  <2> HIDE DEF n, v, t, w, f
  <2>4. \A i \in 1 .. n + 1 : w[i] = v[i]
    BY ONLY <2>1, <2>2, <2>3
  <2> QED BY <2>4 DEF n, v, t, w, f
<1>7. QED
  BY <1>4, <1>5, <1>6, SeqEqual

\* The oldest number goes with its record or event.
LEMMA IdsHeadTail ==
  ASSUME NEW S, NEW s \in Seq(S), s # <<>>, \A y \in S : y.id \in Nat
  PROVE  /\ Tail(s) \in Seq(S) /\ Head(s) \in S /\ Len(Tail(s)) = Len(s) - 1
         /\ Ids(s) # <<>> /\ Head(Ids(s)) = Head(s).id /\ Tail(Ids(s)) = Ids(Tail(s))
<1>1. /\ Tail(s) \in Seq(S) /\ Head(s) \in S /\ Head(s) = s[1]
      /\ Len(s) \in Nat \ {0} /\ Len(Tail(s)) = Len(s) - 1
      /\ \A i \in 1 .. Len(s) - 1 : Tail(s)[i] = s[i + 1]
  BY HeadTailProperties
<1>2. /\ Ids(s) \in Seq(Nat) /\ Len(Ids(s)) = Len(s)
      /\ \A i \in 1 .. Len(s) : Ids(s)[i] = s[i].id
  BY IdsType
<1>3. /\ Ids(Tail(s)) \in Seq(Nat) /\ Len(Ids(Tail(s))) = Len(s) - 1
      /\ \A i \in 1 .. Len(s) - 1 : Ids(Tail(s))[i] = Tail(s)[i].id
  BY <1>1, IdsType
<1>4. Ids(s) # <<>>
  BY <1>1, <1>2
<1>5. /\ Tail(Ids(s)) \in Seq(Nat) /\ Len(Tail(Ids(s))) = Len(s) - 1
      /\ \A i \in 1 .. Len(s) - 1 : Tail(Ids(s))[i] = Ids(s)[i + 1]
      /\ Head(Ids(s)) = Ids(s)[1]
  BY <1>2, <1>4, HeadTailProperties
<1>6. \A i \in 1 .. Len(s) - 1 : Tail(Ids(s))[i] = Ids(Tail(s))[i]
  BY <1>1, <1>2, <1>3, <1>5
<1>7. Tail(Ids(s)) = Ids(Tail(s))
  BY <1>3, <1>5, <1>6, SeqEqual
<1>8. QED
  BY <1>1, <1>2, <1>4, <1>5, <1>7

-----------------------------------------------------------------------------
\* A sequence is its head before its tail.
LEMMA HeadBeforeTail ==
  ASSUME NEW s \in Seq(Nat), s # <<>>
  PROVE  /\ Head(s) \in Nat /\ Tail(s) \in Seq(Nat)
         /\ s = <<Head(s)>> \o Tail(s)
<1>1. Head(s) \in Nat /\ Tail(s) \in Seq(Nat) /\ Head(s) = s[1]
  BY HeadTailProperties
<1>2. 1 \in 1 .. Len(s) /\ Len(s) \in 1 .. Len(s) /\ 1 + 1 = 2
  OBVIOUS
<1>3. SubSeq(s, 1, Len(s)) = <<s[1]>> \o SubSeq(s, 2, Len(s))
  BY <1>2, SubSeqRecursiveFirst
<1>4. SubSeq(s, 1, Len(s)) = s /\ SubSeq(s, 2, Len(s)) = Tail(s)
  BY SubSeqFull, TailIsSubSeq
<1>5. QED
  BY <1>1, <1>3, <1>4

\* The head and the tail of a sequence put together from them.
LEMMA HeadOfConcat ==
  ASSUME NEW x \in Nat, NEW s \in Seq(Nat)
  PROVE  /\ <<x>> \o s # <<>>
         /\ Head(<<x>> \o s) = x
         /\ Tail(<<x>> \o s) = s
<1> DEFINE t == <<x>> \o s
<1>1. <<x>> \in Seq(Nat) /\ Len(<<x>>) = 1 /\ <<x>>[1] = x
  OBVIOUS
<1>2. /\ t \in Seq(Nat) /\ Len(t) = Len(s) + 1 /\ t[1] = x
      /\ \A i \in 1 .. Len(s) : t[i + 1] = s[i]
  BY <1>1, ConcatProperties
<1> HIDE DEF t
<1>3. t # <<>>
  BY <1>2
<1>4. /\ Head(t) = t[1] /\ Tail(t) \in Seq(Nat) /\ Len(Tail(t)) = Len(s)
      /\ \A i \in 1 .. Len(s) : Tail(t)[i] = t[i + 1]
  BY <1>2, <1>3, HeadTailProperties
<1>5. Tail(t) = s
  BY <1>2, <1>4, SeqEqual
<1>6. QED
  BY <1>2, <1>3, <1>4, <1>5 DEF t

\* Two stretches of numbers make one.
LEMMA ConcatNat ==
  ASSUME NEW a \in Seq(Nat), NEW b \in Seq(Nat)
  PROVE  a \o b \in Seq(Nat)
  BY ConcatProperties

\* It does not matter which of three sequences are joined first.
Regroups(S) == \A s, t, u \in Seq(S) : (s \o t) \o u = s \o (t \o u)

\* That is so for sequences of numbers.
LEMMA NumbersRegroup == Regroups(Nat)
<1>1. \A S : Regroups(S)
  BY ConcatAssociative, Zenon DEF Regroups
<1>2. QED
  BY <1>1, Zenon

\* The same of three stretches at hand.
LEMMA AssocNat ==
  ASSUME NEW a \in Seq(Nat), NEW b \in Seq(Nat), NEW c \in Seq(Nat)
  PROVE  (a \o b) \o c = a \o (b \o c)
  BY NumbersRegroup, Zenon DEF Regroups

\* The way has three stretches, laid end to end.
LEMMA ThreeParts ==
  ASSUME NEW a \in Seq(Nat), NEW b \in Seq(Nat), NEW c \in Seq(Nat)
  PROVE  /\ a \o b \o c \in Seq(Nat) /\ b \o c \in Seq(Nat)
         /\ a \o b \o c = a \o (b \o c)
         /\ Len(a \o b \o c) = Len(a) + Len(b) + Len(c)
<1>1. b \o c \in Seq(Nat) /\ a \o b \in Seq(Nat) /\ Len(a \o b) = Len(a) + Len(b)
  BY ConcatProperties
<1> DEFINE d == a \o b
<1>2. d \o c \in Seq(Nat) /\ Len(d \o c) = Len(d) + Len(c)
  <2>1. d \in Seq(Nat)
    BY <1>1
  <2> HIDE DEF d
  <2>2. QED
    BY <2>1, ConcatProperties
<1>3. QED
  BY <1>1, <1>2, AssocNat

\* A reservation lengthens the way at its far end.
LEMMA PartsEnter ==
  ASSUME NEW a \in Seq(Nat), NEW b \in Seq(Nat), NEW c \in Seq(Nat), NEW x \in Nat
  PROVE  a \o b \o Append(c, x) = Append(a \o b \o c, x)
<1>1. <<x>> \in Seq(Nat) /\ a \o b \in Seq(Nat) /\ a \o b \o c \in Seq(Nat)
  BY ThreeParts, ConcatProperties
<1>2. Append(c, x) = c \o <<x>> /\ Append(a \o b \o c, x) = (a \o b \o c) \o <<x>>
  BY <1>1, AppendIsConcat
<1>3. (a \o b) \o (c \o <<x>>) = ((a \o b) \o c) \o <<x>>
  <2> DEFINE d == a \o b
             y == <<x>>
  <2>1. d \in Seq(Nat) /\ y \in Seq(Nat)
    BY <1>1
  <2> HIDE DEF d, y
  <2>2. c \in Seq(Nat)
    OBVIOUS
  <2>3. (d \o c) \o y = d \o (c \o y)
    BY ONLY <2>1, <2>2, NumbersRegroup, Zenon DEF Regroups
  <2>4. QED
    BY <2>3 DEF d, y
<1>4. QED
  BY <1>2, <1>3

\* What readLoop reads leaves the ring and is in its hands: the way is as before.
LEMMA PartsRead ==
  ASSUME NEW a \in Seq(Nat), NEW c \in Seq(Nat), c # <<>>
  PROVE  a \o <<Head(c)>> \o Tail(c) = a \o <<>> \o c
<1>1. /\ <<Head(c)>> \in Seq(Nat) /\ Tail(c) \in Seq(Nat)
      /\ c = <<Head(c)>> \o Tail(c)
  BY HeadBeforeTail
<1>2. a \o <<Head(c)>> \o Tail(c) = a \o (<<Head(c)>> \o Tail(c))
  BY <1>1, ThreeParts
<1>3. a \o <<>> = a
  BY ConcatEmptySeq
<1>4. QED
  BY <1>1, <1>2, <1>3

\* What readLoop sends leaves its hands for the channel: the way is as before.
LEMMA PartsSend ==
  ASSUME NEW a \in Seq(Nat), NEW c \in Seq(Nat), NEW x \in Nat
  PROVE  Append(a, x) \o <<>> \o c = a \o <<x>> \o c
<1>1. Append(a, x) = a \o <<x>> /\ Append(a, x) \in Seq(Nat)
  BY AppendIsConcat, AppendProperties
<1>2. Append(a, x) \o <<>> = Append(a, x)
  BY <1>1, ConcatEmptySeq
<1>3. QED
  BY <1>1, <1>2

\* What readLoop drops is taken out of the middle of the way.
LEMMA PartsDrop ==
  ASSUME NEW a \in Seq(Nat), NEW c \in Seq(Nat), NEW x \in Nat
  PROVE  /\ Len(a) + 1 \in DOMAIN (a \o <<x>> \o c)
         /\ a \o <<>> \o c = Pipe!Without(a \o <<x>> \o c, Len(a) + 1)
<1> DEFINE b == a \o <<x>>
           s == b \o c
<1>1. <<x>> \in Seq(Nat) /\ Len(<<x>>) = 1
  OBVIOUS
<1>2. b \in Seq(Nat) /\ Len(b) = Len(a) + 1 /\ \A i \in 1 .. Len(a) : b[i] = a[i]
  BY <1>1, ConcatProperties
<1> HIDE DEF b
<1>3. /\ s \in Seq(Nat) /\ Len(s) = Len(a) + 1 + Len(c)
      /\ \A i \in 1 .. Len(b) + Len(c) : s[i] = IF i <= Len(b) THEN b[i] ELSE c[i - Len(b)]
  <2>1. /\ s \in Seq(Nat) /\ Len(s) = Len(b) + Len(c)
        /\ \A i \in 1 .. Len(b) + Len(c) : s[i] = IF i <= Len(b) THEN b[i] ELSE c[i - Len(b)]
    BY <1>2, ConcatProperties
  <2>2. QED
    BY <1>2, <2>1
<1> HIDE DEF s
<1>4. \A i \in 1 .. Len(c) : s[Len(a) + 1 + i] = c[i]
  <2>1. SUFFICES ASSUME NEW i \in 1 .. Len(c) PROVE s[Len(b) + i] = c[i]
    BY <1>2
  <2>2. Len(b) + i \in 1 .. Len(b) + Len(c) /\ ~(Len(b) + i <= Len(b)) /\ (Len(b) + i) - Len(b) = i
    BY <1>2
  <2>3. QED
    BY <1>3, <2>2
<1>5. SubSeq(s, 1, Len(a)) = a
  <2>1. \A i \in 1 .. Len(a) : s[i] = a[i] /\ s[i] \in Nat
    <3>1. SUFFICES ASSUME NEW i \in 1 .. Len(a) PROVE s[i] = a[i] /\ s[i] \in Nat
      OBVIOUS
    <3>2. i \in 1 .. Len(b) + Len(c) /\ i <= Len(b) /\ a[i] \in Nat
      BY <1>2
    <3>3. QED
      BY <1>2, <1>3, <3>2
  <2>2. /\ SubSeq(s, 1, Len(a)) \in Seq(Nat) /\ Len(SubSeq(s, 1, Len(a))) = Len(a)
        /\ \A i \in 1 .. Len(a) : SubSeq(s, 1, Len(a))[i] = s[i]
    BY <1>3
  <2>3. QED
    BY <2>1, <2>2, SeqEqual
<1>6. SubSeq(s, Len(a) + 2, Len(s)) = c
  <2> DEFINE t == SubSeq(s, Len(a) + 2, Len(s))
  <2>1. \A i \in Len(a) + 2 .. Len(s) : s[i] \in Nat
    BY <1>3, ElementOfSeq
  <2>2. /\ t \in Seq(Nat)
        /\ Len(t) = IF Len(a) + 2 <= Len(s) THEN Len(s) - (Len(a) + 2) + 1 ELSE 0
        /\ \A i \in 1 .. Len(s) - (Len(a) + 2) + 1 : t[i] = s[(Len(a) + 2) + i - 1]
    <3>1. Len(a) + 2 \in Int /\ Len(s) \in Int
      BY <1>3
    <3>2. QED
      BY <2>1, <3>1, SubSeqProperties
  <2> HIDE DEF t
  <2>3. Len(t) = Len(c) /\ \A i \in 1 .. Len(c) : t[i] = s[(Len(a) + 2) + i - 1]
    BY <1>3, <2>2
  <2>4. \A i \in 1 .. Len(c) : t[i] = c[i]
    BY <1>4, <2>3
  <2>5. t = c
    BY <2>2, <2>3, <2>4, SeqEqual
  <2>6. QED
    BY <2>5 DEF t
<1>7. Pipe!Without(s, Len(a) + 1) = a \o c
  <2>1. (Len(a) + 1) - 1 = Len(a) /\ (Len(a) + 1) + 1 = Len(a) + 2
    OBVIOUS
  <2>2. QED
    BY <1>5, <1>6, <2>1 DEF Pipe!Without
<1>8. a \o <<>> = a
  BY ConcatEmptySeq
<1>9. Len(a) + 1 \in DOMAIN s
  BY <1>3
<1>10. QED
  BY <1>7, <1>8, <1>9 DEF s, b

\* Three stretches joined; x comes first in s and r is what follows. The proofs
\* below keep both folded where the lemmas are all they need.
Joined(a, b, c) == a \o b \o c
StartsWith(s, x, r) == s # <<>> /\ Head(s) = x /\ Tail(s) = r

\* A number before three stretches is the first of them, and goes first.
LEMMA PartsHead ==
  ASSUME NEW h \in Nat, NEW t \in Seq(Nat), NEW b \in Seq(Nat), NEW c \in Seq(Nat)
  PROVE  StartsWith(Joined(<<h>> \o t, b, c), h, Joined(t, b, c))
<1>1. <<h>> \in Seq(Nat)
  OBVIOUS
<1>2. b \o c \in Seq(Nat)
  BY ConcatNat
<1>3. t \o (b \o c) \in Seq(Nat) /\ <<h>> \o t \in Seq(Nat)
  BY <1>1, <1>2, ConcatNat
<1>4. (<<h>> \o t) \o b \o c = (<<h>> \o t) \o (b \o c)
  <2> DEFINE d == <<h>> \o t
  <2>1. d \in Seq(Nat)
    BY <1>3
  <2> HIDE DEF d
  <2>2. d \o b \o c = d \o (b \o c)
    BY <2>1, AssocNat
  <2>3. QED
    BY <2>2 DEF d
<1>5. t \o b \o c = t \o (b \o c)
  BY AssocNat, Zenon
<1>6. (<<h>> \o t) \o (b \o c) = <<h>> \o (t \o (b \o c))
  BY <1>1, <1>2, AssocNat, Zenon
<1>7. /\ <<h>> \o (t \o (b \o c)) # <<>>
      /\ Head(<<h>> \o (t \o (b \o c))) = h
      /\ Tail(<<h>> \o (t \o (b \o c))) = t \o (b \o c)
  BY <1>3, HeadOfConcat
<1>8. QED
  BY <1>4, <1>5, <1>6, <1>7, Zenon DEF Joined, StartsWith

\* What the aggregator receives is the first on the way.
LEMMA PartsReceive ==
  ASSUME NEW a \in Seq(Nat), a # <<>>, NEW b \in Seq(Nat), NEW c \in Seq(Nat)
  PROVE  StartsWith(Joined(a, b, c), Head(a), Joined(Tail(a), b, c))
<1>1. PICK h \in Nat, t \in Seq(Nat) : h = Head(a) /\ t = Tail(a) /\ <<h>> \o t = a
  BY HeadBeforeTail
<1>2. StartsWith(Joined(<<h>> \o t, b, c), h, Joined(t, b, c))
  BY PartsHead
<1>3. QED
  BY <1>1, <1>2
-----------------------------------------------------------------------------
\* Every record has a number.
LEMMA RecordsHaveNumbers == \A r \in Record : r.id \in Nat /\ r # NoEvent
  BY NoEventAssumption DEF Record

\* The stretches of the way, and how long it is.
LEMMA TransitParts ==
  ASSUME TypeOK
  PROVE  /\ Ids(eventsChan) \in Seq(Nat) /\ Len(Ids(eventsChan)) = Len(eventsChan)
         /\ Held \in Seq(Nat) /\ Len(Held) = IF evt = NoEvent THEN 0 ELSE 1
         /\ Ids(ring) \in Seq(Nat) /\ Len(Ids(ring)) = Len(ring)
         /\ Ids(received) \in Seq(Nat)
         /\ Transit \in Seq(Nat)
         /\ Len(Transit) = Len(eventsChan) + Len(Held) + Len(ring)
<1>1. /\ eventsChan \in Seq(Record) /\ received \in Seq(Record) /\ ring \in Seq(Record)
      /\ evt \in Record \cup {NoEvent}
  BY DEF TypeOK
<1>2. /\ Ids(eventsChan) \in Seq(Nat) /\ Len(Ids(eventsChan)) = Len(eventsChan)
      /\ Ids(received) \in Seq(Nat)
      /\ Ids(ring) \in Seq(Nat) /\ Len(Ids(ring)) = Len(ring)
  BY <1>1, RecordsHaveNumbers, IdsType
<1>3. Held \in Seq(Nat) /\ Len(Held) = IF evt = NoEvent THEN 0 ELSE 1
  <2>1. CASE evt = NoEvent
    BY <2>1 DEF Held
  <2>2. CASE evt # NoEvent
    BY <1>1, <2>2, RecordsHaveNumbers DEF Held
  <2>3. QED
    BY <2>1, <2>2
<1>4. /\ Transit \in Seq(Nat)
      /\ Len(Transit) = Len(Ids(eventsChan)) + Len(Held) + Len(Ids(ring))
  <2>1. Transit = Ids(eventsChan) \o Held \o Ids(ring)
    BY Zenon DEF Transit
  <2>2. QED
    BY <1>2, <1>3, <2>1, ThreeParts
<1>5. QED
  BY <1>2, <1>3, <1>4

\* A reservation enters the way.
LEMMA ReservesEnters ==
  ASSUME Inv, NEW c \in CPUs, probe[c].at = "counted", Reserves(c)
  PROVE  /\ ring' \in Seq(Record) /\ Len(ring') = Len(ring) + 1
         /\ Transit' = Append(Transit, reserved + 1)
<1> DEFINE r == [id |-> reserved + 1]
<1>1. TypeOK
  BY DEF Inv
<1>2. ring \in Seq(Record) /\ reserved + 1 \in Nat /\ r \in Record /\ r.id = reserved + 1
  BY DEF Inv, TypeOK, Record
<1>3. ring' = Append(ring, r) /\ eventsChan' = eventsChan /\ Held' = Held
  BY DEF Reserves, reader, Held
<1> HIDE DEF r
<1>4. ring' \in Seq(Record) /\ Len(ring') = Len(ring) + 1
  BY <1>2, <1>3
<1>5. Ids(ring') = Append(Ids(ring), reserved + 1)
  BY <1>2, <1>3, IdsAppend, RecordsHaveNumbers
<1>6. Ids(eventsChan) \o Held \o Append(Ids(ring), reserved + 1) =
        Append(Ids(eventsChan) \o Held \o Ids(ring), reserved + 1)
  <2>1. Ids(eventsChan) \in Seq(Nat) /\ Held \in Seq(Nat) /\ Ids(ring) \in Seq(Nat)
    BY <1>1, TransitParts
  <2>2. QED
    BY <1>2, <2>1, PartsEnter
<1>7. Transit' = Ids(eventsChan) \o Held \o Append(Ids(ring), reserved + 1)
  BY <1>3, <1>5 DEF Transit
<1>8. QED
  BY <1>4, <1>6, <1>7 DEF Transit

\* Reading moves a number from the ring into readLoop's hands.
LEMMA ReadKeepsTransit ==
  ASSUME Inv, ReadRecord
  PROVE  /\ ring' \in Seq(Record) /\ Len(ring') = Len(ring) - 1
         /\ evt = NoEvent /\ evt' \in Record
         /\ Transit' = Transit
<1>1. TypeOK
  BY DEF Inv
<1>2. evt = NoEvent
  BY DEF Inv, CountersFit, HeldToSend, ReadRecord
<1>3. /\ ring \in Seq(Record) /\ ring # <<>> /\ ring' = Tail(ring)
      /\ evt' = Head(ring) /\ eventsChan' = eventsChan
  BY <1>1 DEF TypeOK, ReadRecord
<1>4. /\ Tail(ring) \in Seq(Record) /\ Head(ring) \in Record
      /\ Len(Tail(ring)) = Len(ring) - 1
      /\ Ids(ring) # <<>> /\ Head(Ids(ring)) = Head(ring).id /\ Tail(Ids(ring)) = Ids(Tail(ring))
  BY <1>3, IdsHeadTail, RecordsHaveNumbers
<1>5. evt' \in Record /\ evt' # NoEvent /\ evt'.id = Head(Ids(ring))
  BY <1>3, <1>4, RecordsHaveNumbers
<1>6. Held = <<>> /\ Held' = <<Head(Ids(ring))>>
  BY <1>2, <1>5 DEF Held
<1>7. Transit' = Ids(eventsChan) \o <<Head(Ids(ring))>> \o Tail(Ids(ring))
  BY <1>3, <1>4, <1>6 DEF Transit
<1>8. Transit = Ids(eventsChan) \o <<>> \o Ids(ring)
  BY <1>6 DEF Transit
<1>9. Transit' = Transit
  BY <1>1, <1>4, <1>7, <1>8, TransitParts, PartsRead
<1>10. QED
  BY <1>2, <1>3, <1>4, <1>5, <1>9

\* Sending moves a number from readLoop's hands into the channel.
LEMMA SendKeepsTransit ==
  ASSUME Inv, SendEvent
  PROVE  /\ eventsChan' \in Seq(Record) /\ Len(eventsChan') = Len(eventsChan) + 1
         /\ Transit' = Transit
<1>1. TypeOK
  BY DEF Inv
<1>2. /\ eventsChan \in Seq(Record) /\ evt \in Record /\ evt # NoEvent
      /\ eventsChan' = Append(eventsChan, evt) /\ evt' = NoEvent /\ ring' = ring
  BY DEF Inv, TypeOK, CountersFit, HeldToSend, SendEvent
<1>3. /\ eventsChan' \in Seq(Record) /\ Len(eventsChan') = Len(eventsChan) + 1
      /\ evt.id \in Nat
  BY <1>2, RecordsHaveNumbers
<1>4. Ids(eventsChan') = Append(Ids(eventsChan), evt.id)
  BY <1>2, IdsAppend, RecordsHaveNumbers
<1>5. Held = <<evt.id>> /\ Held' = <<>>
  BY <1>2 DEF Held
<1>6. Transit' = Append(Ids(eventsChan), evt.id) \o <<>> \o Ids(ring)
  BY <1>2, <1>4, <1>5 DEF Transit
<1>7. Transit = Ids(eventsChan) \o <<evt.id>> \o Ids(ring)
  BY <1>5 DEF Transit
<1>8. Transit' = Transit
  BY <1>1, <1>3, <1>6, <1>7, TransitParts, PartsSend
<1>9. QED
  BY <1>3, <1>8

\* Dropping takes the number in readLoop's hands off the way.
LEMMA DropLoses ==
  ASSUME Inv, DropEvent
  PROVE  /\ \E i \in DOMAIN Transit : Transit' = Pipe!Without(Transit, i)
         /\ Len(Transit') = Len(Transit) - 1
<1>1. TypeOK
  BY DEF Inv
<1>2. evt \in Record /\ evt # NoEvent /\ evt' = NoEvent /\ ring' = ring /\ eventsChan' = eventsChan
  BY DEF Inv, TypeOK, CountersFit, HeldToSend, DropEvent
<1>3. Held = <<evt.id>> /\ Held' = <<>> /\ evt.id \in Nat
  BY <1>2, RecordsHaveNumbers DEF Held
<1>4. Transit' = Ids(eventsChan) \o <<>> \o Ids(ring)
  BY <1>2, <1>3 DEF Transit
<1>5. Transit = Ids(eventsChan) \o <<evt.id>> \o Ids(ring)
  BY <1>3 DEF Transit
<1>6. Ids(eventsChan) \in Seq(Nat) /\ Ids(ring) \in Seq(Nat)
  BY <1>1, TransitParts
<1>7. /\ Len(Ids(eventsChan)) + 1 \in DOMAIN Transit
      /\ Transit' = Pipe!Without(Transit, Len(Ids(eventsChan)) + 1)
  BY <1>3, <1>4, <1>5, <1>6, PartsDrop
<1>8. Len(Transit') = Len(Transit) - 1
  <2>1. <<>> \in Seq(Nat) /\ Len(<<>>) = 0
    OBVIOUS
  <2>2. <<evt.id>> \in Seq(Nat) /\ Len(<<evt.id>>) = 1
    BY <1>3
  <2>3. Len(Transit') = Len(Ids(eventsChan)) + Len(<<>>) + Len(Ids(ring))
    BY <1>4, <1>6, <2>1, ThreeParts
  <2>4. Len(Transit) = Len(Ids(eventsChan)) + Len(<<evt.id>>) + Len(Ids(ring))
    BY <1>5, <1>6, <2>2, ThreeParts
  <2>5. QED
    BY <1>6, <2>1, <2>2, <2>3, <2>4
<1>9. QED
  BY <1>7, <1>8

\* Receiving takes the first number off the way and delivers it.
LEMMA ReceiveDelivers ==
  ASSUME Inv, AggReceive
  PROVE  /\ eventsChan' \in Seq(Record) /\ Len(eventsChan') = Len(eventsChan) - 1
         /\ received' \in Seq(Record) /\ Len(received') = Len(received) + 1
         /\ Transit # <<>> /\ Transit' = Tail(Transit)
         /\ Ids(received') = Append(Ids(received), Head(Transit))
<1>1. TypeOK
  BY DEF Inv
<1>2. /\ eventsChan \in Seq(Record) /\ eventsChan # <<>> /\ received \in Seq(Record)
      /\ received' = Append(received, Head(eventsChan)) /\ eventsChan' = Tail(eventsChan)
      /\ evt' = evt /\ ring' = ring
  BY <1>1 DEF TypeOK, AggReceive, reader
<1>3. /\ Tail(eventsChan) \in Seq(Record) /\ Head(eventsChan) \in Record
      /\ Len(Tail(eventsChan)) = Len(eventsChan) - 1
      /\ Ids(eventsChan) # <<>> /\ Head(Ids(eventsChan)) = Head(eventsChan).id
      /\ Tail(Ids(eventsChan)) = Ids(Tail(eventsChan))
  BY <1>2, IdsHeadTail, RecordsHaveNumbers
<1>4. received' \in Seq(Record) /\ Len(received') = Len(received) + 1
  BY <1>2, <1>3
<1>5. Ids(received') = Append(Ids(received), Head(eventsChan).id)
  BY <1>2, <1>3, IdsAppend, RecordsHaveNumbers
<1>6. Transit' = Tail(Ids(eventsChan)) \o Held \o Ids(ring)
  BY <1>2, <1>3 DEF Transit, Held
<1>7. Transit = Ids(eventsChan) \o Held \o Ids(ring)
  BY DEF Transit
<1>8. /\ Transit # <<>> /\ Head(Transit) = Head(eventsChan).id /\ Transit' = Tail(Transit)
  <2>1. Ids(eventsChan) \in Seq(Nat) /\ Held \in Seq(Nat) /\ Ids(ring) \in Seq(Nat)
    BY <1>1, TransitParts
  <2>2. Ids(eventsChan) # <<>>
    BY <1>3
  <2>3. StartsWith(Joined(Ids(eventsChan), Held, Ids(ring)), Head(Ids(eventsChan)),
                   Joined(Tail(Ids(eventsChan)), Held, Ids(ring)))
    BY <2>1, <2>2, PartsReceive
  <2>4. /\ Transit = Joined(Ids(eventsChan), Held, Ids(ring))
        /\ Transit' = Joined(Tail(Ids(eventsChan)), Held, Ids(ring))
    BY <1>6, <1>7, Zenon DEF Joined
  <2>5. QED
    BY <1>3, <2>3, <2>4, Zenon DEF StartsWith
<1>9. QED
  BY <1>2, <1>3, <1>4, <1>5, <1>8
-----------------------------------------------------------------------------
\* The empty program satisfies the invariant.
LEMMA InitInv == Init => Inv
<1>1. SUFFICES ASSUME Init PROVE Inv
  OBVIOUS
<1>2. TypeOK
  <2>1. probe \in [CPUs -> [at : {"idle", "counted", "filling"}, id : Nat]]
    BY <1>1 DEF Init, Idle
  <2>2. closed \in 0 .. Len(CloseOrder)
    BY <1>1 DEF Init, CloseOrder
  <2>3. ring \in Seq(Record) /\ Len(ring) <= RingCap
    BY <1>1, BoundsAssumption DEF Init
  <2>4. eventsChan \in Seq(Record) /\ Len(eventsChan) <= ChanCap /\ received \in Seq(Record)
    BY <1>1, BoundsAssumption DEF Init
  <2>5. /\ stats \in Nat /\ reserved \in Nat /\ dropped \in Nat /\ aggDone \in BOOLEAN
        /\ readPc \in {"check", "read", "send", "done"} /\ evt \in Record \cup {NoEvent}
    BY <1>1 DEF Init
  <2>6. QED
    BY <2>1, <2>2, <2>3, <2>4, <2>5 DEF TypeOK
<1>4. Conserved
  <2>1. Len(Transit) = 0
    <3>1. Held = <<>> /\ Len(Held) = 0
      BY <1>1 DEF Init, Held
    <3>2. QED
      BY <1>1, <1>2, <3>1, TransitParts DEF Init
  <2>2. QED
    BY <1>1, <2>1 DEF Init, Conserved
<1>5. SeenFirst
  <2>1. Waiting = {}
    BY <1>1 DEF Init, Waiting, Idle
  <2>2. QED
    BY <1>1, <2>1, FS_EmptySet DEF Init, SeenFirst
<1>6. HeldToSend
  BY <1>1 DEF Init, HeldToSend
<1>7. QED
  BY <1>2, <1>4, <1>5, <1>6 DEF Inv, CountersFit

\* How many probes wait for a reservation is a number, and it follows one
\* probe's coming and going.
LEMMA WaitingCount ==
  ASSUME NEW c \in CPUs
  PROVE  /\ IsFiniteSet(Waiting) /\ Cardinality(Waiting) \in Nat
         /\ c \in Waiting => Cardinality(Waiting \ {c}) = Cardinality(Waiting) - 1
         /\ c \notin Waiting => Cardinality(Waiting \cup {c}) = Cardinality(Waiting) + 1
<1>1. IsFiniteSet(Waiting)
  BY CPUsAssumption, FS_Subset DEF Waiting
<1>2. Cardinality(Waiting) \in Nat
  BY <1>1, FS_CardinalityType
<1>3. c \in Waiting => Cardinality(Waiting \ {c}) = Cardinality(Waiting) - 1
  BY <1>1, FS_RemoveElement
<1>4. c \notin Waiting => Cardinality(Waiting \cup {c}) = Cardinality(Waiting) + 1
  BY <1>1, FS_AddElement
<1>5. QED
  BY <1>1, <1>2, <1>3, <1>4

\* Every step keeps the types: no queue grows beyond its room.
LEMMA TypeStep ==
  ASSUME Inv, [Next]_vars
  PROVE  TypeOK'
<1>1. TypeOK
  BY DEF Inv
<1>2. ASSUME NEW c \in CPUs, NEW isIPv4 \in BOOLEAN, ProbeCounts(c, isIPv4)
      PROVE  TypeOK'
  <2>1. probe' \in [CPUs -> [at : {"idle", "counted", "filling"}, id : Nat]]
    BY <1>1, <1>2 DEF TypeOK, ProbeCounts
  <2>2. QED
    BY <1>1, <1>2, <2>1 DEF TypeOK, ProbeCounts, reader, aggregator
<1>3. ASSUME NEW c \in CPUs, ProbeReserves(c)
      PROVE  TypeOK'
  <2>1. CASE Len(ring) < RingCap /\ Reserves(c)
    <3>1. ring' \in Seq(Record) /\ Len(ring') = Len(ring) + 1
      BY <1>3, <2>1, ReservesEnters DEF ProbeReserves
    <3>2. /\ reserved' \in Nat
          /\ probe' = [probe EXCEPT ![c] = [at |-> "filling", id |-> reserved + 1]]
      BY <1>1, <2>1 DEF TypeOK, Reserves
    <3>3. probe' \in [CPUs -> [at : {"idle", "counted", "filling"}, id : Nat]]
      BY <1>1, <3>2 DEF TypeOK
    <3>4. Len(ring') <= RingCap
      BY <1>1, <2>1, <3>1, BoundsAssumption DEF TypeOK
    <3>5. QED
      BY <1>1, <2>1, <3>1, <3>2, <3>3, <3>4 DEF TypeOK, Reserves, reader, aggregator
  <2>2. CASE Len(ring) >= RingCap /\ probe' = [probe EXCEPT ![c] = Idle]
             /\ UNCHANGED <<stats, reserved, ring, reader, eventsChan, aggregator, closed>>
    BY <1>1, <2>2 DEF TypeOK, Idle, reader, aggregator
  <2>3. QED
    BY <1>3, <2>1, <2>2 DEF ProbeReserves
<1>4. ASSUME NEW c \in CPUs, ProbeSubmits(c)
      PROVE  TypeOK'
  BY <1>1, <1>4 DEF TypeOK, ProbeSubmits, Idle, reader, aggregator
<1>5. CASE ReadRecord
  <2>1. ring' \in Seq(Record) /\ Len(ring') = Len(ring) - 1 /\ evt' \in Record
    BY <1>5, ReadKeepsTransit
  <2>2. Len(ring') <= RingCap
    BY <1>1, <2>1, BoundsAssumption DEF TypeOK
  <2>3. QED
    BY <1>1, <1>5, <2>1, <2>2 DEF TypeOK, ReadRecord, kernel, aggregator
<1>6. CASE SendEvent
  <2>1. eventsChan' \in Seq(Record) /\ Len(eventsChan') = Len(eventsChan) + 1
    BY <1>6, SendKeepsTransit
  <2>2. Len(eventsChan') <= ChanCap
    BY <1>1, <1>6, <2>1, BoundsAssumption DEF TypeOK, SendEvent
  <2>3. QED
    BY <1>1, <1>6, <2>1, <2>2 DEF TypeOK, SendEvent, kernel, aggregator
<1>7. CASE AggReceive
  <2>1. /\ eventsChan' \in Seq(Record) /\ Len(eventsChan') = Len(eventsChan) - 1
        /\ received' \in Seq(Record)
    BY <1>7, ReceiveDelivers
  <2>2. Len(eventsChan') <= ChanCap
    BY <1>1, <2>1, BoundsAssumption DEF TypeOK
  <2>3. QED
    BY <1>1, <1>7, <2>1, <2>2 DEF TypeOK, AggReceive, kernel, reader
<1>8. CASE LoopCheck \/ ReadFails \/ ReadClosed \/ SendStops
  BY <1>1, <1>8 DEF TypeOK, LoopCheck, ReadFails, ReadClosed, SendStops,
                    kernel, aggregator
<1>9. CASE DropEvent
  BY <1>1, <1>9 DEF TypeOK, DropEvent, kernel, aggregator
<1>10. CASE AggStop
  BY <1>1, <1>10 DEF TypeOK, AggStop, kernel, reader
<1>11. CASE ShutDown
  <2>1. Len(CloseOrder) = 5
    BY DEF CloseOrder
  <2>2. closed' \in 0 .. Len(CloseOrder)
    BY <1>1, <1>11, <2>1 DEF TypeOK, ShutDown
  <2>3. QED
    BY <1>1, <1>11, <2>2 DEF TypeOK, ShutDown, kernel, reader, aggregator
<1>12. CASE UNCHANGED vars
  BY <1>1, <1>12 DEF TypeOK, vars
<1>13. QED
  BY <1>2, <1>3, <1>4, <1>5, <1>6, <1>7, <1>8, <1>9, <1>10, <1>11, <1>12
     DEF Next, Probe, ReadLoop

\* Every step keeps the counters fitting together.  Accounting: what is
\* reserved is on the way, and what leaves the way is received or counted.
LEMMA ConservedStep ==
  ASSUME Inv, [Next]_vars
  PROVE  Conserved'
<1>1. /\ TypeOK /\ TypeOK' /\ reserved = Len(received) + Len(Transit) + dropped
      /\ reserved \in Nat /\ dropped \in Nat
      /\ Len(received) \in Nat /\ Len(Transit) \in Nat
  <2>1. TypeOK /\ TypeOK' /\ Conserved
    BY TypeStep DEF Inv, CountersFit
  <2>2. Transit \in Seq(Nat) /\ received \in Seq(Record) /\ reserved \in Nat /\ dropped \in Nat
    <3>1. Transit \in Seq(Nat)
      BY <2>1, TransitParts
    <3>2. QED
      BY <2>1, <3>1 DEF TypeOK
  <2>3. Len(Transit) \in Nat /\ Len(received) \in Nat
    BY <2>2, LenProperties
  <2>4. QED
    BY <2>1, <2>2, <2>3, Zenon DEF Conserved
<1>2. CASE \E c \in CPUs : probe[c].at = "counted" /\ Reserves(c)
  <2>1. PICK c \in CPUs : probe[c].at = "counted" /\ Reserves(c)
    BY <1>2
  <2>2. Transit' = Append(Transit, reserved + 1)
    BY <2>1, ReservesEnters
  <2>3. Len(Transit') = Len(Transit) + 1
    BY <1>1, <2>2, TransitParts
  <2>4. reserved' = reserved + 1 /\ received' = received /\ dropped' = dropped
    BY <2>1 DEF Reserves, reader, aggregator
  <2>5. QED
    BY <1>1, <2>3, <2>4 DEF Conserved
<1>3. CASE DropEvent
  <2>1. dropped' = dropped + 1 /\ reserved' = reserved /\ received' = received
    BY <1>3 DEF DropEvent, kernel, aggregator
  <2>2. Len(Transit') = Len(Transit) - 1
    BY <1>3, DropLoses
  <2>3. QED
    BY <1>1, <2>1, <2>2 DEF Conserved
<1>4. CASE AggReceive
  <2>1. dropped' = dropped /\ reserved' = reserved
    BY <1>4 DEF AggReceive, kernel, reader
  <2>2. /\ Len(received') = Len(received) + 1
        /\ Transit # <<>> /\ Transit' = Tail(Transit)
    BY <1>4, ReceiveDelivers
  <2>3. Len(Transit') = Len(Transit) - 1
    BY <1>1, <2>2, TransitParts, HeadTailProperties
  <2>4. QED
    BY <1>1, <2>1, <2>2, <2>3 DEF Conserved
<1>5. CASE ReadRecord \/ SendEvent
  <2>1. Transit' = Transit
    BY <1>5, ReadKeepsTransit, SendKeepsTransit
  <2>2. dropped' = dropped /\ reserved' = reserved /\ received' = received
    BY <1>5 DEF ReadRecord, SendEvent, kernel, aggregator
  <2>3. QED
    BY <1>1, <2>1, <2>2 DEF Conserved
<1>6. ASSUME UNCHANGED <<reserved, ring, evt, dropped, eventsChan, received>>
      PROVE  Conserved'
  BY <1>1, <1>6 DEF Conserved, Transit, Held
<1>7. CASE \/ \E c \in CPUs : ProbeSubmits(c) \/ \E isIPv4 \in BOOLEAN : ProbeCounts(c, isIPv4)
           \/ LoopCheck \/ ReadFails \/ ReadClosed \/ SendStops \/ AggStop \/ ShutDown
           \/ UNCHANGED vars
  BY <1>6, <1>7 DEF ProbeSubmits, ProbeCounts, LoopCheck, ReadFails, ReadClosed, SendStops,
                    AggStop, ShutDown, vars, kernel, reader, aggregator
<1>8. CASE \E c \in CPUs : /\ Len(ring) >= RingCap
                           /\ probe' = [probe EXCEPT ![c] = Idle]
                           /\ UNCHANGED <<stats, reserved, ring, reader, eventsChan,
                                          aggregator, closed>>
  BY <1>6, <1>8 DEF reader, aggregator
<1>9. QED
  BY <1>2, <1>3, <1>4, <1>5, <1>7, <1>8 DEF Next, Probe, ReadLoop, ProbeReserves

\* A place in the ring is for a frame that was counted, and for one frame only.
LEMMA SeenFirstStep ==
  ASSUME Inv, [Next]_vars
  PROVE  SeenFirst'
<1> DEFINE n == Cardinality(Waiting)
<1>1. /\ stats \in Nat /\ reserved \in Nat /\ reserved + n <= stats
      /\ probe \in [CPUs -> [at : {"idle", "counted", "filling"}, id : Nat]]
  BY DEF Inv, TypeOK, CountersFit, SeenFirst
<1>2. IsFiniteSet(Waiting) /\ n \in Nat
  BY CPUsAssumption, FS_Subset, FS_CardinalityType DEF Waiting
<1> HIDE DEF n
<1>3. ASSUME NEW c \in CPUs, NEW isIPv4 \in BOOLEAN, ProbeCounts(c, isIPv4)
      PROVE  SeenFirst'
  <2>1. stats' = stats + 1 /\ reserved' = reserved /\ c \notin Waiting
    BY <1>3 DEF ProbeCounts, Idle, Waiting
  <2>2. Waiting' = Waiting \/ Waiting' = Waiting \cup {c}
    BY <1>1, <1>3 DEF ProbeCounts, Waiting
  <2>3. Cardinality(Waiting') <= n + 1
    BY <1>2, <2>1, <2>2, WaitingCount DEF n
  <2>4. Cardinality(Waiting') \in Nat
    BY <1>2, <2>2, FS_AddElement, FS_CardinalityType
  <2>5. QED
    BY <1>1, <1>2, <2>1, <2>3, <2>4 DEF SeenFirst
<1>4. ASSUME NEW c \in CPUs, ProbeReserves(c)
      PROVE  SeenFirst'
  <2>1. /\ stats' = stats /\ (reserved' = reserved \/ reserved' = reserved + 1)
        /\ c \in Waiting
    BY <1>4 DEF ProbeReserves, Reserves, Waiting
  <2>2. Waiting' = Waiting \ {c}
    <3>1. ASSUME NEW q, q.at # "counted", probe' = [probe EXCEPT ![c] = q]
          PROVE  Waiting' = Waiting \ {c}
      BY <1>1, <3>1 DEF Waiting
    <3>2. CASE Reserves(c)
      <4> DEFINE q == [at |-> "filling", id |-> reserved + 1]
      <4>1. probe' = [probe EXCEPT ![c] = q]
        BY <3>2 DEF Reserves
      <4>2. q.at # "counted"
        OBVIOUS
      <4> HIDE DEF q
      <4>3. QED
        BY <3>1, <4>1, <4>2
    <3>3. CASE probe' = [probe EXCEPT ![c] = Idle]
      <4>1. Idle.at # "counted"
        BY DEF Idle
      <4>2. QED
        BY <3>1, <3>3, <4>1
    <3>4. QED
      BY <1>4, <3>2, <3>3 DEF ProbeReserves
  <2>3. Cardinality(Waiting') = n - 1
    BY <2>1, <2>2, WaitingCount DEF n
  <2>4. reserved' + (n - 1) <= stats
    BY <1>1, <1>2, <2>1
  <2>5. QED
    BY <2>1, <2>3, <2>4 DEF SeenFirst
<1>5. ASSUME NEW c \in CPUs, ProbeSubmits(c)
      PROVE  SeenFirst'
  <2>1. stats' = stats /\ reserved' = reserved
    BY <1>5 DEF ProbeSubmits
  <2>2. Waiting' = Waiting
    BY <1>1, <1>5 DEF ProbeSubmits, Waiting, Idle
  <2>3. QED
    BY <1>1, <2>1, <2>2 DEF SeenFirst, n
<1>6. CASE UNCHANGED kernel
  BY <1>1, <1>6 DEF SeenFirst, Waiting, kernel, n
<1>7. CASE ReadLoop \/ AggReceive \/ AggStop \/ ShutDown \/ UNCHANGED vars
  BY <1>6, <1>7 DEF ReadLoop, LoopCheck, ReadRecord, ReadFails, ReadClosed, SendEvent,
                    SendStops, DropEvent, AggReceive, AggStop, ShutDown, vars, kernel
<1>8. QED
  BY <1>3, <1>4, <1>5, <1>7 DEF Next, Probe

\* readLoop holds an event while it sends, and a shutdown may leave it with one.
LEMMA HeldToSendStep ==
  ASSUME Inv, [Next]_vars
  PROVE  HeldToSend'
<1>1. HeldToSend
  BY DEF Inv, CountersFit
<1>2. CASE ReadRecord
  <2>1. evt' # NoEvent
    BY <1>2, ReadKeepsTransit, RecordsHaveNumbers
  <2>2. QED
    BY <1>2, <2>1 DEF ReadRecord, HeldToSend
<1>3. CASE LoopCheck \/ ReadFails \/ ReadClosed \/ SendEvent \/ SendStops \/ DropEvent
  BY <1>1, <1>3 DEF HeldToSend, LoopCheck, ReadFails, ReadClosed, SendEvent, SendStops, DropEvent
<1>4. CASE UNCHANGED reader
  BY <1>1, <1>4 DEF HeldToSend, reader
<1>5. ASSUME NEW c \in CPUs, Probe(c)
      PROVE  UNCHANGED reader
  BY <1>5 DEF Probe, ProbeCounts, ProbeReserves, Reserves, ProbeSubmits, reader
<1>6. CASE AggReceive \/ AggStop \/ ShutDown \/ UNCHANGED vars
  BY <1>4, <1>6 DEF AggReceive, AggStop, ShutDown, vars, reader
<1>7. QED
  BY <1>2, <1>3, <1>4, <1>5, <1>6 DEF Next, ReadLoop
-----------------------------------------------------------------------------
\* Types and counters of the whole way keep fitting together, whatever the
\* interleaving of probes, reader, aggregator and shutdown.
THEOREM Invariance == Spec => []Inv
<1>1. Inv /\ [Next]_vars => Inv'
  BY TypeStep, ConservedStep, SeenFirstStep, HeldToSendStep DEF Inv, CountersFit
<1>2. QED
  BY <1>1, InitInv, PTL DEF Spec

\* Every field keeps its range; the ring and the channel stay within their
\* capacities, with any number of probes reserving.
THEOREM TypeCorrect == Spec => []TypeOK
  BY Invariance, PTL DEF Inv

\* A frame that got a record is received, on its way or counted as dropped,
\* also during the shutdown, and no more frames got one than were counted.
THEOREM CountersAgree == Spec => []CountersFit
  BY Invariance, PTL DEF Inv
-----------------------------------------------------------------------------
\* Every step of the way is a step of the lossy pipe or a stutter.
LEMMA StepRefines ==
  ASSUME Inv, [Next]_vars
  PROVE  [Pipe!Next]_(Pipe!vars)
<1>1. ASSUME NEW c \in CPUs, probe[c].at = "counted", Reserves(c)
      PROVE  Pipe!Next
  <2>1. reserved' = reserved + 1 /\ dropped' = dropped /\ received' = received
    BY <1>1 DEF Reserves, reader, aggregator
  <2>2. Transit' = Append(Transit, reserved')
    BY <1>1, <2>1, ReservesEnters
  <2>3. QED
    BY <2>1, <2>2 DEF Pipe!Next, Pipe!Enter
<1>2. CASE DropEvent
  <2>1. dropped' = dropped + 1 /\ reserved' = reserved /\ received' = received
    BY <1>2 DEF DropEvent, kernel, aggregator
  <2>2. \E i \in DOMAIN Transit : Transit' = Pipe!Without(Transit, i)
    BY <1>2, DropLoses
  <2>3. QED
    BY <2>1, <2>2 DEF Pipe!Next, Pipe!Lose
<1>3. CASE AggReceive
  <2>1. dropped' = dropped /\ reserved' = reserved
    BY <1>3 DEF AggReceive, kernel, reader
  <2>2. /\ Transit # <<>> /\ Transit' = Tail(Transit)
        /\ Ids(received') = Append(Ids(received), Head(Transit))
    BY <1>3, ReceiveDelivers
  <2>3. QED
    BY <2>1, <2>2 DEF Pipe!Next, Pipe!Deliver
<1>4. ASSUME UNCHANGED <<reserved, dropped, received>>, Transit' = Transit
      PROVE  UNCHANGED Pipe!vars
  BY <1>4 DEF Pipe!vars
<1>5. CASE ReadRecord \/ SendEvent
  <2>1. Transit' = Transit
    BY <1>5, ReadKeepsTransit, SendKeepsTransit
  <2>2. UNCHANGED <<reserved, dropped, received>>
    BY <1>5 DEF ReadRecord, SendEvent, kernel, aggregator
  <2>3. QED
    BY <1>4, <2>1, <2>2
<1>6. ASSUME UNCHANGED <<reserved, ring, evt, dropped, eventsChan, received>>
      PROVE  UNCHANGED Pipe!vars
  <2>1. Transit' = Transit
    BY <1>6 DEF Transit, Held
  <2>2. QED
    BY <1>4, <1>6, <2>1
<1>7. CASE \/ \E c \in CPUs : ProbeSubmits(c) \/ \E isIPv4 \in BOOLEAN : ProbeCounts(c, isIPv4)
           \/ LoopCheck \/ ReadFails \/ ReadClosed \/ SendStops \/ AggStop \/ ShutDown
           \/ UNCHANGED vars
  BY <1>6, <1>7 DEF ProbeSubmits, ProbeCounts, LoopCheck, ReadFails, ReadClosed, SendStops,
                    AggStop, ShutDown, vars, kernel, reader, aggregator
<1>8. CASE \E c \in CPUs : /\ Len(ring) >= RingCap
                           /\ probe' = [probe EXCEPT ![c] = Idle]
                           /\ UNCHANGED <<stats, reserved, ring, reader, eventsChan,
                                          aggregator, closed>>
  BY <1>6, <1>8 DEF reader, aggregator
<1>9. QED
  BY <1>1, <1>2, <1>3, <1>5, <1>7, <1>8 DEF Next, Probe, ReadLoop, ProbeReserves

\* From the kernel to the aggregator the way is a lossy pipe: frames arrive in
\* the order of their reservations, each at most once, every loss counted.
THEOREM RefinesLossyPipe == Spec => ImplementsLossyPipe
<1>1. Init => Pipe!Init
  <2>1. SUFFICES ASSUME Init PROVE Pipe!Init
    OBVIOUS
  <2>2. Held = <<>> /\ Ids(eventsChan) = <<>> /\ Ids(ring) = <<>> /\ Ids(received) = <<>>
    BY <2>1 DEF Init, Held, Ids
  <2>3. Transit = <<>>
    BY <2>2 DEF Transit
  <2>4. QED
    BY <2>1, <2>2, <2>3 DEF Init, Pipe!Init
<1>2. Inv /\ [Next]_vars => [Pipe!Next]_(Pipe!vars)
  BY StepRefines
<1>3. QED
  BY <1>1, <1>2, Invariance, PTL DEF Spec, ImplementsLossyPipe, Pipe!Spec
-----------------------------------------------------------------------------
\* What the pipe means for its numbers: d, the delivered ones, and t, those on the
\* way, go up, all of d is before all of t, and none is after e, the last to enter.
Ascending(s) == \A m, n \in DOMAIN s : m < n => s[m] < s[n]
Ordered(e, t, d) == /\ Ascending(d) /\ Ascending(t)
                    /\ \A m \in DOMAIN d, n \in DOMAIN t : d[m] < t[n]
                    /\ \A m \in DOMAIN d : d[m] <= e
                    /\ \A n \in DOMAIN t : t[n] <= e

\* A sequence that goes up still does with a larger number behind it,
LEMMA AppendAscends ==
  ASSUME NEW s \in Seq(Nat), NEW x \in Nat, Ascending(s), \A n \in DOMAIN s : s[n] < x
  PROVE  /\ Ascending(Append(s, x)) /\ DOMAIN Append(s, x) = 1 .. Len(s) + 1
         /\ \A n \in DOMAIN Append(s, x) : \/ n \in DOMAIN s /\ Append(s, x)[n] = s[n]
                                           \/ Append(s, x)[n] = x
<1> DEFINE u == Append(s, x)
           k == Len(s)
<1>1. /\ k \in Nat /\ DOMAIN s = 1 .. k /\ DOMAIN u = 1 .. k + 1
      /\ u[k + 1] = x /\ \A n \in 1 .. k : u[n] = s[n]
  BY AppendProperties, LenProperties
<1> HIDE DEF u, k
<1>2. \A n \in DOMAIN u : n \in DOMAIN s \/ n = k + 1
  BY <1>1
<1>3. ASSUME NEW m \in DOMAIN u, NEW n \in DOMAIN u, m < n PROVE u[m] < u[n]
  <2>1. m \in DOMAIN s
    BY <1>1, <1>3
  <2>2. CASE n = k + 1
    BY <1>1, <2>1, <2>2
  <2>3. CASE n \in DOMAIN s
    BY <1>1, <1>3, <2>1, <2>3 DEF Ascending
  <2> QED BY <1>2, <2>2, <2>3
<1> QED BY <1>1, <1>2, <1>3 DEF Ascending, u, k

\* and so do some of its numbers, in the same order.
LEMMA PartAscends ==
  ASSUME NEW s, NEW t, NEW place, Ascending(t),
         \A n \in DOMAIN s : place[n] \in DOMAIN t /\ s[n] = t[place[n]],
         \A m, n \in DOMAIN s : m < n => place[m] < place[n]
  PROVE  Ascending(s)
BY DEF Ascending

\* Entering,
LEMMA EnterOrdered ==
  ASSUME NEW e \in Nat, NEW t \in Seq(Nat), NEW d \in Seq(Nat), Ordered(e, t, d)
  PROVE  Ordered(e + 1, Append(t, e + 1), d)
<1> DEFINE u == Append(t, e + 1)
<1>1. /\ \A n \in DOMAIN t : t[n] \in Nat /\ t[n] < e + 1
      /\ \A n \in DOMAIN d : d[n] \in Nat /\ d[n] < e + 1 /\ d[n] <= e + 1
  <2>1. /\ \A n \in DOMAIN t : t[n] \in Nat
        /\ \A n \in DOMAIN d : d[n] \in Nat
    BY ElementOfSeq, LenProperties
  <2> QED BY <2>1 DEF Ordered
<1>2. /\ Ascending(u)
      /\ \A n \in DOMAIN u : (n \in DOMAIN t /\ u[n] = t[n]) \/ u[n] = e + 1
  BY <1>1, AppendAscends DEF Ordered
<1> HIDE DEF u
<1>3. \A m \in DOMAIN d, n \in DOMAIN u : d[m] < u[n]
  BY <1>1, <1>2 DEF Ordered
<1>4. \A n \in DOMAIN u : u[n] <= e + 1
  BY <1>1, <1>2
<1> QED BY <1>1, <1>2, <1>3, <1>4 DEF Ordered, u

\* delivering
LEMMA DeliverOrdered ==
  ASSUME NEW e \in Nat, NEW t \in Seq(Nat), NEW d \in Seq(Nat), Ordered(e, t, d), t # <<>>
  PROVE  Ordered(e, Tail(t), Append(d, Head(t)))
<1> DEFINE u == Tail(t)
           g == Append(d, Head(t))
           place == [n \in DOMAIN u |-> n + 1]
<1>1. /\ 1 \in DOMAIN t /\ Head(t) = t[1] /\ t[1] \in Nat
      /\ \A n \in DOMAIN u : n \in Nat /\ n >= 1 /\ n + 1 \in DOMAIN t /\ u[n] = t[n + 1]
  <2> DEFINE k == Len(t)
  <2>1. /\ k \in Nat /\ k # 0 /\ DOMAIN t = 1 .. k /\ Head(t) = t[1]
        /\ u \in Seq(Nat) /\ Len(u) = k - 1 /\ \A n \in 1 .. k - 1 : u[n] = t[n + 1]
    BY HeadTailProperties, LenProperties, EmptySeq
  <2>2. DOMAIN u = 1 .. k - 1
    BY <2>1, LenProperties
  <2> HIDE DEF k, u
  <2>3. 1 \in DOMAIN t
    BY <2>1
  <2>4. t[1] \in Nat
    BY <2>3, ElementOfSeq, LenProperties
  <2> QED BY <2>1, <2>2, <2>3, <2>4
<1>2. Ascending(u)
  <2>1. /\ \A n \in DOMAIN u : place[n] \in DOMAIN t /\ u[n] = t[place[n]]
        /\ \A m, n \in DOMAIN u : m < n => place[m] < place[n]
    <3> HIDE DEF u
    <3> QED BY <1>1
  <2> HIDE DEF u, place
  <2> QED BY <2>1, PartAscends DEF Ordered
<1>3. \A n \in DOMAIN u : t[1] < u[n] /\ u[n] <= e
  <2> SUFFICES ASSUME NEW n \in DOMAIN u PROVE t[1] < t[n + 1] /\ t[n + 1] <= e
    BY <1>1
  <2>1. n + 1 \in DOMAIN t /\ 1 \in DOMAIN t /\ 1 < n + 1
    BY <1>1
  <2> HIDE DEF u
  <2> QED BY <2>1 DEF Ordered, Ascending
<1>4. /\ Ascending(g)
      /\ \A n \in DOMAIN g : (n \in DOMAIN d /\ g[n] = d[n]) \/ g[n] = t[1]
  <2>1. \A n \in DOMAIN d : d[n] < t[1]
    BY <1>1 DEF Ordered
  <2> QED BY <1>1, <2>1, AppendAscends DEF Ordered
<1> HIDE DEF u, g
<1>5. \A m \in DOMAIN g : g[m] <= e
  BY <1>1, <1>4 DEF Ordered
<1>6. \A m \in DOMAIN g, n \in DOMAIN u : g[m] < u[n]
  BY <1>1, <1>3, <1>4 DEF Ordered
<1> QED BY <1>2, <1>3, <1>4, <1>5, <1>6 DEF Ordered, u, g

\* and losing a number keep them so.
LEMMA LoseOrdered ==
  ASSUME NEW e \in Nat, NEW t \in Seq(Nat), NEW d \in Seq(Nat), Ordered(e, t, d),
         NEW i \in DOMAIN t
  PROVE  Ordered(e, Pipe!Without(t, i), d)
<1> DEFINE j == i - 1
           k == Len(t)
           l == k - i
           a == SubSeq(t, 1, j)
           b == SubSeq(t, i + 1, k)
           u == Pipe!Without(t, i)
           place == [n \in DOMAIN u |-> IF n < i THEN n ELSE n + 1]
<1>1. k \in Nat /\ DOMAIN t = 1 .. k /\ i \in 1 .. k
  BY LenProperties
<1>2. j \in Nat /\ l \in Nat /\ i = j + 1 /\ k = j + 1 + l
  BY <1>1
<1>3. \A n \in 1 .. k : t[n] \in Nat
  BY ElementOfSeq
<1>4. u = a \o b
  BY DEF Pipe!Without
<1> HIDE DEF j, k, l, u
<1>5. a \in Seq(Nat) /\ Len(a) = j /\ \A n \in 1 .. j : a[n] = t[n]
  <2>1. 1 \in Int /\ j \in Int /\ \A n \in 1 .. j : t[n] \in Nat
    BY <1>2, <1>3
  <2>2. /\ a \in Seq(Nat) /\ Len(a) = IF 1 <= j THEN j - 1 + 1 ELSE 0
        /\ \A n \in 1 .. j - 1 + 1 : a[n] = t[1 + n - 1]
    BY <2>1, SubSeqProperties
  <2> HIDE DEF a
  <2> QED BY <1>2, <2>2
<1>6. b \in Seq(Nat) /\ Len(b) = l /\ \A n \in 1 .. l : b[n] = t[i + n]
  <2>1. i + 1 \in Int /\ k \in Int /\ \A n \in i + 1 .. k : t[n] \in Nat
    BY <1>1, <1>2, <1>3
  <2>2. /\ b \in Seq(Nat)
        /\ Len(b) = IF i + 1 <= k THEN k - (i + 1) + 1 ELSE 0
        /\ \A n \in 1 .. k - (i + 1) + 1 : b[n] = t[(i + 1) + n - 1]
    BY <2>1, SubSeqProperties
  <2> HIDE DEF b
  <2>3. /\ k - (i + 1) + 1 = l /\ (i + 1 <= k \/ l = 0)
        /\ \A n \in 1 .. l : (i + 1) + n - 1 = i + n
    BY <1>1, <1>2
  <2> QED BY <2>2, <2>3
<1> HIDE DEF a, b
<1>7. /\ DOMAIN u = 1 .. j + l
      /\ \A n \in 1 .. j + l : u[n] = IF n <= j THEN a[n] ELSE b[n - j]
  <2>1. /\ a \o b \in Seq(Nat) /\ Len(a \o b) = Len(a) + Len(b)
        /\ \A n \in 1 .. Len(a) + Len(b) :
             (a \o b)[n] = IF n <= Len(a) THEN a[n] ELSE b[n - Len(a)]
    BY <1>5, <1>6, ConcatProperties
  <2>2. DOMAIN (a \o b) = 1 .. Len(a \o b)
    BY <2>1, LenProperties
  <2> QED BY <1>4, <1>5, <1>6, <2>1, <2>2, Zenon
<1>8. ASSUME NEW n \in DOMAIN u PROVE place[n] \in DOMAIN t /\ u[n] = t[place[n]]
  <2>1. CASE n < i
    <3>1. n \in 1 .. j /\ n <= j /\ n \in 1 .. k
      BY <1>2, <1>7, <2>1
    <3> QED BY <1>1, <1>5, <1>7, <2>1, <3>1
  <2>2. CASE ~(n < i)
    <3> DEFINE x == n - j
    <3>1. /\ x \in 1 .. l /\ ~(n <= j) /\ i + x = n + 1 /\ n + 1 \in 1 .. k
      BY <1>2, <1>7, <2>2
    <3>2. u[n] = b[x]
      BY <1>7, <3>1
    <3> HIDE DEF x
    <3>3. u[n] = t[n + 1]
      BY <1>6, <3>1, <3>2
    <3> QED BY <1>1, <2>2, <3>1, <3>3
  <2> QED BY <2>1, <2>2
<1>9. \A m, n \in DOMAIN u : m < n => place[m] < place[n]
  BY <1>1, <1>7, <1>2
<1> HIDE DEF place
<1>10. Ascending(u)
  BY <1>8, <1>9, PartAscends DEF Ordered
<1> QED BY <1>8, <1>10 DEF Ordered, u

\* What the aggregator has received and what is on its way to it.
InOrder == Ordered(reserved, Transit, Ids(received))

\* However the probes of several CPUs overtake each other, and whatever is lost in
\* between, the aggregator receives frames in the order in which they got their
\* records (bpf/packet.c:92), none twice and none that did not get one.
THEOREM FramesInOrder == Spec => []InOrder
<1>1. Init => InOrder
  <2>1. SUFFICES ASSUME Init PROVE InOrder
    OBVIOUS
  <2>2. Ids(received) = <<>> /\ Transit = <<>>
    BY <2>1 DEF Init, Held, Ids, Transit
  <2>3. DOMAIN <<>> = {}
    OBVIOUS
  <2> QED BY <2>2, <2>3 DEF InOrder, Ordered, Ascending
<1>2. Inv /\ InOrder /\ [Next]_vars => InOrder'
  <2> SUFFICES ASSUME Inv, InOrder, [Next]_vars PROVE InOrder'
    OBVIOUS
  <2>1. reserved \in Nat /\ Transit \in Seq(Nat) /\ Ids(received) \in Seq(Nat)
    BY TransitParts DEF Inv, TypeOK
  <2>2. Pipe!Next \/ UNCHANGED Pipe!vars
    BY StepRefines
  <2>3. CASE Pipe!Enter
    <3>1. reserved' = reserved + 1 /\ Transit' = Append(Transit, reserved + 1)
          /\ Ids(received)' = Ids(received)
      BY <2>3 DEF Pipe!Enter
    <3> QED BY <2>1, <3>1, EnterOrdered DEF InOrder
  <2>4. CASE Pipe!Deliver
    <3>1. /\ reserved' = reserved /\ Transit # <<>> /\ Transit' = Tail(Transit)
          /\ Ids(received)' = Append(Ids(received), Head(Transit))
      BY <2>4 DEF Pipe!Deliver
    <3> QED BY <2>1, <3>1, DeliverOrdered DEF InOrder
  <2>5. CASE Pipe!Lose
    <3>1. PICK i \in DOMAIN Transit : Transit' = Pipe!Without(Transit, i)
      BY <2>5 DEF Pipe!Lose
    <3>2. reserved' = reserved /\ Ids(received)' = Ids(received)
      BY <2>5 DEF Pipe!Lose
    <3> QED BY <2>1, <3>1, <3>2, LoseOrdered DEF InOrder
  <2>6. CASE UNCHANGED Pipe!vars
    BY <2>6 DEF Pipe!vars, InOrder
  <2> QED BY <2>2, <2>3, <2>4, <2>5, <2>6 DEF Pipe!Next
<1> QED BY <1>1, <1>2, Invariance, PTL DEF Spec
=============================================================================
