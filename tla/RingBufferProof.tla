--------------------------- MODULE RingBufferProof ---------------------------
(***************************************************************************)
(* For every capacity, every set of packets and any number of readers, the *)
(* ring buffer keeps its invariant and implements a bounded history.       *)
(***************************************************************************)
EXTENDS RingBuffer, SequenceTheorems, TLAPS

\* Where the successor of an index lands, split on the wrap.
LEMMA NextSlot ==
  ASSUME NEW s \in Slots
  PROVE  /\ (s + 1) % Capacity \in Slots
         /\ s + 1 < Capacity => (s + 1) % Capacity = s + 1
         /\ s + 1 = Capacity => (s + 1) % Capacity = 0
  BY CapacityPositive DEF Slots

\* Where the i-th slot after s lands, split on the wrap.
LEMMA SlotAfter ==
  ASSUME NEW s \in Slots, NEW i \in 0 .. Capacity
  PROVE  /\ (s + i) % Capacity \in Slots
         /\ s + i < Capacity => (s + i) % Capacity = s + i
         /\ s + i >= Capacity => (s + i) % Capacity = s + i - Capacity
  BY CapacityPositive DEF Slots

\* A whole turn of the buffer leads back to the slot it started from.
LEMMA FullTurn ==
  ASSUME NEW s \in Slots
  PROVE  (s + Capacity) % Capacity = s
  BY CapacityPositive DEF Slots

\* Less than a whole turn leads to another slot.
LEMMA OtherSlot ==
  ASSUME NEW s \in Slots, NEW i \in 1 .. Capacity - 1
  PROVE  (s + i) % Capacity # s
  BY CapacityPositive DEF Slots

\* Position i counted from the next slot is position i + 1 from this one.
LEMMA NextReadIdx ==
  ASSUME NEW s \in Slots, NEW i \in 1 .. Capacity
  PROVE  (((s + 1) % Capacity) + i - 1) % Capacity = (s + i) % Capacity
<1>1. CASE s + 1 < Capacity
  BY <1>1, NextSlot DEF Slots
<1>2. CASE s + 1 = Capacity
  <2>1. ((s + 1) % Capacity) + i - 1 = i - 1 /\ i - 1 \in Slots
    BY <1>2, NextSlot DEF Slots
  <2>2. s + i = (i - 1) + Capacity
    BY <1>2 DEF Slots
  <2>3. (i - 1) % Capacity = i - 1
    BY <2>1, CapacityPositive DEF Slots
  <2>4. QED
    BY <2>1, <2>2, <2>3, FullTurn
<1>3. QED
  BY <1>1, <1>2, CapacityPositive DEF Slots

\* What GetAll's loop collects from a window without holes is the window.
LEMMA FullWindow ==
  ASSUME NEW ps, NEW start, NEW n \in Nat, WindowFull(ps, start, n)
  PROVE  /\ Window(ps, start, n) \in Seq(Packets)
         /\ NonNil(Window(ps, start, n)) = Window(ps, start, n)
<1>1. Window(ps, start, n) \in Seq(Packets)
  BY DEF Window, WindowFull
<1>2. \A i \in DOMAIN Window(ps, start, n) : IsPacket(Window(ps, start, n)[i])
  BY NilIsNoPacket DEF Window, WindowFull, IsPacket
<1>3. QED
  BY <1>1, <1>2 DEF NonNil
-----------------------------------------------------------------------------
\* NewRingBuffer establishes the invariant.
LEMMA InitInv == Init => Inv
<1>1. SUFFICES ASSUME Init PROVE Inv
  OBVIOUS
<1>2. 0 \in Slots /\ 0 \in 0 .. Capacity /\ 0 % Capacity = 0
  BY CapacityPositive DEF Slots
<1>3. EmptySlots \in [Slots -> Packets \cup {Nil}]
  BY DEF EmptySlots
<1>4. TypeOK
  BY <1>1, <1>2, <1>3 DEF Init, TypeOK
<1>5. BufferConsistent
  BY <1>1, <1>2 DEF Init, BufferConsistent, WindowFull
<1>6. QED
  BY <1>4, <1>5 DEF Inv

\* Add preserves the invariant, whether or not it overwrites a packet.
LEMMA AddInv ==
  ASSUME Inv, NEW pkt \in Packets, Add(pkt)
  PROVE  Inv'
<1> USE CapacityPositive
<1>1. /\ packets \in [Slots -> Packets \cup {Nil}]
      /\ writeIdx \in Slots /\ readIdx \in Slots /\ count \in 0 .. Capacity
  BY DEF Inv, TypeOK
<1>2. /\ packets' = [packets EXCEPT ![writeIdx] = pkt]
      /\ writeIdx' = (writeIdx + 1) % Capacity
  BY DEF Add
<1>4. (writeIdx + 1) % Capacity \in Slots /\ (readIdx + 1) % Capacity \in Slots
  BY <1>1, NextSlot
<1>5. TypeOK'
  BY <1>1, <1>2, <1>4 DEF Inv, TypeOK, Add
<1>6. /\ writeIdx' = (readIdx' + count') % Capacity
      /\ count' < Capacity => readIdx' = 0
  <2>1. CASE count < Capacity
    <3>1. readIdx = 0 /\ readIdx' = 0 /\ count' = count + 1
      BY <2>1, <1>1 DEF Inv, BufferConsistent, Add
    <3>2. writeIdx = count % Capacity
      BY <3>1, <1>1 DEF Inv, BufferConsistent
    <3>3. count % Capacity = count
      BY <2>1, <1>1
    <3>4. QED
      BY <3>1, <3>2, <3>3, <1>1, <1>2
  <2>2. CASE count >= Capacity
    <3>1. count = Capacity /\ count' = Capacity /\ readIdx' = (readIdx + 1) % Capacity
      BY <2>2, <1>1 DEF Add
    <3>2. writeIdx = readIdx
      <4>1. writeIdx = (readIdx + Capacity) % Capacity
        BY <3>1 DEF Inv, BufferConsistent
      <4>2. QED
        BY <4>1, <1>1, FullTurn
    <3>3. writeIdx' = readIdx'
      BY <3>1, <3>2, <1>2
    <3>4. readIdx' \in Slots
      BY <3>1, <1>4
    <3>5. (readIdx' + Capacity) % Capacity = readIdx'
      BY <3>4, FullTurn
    <3>6. QED
      BY <3>1, <3>3, <3>5
  <2>3. QED
    BY <2>1, <2>2, <1>1
<1>7. WindowFull(packets', readIdx', count')
  <2>1. SUFFICES ASSUME NEW i \in 1 .. count'
                 PROVE  packets'[(readIdx' + i - 1) % Capacity] \in Packets
    BY DEF WindowFull
  <2>2. CASE count < Capacity
    <3>1. readIdx = 0 /\ readIdx' = 0 /\ count' = count + 1 /\ writeIdx = count
      <4>1. readIdx = 0 /\ readIdx' = 0 /\ count' = count + 1
        BY <2>2, <1>1 DEF Inv, BufferConsistent, Add
      <4>2. writeIdx = count % Capacity
        BY <4>1, <1>1 DEF Inv, BufferConsistent
      <4>3. QED
        BY <4>1, <4>2, <2>2, <1>1
    <3>2. (readIdx' + i - 1) % Capacity = i - 1 /\ i - 1 \in Slots
      BY <3>1, <2>2, <1>1 DEF Slots
    <3>3. CASE i = count + 1
      BY <3>1, <3>2, <3>3, <1>1, <1>2
    <3>4. CASE i \in 1 .. count
      BY <3>1, <3>2, <3>4, <1>1, <1>2 DEF Inv, BufferConsistent, WindowFull
    <3>5. QED
      BY <3>1, <3>3, <3>4, <1>1
  <2>3. CASE count >= Capacity
    <3>1. count = Capacity /\ count' = Capacity /\ writeIdx = readIdx
      <4>1. count = Capacity /\ count' = Capacity
        BY <2>3, <1>1 DEF Add
      <4>2. writeIdx = (readIdx + Capacity) % Capacity
        BY <4>1 DEF Inv, BufferConsistent
      <4>3. QED
        BY <4>1, <4>2, <1>1, FullTurn
    <3>2. readIdx' = (readIdx + 1) % Capacity
      BY <2>3, <1>1 DEF Add
    <3>3. (readIdx' + i - 1) % Capacity = (readIdx + i) % Capacity
      BY <3>1, <3>2, <1>1, NextReadIdx
    <3>4. (readIdx + i) % Capacity \in Slots
      BY <3>1, <1>1, NextSlot, SlotAfter DEF Slots
    <3>5. CASE i = Capacity
      <4>1. (readIdx + i) % Capacity = writeIdx
        BY <3>1, <3>5, <1>1, FullTurn
      <4>2. QED
        BY <4>1, <3>3, <1>1, <1>2
    <3>6. CASE i < Capacity
      <4>1. \A j \in 1 .. Capacity : packets[(readIdx + j - 1) % Capacity] \in Packets
        BY <3>1 DEF Inv, BufferConsistent, WindowFull
      <4>2. i + 1 \in 1 .. Capacity /\ readIdx + (i + 1) - 1 = readIdx + i
        BY <3>1, <3>6, <1>1 DEF Slots
      <4>3. packets[(readIdx + i) % Capacity] \in Packets
        BY <4>1, <4>2
      <4>4. QED
        BY <4>3, <3>3, <3>4, <1>1, <1>2
    <3>7. QED
      BY <3>1, <3>5, <3>6
  <2>4. QED
    BY <2>2, <2>3, <1>1
<1>8. BufferConsistent'
  BY <1>6, <1>7 DEF Inv, BufferConsistent, Add, WindowFull
<1>9. QED
  BY <1>5, <1>8 DEF Inv

\* A copy taken under the lock is as consistent as the buffer it is taken from.
LEMMA GetAllCopyInv ==
  ASSUME Inv, NEW r \in Readers, GetAllCopy(r)
  PROVE  Inv'
<1>1. TypeOK'
  BY DEF Inv, TypeOK, GetAllCopy, buffer
<1>2. ASSUME NEW q \in Readers
      PROVE  WindowFull(copy'[q].packets, copy'[q].readIdx, copy'[q].count)
  BY DEF Inv, TypeOK, BufferConsistent, WindowFull, GetAllCopy
<1>3. BufferConsistent'
  BY <1>2 DEF Inv, BufferConsistent, WindowFull, GetAllCopy, buffer
<1>4. QED
  BY <1>1, <1>3 DEF Inv

\* GetAll returns packets only, never an empty slot.
LEMMA GetAllReturnInv ==
  ASSUME Inv, NEW r \in Readers, GetAllReturn(r)
  PROVE  Inv'
<1>1. Collected(copy[r]) \in Seq(Packets)
  <2>1. copy[r].count \in Nat
    BY CapacityPositive DEF Inv, TypeOK
  <2>2. WindowFull(copy[r].packets, copy[r].readIdx, copy[r].count)
    BY DEF Inv, BufferConsistent
  <2>3. QED
    BY <2>1, <2>2, FullWindow DEF Collected
<1>2. TypeOK'
  BY <1>1 DEF Inv, TypeOK, GetAllReturn, buffer
<1>3. BufferConsistent'
  BY DEF Inv, BufferConsistent, WindowFull, GetAllReturn, buffer
<1>4. QED
  BY <1>2, <1>3 DEF Inv

\* Clear leaves an empty buffer and the copies readers hold.
LEMMA ClearInv == Inv /\ Clear => Inv'
<1>1. SUFFICES ASSUME Inv, Clear PROVE Inv'
  OBVIOUS
<1>2. 0 \in Slots /\ 0 \in 0 .. Capacity /\ 0 % Capacity = 0
  BY CapacityPositive DEF Slots
<1>3. TypeOK'
  BY <1>1, <1>2 DEF Inv, TypeOK, Clear, EmptySlots
<1>4. BufferConsistent'
  BY <1>1, <1>2 DEF Inv, BufferConsistent, WindowFull, Clear
<1>5. QED
  BY <1>3, <1>4 DEF Inv

\* The ring buffer's indices, slots and outstanding copies stay consistent
\* under every interleaving of Add, Clear and the two halves of GetAll.
THEOREM Invariance == Spec => []Inv
<1>1. Inv /\ [Next]_vars => Inv'
  <2>1. SUFFICES ASSUME Inv, [Next]_vars PROVE Inv'
    OBVIOUS
  <2>2. CASE \E pkt \in Packets : Add(pkt)
    BY <2>1, <2>2, AddInv
  <2>3. CASE \E r \in Readers : GetAllCopy(r)
    BY <2>1, <2>3, GetAllCopyInv
  <2>4. CASE \E r \in Readers : GetAllReturn(r)
    BY <2>1, <2>4, GetAllReturnInv
  <2>5. CASE Clear
    BY <2>1, <2>5, ClearInv
  <2>6. CASE UNCHANGED vars
    BY <2>1, <2>6 DEF vars, Inv, TypeOK, BufferConsistent, WindowFull
  <2>7. QED
    BY <2>1, <2>2, <2>3, <2>4, <2>5, <2>6 DEF Next
<1>2. QED
  BY <1>1, InitInv, PTL DEF Spec

\* The fields of rb and the locals of GetAll keep their ranges: no index the
\* code uses can leave the slice.
THEOREM TypeCorrect == Spec => []TypeOK
  BY Invariance, PTL DEF Inv

\* Write index, read index and count stay in step, and no reader ever meets
\* an empty slot among the packets it was promised.
THEOREM Consistent == Spec => []BufferConsistent
  BY Invariance, PTL DEF Inv
-----------------------------------------------------------------------------
\* Add appends the packet to the history and, when the buffer was full, drops
\* the oldest one: what the overwritten slot means to a reader.
LEMMA AddRecords ==
  ASSUME Inv, NEW pkt \in Packets, Add(pkt)
  PROVE  History' = Abstract!Trimmed(Append(History, pkt))
<1> USE CapacityPositive
<1>1. /\ packets \in [Slots -> Packets \cup {Nil}]
      /\ writeIdx \in Slots /\ readIdx \in Slots /\ count \in 0 .. Capacity
      /\ packets' = [packets EXCEPT ![writeIdx] = pkt]
  BY DEF Inv, TypeOK, Add
<1>2. History \in Seq(Packets) /\ Len(History) = count
  <2>1. WindowFull(packets, readIdx, count) /\ count \in Nat
    BY <1>1 DEF Inv, BufferConsistent
  <2>2. History \in Seq(Packets)
    BY <2>1, FullWindow DEF History
  <2>3. Len(History) = count
    BY <2>1 DEF History, Window
  <2>4. QED
    BY <2>2, <2>3
<1>3. CASE count < Capacity
  <2>1. readIdx = 0 /\ readIdx' = 0 /\ count' = count + 1
    BY <1>1, <1>3 DEF Inv, BufferConsistent, Add
  <2>2. writeIdx = count
    <3>1. writeIdx = count % Capacity
      BY <1>1, <2>1 DEF Inv, BufferConsistent
    <3>2. QED
      BY <3>1, <1>1, <1>3, CapacityPositive
  <2>3. \A i \in 1 .. count + 1 : (0 + i - 1) % Capacity = i - 1 /\ i - 1 \in Slots
    BY <1>1, <1>3, CapacityPositive DEF Slots
  <2>4. History = [i \in 1 .. count |-> packets[i - 1]]
    BY <2>1, <2>3, <1>1 DEF History, Window
  <2>5. History' = [i \in 1 .. count + 1 |-> packets'[i - 1]]
    BY <2>1, <2>3, <1>1 DEF History, Window
  <2>6. History' = [i \in 1 .. count + 1 |-> IF i = count + 1 THEN pkt ELSE packets[i - 1]]
    BY <2>2, <2>3, <2>5, <1>1
  <2>7. Append(History, pkt) = History'
    BY <2>4, <2>6, <1>1, <1>2
  <2>8. Len(Append(History, pkt)) = count + 1
    BY <1>2
  <2>9. QED
    BY <2>7, <2>8, <1>1, <1>3 DEF Abstract!Trimmed
<1>4. CASE count >= Capacity
  <2>1. count = Capacity /\ count' = Capacity /\ readIdx' = (readIdx + 1) % Capacity
    BY <1>1, <1>4 DEF Add
  <2>2. writeIdx = readIdx
    BY <2>1, <1>1, FullTurn DEF Inv, BufferConsistent
  <2>3. /\ Tail(Append(History, pkt)) \in Seq(Packets)
        /\ Len(Tail(Append(History, pkt))) = Capacity
        /\ \A i \in 1 .. Capacity : Tail(Append(History, pkt))[i] =
             IF i = Capacity THEN pkt ELSE History[i + 1]
    <3>1. /\ Append(History, pkt) \in Seq(Packets) /\ Append(History, pkt) # <<>>
          /\ Len(Append(History, pkt)) = Capacity + 1
      BY <1>2, <2>1
    <3>2. \A i \in 1 .. Capacity :
            Append(History, pkt)[i + 1] = IF i = Capacity THEN pkt ELSE History[i + 1]
      BY <1>2, <2>1
    <3>3. QED
      BY <3>1, <3>2, HeadTailProperties
  <2>4. ASSUME NEW i \in 1 .. Capacity
        PROVE  History'[i] = IF i = Capacity THEN pkt ELSE History[i + 1]
    <3>1. History'[i] = packets'[(readIdx' + i - 1) % Capacity]
      BY <2>1 DEF History, Window
    <3>2. (readIdx' + i - 1) % Capacity = (readIdx + i) % Capacity
      BY <2>1, <1>1, NextReadIdx
    <3>3. CASE i = Capacity
      BY <3>1, <3>2, <3>3, <2>2, <1>1, FullTurn
    <3>4. CASE i < Capacity
      <4>1. (readIdx + i) % Capacity \in Slots /\ (readIdx + i) % Capacity # writeIdx
        BY <3>4, <2>2, <1>1, SlotAfter, OtherSlot
      <4>2. readIdx + (i + 1) - 1 = readIdx + i /\ i + 1 \in 1 .. Capacity
        BY <3>4, <1>1 DEF Slots
      <4>3. History[i + 1] = packets[(readIdx + i) % Capacity]
        BY <4>2, <2>1 DEF History, Window
      <4>4. QED
        BY <4>1, <4>3, <3>1, <3>2, <3>4, <1>1
    <3>5. QED
      BY <3>3, <3>4, CapacityPositive
  <2>5. /\ History' = [i \in 1 .. Capacity |-> History'[i]]
        /\ Tail(Append(History, pkt)) =
             [i \in 1 .. Capacity |-> Tail(Append(History, pkt))[i]]
    BY <2>1, <2>3 DEF History, Window
  <2>6. History' = Tail(Append(History, pkt))
    BY <2>3, <2>4, <2>5
  <2>7. Len(Append(History, pkt)) > Capacity
    BY <1>2, <2>1, CapacityPositive
  <2>8. QED
    BY <2>6, <2>7 DEF Abstract!Trimmed
<1>5. QED
  BY <1>1, <1>3, <1>4, CapacityPositive

\* Every step of the ring buffer is a step of the bounded history or a stutter.
LEMMA StepRefines ==
  ASSUME Inv, [Next]_vars
  PROVE  [Abstract!Next]_(Abstract!vars)
<1>1. ASSUME NEW pkt \in Packets, Add(pkt)
      PROVE  Abstract!Next
  <2>1. History' = Abstract!Trimmed(Append(History, pkt))
    BY <1>1, AddRecords
  <2>2. UNCHANGED Answer
    BY <1>1 DEF Answer, Add, Window
  <2>3. QED
    BY <2>1, <2>2 DEF Abstract!Next, Abstract!Record
<1>2. ASSUME NEW r \in Readers, GetAllCopy(r)
      PROVE  Abstract!Next
  <2>1. UNCHANGED History
    BY <1>2 DEF History, Window, GetAllCopy, buffer
  <2>2. Answer' = [Answer EXCEPT ![r] = History]
    BY <1>2 DEF Inv, TypeOK, Answer, History, GetAllCopy
  <2>3. Abstract!Latest(History, Capacity) = History
    <3>1. count \in Nat /\ count <= Capacity
      BY CapacityPositive DEF Inv, TypeOK
    <3>2. Len(History) = count
      BY <3>1 DEF History, Window
    <3>3. QED
      BY <3>1, <3>2, CapacityPositive DEF Abstract!Latest
  <2>4. Abstract!Report(r)
    BY <2>1, <2>2, <2>3 DEF Abstract!Report
  <2>5. QED
    BY <2>4 DEF Abstract!Next
<1>3. ASSUME NEW r \in Readers, GetAllReturn(r)
      PROVE  UNCHANGED <<History, Answer>>
  <2>1. UNCHANGED History
    BY <1>3 DEF History, Window, GetAllReturn, buffer
  <2>2. Collected(copy[r]) = Window(copy[r].packets, copy[r].readIdx, copy[r].count)
    <3>1. copy[r].count \in Nat
      BY CapacityPositive DEF Inv, TypeOK
    <3>2. QED
      BY <3>1, FullWindow DEF Inv, BufferConsistent, Collected
  <2>3. UNCHANGED Answer
    BY <1>3, <2>2 DEF Inv, TypeOK, Answer, GetAllReturn, Window
  <2>4. QED
    BY <2>1, <2>3
<1>4. ASSUME Clear PROVE Abstract!Next
  <2>1. History' = <<>>
    BY <1>4 DEF History, Window, Clear
  <2>2. UNCHANGED Answer
    BY <1>4 DEF Answer, Clear, Window
  <2>3. QED
    BY <2>1, <2>2 DEF Abstract!Next, Abstract!Forget
<1>5. ASSUME UNCHANGED vars PROVE UNCHANGED <<History, Answer>>
  BY <1>5 DEF vars, History, Answer, Window
<1>6. QED
  BY <1>1, <1>2, <1>3, <1>4, <1>5 DEF Next, Abstract!vars

\* GetAll returns the latest packets, at most Capacity of them, oldest first,
\* as they stood when it held the lock, for every interleaving with Add.
THEOREM RefinesBoundedHistory == Spec => ImplementsBoundedHistory
<1>1. Init => Abstract!Init
  BY DEF Init, Abstract!Init, History, Answer, Window
<1>2. QED
  BY <1>1, Invariance, StepRefines, PTL
  DEF Spec, ImplementsBoundedHistory, Abstract!Spec
=============================================================================
