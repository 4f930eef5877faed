----------------------------- MODULE RingBuffer -----------------------------
(***************************************************************************)
(* internal/model/ringbuffer.go: the fixed-size circular buffer that holds *)
(* a flow's packet history.  The aggregator calls Add, the dashboard calls *)
(* GetAll and Len, from different goroutines; rb.mu makes each locked      *)
(* section one step.  GetAll unlocks after it has copied the slice and     *)
(* the indices, and walks its copy outside the lock, so it is two steps.   *)
(***************************************************************************)
EXTENDS Naturals, Sequences

CONSTANTS Packets,    \* the *PacketRecord values that are added
          Capacity,   \* rb.capacity
          Readers,    \* the goroutines that call GetAll
          Nil         \* an empty slot

\* NewFlowAggregator clamps the capacity to 1000..50000 before it is used.
ASSUME CapacityPositive == Capacity \in Nat \ {0}
ASSUME NilIsNoPacket == Nil \notin Packets

VARIABLES packets,    \* rb.packets
          writeIdx,   \* rb.writeIdx
          readIdx,    \* rb.readIdx
          count,      \* rb.count
          pc,         \* pc[r]: where reader r is in GetAll
          copy,       \* copy[r]: GetAll's locals packets, readIdx and count
          result      \* result[r]: what r's latest GetAll returned

buffer == <<packets, writeIdx, readIdx, count>>
vars == <<packets, writeIdx, readIdx, count, pc, copy, result>>

Slots == 0 .. Capacity - 1
EmptySlots == [s \in Slots |-> Nil]

\* The slice GetAll collects from the slots ps: n of them, from slot start on.
Window(ps, start, n) == [i \in 1 .. n |-> ps[(start + i - 1) % Capacity]]

IsPacket(p) == p # Nil
DropNils(s) == SelectSeq(s, IsPacket)

\* The loop of GetAll appends an element only when it is not nil.
NonNil(s) == IF \A i \in DOMAIN s : IsPacket(s[i]) THEN s ELSE DropNils(s)

\* Mutant of Collected: the loop starts at slot 0 instead of readIdx.
CollectedFromSlotZero(c) == NonNil(Window(c.packets, 0, c.count))

Collected(c) == NonNil(Window(c.packets, c.readIdx, c.count))
-----------------------------------------------------------------------------
\* NewRingBuffer
Init == /\ packets = EmptySlots
        /\ writeIdx = 0
        /\ readIdx = 0
        /\ count = 0
        /\ pc = [r \in Readers |-> "idle"]
        /\ copy = [r \in Readers |->
                     [packets |-> EmptySlots, readIdx |-> 0, count |-> 0]]
        /\ result = [r \in Readers |-> <<>>]

\* Mutants of Add: the write index is not wrapped; the read index stays where
\* it is when the oldest packet is overwritten.
AddWithoutWrap(pkt) ==
  /\ packets' = [packets EXCEPT ![writeIdx] = pkt]
  /\ writeIdx' = writeIdx + 1
  /\ count' = IF count < Capacity THEN count + 1 ELSE count
  /\ readIdx' = IF count < Capacity THEN readIdx ELSE (readIdx + 1) % Capacity
  /\ UNCHANGED <<pc, copy, result>>

AddKeepsReadIdx(pkt) ==
  /\ packets' = [packets EXCEPT ![writeIdx] = pkt]
  /\ writeIdx' = (writeIdx + 1) % Capacity
  /\ count' = IF count < Capacity THEN count + 1 ELSE count
  /\ UNCHANGED <<readIdx, pc, copy, result>>

Add(pkt) ==
  /\ packets' = [packets EXCEPT ![writeIdx] = pkt]
  /\ writeIdx' = (writeIdx + 1) % Capacity
  /\ \/ /\ count < Capacity
        /\ count' = count + 1
        /\ UNCHANGED readIdx
     \/ /\ count >= Capacity
        /\ readIdx' = (readIdx + 1) % Capacity
        /\ UNCHANGED count
  /\ UNCHANGED <<pc, copy, result>>

\* GetAll up to rb.mu.Unlock()
GetAllCopy(r) ==
  /\ pc[r] = "idle"
  /\ copy' = [copy EXCEPT ![r] =
                [packets |-> packets, readIdx |-> readIdx, count |-> count]]
  /\ pc' = [pc EXCEPT ![r] = "copied"]
  /\ UNCHANGED <<buffer, result>>

\* GetAll after the unlock
GetAllReturn(r) ==
  /\ pc[r] = "copied"
  /\ result' = [result EXCEPT ![r] = Collected(copy[r])]
  /\ pc' = [pc EXCEPT ![r] = "idle"]
  /\ UNCHANGED <<buffer, copy>>

Clear == /\ packets' = EmptySlots
         /\ writeIdx' = 0
         /\ readIdx' = 0
         /\ count' = 0
         /\ UNCHANGED <<pc, copy, result>>

Next == \/ \E pkt \in Packets : Add(pkt)
        \/ \E r \in Readers : GetAllCopy(r) \/ GetAllReturn(r)
        \/ Clear

Spec == Init /\ [][Next]_vars
-----------------------------------------------------------------------------
TypeOK ==
  /\ packets \in [Slots -> Packets \cup {Nil}]
  /\ writeIdx \in Slots
  /\ readIdx \in Slots
  /\ count \in 0 .. Capacity
  /\ pc \in [Readers -> {"idle", "copied"}]
  /\ copy \in [Readers -> [packets : [Slots -> Packets \cup {Nil}],
                           readIdx : Slots, count : 0 .. Capacity]]
  /\ result \in [Readers -> Seq(Packets)]

\* The slots that the n positions from start on denote hold packets.
WindowFull(ps, start, n) ==
  \A i \in 1 .. n : ps[(start + i - 1) % Capacity] \in Packets

\* The indices of Add stay in step: the next write goes to the slot behind the
\* newest packet, a buffer that is not full has never moved its read index,
\* and no slot between the two is empty, neither in the buffer nor in a copy
\* a reader still holds, so the nil test of GetAll's loop never skips a packet.
BufferConsistent ==
  /\ writeIdx = (readIdx + count) % Capacity
  /\ count < Capacity => readIdx = 0
  /\ WindowFull(packets, readIdx, count)
  /\ \A r \in Readers :
       WindowFull(copy[r].packets, copy[r].readIdx, copy[r].count)

\* The inductive invariant behind the refinement.
Inv == TypeOK /\ BufferConsistent
-----------------------------------------------------------------------------
(***************************************************************************)
(* GetAll takes effect when it copies the slots under the lock: from then  *)
(* on what it will return is settled, whatever Add does meanwhile.         *)
(***************************************************************************)
History == Window(packets, readIdx, count)
Answer == [r \in Readers |-> IF pc[r] = "copied"
                             THEN Window(copy[r].packets, copy[r].readIdx, copy[r].count)
                             ELSE result[r]]

Abstract == INSTANCE BoundedHistory
              WITH Items <- Packets, Asked <- {Capacity}, hist <- History, answer <- Answer

\* Every behaviour of the ring buffer under concurrent Add and GetAll is a
\* behaviour of a bounded history: GetAll gives the Capacity latest packets,
\* oldest first ("newest last", ringbuffer.go:46), as of one instant.
ImplementsBoundedHistory == Abstract!Spec
=============================================================================
