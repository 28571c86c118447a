-------------------------- MODULE UserQueueProofs --------------------------
(***************************************************************************)
(* Proofs about the guarded user-message queue, for any number of slots    *)
(* and of messages, whatever the interrupt stores between two instructions *)
(* of the load routine, and whatever RAM had at power on.                  *)
(***************************************************************************)
EXTENDS UserQueue, TLAPS

Inv == TypeOK /\ RingInv

USE SlotsAssumption, StoredAssumption

\* At(h, k) is a slot, and different places are different slots.
LEMMA AtFacts ==
    ASSUME NEW h \in Indices
    PROVE  /\ \A k \in 0..Slots : At(h, k) \in Indices
           /\ \A j, k \in 0..(Slots - 1) : At(h, j) = At(h, k) => j = k
           /\ \A k \in 0..(Slots - 1) : Advance(At(h, k)) = At(h, k + 1)
           /\ \A k \in 0..(Slots - 1) : At(Advance(h), k) = At(h, k + 1)
           /\ At(h, 0) = h
           /\ At(h, Slots) = h
           /\ Advance(h) \in Indices
BY DEF At, Advance, Indices

\* The empty ring.
LEMMA InitInv == Init => Inv
<1> SUFFICES ASSUME Init PROVE Inv
  OBVIOUS
<1>1. 0 \in Indices /\ 0 \in 0..Stored /\ page = [i \in Indices |-> 0] /\ count = 0 /\ head = 0
  BY DEF Init, Indices
<1>2. page \in [Indices -> 0..Stored]
  BY <1>1
<1>3. TypeOK
  <2>1. tail = 0 /\ slot = 0 /\ body = 0 /\ stored = 0 /\ slipped = FALSE /\ marked \subseteq Indices
    BY DEF Init
  <2>2. load = "idle" /\ outcome = "none"
    BY DEF Init
  <2>3. 0 \in 0..Slots /\ {body, stored} \subseteq 0..Stored
    BY <2>1
  <2>4. QED
    BY <1>1, <1>2, <2>1, <2>2, <2>3 DEF TypeOK
<1>4. First = 0 /\ Live = 0 /\ At(0, 0) = 0
  BY DEF Init, First, Live, At
<1>5. RingInv
  BY <1>4 DEF Init, RingInv
<1>6. QED
  BY <1>3, <1>5 DEF Inv

\* What the types say of the ring.
LEMMA Places ==
    ASSUME Inv
    PROVE  /\ First \in Indices /\ tail \in Indices /\ Live \in 0..Slots /\ Live \in Nat
           /\ head \in Nat /\ count \in 0..Slots /\ stored \in 0..Stored
           /\ head = First \/ (head = Slots /\ First = 0 /\ Resetting)
           /\ load \in {"compare", "reset", "count"} => Live = count - 1
           /\ load \notin {"compare", "reset", "count"} => Live = count
<1>1. /\ head \in Indices \/ (head = Slots /\ Resetting)
      /\ tail \in Indices /\ count \in 0..Slots /\ (load # "idle" => count # 0)
      /\ stored \in 0..Stored
  BY DEF Inv, TypeOK
<1>2. Indices \subseteq Nat /\ 0 \in Indices /\ Slots \notin Indices
  BY DEF Indices
<1>3. First \in Indices /\ head \in Nat /\ (head = First \/ (head = Slots /\ First = 0 /\ Resetting))
  BY <1>1, <1>2 DEF First
<1>4. CASE load \in {"compare", "reset", "count"}
  BY <1>1, <1>3, <1>4 DEF Live
<1>5. CASE load \notin {"compare", "reset", "count"}
  BY <1>1, <1>3, <1>5 DEF Live
<1>6. QED
  BY <1>4, <1>5

\* A message comes: a full ring drops its oldest one for it, also when the load routine
\* has moved the head already and has not yet counted.
LEMMA EnqueueStep ==
    ASSUME Inv, Enqueue
    PROVE  Inv'
<1> DEFINE full == count >= Slots
<1>1. /\ First \in Indices /\ tail \in Indices /\ Live \in 0..Slots
      /\ head \in Nat /\ count \in 0..Slots /\ stored \in 0..Stored
      /\ head = First \/ (head = Slots /\ First = 0 /\ Resetting)
      /\ load \in {"compare", "reset", "count"} => Live = count - 1
      /\ load \notin {"compare", "reset", "count"} => Live = count
  BY Places
<1>2. /\ stored < Stored /\ stored' = stored + 1
      /\ head' = IF full THEN Advance(head) ELSE head
      /\ count' = IF full THEN count ELSE count + 1
      /\ page' = [page EXCEPT ![tail] = stored + 1]
      /\ tail' = Advance(tail) /\ slipped' = (slipped \/ (full /\ Resetting))
      /\ UNCHANGED <<marked, load, slot, body, outcome>>
  BY <1>1 DEF Enqueue
<1>3. Advance(head) \in Indices /\ Advance(tail) \in Indices
  BY <1>1 DEF Advance, Indices
<1>4. TypeOK'
  <2>1. page' \in [Indices -> 0..Stored] /\ stored' \in 0..Stored
    BY <1>1, <1>2 DEF Inv, TypeOK
  <2>2. head' \in Indices \/ (head' = Slots /\ Resetting')
    <3>1. CASE full
      BY <1>2, <1>3, <3>1
    <3>2. CASE ~full
      BY <1>2, <3>2 DEF Inv, TypeOK, Resetting
    <3>3. QED
      BY <3>1, <3>2
  <2>3. count' \in 0..Slots /\ (load' # "idle" => count' # 0)
    BY <1>1, <1>2 DEF Inv, TypeOK
  <2>4. QED
    BY <1>2, <1>3, <2>1, <2>2, <2>3 DEF Inv, TypeOK
<1>5. ASSUME ~slipped' PROVE RingInv'
  <2>1. ~slipped /\ ~(full /\ Resetting)
    BY <1>2, <1>5
  <2>2. /\ load = "reset" => head = Slots
        /\ tail = At(First, Live)
        /\ \A k \in 0..(Live - 1) : page[At(First, k)] = stored - Live + 1 + k
    BY <2>1 DEF Inv, RingInv
  <2>3. \A i \in Indices : page'[i] = IF i = tail THEN stored + 1 ELSE page[i]
    BY <1>1, <1>2 DEF Inv, TypeOK
  <2>4. CASE ~full
    <3>1. head' = head /\ First' = First /\ Live' = Live + 1 /\ Live < Slots
      BY <1>1, <1>2, <2>4 DEF First, Live
    <3>2. tail' = At(First, Live + 1)
      BY <1>1, <1>2, <2>2, <3>1, AtFacts
    <3>3. ASSUME NEW k \in 0..Live
          PROVE  page'[At(First, k)] = stored - Live + 1 + k
      <4>1. k \in 0..(Slots - 1) /\ Live \in 0..(Slots - 1) /\ At(First, k) \in Indices
        BY <1>1, <3>1, AtFacts
      <4>2. CASE k = Live
        BY <1>1, <2>2, <2>3, <4>1, <4>2
      <4>3. CASE k # Live
        <5>1. At(First, k) # tail
          BY <1>1, <2>2, <4>1, <4>3, AtFacts
        <5>2. k \in 0..(Live - 1)
          BY <1>1, <4>3
        <5>3. QED
          BY <2>2, <2>3, <4>1, <5>1, <5>2
      <4>4. QED
        BY <4>2, <4>3
    <3>4. \A k \in 0..(Live' - 1) : page'[At(First', k)] = stored' - Live' + 1 + k
      BY <1>1, <1>2, <3>1, <3>3
    <3>5. load' = "reset" => head' = Slots
      BY <1>2, <2>2, <3>1
    <3>6. QED
      BY <3>1, <3>2, <3>4, <3>5 DEF RingInv
  <2>5. CASE full
    <3>1. head = First /\ head' = Advance(First) /\ load # "reset" /\ count = Slots /\ count' = count
      BY <1>1, <1>2, <2>1, <2>5 DEF Resetting
    <3>2. First' = Advance(First) /\ Live' = Live /\ Live \in {Slots - 1, Slots}
      BY <1>1, <1>2, <1>3, <3>1 DEF First, Live, Indices
    <3>3. tail' = At(Advance(First), Live)
      <4>1. CASE Live = Slots
        BY <1>1, <1>2, <2>2, <4>1, AtFacts
      <4>2. CASE Live = Slots - 1
        BY <1>1, <1>2, <2>2, <4>2, AtFacts
      <4>3. QED
        BY <3>2, <4>1, <4>2
    <3>4. ASSUME NEW k \in 0..(Live - 1)
          PROVE  page'[At(Advance(First), k)] = stored - Live + 2 + k
      <4>1. k \in 0..(Slots - 1) /\ At(Advance(First), k) = At(First, k + 1)
        BY <1>1, AtFacts
      <4>2. CASE k = Live - 1
        <5>1. At(Advance(First), k) = tail
          BY <1>1, <2>2, <4>1, <4>2
        <5>2. QED
          BY <1>1, <2>3, <4>2, <5>1
      <4>3. CASE k # Live - 1
        <5>1. k + 1 \in 1..(Live - 1) /\ k + 1 \in 0..(Slots - 1) /\ k + 1 \in 0..(Live - 1)
          BY <1>1, <4>3
        <5>2. At(First, k + 1) # tail /\ At(First, k + 1) \in Indices
          <6>1. CASE Live = Slots
            <7>1. tail = At(First, 0)
              BY <1>1, <2>2, <6>1, AtFacts
            <7>2. QED
              BY <1>1, <5>1, <7>1, AtFacts
          <6>2. CASE Live = Slots - 1
            BY <1>1, <2>2, <5>1, <6>2, AtFacts
          <6>3. QED
            BY <3>2, <6>1, <6>2
        <5>3. page[At(First, k + 1)] = stored - Live + 1 + (k + 1)
          BY <2>2, <5>1
        <5>4. QED
          BY <1>1, <2>3, <4>1, <5>2, <5>3
      <4>4. QED
        BY <4>2, <4>3
    <3>5. \A k \in 0..(Live' - 1) : page'[At(First', k)] = stored' - Live' + 1 + k
      BY <1>1, <1>2, <3>2, <3>4
    <3>6. load' # "reset"
      BY <1>2, <3>1
    <3>7. QED
      BY <3>2, <3>3, <3>5, <3>6 DEF RingInv
  <2>6. QED
    BY <2>4, <2>5
<1>6. QED
  BY <1>4, <1>5 DEF Inv, RingInv

\* The head moves on: the page it leaves is no longer one of the queue's, although the
\* count still has it.
LEMMA LoadAdvancesStep ==
    ASSUME Inv, LoadAdvances
    PROVE  Inv'
<1>1. /\ First \in Indices /\ tail \in Indices /\ Live \in 0..Slots /\ Live = count
      /\ head = First /\ head \in Indices /\ count \in 1..Slots /\ stored \in 0..Stored
  BY Places DEF LoadAdvances, Inv, TypeOK, Resetting
<1>2. /\ head' = head + 1 /\ load' = "compare"
      /\ UNCHANGED <<page, marked, tail, count, slot, body, stored, outcome, slipped>>
  BY DEF LoadAdvances
<1>3. First' = Advance(First) /\ Live' = Live - 1
  BY <1>1, <1>2 DEF First, Live, Advance, Indices
<1>4. TypeOK'
  BY <1>1, <1>2 DEF Inv, TypeOK, Resetting, Indices
<1>5. ASSUME ~slipped' PROVE RingInv'
  <2>1. /\ tail = At(First, Live)
        /\ \A k \in 0..(Live - 1) : page[At(First, k)] = stored - Live + 1 + k
    BY <1>2, <1>5 DEF Inv, RingInv
  <2>2. tail' = At(First', Live')
    BY <1>1, <1>2, <1>3, <2>1, AtFacts
  <2>3. \A k \in 0..(Live' - 1) : page'[At(First', k)] = stored' - Live' + 1 + k
    <3>1. TAKE k \in 0..(Live' - 1)
    <3>2. k \in 0..(Slots - 1) /\ k + 1 \in 0..(Live - 1) /\ At(First', k) = At(First, k + 1)
      BY <1>1, <1>3, AtFacts
    <3>3. QED
      BY <1>1, <1>2, <1>3, <2>1, <3>2
  <2>4. QED
    BY <1>2, <2>2, <2>3 DEF RingInv
<1>6. QED
  BY <1>4, <1>5 DEF Inv, RingInv

\* The other instructions of the load routine move no page.
LEMMA LoadStep ==
    ASSUME Inv, LoadBegins \/ LoadCopies \/ LoadCompares \/ LoadResets \/ LoadCounts
    PROVE  Inv'
<1>1. /\ First \in Indices /\ Live \in 0..Slots /\ head \in Nat /\ count \in 0..Slots
      /\ head = First \/ (head = Slots /\ First = 0 /\ Resetting)
  BY Places
<1>2. UNCHANGED <<page, marked, tail, stored, slipped>>
  BY DEF LoadBegins, LoadCopies, LoadCompares, LoadResets, LoadCounts
<1> DEFINE Moved == (~slipped => First' = First) /\ Live' = Live /\ (load' = "reset" => head' = Slots)
<1>3. ASSUME LoadBegins \/ LoadCopies PROVE TypeOK' /\ Moved
  <2>1. head \in Indices /\ load \in {"idle", "copy"} /\ count # 0
    BY <1>3 DEF LoadBegins, LoadCopies, Inv, TypeOK, Resetting
  <2>2. UNCHANGED <<head, count>> /\ load' \in {"copy", "advance"} /\ body' \in 0..Stored
        /\ slot' \in Indices /\ outcome' \in {"none", "overlong", "discarded"}
    BY <1>3, <2>1 DEF LoadBegins, LoadCopies, Inv, TypeOK
  <2>3. TypeOK'
    BY <1>2, <2>1, <2>2 DEF Inv, TypeOK
  <2>4. Moved
    BY <2>1, <2>2 DEF First, Live
  <2>5. QED
    BY <2>3, <2>4
<1>4. ASSUME LoadCompares PROVE TypeOK' /\ Moved
  <2>1. UNCHANGED <<head, count, body, slot, outcome>> /\ load = "compare" /\ count # 0
        /\ load' = IF head < Slots THEN "count" ELSE "reset"
    BY <1>4 DEF LoadCompares, Inv, TypeOK
  <2>2. head < Slots => head \in Indices
    BY <1>1 DEF Indices
  <2>3. TypeOK'
    BY <1>1, <1>2, <2>1, <2>2 DEF Inv, TypeOK, Resetting
  <2>4. Moved
    BY <1>1, <2>1 DEF First, Live, Indices
  <2>5. QED
    BY <2>3, <2>4
<1>5. ASSUME LoadResets PROVE TypeOK' /\ Moved
  <2>1. UNCHANGED <<count, body, slot, outcome>> /\ load = "reset" /\ count # 0
        /\ head' = 0 /\ load' = "count"
    BY <1>5 DEF LoadResets, Inv, TypeOK
  <2>2. 0 \in Indices /\ Slots # 0
    BY DEF Indices
  <2>3. TypeOK'
    BY <1>2, <2>1, <2>2 DEF Inv, TypeOK
  <2>4. Moved
    BY <2>1, <2>2 DEF Inv, RingInv, First, Live
  <2>5. QED
    BY <2>3, <2>4
<1>6. ASSUME LoadCounts PROVE TypeOK' /\ Moved
  <2>1. UNCHANGED <<head, body, slot, outcome>> /\ load = "count" /\ head \in Indices
        /\ count \in 1..Slots /\ count' = count - 1 /\ load' = "idle"
    BY <1>1, <1>6 DEF LoadCounts, Inv, TypeOK, Resetting
  <2>2. TypeOK'
    BY <1>2, <2>1 DEF Inv, TypeOK
  <2>3. Moved
    BY <2>1 DEF First, Live
  <2>4. QED
    BY <2>2, <2>3
<1>7. TypeOK' /\ Moved
  BY <1>3, <1>4, <1>5, <1>6
<1>8. RingInv'
  BY <1>2, <1>7 DEF Inv, RingInv
<1>9. QED
  BY <1>7, <1>8 DEF Inv

LEMMA StepInv == Inv /\ [Next]_vars => Inv'
<1> SUFFICES ASSUME Inv, [Next]_vars PROVE Inv'
  OBVIOUS
<1>1. CASE UNCHANGED vars
  BY <1>1 DEF vars, Inv, TypeOK, RingInv, Resetting, First, Live
<1>2. QED
  BY <1>1, EnqueueStep, LoadAdvancesStep, LoadStep DEF Next

\* Head, tail and count stay in range and agree, and the ring holds the newest messages
\* in order, for every number of slots and every interleaving of the interrupt with the
\* instructions of the load routine; but for the one window that RingInv names
\* (guarded_queue.asm, guard_userq_advance_head).
THEOREM RingCorrect == Spec => [](TypeOK /\ RingInv)
<1>1. Inv => TypeOK /\ RingInv
  BY DEF Inv
<1>2. QED
  BY <1>1, InitInv, StepInv, PTL DEF Spec
=============================================================================
