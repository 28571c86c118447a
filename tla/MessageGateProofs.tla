------------------------- MODULE MessageGateProofs -------------------------
(***************************************************************************)
(* Proofs about MessageGate for every set of callers, every subset of      *)
(* cancellable ones and every number of slots.                             *)
(***************************************************************************)
EXTENDS MessageGate, SequenceTheorems, FiniteSetTheorems, TLAPS

-----------------------------------------------------------------------------
(* The list of waiters *)

\* Removing one waiter keeps the others, each at most once.
LEMMA RemoveAtFacts ==
    ASSUME NEW S, NEW s \in Seq(S), NEW k \in 1..Len(s)
    PROVE  /\ RemoveAt(s, k) \in Seq(S)
           /\ Len(RemoveAt(s, k)) = Len(s) - 1
           /\ \A i \in 1..(Len(s) - 1) :
                 RemoveAt(s, k)[i] = IF i < k THEN s[i] ELSE s[i + 1]
<1> DEFINE a == SubSeq(s, 1, k - 1)
           b == SubSeq(s, k + 1, Len(s))
<1>1. /\ Len(s) \in Nat
      /\ \A i \in 1..Len(s) : s[i] \in S
  BY LenProperties, ElementOfSeq
<1>2. /\ a \in Seq(S)
      /\ Len(a) = k - 1
      /\ \A i \in 1..(k - 1) : a[i] = s[i]
  <2>1. \A i \in 1..(k - 1) : s[i] \in S
    BY <1>1
  <2>2. /\ a \in Seq(S)
        /\ Len(a) = IF 1 <= k - 1 THEN (k - 1) - 1 + 1 ELSE 0
        /\ \A i \in 1..((k - 1) - 1 + 1) : a[i] = s[1 + i - 1]
    BY <2>1, SubSeqProperties
  <2>3. QED
    BY <2>2, <1>1
<1>3. /\ b \in Seq(S)
      /\ Len(b) = Len(s) - k
      /\ \A i \in 1..(Len(s) - k) : b[i] = s[k + i]
  <2>1. \A i \in (k + 1)..Len(s) : s[i] \in S
    BY <1>1
  <2>2. /\ b \in Seq(S)
        /\ Len(b) = IF k + 1 <= Len(s) THEN Len(s) - (k + 1) + 1 ELSE 0
        /\ \A i \in 1..(Len(s) - (k + 1) + 1) : b[i] = s[(k + 1) + i - 1]
    BY <2>1, <1>1, SubSeqProperties
  <2>3. QED
    BY <2>2, <1>1
<1>4. /\ a \o b \in Seq(S)
      /\ Len(a \o b) = Len(a) + Len(b)
      /\ \A i \in 1..(Len(a) + Len(b)) :
            (a \o b)[i] = IF i <= Len(a) THEN a[i] ELSE b[i - Len(a)]
  BY <1>2, <1>3, ConcatProperties
<1>5. RemoveAt(s, k) = a \o b
  BY DEF RemoveAt
<1> HIDE DEF a, b
<1>6. k - 1 + (Len(s) - k) = Len(s) - 1
  BY <1>1
<1>7. ASSUME NEW i \in 1..(Len(s) - 1)
      PROVE  (a \o b)[i] = IF i < k THEN s[i] ELSE s[i + 1]
  <2>1. (a \o b)[i] = IF i <= k - 1 THEN a[i] ELSE b[i - (k - 1)]
    BY <1>2, <1>3, <1>4, <1>6
  <2>2. CASE i < k
    <3>1. i \in 1..(k - 1)
      BY <2>2, <1>1
    <3>2. QED
      BY <2>1, <2>2, <3>1, <1>2
  <2>3. CASE ~(i < k)
    <3>1. i - (k - 1) \in 1..(Len(s) - k)
      BY <2>3, <1>1
    <3>2. k + (i - (k - 1)) = i + 1
      BY <1>1
    <3>3. ~(i <= k - 1)
      BY <2>3, <1>1
    <3>4. QED
      BY <2>1, <2>3, <3>1, <3>2, <3>3, <1>3
  <2>4. QED
    BY <2>2, <2>3
<1>8. QED
  BY <1>2, <1>3, <1>4, <1>5, <1>6, <1>7

-----------------------------------------------------------------------------
(* Type correctness *)

\* Nobody has called, the gate is free and the lane is empty.
LEMMA InitTypeOK == Init => TypeOK
<1> SUFFICES ASSUME Init PROVE TypeOK
  OBVIOUS
<1> USE DEF Init
<1>1. pc \in [Callers -> PCs]
  BY DEF PCs
<1>2. /\ route \in [Callers -> {"direct", "overflow", "overlap"}]
      /\ depth \in [Callers -> Nat]
      /\ ahead \in [Callers -> [gate : SUBSET Callers, lane : SUBSET Callers]]
  OBVIOUS
<1>3. <<>> \in Seq(Callers)
  BY EmptySeq
<1>4. Gate!LockTypeOK /\ Lane!LockTypeOK
  BY <1>3 DEF Gate!LockInit, Lane!LockInit, Gate!LockTypeOK, Lane!LockTypeOK
<1>5. atC64 \in Int /\ leftBehind \in Nat
  OBVIOUS
<1>6. QED
  BY <1>1, <1>2, <1>3, <1>4, <1>5 DEF TypeOK

\* The critical sections of the two locks keep the types of their variables.
LEMMA GateTypes ==
    ASSUME NEW c \in Callers, Gate!LockTypeOK,
           \/ Gate!Take \/ Gate!Enqueue(c) \/ Gate!Wake(c) \/ Gate!Abandon(c)
           \/ Gate!Release \/ UNCHANGED gateVars
    PROVE  Gate!LockTypeOK'
<1> USE DEF Gate!LockTypeOK
<1>1. CASE Gate!Take
  BY <1>1 DEF Gate!Take
<1>2. CASE Gate!Enqueue(c)
  BY <1>2, AppendProperties DEF Gate!Enqueue
<1>3. CASE Gate!Wake(c)
  BY <1>3 DEF Gate!Wake
<1>4. CASE Gate!Abandon(c)
  <2>1. CASE UNCHANGED gateWaiters
    BY <1>4, <2>1 DEF Gate!Abandon
  <2>2. CASE ~UNCHANGED gateWaiters
    <3>1. PICK i \in 1..Len(gateWaiters) : gateWaiters' = RemoveAt(gateWaiters, i)
      BY <1>4, <2>2 DEF Gate!Abandon, Gate!RemoveAt, RemoveAt
    <3>2. QED
      BY <1>4, <3>1, RemoveAtFacts DEF Gate!Abandon
  <2>3. QED
    BY <2>1, <2>2
<1>5. CASE Gate!Release
  BY <1>5, HeadTailProperties DEF Gate!Release
<1>6. CASE UNCHANGED gateVars
  BY <1>6 DEF gateVars
<1>7. QED
  BY <1>1, <1>2, <1>3, <1>4, <1>5, <1>6

\* The waits of the overflow lane keep the types of their variables.
LEMMA LaneTypes ==
    ASSUME NEW c \in Callers, Lane!LockTypeOK,
           \/ Lane!Take \/ Lane!Enqueue(c) \/ Lane!Wake(c) \/ Lane!Abandon(c)
           \/ Lane!Release \/ UNCHANGED laneVars
    PROVE  Lane!LockTypeOK'
<1> USE DEF Lane!LockTypeOK
<1>1. CASE Lane!Take
  BY <1>1 DEF Lane!Take
<1>2. CASE Lane!Enqueue(c)
  BY <1>2, AppendProperties DEF Lane!Enqueue
<1>3. CASE Lane!Wake(c)
  BY <1>3 DEF Lane!Wake
<1>4. CASE Lane!Abandon(c)
  <2>1. CASE UNCHANGED laneWaiters
    BY <1>4, <2>1 DEF Lane!Abandon
  <2>2. CASE ~UNCHANGED laneWaiters
    <3>1. PICK i \in 1..Len(laneWaiters) : laneWaiters' = RemoveAt(laneWaiters, i)
      BY <1>4, <2>2 DEF Lane!Abandon, Lane!RemoveAt, RemoveAt
    <3>2. QED
      BY <1>4, <3>1, RemoveAtFacts DEF Lane!Abandon
  <2>3. QED
    BY <2>1, <2>2
<1>5. CASE Lane!Release
  BY <1>5, HeadTailProperties DEF Lane!Release
<1>6. CASE UNCHANGED laneVars
  BY <1>6 DEF laneVars
<1>7. QED
  BY <1>1, <1>2, <1>3, <1>4, <1>5, <1>6

\* Every step keeps the types.
LEMMA StepTypeOK == TypeOK /\ [Next]_vars => TypeOK'
<1> SUFFICES ASSUME TypeOK, [Next]_vars PROVE TypeOK'
  OBVIOUS
<1>1. /\ Gate!LockTypeOK
      /\ Lane!LockTypeOK
      /\ pc \in [Callers -> PCs]
      /\ route \in [Callers -> {"direct", "overflow", "overlap"}]
      /\ depth \in [Callers -> Nat]
      /\ admitted \in Seq(Callers)
      /\ ahead \in [Callers -> [gate : SUBSET Callers, lane : SUBSET Callers]]
  BY DEF TypeOK
<1>2. \A c \in Callers, l \in PCs : Goto(c, l) => pc' \in [Callers -> PCs]
  BY <1>1 DEF Goto
<1>3. ASSUME NEW c \in Callers, Arrive(c)
      PROVE  TypeOK'
  <2>1. Len(gateWaiters) + Bit(gateBusy) \in Nat
    BY <1>1, LenProperties DEF Gate!LockTypeOK, Bit
  <2>2. depth' \in [Callers -> Nat]
    BY <1>1, <1>3, <2>1 DEF Arrive, ReadGateDepth
  <2>3. ahead' \in [Callers -> [gate : SUBSET Callers, lane : SUBSET Callers]]
    <3>1. [gate |-> ParkedAtGate, lane |-> ParkedInLane]
             \in [gate : SUBSET Callers, lane : SUBSET Callers]
      BY DEF ParkedAtGate, ParkedInLane
    <3>2. QED
      BY <1>1, <1>3, <3>1 DEF Arrive
  <2>4. pc' \in [Callers -> PCs]
    BY <1>2, <1>3 DEF Arrive, PCs
  <2>5. Gate!LockTypeOK' /\ Lane!LockTypeOK'
    BY <1>1, <1>3, GateTypes, LaneTypes DEF Arrive
  <2>6. QED
    BY <1>3, <2>2, <2>3, <2>4, <2>5 DEF Arrive, TypeOK, flagVars, c64Vars
<1>4. ASSUME NEW c \in Callers, CheckCapacity(c)
      PROVE  TypeOK'
  <2>1. pc' \in [Callers -> PCs]
    BY <1>2, <1>4 DEF CheckCapacity, PCs
  <2>2. Gate!LockTypeOK' /\ Lane!LockTypeOK'
    BY <1>1, <1>4, GateTypes, LaneTypes DEF CheckCapacity
  <2>3. route' \in [Callers -> {"direct", "overflow", "overlap"}]
    BY <1>1, <1>4 DEF CheckCapacity
  <2>4. overlapBusy' \in BOOLEAN
    BY <1>4 DEF CheckCapacity, TypeOK
  <2>5. QED
    BY <1>4, <2>1, <2>2, <2>3, <2>4 DEF CheckCapacity, TypeOK, flagVars, c64Vars
<1>5. ASSUME NEW c \in Callers, Classify(c)
      PROVE  TypeOK'
  <2>1. pc' \in [Callers -> PCs]
    BY <1>2, <1>5 DEF Classify, PCs
  <2>2. Gate!LockTypeOK' /\ Lane!LockTypeOK'
    BY <1>1, <1>5, GateTypes, LaneTypes DEF Classify
  <2>3. QED
    BY <1>5, <2>1, <2>2 DEF Classify, TypeOK, flagVars, c64Vars
<1>6. ASSUME NEW c \in Callers, TryGate(c)
      PROVE  TypeOK'
  <2>1. pc' \in [Callers -> PCs]
    BY <1>2, <1>6 DEF TryGate, PCs
  <2>2. Gate!LockTypeOK' /\ Lane!LockTypeOK'
    BY <1>1, <1>6, GateTypes, LaneTypes DEF TryGate
  <2>3. QED
    BY <1>6, <2>1, <2>2 DEF TryGate, TypeOK, flagVars, c64Vars
<1>7. ASSUME NEW c \in Callers, Recheck(c)
      PROVE  TypeOK'
  <2>1. pc' \in [Callers -> PCs]
    BY <1>2, <1>7 DEF Recheck, PCs
  <2>2. Gate!LockTypeOK' /\ Lane!LockTypeOK'
    BY <1>1, <1>7, GateTypes, LaneTypes DEF Recheck
  <2>3. QED
    BY <1>7, <2>1, <2>2 DEF Recheck, TypeOK, flagVars, c64Vars
<1>8. ASSUME NEW c \in Callers, TryOverlap(c)
      PROVE  TypeOK'
  <2>1. pc' \in [Callers -> PCs]
    BY <1>2, <1>8 DEF TryOverlap, PCs
  <2>2. Gate!LockTypeOK' /\ Lane!LockTypeOK'
    BY <1>1, <1>8, GateTypes, LaneTypes DEF TryOverlap
  <2>3. route' \in [Callers -> {"direct", "overflow", "overlap"}]
    BY <1>1, <1>8 DEF TryOverlap
  <2>4. overlapBusy' \in BOOLEAN
    BY <1>8 DEF TryOverlap, TypeOK
  <2>5. QED
    BY <1>8, <2>1, <2>2, <2>3, <2>4 DEF TryOverlap, TypeOK, flagVars, c64Vars
<1>9. ASSUME NEW c \in Callers, AcquireLane(c)
      PROVE  TypeOK'
  <2>1. pc' \in [Callers -> PCs]
    BY <1>2, <1>9 DEF AcquireLane, PCs
  <2>2. Gate!LockTypeOK' /\ Lane!LockTypeOK'
    BY <1>1, <1>9, GateTypes, LaneTypes DEF AcquireLane
  <2>3. QED
    BY <1>9, <2>1, <2>2 DEF AcquireLane, TypeOK, flagVars, c64Vars
<1>10. ASSUME NEW c \in Callers, LaneGranted(c)
      PROVE  TypeOK'
  <2>1. pc' \in [Callers -> PCs]
    BY <1>2, <1>10 DEF LaneGranted, PCs
  <2>2. Gate!LockTypeOK' /\ Lane!LockTypeOK'
    BY <1>1, <1>10, GateTypes, LaneTypes DEF LaneGranted
  <2>3. QED
    BY <1>10, <2>1, <2>2 DEF LaneGranted, TypeOK, flagVars, c64Vars
<1>11. ASSUME NEW c \in Callers, LaneCancelled(c)
      PROVE  TypeOK'
  <2>1. pc' \in [Callers -> PCs]
    BY <1>2, <1>11 DEF LaneCancelled, PCs
  <2>2. Gate!LockTypeOK' /\ Lane!LockTypeOK'
    BY <1>1, <1>11, GateTypes, LaneTypes DEF LaneCancelled
  <2>3. QED
    BY <1>11, <2>1, <2>2 DEF LaneCancelled, TypeOK, flagVars, c64Vars
<1>12. ASSUME NEW c \in Callers, PollRoom(c)
      PROVE  TypeOK'
  <2>1. pc' \in [Callers -> PCs]
    BY <1>2, <1>12 DEF PollRoom, PCs
  <2>2. Gate!LockTypeOK' /\ Lane!LockTypeOK'
    BY <1>1, <1>12, GateTypes, LaneTypes DEF PollRoom
  <2>3. Len(gateWaiters) + Bit(gateBusy) \in Nat
    BY <1>1, LenProperties DEF Gate!LockTypeOK, Bit
  <2>4. depth' \in [Callers -> Nat]
    BY <1>1, <1>12, <2>3 DEF PollRoom, ReadGateDepth
  <2>5. QED
    BY <1>12, <2>1, <2>2, <2>4 DEF PollRoom, TypeOK, flagVars, c64Vars
<1>13. ASSUME NEW c \in Callers, CheckRoom(c)
      PROVE  TypeOK'
  <2>1. pc' \in [Callers -> PCs]
    BY <1>2, <1>13 DEF CheckRoom, PCs
  <2>2. Gate!LockTypeOK' /\ Lane!LockTypeOK'
    BY <1>1, <1>13, GateTypes, LaneTypes DEF CheckRoom
  <2>3. QED
    BY <1>13, <2>1, <2>2 DEF CheckRoom, TypeOK, flagVars, c64Vars
<1>14. ASSUME NEW c \in Callers, RoomCancelled(c)
      PROVE  TypeOK'
  <2>1. pc' \in [Callers -> PCs]
    BY <1>2, <1>14 DEF RoomCancelled, PCs
  <2>2. Gate!LockTypeOK' /\ Lane!LockTypeOK'
    BY <1>1, <1>14, GateTypes, LaneTypes DEF RoomCancelled
  <2>3. QED
    BY <1>14, <2>1, <2>2 DEF RoomCancelled, TypeOK, flagVars, c64Vars
<1>15. ASSUME NEW c \in Callers, AcquireGate(c)
      PROVE  TypeOK'
  <2>1. pc' \in [Callers -> PCs]
    BY <1>2, <1>15 DEF AcquireGate, PCs, AfterGate
  <2>2. Gate!LockTypeOK' /\ Lane!LockTypeOK'
    BY <1>1, <1>15, GateTypes, LaneTypes DEF AcquireGate
  <2>3. ahead' \in [Callers -> [gate : SUBSET Callers, lane : SUBSET Callers]]
    <3>1. CASE ahead' = ahead
      BY <1>1, <3>1
    <3>2. CASE ahead' = [ahead EXCEPT ![c].gate = @ \union ParkedAtGate]
      <4>1. [ahead[c] EXCEPT !.gate = @ \union ParkedAtGate]
               \in [gate : SUBSET Callers, lane : SUBSET Callers]
        BY <1>1 DEF ParkedAtGate
      <4>2. QED
        BY <1>1, <3>2, <4>1
    <3>3. QED
      BY <1>15, <3>1, <3>2 DEF AcquireGate, NoteParked
  <2>4. QED
    BY <1>15, <2>1, <2>2, <2>3 DEF AcquireGate, TypeOK, flagVars, c64Vars
<1>16. ASSUME NEW c \in Callers, GateGranted(c)
      PROVE  TypeOK'
  <2>1. pc' \in [Callers -> PCs]
    BY <1>2, <1>16 DEF GateGranted, PCs, AfterGate
  <2>2. Gate!LockTypeOK' /\ Lane!LockTypeOK'
    BY <1>1, <1>16, GateTypes, LaneTypes DEF GateGranted
  <2>3. QED
    BY <1>16, <2>1, <2>2 DEF GateGranted, TypeOK, flagVars, c64Vars
<1>17. ASSUME NEW c \in Callers, GateCancelled(c)
      PROVE  TypeOK'
  <2>1. pc' \in [Callers -> PCs]
    BY <1>2, <1>17 DEF GateCancelled, PCs
  <2>2. Gate!LockTypeOK' /\ Lane!LockTypeOK'
    BY <1>1, <1>17, GateTypes, LaneTypes DEF GateCancelled
  <2>3. QED
    BY <1>17, <2>1, <2>2 DEF GateCancelled, Bit, TypeOK, flagVars, c64Vars
<1>18. ASSUME NEW c \in Callers, SendMSG(c)
      PROVE  TypeOK'
  <2>1. pc' \in [Callers -> PCs]
    BY <1>2, <1>18 DEF SendMSG, PCs
  <2>2. Gate!LockTypeOK' /\ Lane!LockTypeOK'
    BY <1>1, <1>18, GateTypes, LaneTypes DEF SendMSG, Admit
  <2>3. admitted' \in Seq(Callers)
    BY <1>1, <1>18, AppendProperties DEF SendMSG, Admit
  <2>4. QED
    BY <1>18, <2>1, <2>2, <2>3 DEF SendMSG, Admit, TypeOK, flagVars, c64Vars
<1>19. ASSUME NEW c \in Callers, SendOverlappingMSG(c)
      PROVE  TypeOK'
  <2>1. pc' \in [Callers -> PCs]
    BY <1>2, <1>19 DEF SendOverlappingMSG, PCs
  <2>2. Gate!LockTypeOK' /\ Lane!LockTypeOK'
    BY <1>1, <1>19, GateTypes, LaneTypes DEF SendOverlappingMSG, Admit
  <2>3. admitted' \in Seq(Callers)
    BY <1>1, <1>19, AppendProperties DEF SendOverlappingMSG, Admit
  <2>4. QED
    BY <1>19, <2>1, <2>2, <2>3 DEF SendOverlappingMSG, Admit, TypeOK, flagVars, c64Vars
<1>20. ASSUME NEW c \in Callers, SendFailed(c)
      PROVE  TypeOK'
  <2>1. pc' \in [Callers -> PCs]
    BY <1>2, <1>20 DEF SendFailed, PCs
  <2>2. Gate!LockTypeOK' /\ Lane!LockTypeOK'
    BY <1>1, <1>20, GateTypes, LaneTypes DEF SendFailed
  <2>3. QED
    BY <1>20, <2>1, <2>2 DEF SendFailed, TypeOK, flagVars, c64Vars
<1>21. ASSUME NEW c \in Callers, ReleaseOverlapSend(c)
      PROVE  TypeOK'
  <2>1. pc' \in [Callers -> PCs]
    BY <1>2, <1>21 DEF ReleaseOverlapSend, PCs
  <2>2. Gate!LockTypeOK' /\ Lane!LockTypeOK'
    BY <1>1, <1>21, GateTypes, LaneTypes DEF ReleaseOverlapSend
  <2>3. QED
    BY <1>21, <2>1, <2>2 DEF ReleaseOverlapSend, TypeOK, flagVars, c64Vars
<1>22. ASSUME NEW c \in Callers, ReleaseGate(c)
      PROVE  TypeOK'
  <2>1. pc' \in [Callers -> PCs]
    BY <1>2, <1>22 DEF ReleaseGate, PCs
  <2>2. Gate!LockTypeOK' /\ Lane!LockTypeOK'
    BY <1>1, <1>22, GateTypes, LaneTypes DEF ReleaseGate
  <2>3. QED
    BY <1>22, <2>1, <2>2 DEF ReleaseGate, TypeOK, flagVars, c64Vars
<1>23. ASSUME NEW c \in Callers, ReleaseLane(c)
      PROVE  TypeOK'
  <2>1. pc' \in [Callers -> PCs]
    BY <1>2, <1>23 DEF ReleaseLane, PCs
  <2>2. Gate!LockTypeOK' /\ Lane!LockTypeOK'
    BY <1>1, <1>23, GateTypes, LaneTypes DEF ReleaseLane
  <2>3. QED
    BY <1>23, <2>1, <2>2 DEF ReleaseLane, TypeOK, flagVars, c64Vars
<1>24. ASSUME NEW c \in Callers, LoopEnds(c)
      PROVE  TypeOK'
  <2>1. pc' \in [Callers -> PCs]
    BY <1>2, <1>24 DEF LoopEnds, LoopReturn, LoopFails, PCs
  <2>2. Gate!LockTypeOK' /\ Lane!LockTypeOK'
    BY <1>1, <1>24, GateTypes, LaneTypes DEF LoopEnds, LoopReturn, LoopFails
  <2>3. QED
    BY <1>24, <2>1, <2>2 DEF LoopEnds, LoopReturn, LoopFails, TypeOK, flagVars, c64Vars
<1>25. CASE EventLoop
  <2>1. Gate!LockTypeOK' /\ Lane!LockTypeOK'
    BY <1>1, <1>25 DEF EventLoop, SystemFrame, DispatchTool, ResultFrame, StatusFrame,
       FlagStep, gateVars, laneVars, Gate!LockTypeOK, Lane!LockTypeOK
  <2>2. prompted' \in BOOLEAN /\ waitingTool' \in BOOLEAN
    BY <1>25 DEF EventLoop, SystemFrame, DispatchTool, ResultFrame, StatusFrame, TypeOK
  <2>3. basicRunning' \in BOOLEAN
    BY <1>25, Zenon DEF EventLoop, SystemFrame, DispatchTool, ResultFrame, StatusFrame, TypeOK
  <2>4. completionDrain' \in BOOLEAN
    BY <1>25, Zenon DEF EventLoop, SystemFrame, DispatchTool, ResultFrame, StatusFrame, TypeOK
  <2>5. QED
    BY <1>1, <1>25, <2>1, <2>2, <2>3, <2>4 DEF EventLoop, SystemFrame, DispatchTool, ResultFrame,
       StatusFrame, FlagStep, TypeOK, c64Vars
<1>26. CASE UNCHANGED vars
  <2>1. Gate!LockTypeOK' /\ Lane!LockTypeOK'
    BY <1>1, <1>26 DEF vars, gateVars, laneVars, Gate!LockTypeOK, Lane!LockTypeOK
  <2>2. QED
    BY <1>26, <2>1 DEF vars, flagVars, TypeOK, c64Vars
<1>27. QED
  BY <1>3, <1>4, <1>5, <1>6, <1>7, <1>8, <1>9, <1>10, <1>11, <1>12, <1>13, <1>14, <1>15, <1>16, <1>17, <1>18, <1>19, <1>20, <1>21, <1>22, <1>23, <1>24, <1>25, <1>26 DEF Next, Caller, Cancel

\* In every reachable state the gate, the lane and the callers are well formed, for
\* every set of callers (relay.go, MessageGate and HandleMessageStream).
THEOREM TypeCorrect == Spec => []TypeOK
<1>1. QED
  BY InitTypeOK, StepTypeOK, PTL DEF Spec

-----------------------------------------------------------------------------
(* One owner *)

\* A caller moves, the gate does not, and the caller does not become an owner.
LEMMA Moves ==
    ASSUME TypeOK, GateInv, NEW c \in Callers, NEW l \in PCs,
           pc[c] # "gateWait", l # "gateWait", l \in Owning => Owns(c),
           Goto(c, l), UNCHANGED gateVars
    PROVE  GateInv'
<1>1. /\ pc \in [Callers -> PCs]
      /\ gateWaiters \in Seq(Callers)
      /\ gateClosed \subseteq Callers
  BY DEF TypeOK, Gate!LockTypeOK
<1>2. /\ gateBusy' = gateBusy
      /\ gateWaiters' = gateWaiters
      /\ gateClosed' = gateClosed
  BY DEF gateVars
<1>3. \A d \in Callers : pc'[d] = IF d = c THEN l ELSE pc[d]
  BY <1>1 DEF Goto
<1>4. \A d \in Callers : Holds(d)' => Holds(d)
  BY <1>2, <1>3 DEF Holds, Owns
<1>5. \A i \in 1..Len(gateWaiters) : gateWaiters[i] \in Callers
  BY <1>1, ElementOfSeq
<1>6. /\ \A d \in gateClosed' : pc'[d] = "gateWait"
      /\ \A i \in 1..Len(gateWaiters') :
            pc'[gateWaiters'[i]] = "gateWait" /\ gateWaiters'[i] \notin gateClosed'
  BY <1>1, <1>2, <1>3, <1>5 DEF GateInv
<1>7. Distinct(gateWaiters)'
  BY <1>2 DEF GateInv, Distinct
<1>8. /\ \A d, e \in Callers : Holds(d)' /\ Holds(e)' => d = e
      /\ \A d \in Callers : Holds(d)' => gateBusy'
  BY <1>2, <1>4 DEF GateInv
<1>9. QED
  BY <1>6, <1>7, <1>8 DEF GateInv

\* A caller finds the gate free: nobody held it.
LEMMA Takes ==
    ASSUME TypeOK, GateInv, NEW c \in Callers, NEW l \in Owning,
           pc[c] # "gateWait", Goto(c, l), Gate!Take
    PROVE  GateInv'
<1>1. /\ pc \in [Callers -> PCs]
      /\ gateWaiters \in Seq(Callers)
      /\ gateClosed \subseteq Callers
  BY DEF TypeOK, Gate!LockTypeOK
<1>2. /\ ~gateBusy /\ gateBusy'
      /\ gateWaiters' = gateWaiters
      /\ gateClosed' = gateClosed
  BY DEF Gate!Take
<1>3. \A d \in Callers : pc'[d] = IF d = c THEN l ELSE pc[d]
  BY <1>1 DEF Goto
<1>4. \A d \in Callers : Holds(d)' => d = c
  BY <1>2, <1>3 DEF Holds, Owns, GateInv
<1>5. \A i \in 1..Len(gateWaiters) : gateWaiters[i] \in Callers
  BY <1>1, ElementOfSeq
<1>6. /\ \A d \in gateClosed' : pc'[d] = "gateWait"
      /\ \A i \in 1..Len(gateWaiters') :
            pc'[gateWaiters'[i]] = "gateWait" /\ gateWaiters'[i] \notin gateClosed'
  BY <1>1, <1>2, <1>3, <1>5 DEF GateInv
<1>7. Distinct(gateWaiters)'
  BY <1>2 DEF GateInv, Distinct
<1>8. /\ \A d, e \in Callers : Holds(d)' /\ Holds(e)' => d = e
      /\ \A d \in Callers : Holds(d)' => gateBusy'
  BY <1>2, <1>4
<1>9. QED
  BY <1>6, <1>7, <1>8 DEF GateInv

\* A caller finds the gate busy and queues behind the others.
LEMMA Queues ==
    ASSUME TypeOK, GateInv, NEW c \in Callers,
           pc[c] # "gateWait", ~Owns(c), Goto(c, "gateWait"), Gate!Enqueue(c)
    PROVE  GateInv'
<1>1. /\ pc \in [Callers -> PCs]
      /\ gateWaiters \in Seq(Callers)
      /\ gateClosed \subseteq Callers
      /\ Len(gateWaiters) \in Nat
  BY LenProperties DEF TypeOK, Gate!LockTypeOK
<1>2. /\ gateBusy' = gateBusy
      /\ gateWaiters' = Append(gateWaiters, c)
      /\ gateClosed' = gateClosed
  BY DEF Gate!Enqueue
<1>3. \A d \in Callers : pc'[d] = IF d = c THEN "gateWait" ELSE pc[d]
  BY <1>1 DEF Goto
<1>4. \A d \in Callers : Holds(d)' => Holds(d)
  BY <1>2, <1>3 DEF Holds, Owns, Owning
<1>5. \A i \in 1..Len(gateWaiters) : gateWaiters[i] \in Callers /\ gateWaiters[i] # c
  BY <1>1, ElementOfSeq DEF GateInv
<1>6. /\ Len(gateWaiters') = Len(gateWaiters) + 1
      /\ \A i \in 1..Len(gateWaiters) : gateWaiters'[i] = gateWaiters[i]
      /\ gateWaiters'[Len(gateWaiters) + 1] = c
  BY <1>1, <1>2, AppendProperties
<1>7. c \notin gateClosed
  BY DEF GateInv
<1>8. \A d \in gateClosed' : pc'[d] = "gateWait"
  BY <1>1, <1>2, <1>3 DEF GateInv
<1>9. ASSUME NEW i \in 1..Len(gateWaiters')
      PROVE  pc'[gateWaiters'[i]] = "gateWait" /\ gateWaiters'[i] \notin gateClosed'
  <2>1. CASE i \in 1..Len(gateWaiters)
    BY <1>2, <1>3, <1>5, <1>6, <2>1 DEF GateInv
  <2>2. CASE i = Len(gateWaiters) + 1
    BY <1>2, <1>3, <1>6, <1>7, <2>2
  <2>3. QED
    BY <1>1, <1>6, <2>1, <2>2
<1>10. Distinct(gateWaiters)'
  <2>1. SUFFICES ASSUME NEW i \in 1..(Len(gateWaiters) + 1),
                        NEW j \in 1..(Len(gateWaiters) + 1),
                        gateWaiters'[i] = gateWaiters'[j]
                 PROVE  i = j
    BY <1>6 DEF Distinct
  <2>2. \A k \in 1..(Len(gateWaiters) + 1) :
           k \in 1..Len(gateWaiters) \/ k = Len(gateWaiters) + 1
    BY <1>1
  <2>3. CASE i \in 1..Len(gateWaiters) /\ j \in 1..Len(gateWaiters)
    BY <1>6, <2>1, <2>3 DEF GateInv, Distinct
  <2>4. QED
    BY <1>5, <1>6, <2>1, <2>2, <2>3
<1>11. /\ \A d, e \in Callers : Holds(d)' /\ Holds(e)' => d = e
       /\ \A d \in Callers : Holds(d)' => gateBusy'
  BY <1>2, <1>4 DEF GateInv
<1>12. QED
  BY <1>8, <1>9, <1>10, <1>11 DEF GateInv

\* A caller that was handed the gate runs.
LEMMA Wakes ==
    ASSUME TypeOK, GateInv, NEW c \in Callers, NEW l \in Owning,
           Goto(c, l), Gate!Wake(c)
    PROVE  GateInv'
<1>1. /\ pc \in [Callers -> PCs]
      /\ gateWaiters \in Seq(Callers)
      /\ gateClosed \subseteq Callers
  BY DEF TypeOK, Gate!LockTypeOK
<1>2. /\ c \in gateClosed
      /\ gateBusy' = gateBusy
      /\ gateWaiters' = gateWaiters
      /\ gateClosed' = gateClosed \ {c}
  BY DEF Gate!Wake
<1>3. \A d \in Callers : pc'[d] = IF d = c THEN l ELSE pc[d]
  BY <1>1 DEF Goto
<1>4. \A d \in Callers : Holds(d)' => Holds(d)
  BY <1>2, <1>3 DEF Holds, Owns
<1>5. \A i \in 1..Len(gateWaiters) : gateWaiters[i] \in Callers /\ gateWaiters[i] # c
  BY <1>1, <1>2, ElementOfSeq DEF GateInv
<1>6. /\ \A d \in gateClosed' : pc'[d] = "gateWait"
      /\ \A i \in 1..Len(gateWaiters') :
            pc'[gateWaiters'[i]] = "gateWait" /\ gateWaiters'[i] \notin gateClosed'
  BY <1>1, <1>2, <1>3, <1>5 DEF GateInv
<1>7. Distinct(gateWaiters)'
  BY <1>2 DEF GateInv, Distinct
<1>8. /\ \A d, e \in Callers : Holds(d)' /\ Holds(e)' => d = e
      /\ \A d \in Callers : Holds(d)' => gateBusy'
  BY <1>2, <1>4 DEF GateInv
<1>9. QED
  BY <1>6, <1>7, <1>8 DEF GateInv

\* A cancelled caller leaves the list, or drops the gate it was handed.
LEMMA Abandons ==
    ASSUME TypeOK, GateInv, NEW c \in Callers, NEW l \in PCs,
           l # "gateWait", l \notin Owning, Goto(c, l), Gate!Abandon(c)
    PROVE  GateInv'
<1>1. /\ pc \in [Callers -> PCs]
      /\ gateWaiters \in Seq(Callers)
      /\ gateClosed \subseteq Callers
      /\ Len(gateWaiters) \in Nat
  BY LenProperties DEF TypeOK, Gate!LockTypeOK
<1>2. /\ gateBusy' = gateBusy
      /\ gateClosed' = gateClosed \ {c}
  BY DEF Gate!Abandon
<1>3. \A d \in Callers : pc'[d] = IF d = c THEN l ELSE pc[d]
  BY <1>1 DEF Goto
<1>4. \A d \in Callers : Holds(d)' => Holds(d)
  BY <1>2, <1>3 DEF Holds, Owns
<1>5. \A i \in 1..Len(gateWaiters) : gateWaiters[i] \in Callers
  BY <1>1, ElementOfSeq
<1>6. /\ Distinct(gateWaiters')
      /\ \A i \in 1..Len(gateWaiters') :
            /\ gateWaiters'[i] # c
            /\ \E j \in 1..Len(gateWaiters) : gateWaiters'[i] = gateWaiters[j]
  <2>1. CASE \A i \in 1..Len(gateWaiters) : gateWaiters[i] # c
    <3>1. gateWaiters' = gateWaiters
      BY <2>1 DEF Gate!Abandon
    <3>2. QED
      BY <2>1, <3>1 DEF GateInv, Distinct
  <2>2. CASE \E i \in 1..Len(gateWaiters) : gateWaiters[i] = c
    <3>1. PICK k \in 1..Len(gateWaiters) :
             gateWaiters[k] = c /\ gateWaiters' = RemoveAt(gateWaiters, k)
      BY <2>2 DEF Gate!Abandon, Gate!RemoveAt, RemoveAt
    <3>2. /\ Len(gateWaiters') = Len(gateWaiters) - 1
          /\ \A i \in 1..(Len(gateWaiters) - 1) :
                gateWaiters'[i] = IF i < k THEN gateWaiters[i] ELSE gateWaiters[i + 1]
      BY <1>1, <3>1, RemoveAtFacts
    <3>3. \A i, j \in 1..Len(gateWaiters) : gateWaiters[i] = gateWaiters[j] => i = j
      BY DEF GateInv, Distinct
    <3>4. \A i \in 1..(Len(gateWaiters) - 1) :
             \/ i < k /\ i \in 1..Len(gateWaiters)
             \/ ~(i < k) /\ i + 1 \in 1..Len(gateWaiters) /\ i + 1 # k
      BY <1>1
    <3>5. ASSUME NEW i \in 1..Len(gateWaiters')
          PROVE  /\ gateWaiters'[i] # c
                 /\ \E j \in 1..Len(gateWaiters) : gateWaiters'[i] = gateWaiters[j]
      <4>1. CASE i < k
        <5>1. gateWaiters'[i] = gateWaiters[i] /\ i \in 1..Len(gateWaiters) /\ i # k
          BY <1>1, <3>2, <3>4, <4>1
        <5>2. QED
          BY <3>1, <3>3, <5>1
      <4>2. CASE ~(i < k)
        <5>1. /\ gateWaiters'[i] = gateWaiters[i + 1]
              /\ i + 1 \in 1..Len(gateWaiters) /\ i + 1 # k
          BY <1>1, <3>2, <3>4, <4>2
        <5>2. QED
          BY <3>1, <3>3, <5>1
      <4>3. QED
        BY <4>1, <4>2
    <3>6. ASSUME NEW i \in 1..Len(gateWaiters'), NEW j \in 1..Len(gateWaiters'),
                 gateWaiters'[i] = gateWaiters'[j]
          PROVE  i = j
      BY <1>1, <3>2, <3>3, <3>4, <3>6
    <3>7. QED
      BY <3>5, <3>6 DEF Distinct
  <2>3. QED
    BY <2>1, <2>2
<1>7. /\ \A d \in gateClosed' : pc'[d] = "gateWait"
      /\ \A i \in 1..Len(gateWaiters') :
            pc'[gateWaiters'[i]] = "gateWait" /\ gateWaiters'[i] \notin gateClosed'
  BY <1>1, <1>2, <1>3, <1>5, <1>6 DEF GateInv
<1>8. /\ \A d, e \in Callers : Holds(d)' /\ Holds(e)' => d = e
      /\ \A d \in Callers : Holds(d)' => gateBusy'
  BY <1>2, <1>4 DEF GateInv
<1>9. QED
  BY <1>6, <1>7, <1>8 DEF GateInv, Distinct

\* The owner leaves: the first waiter is handed the gate, or nobody holds it.
LEMMA Leaves ==
    ASSUME TypeOK, GateInv, NEW c \in Callers, NEW l \in PCs,
           l # "gateWait", l \notin Owning, Owns(c), Goto(c, l), Gate!Release
    PROVE  GateInv'
<1>1. /\ pc \in [Callers -> PCs]
      /\ gateWaiters \in Seq(Callers)
      /\ gateClosed \subseteq Callers
      /\ Len(gateWaiters) \in Nat
  BY LenProperties DEF TypeOK, Gate!LockTypeOK
<1>2. \A d \in Callers : pc'[d] = IF d = c THEN l ELSE pc[d]
  BY <1>1 DEF Goto
<1>3. \A i \in 1..Len(gateWaiters) : gateWaiters[i] \in Callers
  BY <1>1, ElementOfSeq
<1>4. Holds(c) /\ gateBusy /\ gateClosed = {}
  <2>1. c \notin gateClosed
    BY DEF GateInv, Owns, Owning
  <2>2. QED
    BY <1>1, <2>1 DEF GateInv, Holds
<1>5. \A d \in Callers : d # c => ~Owns(d)
  BY <1>4 DEF GateInv, Holds
<1>6. \A d \in Callers : ~Owns(d)'
  BY <1>2, <1>5 DEF Owns
<1>7. CASE gateWaiters = <<>>
  <2>1. gateWaiters' = <<>> /\ gateClosed' = {}
    BY <1>4, <1>7 DEF Gate!Release
  <2>2. \A d \in Callers : ~Holds(d)'
    BY <1>6, <2>1 DEF Holds
  <2>3. Len(gateWaiters') = 0
    BY <2>1, EmptySeq
  <2>4. QED
    BY <2>1, <2>2, <2>3 DEF GateInv, Distinct
<1>8. CASE gateWaiters # <<>>
  <2>1. /\ gateBusy' = gateBusy
        /\ gateWaiters' = Tail(gateWaiters)
        /\ gateClosed' = {Head(gateWaiters)}
    BY <1>4, <1>8 DEF Gate!Release
  <2>2. /\ Head(gateWaiters) = gateWaiters[1]
        /\ Len(gateWaiters) > 0
        /\ Len(gateWaiters') = Len(gateWaiters) - 1
        /\ \A i \in 1..Len(gateWaiters') : gateWaiters'[i] = gateWaiters[i + 1]
    BY <1>1, <1>8, <2>1, HeadTailProperties, EmptySeq
  <2>3. \A i \in 1..Len(gateWaiters) : pc[gateWaiters[i]] = "gateWait"
    BY DEF GateInv
  <2>4. \A i \in 1..Len(gateWaiters) : gateWaiters[i] # c
    BY <2>3 DEF Owns, Owning
  <2>5. \A i, j \in 1..Len(gateWaiters) : gateWaiters[i] = gateWaiters[j] => i = j
    BY DEF GateInv, Distinct
  <2>6. 1 \in 1..Len(gateWaiters)
    BY <1>1, <2>2
  <2>7. \A d \in gateClosed' : pc'[d] = "gateWait"
    BY <1>2, <1>3, <2>1, <2>2, <2>3, <2>4, <2>6
  <2>8. ASSUME NEW i \in 1..Len(gateWaiters')
        PROVE  pc'[gateWaiters'[i]] = "gateWait" /\ gateWaiters'[i] \notin gateClosed'
    <3>1. i + 1 \in 1..Len(gateWaiters) /\ i + 1 # 1
      BY <1>1, <2>2
    <3>2. QED
      BY <1>2, <1>3, <2>1, <2>2, <2>3, <2>4, <2>5, <2>6, <3>1
  <2>9. Distinct(gateWaiters)'
    <3>1. SUFFICES ASSUME NEW i \in 1..Len(gateWaiters'), NEW j \in 1..Len(gateWaiters'),
                          gateWaiters'[i] = gateWaiters'[j]
                   PROVE  i = j
      BY DEF Distinct
    <3>2. i + 1 \in 1..Len(gateWaiters) /\ j + 1 \in 1..Len(gateWaiters)
      BY <1>1, <2>2
    <3>3. i + 1 = j + 1
      BY <2>2, <2>5, <3>1, <3>2
    <3>4. QED
      BY <1>1, <2>2, <3>3
  <2>10. \A d \in Callers : Holds(d)' => d = Head(gateWaiters)
    BY <1>6, <2>1 DEF Holds
  <2>11. /\ \A d, e \in Callers : Holds(d)' /\ Holds(e)' => d = e
         /\ \A d \in Callers : Holds(d)' => gateBusy'
    BY <1>4, <2>1, <2>10
  <2>12. QED
    BY <2>7, <2>8, <2>9, <2>11 DEF GateInv
<1>9. QED
  BY <1>7, <1>8

\* The invariant is inductive: every step of a caller keeps it.
LEMMA StepGateInv == TypeOK /\ GateInv /\ [Next]_vars => GateInv'
<1> SUFFICES ASSUME TypeOK, GateInv, [Next]_vars PROVE GateInv'
  OBVIOUS
<1> USE DEF PCs, Owning, Owns
<1>1. ASSUME NEW c \in Callers,
             \/ Arrive(c) \/ CheckCapacity(c) \/ Classify(c) \/ Recheck(c) \/ TryOverlap(c)
             \/ PollRoom(c) \/ CheckRoom(c) \/ RoomCancelled(c)
      PROVE  GateInv'
  BY <1>1, Moves DEF Arrive, CheckCapacity, Classify, Recheck, TryOverlap, PollRoom,
     CheckRoom, RoomCancelled
<1>2. ASSUME NEW c \in Callers, AcquireLane(c) \/ LaneGranted(c) \/ LaneCancelled(c) \/ ReleaseLane(c)
      PROVE  GateInv'
  BY <1>2, Moves DEF AcquireLane, LaneGranted, LaneCancelled, ReleaseLane
<1>3. ASSUME NEW c \in Callers,
             \/ SendMSG(c) \/ SendOverlappingMSG(c) \/ SendFailed(c)
             \/ ReleaseOverlapSend(c) \/ LoopEnds(c)
      PROVE  GateInv'
  BY <1>3, Moves DEF SendMSG, SendOverlappingMSG, SendFailed, ReleaseOverlapSend,
     LoopEnds, LoopReturn, LoopFails, Admit
<1>4. ASSUME NEW c \in Callers, TryGate(c)
      PROVE  GateInv'
  <2>1. CASE Gate!Take /\ Goto(c, "send")
    BY <1>4, <2>1, Takes DEF TryGate
  <2>2. CASE Goto(c, "recheck") /\ UNCHANGED gateVars
    BY <1>4, <2>2, Moves DEF TryGate
  <2>3. QED
    BY <1>4, <2>1, <2>2 DEF TryGate
<1>5. ASSUME NEW c \in Callers, AcquireGate(c)
      PROVE  GateInv'
  <2>1. CASE Gate!Take /\ Goto(c, AfterGate(c))
    BY <1>5, <2>1, Takes DEF AcquireGate, AfterGate
  <2>2. CASE Gate!Enqueue(c) /\ Goto(c, "gateWait")
    BY <1>5, <2>2, Queues DEF AcquireGate
  <2>3. QED
    BY <1>5, <2>1, <2>2 DEF AcquireGate
<1>6. ASSUME NEW c \in Callers, GateGranted(c)
      PROVE  GateInv'
  BY <1>6, Wakes DEF GateGranted, AfterGate
<1>7. ASSUME NEW c \in Callers, GateCancelled(c)
      PROVE  GateInv'
  BY <1>7, Abandons DEF GateCancelled
<1>8. ASSUME NEW c \in Callers, ReleaseGate(c)
      PROVE  GateInv'
  BY <1>8, Leaves DEF ReleaseGate
<1>9. CASE EventLoop \/ UNCHANGED vars
  <2>1. UNCHANGED <<pc, gateVars>>
    BY <1>9 DEF EventLoop, SystemFrame, DispatchTool, ResultFrame, StatusFrame, FlagStep, vars
  <2>2. QED
    BY <2>1 DEF gateVars, GateInv, Holds, Distinct
<1>10. QED
  BY <1>1, <1>2, <1>3, <1>4, <1>5, <1>6, <1>7, <1>8, <1>9 DEF Next, Caller, Cancel

\* At the start nobody holds the gate.
LEMMA InitGateInv == Init => GateInv
<1> SUFFICES ASSUME Init PROVE GateInv
  OBVIOUS
<1>1. gateWaiters = <<>> /\ gateClosed = {} /\ Len(gateWaiters) = 0
  BY EmptySeq DEF Init, Gate!LockInit
<1>2. \A c \in Callers : ~Holds(c)
  BY <1>1 DEF Init, Holds, Owns, Owning
<1>3. QED
  BY <1>1, <1>2 DEF GateInv, Distinct

\* Whatever the callers, whoever is cancelled and when: two callers never run
\* the event loop or use the socket at the same time.
THEOREM GateExclusion == Spec => []GateExclusive
<1>1. GateInv => GateExclusive
  BY DEF GateInv, GateExclusive, Holds
<1>2. QED
  BY <1>1, TypeCorrect, InitGateInv, StepGateInv, PTL DEF Spec

-----------------------------------------------------------------------------
(* What a step does to the gate *)

\* The six ways in which a step of a caller touches the gate.
GateMove(c, l) ==
    \/ /\ UNCHANGED gateVars
       /\ pc[c] # "gateWait" /\ l # "gateWait" /\ (l \in Owning <=> Owns(c))
    \/ Gate!Take /\ pc[c] \in {"gate", "try"} /\ l \in {"send", "overlapLeave"}
    \/ Gate!Enqueue(c) /\ pc[c] = "gate" /\ l = "gateWait"
    \/ Gate!Wake(c) /\ pc[c] = "gateWait" /\ l \in {"send", "overlapLeave"}
    \/ /\ Gate!Abandon(c) /\ c \in Cancellable
       /\ pc[c] = "gateWait" /\ l \in {"overlapFail", "laneLeave", "failed"}
    \/ Gate!Release /\ pc[c] = "gateLeave" /\ l \in {"laneLeave", "done"}

CallerStep(c) == Arrive(c) \/ Caller(c) \/ Cancel(c) \/ LoopEnds(c)

\* Every step of a caller is one of them.
LEMMA CallerMoves ==
    ASSUME TypeOK, NEW c \in Callers, CallerStep(c)
    PROVE  \E l \in PCs : Goto(c, l) /\ GateMove(c, l)
<1> USE DEF PCs, Owning, Owns, GateMove
<1>1. CASE \/ Arrive(c) \/ CheckCapacity(c) \/ Classify(c) \/ Recheck(c) \/ TryOverlap(c)
           \/ PollRoom(c) \/ CheckRoom(c) \/ RoomCancelled(c)
  BY <1>1 DEF Arrive, CheckCapacity, Classify, Recheck, TryOverlap, PollRoom,
     CheckRoom, RoomCancelled
<1>2. CASE AcquireLane(c) \/ LaneGranted(c) \/ LaneCancelled(c) \/ ReleaseLane(c)
  BY <1>2 DEF AcquireLane, LaneGranted, LaneCancelled, ReleaseLane
<1>3. CASE \/ SendMSG(c) \/ SendOverlappingMSG(c) \/ SendFailed(c)
           \/ ReleaseOverlapSend(c) \/ LoopEnds(c)
  BY <1>3 DEF SendMSG, SendOverlappingMSG, SendFailed, ReleaseOverlapSend, LoopEnds, LoopReturn, LoopFails, Admit
<1>4. CASE TryGate(c)
  BY <1>4 DEF TryGate
<1>5. CASE AcquireGate(c)
  BY <1>5 DEF AcquireGate, AfterGate
<1>6. CASE GateGranted(c)
  <2>1. PICK l \in {"send", "overlapLeave"} : Goto(c, l)
    BY <1>6 DEF GateGranted, AfterGate
  <2>2. QED
    BY <1>6, <2>1 DEF GateGranted
<1>7. CASE GateCancelled(c)
  <2>1. PICK l \in {"overlapFail", "laneLeave", "failed"} : Goto(c, l)
    BY <1>7 DEF GateCancelled
  <2>2. QED
    BY <1>7, <2>1 DEF GateCancelled
<1>8. CASE ReleaseGate(c)
  BY <1>8 DEF ReleaseGate
<1>9. QED
  BY <1>1, <1>2, <1>3, <1>4, <1>5, <1>6, <1>7, <1>8 DEF CallerStep, Caller, Cancel

\* What is not a step of a caller leaves the callers and the gate alone.
LEMMA OtherSteps ==
    ASSUME [Next]_vars, \A c \in Callers : ~CallerStep(c)
    PROVE  UNCHANGED <<pc, route, gateVars, overlapBusy, admitted, ahead>>
<1>1. EventLoop \/ UNCHANGED vars
  BY DEF Next, CallerStep
<1>2. QED
  BY <1>1 DEF EventLoop, SystemFrame, DispatchTool, ResultFrame, StatusFrame, FlagStep, vars, c64Vars

-----------------------------------------------------------------------------
(* At most two messages at the C64 *)

\* A message that is appended is admitted, and so are those before it.
LEMMA AdmitFacts ==
    ASSUME TypeOK, NEW c \in Callers, Admit(c)
    PROVE  \A d \in Callers : Admitted(d)' <=> Admitted(d) \/ d = c
<1>1. /\ admitted \in Seq(Callers)
      /\ Len(admitted) \in Nat
      /\ DOMAIN admitted = 1..Len(admitted)
      /\ DOMAIN admitted' = 1..(Len(admitted) + 1)
      /\ \A i \in 1..Len(admitted) : admitted'[i] = admitted[i]
      /\ admitted'[Len(admitted) + 1] = c
  BY AppendProperties, LenProperties DEF TypeOK, Admit
<1>2. 1..(Len(admitted) + 1) = 1..Len(admitted) \union {Len(admitted) + 1}
  BY <1>1
<1>3. Len(admitted) + 1 \notin 1..Len(admitted)
  BY <1>1
<1>4. QED
  BY <1>1, <1>2, <1>3 DEF Admitted, Range

\* A step of one caller keeps the invariant of the overlap slot.
LEMMA StepOverlapInv == TypeOK /\ OverlapInv /\ [Next]_vars => OverlapInv'
<1> SUFFICES ASSUME TypeOK, OverlapInv, [Next]_vars PROVE OverlapInv'
  OBVIOUS
<1>1. pc \in [Callers -> PCs] /\ route \in [Callers -> {"direct", "overflow", "overlap"}]
  BY DEF TypeOK
<1> USE DEF Overlaps, Owns, Owning, Left, Undecided
<1>2. ASSUME NEW c \in Callers, NEW l \in PCs, Goto(c, l),
             UNCHANGED <<route, overlapBusy, admitted>>,
             Overlaps(c)' => Overlaps(c), Undecided(c)' => route[c] # "overlap",
             l \in {"overlapSend", "overlapLeave", "overlapFail"} => route[c] = "overlap",
             Admitted(c) => Owns(c)' \/ Overlaps(c)' \/ Left(c)'
      PROVE  OverlapInv'
  <2>1. \A d \in Callers : pc'[d] = IF d = c THEN l ELSE pc[d]
    BY <1>1, <1>2 DEF Goto
  <2>2. \A d \in Callers : (Overlaps(d)' => Overlaps(d)) /\ (Admitted(d)' <=> Admitted(d))
    BY <1>2, <2>1 DEF Admitted
  <2>3. QED
    BY <1>2, <2>1, <2>2 DEF OverlapInv
<1>3. ASSUME NEW c \in Callers,
             \/ Arrive(c) \/ Classify(c) \/ Recheck(c) \/ TryGate(c)
             \/ PollRoom(c) \/ CheckRoom(c) \/ RoomCancelled(c)
             \/ AcquireLane(c) \/ LaneGranted(c) \/ LaneCancelled(c) \/ ReleaseLane(c)
             \/ AcquireGate(c) \/ GateGranted(c) \/ GateCancelled(c) \/ SendFailed(c)
             \/ LoopEnds(c) \/ ReleaseGate(c)
      PROVE  OverlapInv'
  <2>1. UNCHANGED <<route, overlapBusy, admitted>>
    BY <1>3 DEF Arrive, Classify, Recheck, TryGate, PollRoom, CheckRoom, RoomCancelled,
       AcquireLane, LaneGranted, LaneCancelled, ReleaseLane, AcquireGate, GateGranted,
       GateCancelled, SendFailed, LoopEnds, LoopReturn, LoopFails, ReleaseGate, c64Vars
  <2>2. /\ Admitted(c) => Owns(c) \/ Overlaps(c) \/ Left(c)
        /\ Undecided(c) => route[c] # "overlap"
    BY DEF OverlapInv
  <2>3. pc[c] = "overlapSend" => route[c] = "overlap"
    BY DEF OverlapInv
  <2>4. PICK l \in PCs :
           /\ Goto(c, l)
           /\ \/ pc[c] = "arrive" /\ l = "depth"
              \/ pc[c] = "classify" /\ l \in {"try", "gate"} /\ ~Admitted(c)
              \/ pc[c] = "try" /\ l \in {"send", "recheck"} /\ ~Admitted(c)
              \/ pc[c] = "recheck" /\ l \in {"gate", "overlap"} /\ ~Admitted(c)
              \/ pc[c] = "lane" /\ l \in {"room", "laneWait"}
              \/ pc[c] = "laneWait" /\ l \in {"room", "failed"}
              \/ pc[c] = "room" /\ l \in {"roomDepth", "laneLeave"}
              \/ pc[c] = "roomDepth" /\ l \in {"room", "gate"}
              \/ pc[c] = "laneLeave" /\ l = "done"
              \/ pc[c] \in {"gate", "gateWait"} /\ l = AfterGate(c)
              \/ pc[c] = "gate" /\ l = "gateWait"
              \/ pc[c] = "gateWait" /\ route[c] = "overlap" /\ l = "overlapFail"
              \/ pc[c] = "gateWait" /\ route[c] # "overlap" /\ l \in {"laneLeave", "failed"}
              \/ pc[c] = "send" /\ l = "gateLeave"
              \/ pc[c] = "overlapSend" /\ l = "overlapFail"
              \/ pc[c] = "loop" /\ l = "gateLeave"
              \/ pc[c] = "gateLeave" /\ l \in {"laneLeave", "done"}
    <3> USE DEF PCs
    <3>1. CASE Arrive(c) \/ Classify(c) \/ Recheck(c) \/ TryGate(c)
      BY <2>2, <3>1 DEF Arrive, Classify, Recheck, TryGate
    <3>2. CASE PollRoom(c) \/ CheckRoom(c) \/ RoomCancelled(c) \/ AcquireLane(c)
      BY <3>2 DEF PollRoom, CheckRoom, RoomCancelled, AcquireLane
    <3>3. CASE LaneGranted(c) \/ LaneCancelled(c) \/ ReleaseLane(c)
      BY <3>3 DEF LaneGranted, LaneCancelled, ReleaseLane
    <3>4. CASE AcquireGate(c) \/ GateGranted(c)
      <4>1. AfterGate(c) \in {"send", "overlapLeave"}
        BY DEF AfterGate
      <4>2. QED
        BY <3>4, <4>1 DEF AcquireGate, GateGranted
    <3>5. CASE GateCancelled(c)
      <4>1. /\ pc[c] = "gateWait"
            /\ \/ route[c] = "overlap" /\ Goto(c, "overlapFail")
               \/ route[c] # "overlap" /\ (Goto(c, "laneLeave") \/ Goto(c, "failed"))
        BY <3>5 DEF GateCancelled
      <4>2. QED
        BY <4>1
    <3>6. CASE SendFailed(c) \/ LoopEnds(c) \/ ReleaseGate(c)
      BY <3>6 DEF SendFailed, LoopEnds, LoopReturn, LoopFails, ReleaseGate
    <3>7. QED
      BY <1>3, <3>1, <3>2, <3>3, <3>4, <3>5, <3>6
  <2>5. pc'[c] = l /\ route'[c] = route[c]
    BY <1>1, <2>1, <2>4 DEF Goto
  <2>6. (Overlaps(c)' => Overlaps(c)) /\ (Undecided(c)' => route[c] # "overlap")
    BY <2>2, <2>3, <2>4, <2>5 DEF AfterGate
  <2>7. l \in {"overlapSend", "overlapLeave", "overlapFail"} => route[c] = "overlap"
    BY <2>3, <2>4 DEF AfterGate
  <2>8. Admitted(c) => Owns(c)' \/ Overlaps(c)' \/ Left(c)'
    BY <2>2, <2>4, <2>5 DEF AfterGate
  <2>9. QED
    BY <1>2, <2>1, <2>4, <2>6, <2>7, <2>8
<1>4. ASSUME NEW c \in Callers, CheckCapacity(c)
      PROVE  OverlapInv'
  <2>1. \A d \in Callers :
           /\ d # c => pc'[d] = pc[d] /\ route'[d] = route[d]
           /\ pc'[c] \in {"lane", "classify"}
    BY <1>1, <1>4 DEF CheckCapacity, Goto
  <2>2. ~Admitted(c)
    BY <1>4 DEF CheckCapacity, OverlapInv
  <2>3. \A d \in Callers : (Overlaps(d)' => Overlaps(d)) /\ (Admitted(d)' <=> Admitted(d))
    BY <1>4, <2>1 DEF CheckCapacity, Admitted, c64Vars
  <2>4. overlapBusy' = overlapBusy
    BY <1>4 DEF CheckCapacity
  <2>5. route'[c] # "overlap" /\ \A d \in Callers : d # c => route'[d] = route[d]
    BY <1>1, <1>4 DEF CheckCapacity, OverlapInv
  <2>6. QED
    BY <2>1, <2>2, <2>3, <2>4, <2>5 DEF OverlapInv
<1>5. ASSUME NEW c \in Callers, TryOverlap(c)
      PROVE  OverlapInv'
  <2>1. ~Admitted(c) /\ UNCHANGED admitted
    BY <1>5 DEF TryOverlap, OverlapInv, c64Vars
  <2>2. CASE overlapBusy
    <3>1. Goto(c, "gate") /\ UNCHANGED <<overlapBusy, route>>
      BY <1>5, <2>2 DEF TryOverlap
    <3>2. pc'[c] = "gate" /\ route'[c] = route[c] /\ route[c] # "overlap"
      BY <1>1, <1>5, <3>1 DEF TryOverlap, Goto, OverlapInv
    <3>3. QED
      BY <1>2, <2>1, <3>1, <3>2 DEF PCs
  <2>3. CASE ~overlapBusy
    <3>1. \A d \in Callers : /\ pc'[d] = IF d = c THEN "overlapSend" ELSE pc[d]
                             /\ route'[d] = IF d = c THEN "overlap" ELSE route[d]
      BY <1>1, <1>5, <2>3 DEF TryOverlap, Goto
    <3>2. overlapBusy'
      BY <1>5, <2>3 DEF TryOverlap
    <3>3. \A d \in Callers : (Overlaps(d)' <=> d = c) /\ (Admitted(d)' <=> Admitted(d))
      BY <2>1, <2>3, <3>1 DEF OverlapInv, Admitted
    <3>4. QED
      BY <2>1, <3>1, <3>2, <3>3 DEF OverlapInv
  <2>4. QED
    BY <2>2, <2>3
<1>6. ASSUME NEW c \in Callers, SendMSG(c) \/ SendOverlappingMSG(c)
      PROVE  OverlapInv'
  <2>1. \A d \in Callers : Admitted(d)' <=> Admitted(d) \/ d = c
    BY <1>6, AdmitFacts DEF SendMSG, SendOverlappingMSG
  <2>2. UNCHANGED <<route, overlapBusy>>
    BY <1>6 DEF SendMSG, SendOverlappingMSG, Admit
  <2>3. \/ /\ pc[c] = "send"
           /\ \A d \in Callers : pc'[d] = IF d = c THEN "loop" ELSE pc[d]
        \/ /\ pc[c] = "overlapSend"
           /\ \A d \in Callers : pc'[d] = IF d = c THEN "gate" ELSE pc[d]
    BY <1>1, <1>6 DEF SendMSG, SendOverlappingMSG, Goto
  <2>4. pc[c] = "overlapSend" => route[c] = "overlap"
    BY DEF OverlapInv
  <2>5. \A d \in Callers : Overlaps(d)' <=> Overlaps(d)
    BY <2>2, <2>3, <2>4
  <2>6. Owns(c)' \/ Overlaps(c)'
    BY <2>2, <2>3, <2>4
  <2>7. QED
    BY <2>1, <2>2, <2>3, <2>5, <2>6 DEF OverlapInv
<1>7. ASSUME NEW c \in Callers, ReleaseOverlapSend(c)
      PROVE  OverlapInv'
  <2>1. Overlaps(c)
    BY <1>7 DEF ReleaseOverlapSend, OverlapInv
  <2>2. UNCHANGED <<route, admitted>>
    BY <1>7 DEF ReleaseOverlapSend, c64Vars
  <2>3. PICK l \in {"loop", "failed"} :
           \A d \in Callers : pc'[d] = IF d = c THEN l ELSE pc[d]
    BY <1>1, <1>7 DEF ReleaseOverlapSend, Goto
  <2>4. \A d \in Callers : ~Overlaps(d)' /\ (Admitted(d)' <=> Admitted(d))
    BY <2>1, <2>2, <2>3 DEF OverlapInv, Admitted
  <2>5. QED
    BY <2>2, <2>3, <2>4 DEF OverlapInv
<1>8. CASE \A c \in Callers : ~CallerStep(c)
  BY <1>8, OtherSteps DEF OverlapInv, Admitted
<1>9. QED
  BY <1>3, <1>4, <1>5, <1>6, <1>7, <1>8 DEF CallerStep, Caller, Cancel

\* Nobody holds the slot at the start, and nobody is admitted.
LEMMA InitOverlapInv == Init => OverlapInv
<1> SUFFICES ASSUME Init PROVE OverlapInv
  OBVIOUS
<1>1. \A c \in Callers : pc[c] = "arrive"
  BY DEF Init
<1>2. \A c \in Callers : ~Admitted(c)
  BY EmptySeq DEF Init, Admitted, Range
<1>3. QED
  BY <1>1, <1>2 DEF Init, OverlapInv, Overlaps

\* Two sets that have at most one member each have at most two together.
LEMMA AtMostTwo ==
    ASSUME NEW S, NEW a, NEW b, S \subseteq {a, b}
    PROVE  Cardinality(S) <= 2
<1>1. IsFiniteSet({a}) /\ Cardinality({a}) = 1
  BY FS_Singleton
<1>2. {a, b} = {a} \union {b}
  OBVIOUS
<1>3. IsFiniteSet({a, b}) /\ Cardinality({a, b}) <= 2
  BY <1>1, <1>2, FS_AddElement
<1>4. IsFiniteSet(S) /\ Cardinality(S) <= Cardinality({a, b})
  BY <1>3, FS_Subset
<1>5. Cardinality(S) \in Nat /\ Cardinality({a, b}) \in Nat
  BY <1>3, <1>4, FS_CardinalityType
<1>6. QED
  BY <1>3, <1>4, <1>5

\* What a step of c does to the messages and the routes: others keep theirs, c's own
\* message is sent through the gate or as an overlapping one.
LEMMA Sending ==
    ASSUME TypeOK, OverlapInv, NEW c \in Callers, CallerStep(c)
    PROVE  /\ \A d \in Callers \ {c} : (Admitted(d)' <=> Admitted(d)) /\ route'[d] = route[d]
           /\ Admitted(c) => Admitted(c)' /\ (route[c] = "overlap" => route'[c] = "overlap")
           /\ Admitted(c)' => Admitted(c) \/ pc[c] = "send" \/ route'[c] = "overlap"
           /\ pc[c] = "send" => Admitted(c)' \/ pc'[c] = "gateLeave"
<1>1. pc \in [Callers -> PCs] /\ route \in [Callers -> {"direct", "overflow", "overlap"}]
  BY DEF TypeOK
<1>2. CASE SendMSG(c) \/ SendOverlappingMSG(c)
  <2>1. \A d \in Callers : Admitted(d)' <=> Admitted(d) \/ d = c
    BY <1>2, AdmitFacts DEF SendMSG, SendOverlappingMSG
  <2>2. route' = route
    BY <1>2 DEF SendMSG, SendOverlappingMSG, Admit
  <2>3. pc[c] = "send" \/ route[c] = "overlap"
    BY <1>2 DEF SendMSG, SendOverlappingMSG, OverlapInv
  <2>4. QED
    BY <2>1, <2>2, <2>3
<1>3. CASE CheckCapacity(c) \/ TryOverlap(c)
  <2>1. /\ admitted' = admitted
        /\ \A d \in Callers \ {c} : route'[d] = route[d]
        /\ pc[c] \in {"depth", "overlap"}
    BY <1>1, <1>3 DEF CheckCapacity, TryOverlap, c64Vars
  <2>2. ~Admitted(c)
    BY <2>1 DEF OverlapInv, Owns, Owning, Overlaps, Left
  <2>3. QED
    BY <2>1, <2>2 DEF Admitted
<1>4. CASE \/ Arrive(c) \/ Classify(c) \/ Recheck(c) \/ TryGate(c)
           \/ PollRoom(c) \/ CheckRoom(c) \/ RoomCancelled(c)
           \/ AcquireLane(c) \/ LaneGranted(c) \/ LaneCancelled(c) \/ ReleaseLane(c)
           \/ AcquireGate(c) \/ GateGranted(c) \/ GateCancelled(c) \/ SendFailed(c)
           \/ LoopEnds(c) \/ ReleaseGate(c) \/ ReleaseOverlapSend(c)
  <2>1. UNCHANGED <<route, admitted>>
    BY <1>4 DEF Arrive, Classify, Recheck, TryGate, PollRoom, CheckRoom, RoomCancelled,
       AcquireLane, LaneGranted, LaneCancelled, ReleaseLane, AcquireGate, GateGranted,
       GateCancelled, SendFailed, LoopEnds, LoopReturn, LoopFails, ReleaseGate, ReleaseOverlapSend, c64Vars
  <2>2. pc[c] = "send" => pc'[c] = "gateLeave"
    BY <1>1, <1>4 DEF Arrive, Classify, Recheck, TryGate, PollRoom, CheckRoom, RoomCancelled,
       AcquireLane, LaneGranted, LaneCancelled, ReleaseLane, AcquireGate, GateGranted,
       GateCancelled, SendFailed, LoopEnds, LoopReturn, LoopFails, ReleaseGate, ReleaseOverlapSend, Goto
  <2>3. QED
    BY <2>1, <2>2 DEF Admitted
<1>5. QED
  BY <1>2, <1>3, <1>4 DEF CallerStep, Caller, Cancel

\* What a step of c does to the calls whose message is at the C64 and to the counts:
\* nothing but c comes to them or leaves them, and the counts move with it.
LEMMA Counting ==
    ASSUME TypeOK, OverlapInv, NEW c \in Callers, CallerStep(c)
    PROVE  /\ \A d \in Callers \ {c} : d \in Outstanding' <=> d \in Outstanding
           /\ \/ /\ c \in Outstanding' <=> c \in Outstanding
                 /\ atC64' - leftBehind' = atC64 - leftBehind
              \/ /\ c \notin Outstanding /\ c \in Outstanding'
                 /\ atC64' - leftBehind' = atC64 - leftBehind + 1
              \/ /\ c \in Outstanding /\ c \notin Outstanding'
                 /\ atC64' - leftBehind' = atC64 - leftBehind - 1
<1>1. /\ pc \in [Callers -> PCs] /\ route \in [Callers -> {"direct", "overflow", "overlap"}]
      /\ atC64 \in Int /\ leftBehind \in Nat
  BY DEF TypeOK
<1>2. /\ \A d \in Callers \ {c} : pc'[d] = pc[d]
      /\ \E l \in PCs : Goto(c, l) /\ pc'[c] = l
  <2>1. PICK l \in PCs : Goto(c, l)
    BY CallerMoves
  <2>2. QED
    BY <1>1, <2>1 DEF Goto
<1>3. \A d \in Callers \ {c} : route'[d] = route[d]
  BY Sending
<1>4. \A d \in Callers \ {c} : d \in Outstanding' <=> d \in Outstanding
  BY <1>2, <1>3 DEF Outstanding
<1> DEFINE Kept == c \in Outstanding' <=> c \in Outstanding
           Even == UNCHANGED <<atC64, leftBehind>>
<1>5. /\ pc[c] \in {"depth", "classify", "recheck", "overlap", "roomDepth"} => route[c] # "overlap"
      /\ pc[c] \in {"overlapSend", "overlapLeave", "overlapFail"} => route[c] = "overlap"
  BY DEF OverlapInv, Undecided
<1>6. CASE CheckCapacity(c) \/ TryOverlap(c)
  <2>1. Even
    BY <1>6 DEF CheckCapacity, TryOverlap, c64Vars
  <2>2. /\ pc[c] \in {"depth", "overlap"}
        /\ pc'[c] \in {"lane", "classify", "gate", "overlapSend"}
        /\ pc'[c] = "gate" => route'[c] # "overlap"
    BY <1>1, <1>5, <1>6 DEF CheckCapacity, TryOverlap, Goto
  <2>3. Kept
    BY <2>2 DEF Outstanding
  <2>4. QED
    BY <1>1, <1>4, <2>1, <2>3
<1>7. CASE \/ Arrive(c) \/ Classify(c) \/ Recheck(c) \/ TryGate(c)
           \/ PollRoom(c) \/ CheckRoom(c) \/ RoomCancelled(c)
           \/ AcquireLane(c) \/ LaneGranted(c) \/ LaneCancelled(c) \/ ReleaseLane(c)
           \/ ReleaseOverlapSend(c) \/ ReleaseGate(c)
  <2>1. Even /\ route' = route
    BY <1>7 DEF Arrive, Classify, Recheck, TryGate, PollRoom, CheckRoom, RoomCancelled,
       AcquireLane, LaneGranted, LaneCancelled, ReleaseLane, ReleaseOverlapSend, ReleaseGate,
       c64Vars
  <2>2. /\ pc[c] \notin {"gate", "gateWait", "loop"}
        /\ pc[c] = "overlapLeave" <=> pc'[c] = "loop"
        /\ pc'[c] \notin {"gateWait", "overlapLeave"}
        /\ pc'[c] = "gate" => pc[c] \in {"classify", "recheck", "roomDepth"}
    <3>1. CASE Arrive(c) \/ Classify(c) \/ Recheck(c) \/ TryGate(c)
      BY <1>1, <3>1 DEF Arrive, Classify, Recheck, TryGate, Goto
    <3>2. CASE PollRoom(c) \/ CheckRoom(c) \/ RoomCancelled(c) \/ AcquireLane(c)
      BY <1>1, <3>2 DEF PollRoom, CheckRoom, RoomCancelled, AcquireLane, Goto
    <3>3. CASE LaneGranted(c) \/ LaneCancelled(c) \/ ReleaseLane(c)
      BY <1>1, <3>3 DEF LaneGranted, LaneCancelled, ReleaseLane, Goto
    <3>4. CASE ReleaseOverlapSend(c) \/ ReleaseGate(c)
      BY <1>1, <3>4 DEF ReleaseOverlapSend, ReleaseGate, Goto
    <3>5. QED
      BY <1>7, <3>1, <3>2, <3>3, <3>4
  <2>3. Kept
    BY <1>5, <2>1, <2>2 DEF Outstanding
  <2>4. QED
    BY <1>1, <1>4, <2>1, <2>3
<1>8. CASE AcquireGate(c) \/ GateGranted(c)
  <2>1. Even /\ route' = route
    BY <1>8 DEF AcquireGate, GateGranted, c64Vars
  <2>2. /\ pc[c] \in {"gate", "gateWait"}
        /\ pc'[c] \in {"gateWait", AfterGate(c)}
    BY <1>1, <1>8 DEF AcquireGate, GateGranted, Goto
  <2>3. Kept
    BY <2>1, <2>2 DEF Outstanding, AfterGate
  <2>4. QED
    BY <1>1, <1>4, <2>1, <2>3
<1>9. CASE GateCancelled(c)
  <2>1. /\ pc[c] = "gateWait" /\ route' = route /\ atC64' = atC64
        /\ leftBehind' = leftBehind + Bit(route[c] = "overlap")
    BY <1>9 DEF GateCancelled
  <2>2. pc'[c] \in {"overlapFail", "laneLeave", "failed"}
    BY <1>1, <1>9 DEF GateCancelled, Goto
  <2>3. c \notin Outstanding' /\ (c \in Outstanding <=> route[c] = "overlap")
    BY <2>1, <2>2 DEF Outstanding
  <2>4. QED
    BY <1>1, <1>4, <2>1, <2>3 DEF Bit
<1>10. CASE SendMSG(c) \/ SendOverlappingMSG(c)
  <2>1. atC64' = atC64 + 1 /\ UNCHANGED <<leftBehind, route>>
    BY <1>10 DEF SendMSG, SendOverlappingMSG, Admit
  <2>2. \/ pc[c] = "send" /\ pc'[c] = "loop"
        \/ pc[c] = "overlapSend" /\ pc'[c] = "gate" /\ route[c] = "overlap"
    BY <1>1, <1>5, <1>10 DEF SendMSG, SendOverlappingMSG, Goto
  <2>3. c \notin Outstanding /\ c \in Outstanding'
    BY <2>1, <2>2 DEF Outstanding
  <2>4. QED
    BY <1>1, <1>4, <2>1, <2>3
<1>11. CASE SendFailed(c)
  <2>1. atC64' = atC64 + 1 /\ leftBehind' = leftBehind + 1
    BY <1>11 DEF SendFailed
  <2>2. pc[c] \in {"send", "overlapSend"} /\ pc'[c] \in {"gateLeave", "overlapFail"}
    BY <1>1, <1>11 DEF SendFailed, Goto
  <2>3. Kept
    BY <2>2 DEF Outstanding
  <2>4. QED
    BY <1>1, <1>4, <2>1, <2>3
<1>12. CASE LoopEnds(c)
  <2>1. \/ atC64' = atC64 - 1 /\ leftBehind' = leftBehind
        \/ atC64' = atC64 /\ leftBehind' = leftBehind + 1
    BY <1>12 DEF LoopEnds, LoopReturn, LoopFails
  <2>2. pc[c] = "loop" /\ pc'[c] = "gateLeave"
    BY <1>1, <1>12 DEF LoopEnds, LoopReturn, LoopFails, Goto
  <2>3. c \in Outstanding /\ c \notin Outstanding'
    BY <2>2 DEF Outstanding
  <2>4. QED
    BY <1>1, <1>4, <2>1, <2>3
<1>13. QED
  BY <1>6, <1>7, <1>8, <1>9, <1>10, <1>11, <1>12 DEF CallerStep, Caller, Cancel

\* The count stays right.
LEMMA StepCountInv == TypeOK /\ OverlapInv /\ CountInv /\ [Next]_vars => CountInv'
<1> SUFFICES ASSUME TypeOK, OverlapInv, CountInv, [Next]_vars PROVE CountInv'
  OBVIOUS
<1>1. /\ atC64 \in Int /\ leftBehind \in Nat
      /\ IsFiniteSet(Outstanding) /\ atC64 = Cardinality(Outstanding) + leftBehind
  BY DEF TypeOK, CountInv
<1>2. TypeOK'
  BY StepTypeOK
<1>3. atC64' \in Int /\ leftBehind' \in Nat
  BY <1>2 DEF TypeOK
<1>4. Cardinality(Outstanding) \in Nat
  BY <1>1, FS_CardinalityType
<1>5. CASE \A c \in Callers : ~CallerStep(c)
  <2>1. UNCHANGED <<pc, route>>
    BY <1>5, OtherSteps
  <2>2. Outstanding' = Outstanding
    BY <2>1 DEF Outstanding
  <2>3. UNCHANGED <<atC64, leftBehind>>
    <3>1. EventLoop \/ UNCHANGED vars
      BY <1>5 DEF Next, CallerStep
    <3>2. QED
      BY <3>1 DEF EventLoop, SystemFrame, DispatchTool, ResultFrame, StatusFrame, FlagStep,
         vars, c64Vars
  <2>4. QED
    BY <1>1, <2>2, <2>3 DEF CountInv
<1>6. ASSUME NEW c \in Callers, CallerStep(c)
      PROVE  CountInv'
  <2>1. \A d \in Callers \ {c} : d \in Outstanding' <=> d \in Outstanding
    BY <1>6, Counting
  <2>2. Outstanding \subseteq Callers /\ Outstanding' \subseteq Callers
    BY DEF Outstanding
  <2>3. CASE /\ c \in Outstanding' <=> c \in Outstanding
             /\ atC64' - leftBehind' = atC64 - leftBehind
    <3>1. Outstanding' = Outstanding
      BY <2>1, <2>2, <2>3
    <3>2. QED
      BY <1>1, <1>3, <1>4, <2>3, <3>1 DEF CountInv
  <2>4. CASE /\ c \notin Outstanding /\ c \in Outstanding'
             /\ atC64' - leftBehind' = atC64 - leftBehind + 1
    <3>1. Outstanding' = Outstanding \union {c}
      BY <2>1, <2>2, <2>4
    <3>2. IsFiniteSet(Outstanding') /\ Cardinality(Outstanding') = Cardinality(Outstanding) + 1
      BY <1>1, <2>4, <3>1, FS_AddElement
    <3>3. QED
      BY <1>1, <1>3, <1>4, <2>4, <3>2 DEF CountInv
  <2>5. CASE /\ c \in Outstanding /\ c \notin Outstanding'
             /\ atC64' - leftBehind' = atC64 - leftBehind - 1
    <3>1. Outstanding' = Outstanding \ {c}
      BY <2>1, <2>2, <2>5
    <3>2. IsFiniteSet(Outstanding') /\ Cardinality(Outstanding') = Cardinality(Outstanding) - 1
      BY <1>1, <2>5, <3>1, FS_RemoveElement
    <3>3. QED
      BY <1>1, <1>3, <1>4, <2>5, <3>2 DEF CountInv
  <2>6. QED
    BY <1>6, <2>3, <2>4, <2>5, Counting
<1>7. QED
  BY <1>5, <1>6

\* Cancelled callers or not, and for any number of callers and slots: the messages the
\* C64 may hold unanswered are at most two more than the calls that ended with an error
\* (HandleMessageStream: one gate, one overlap slot, and no word to the C64 on an error).
THEOREM OverlapBound == Spec => []OverlapBounded
<1>1. Init => CountInv
  <2> SUFFICES ASSUME Init PROVE CountInv
    OBVIOUS
  <2>1. Outstanding = {}
    BY DEF Init, Outstanding
  <2>2. IsFiniteSet(Outstanding) /\ Cardinality(Outstanding) = 0
    BY <2>1, FS_EmptySet
  <2>3. QED
    BY <2>2 DEF Init, CountInv
<1>2. TypeOK /\ GateInv /\ OverlapInv /\ CountInv => OverlapBounded
  <2> SUFFICES ASSUME TypeOK, GateInv, OverlapInv, CountInv PROVE OverlapBounded
    OBVIOUS
  <2> DEFINE owner == CHOOSE c \in Callers : Owns(c)
             second == CHOOSE c \in Callers : Overlaps(c)
  <2>1. \A c \in Callers : Owns(c) => c = owner
    BY DEF GateInv, Holds
  <2>2. \A c \in Callers : Overlaps(c) => c = second
    BY DEF OverlapInv
  <2>3. \A c \in Outstanding : c \in Callers /\ (Owns(c) \/ Overlaps(c))
    BY DEF Outstanding, Owns, Owning, Overlaps
  <2> HIDE DEF owner, second
  <2>4. Outstanding \subseteq {owner, second}
    BY <2>1, <2>2, <2>3
  <2>5. Cardinality(Outstanding) <= 2
    BY <2>4, AtMostTwo
  <2>6. Cardinality(Outstanding) \in Nat
    BY FS_CardinalityType DEF CountInv
  <2>7. QED
    BY <2>5, <2>6 DEF TypeOK, CountInv, OverlapBounded
<1>3. QED
  BY <1>1, <1>2, TypeCorrect, InitGateInv, StepGateInv, InitOverlapInv, StepOverlapInv,
     StepCountInv, PTL DEF Spec

-----------------------------------------------------------------------------
(* The ownership is conserved *)

\* A call that has been dropped stays so: it only releases what it holds.
LEMMA DroppedStays ==
    ASSUME TypeOK, OverlapInv, NEW c \in Callers, CallerStep(c), NEW d \in Callers, Dropped(d)
    PROVE  Dropped(d)'
<1>1. \E l \in PCs : Goto(c, l)
  BY CallerMoves
<1>2. pc \in [Callers -> PCs]
  BY DEF TypeOK
<1>3. CASE d # c
  <2>1. pc'[d] = pc[d]
    BY <1>1, <1>2, <1>3 DEF Goto
  <2>2. Admitted(d)' <=> Admitted(d)
    BY <1>3, Sending
  <2>3. QED
    BY <2>1, <2>2 DEF Dropped
<1>4. CASE d = c
  <2>1. pc[c] \in {"overlapFail", "failed", "laneLeave", "done"}
    BY <1>4 DEF Dropped
  <2>2. ReleaseOverlapSend(c) \/ ReleaseLane(c)
    BY <2>1 DEF CallerStep, Caller, Cancel, Arrive, CheckCapacity, Classify, TryGate, Recheck,
       TryOverlap, AcquireLane, LaneGranted, LaneCancelled, PollRoom, CheckRoom, RoomCancelled,
       AcquireGate, GateGranted, GateCancelled, SendMSG, SendOverlappingMSG, SendFailed,
       ReleaseGate, LoopEnds, LoopReturn, LoopFails
  <2>3. CASE ReleaseOverlapSend(c)
    <3>1. pc'[c] = "failed"
      BY <1>2, <2>1, <2>3 DEF ReleaseOverlapSend, Goto
    <3>2. QED
      BY <1>4, <3>1 DEF Dropped
  <2>4. CASE ReleaseLane(c)
    <3>1. pc[c] = "laneLeave" /\ pc'[c] = "done" /\ admitted' = admitted
      BY <1>2, <2>4 DEF ReleaseLane, Goto, c64Vars
    <3>2. QED
      BY <1>4, <3>1 DEF Dropped, Admitted
  <2>5. QED
    BY <2>2, <2>3, <2>4
<1>5. QED
  BY <1>3, <1>4

\* Who leaves the gate's list without the gate is dropped.
LEMMA CancelDrops ==
    ASSUME TypeOK, OverlapInv, NEW c \in Callers, CallerStep(c), pc[c] = "gateWait",
           pc'[c] \in {"overlapFail", "laneLeave", "failed"}
    PROVE  Dropped(c)'
<1>1. pc \in [Callers -> PCs] /\ route \in [Callers -> {"direct", "overflow", "overlap"}]
  BY DEF TypeOK
<1>2. GateGranted(c) \/ GateCancelled(c)
  BY DEF CallerStep, Caller, Cancel, Arrive, CheckCapacity, Classify, TryGate, Recheck,
     TryOverlap, AcquireLane, LaneGranted, LaneCancelled, PollRoom, CheckRoom, RoomCancelled,
     AcquireGate, SendMSG, SendOverlappingMSG, SendFailed, ReleaseOverlapSend, ReleaseGate,
     ReleaseLane, LoopEnds, LoopReturn, LoopFails
<1>3. ~GateGranted(c)
  <2>1. SUFFICES ASSUME GateGranted(c) PROVE FALSE
    OBVIOUS
  <2>2. pc'[c] \in {"send", "overlapLeave"}
    BY <1>1, <2>1 DEF GateGranted, Goto, AfterGate
  <2>3. QED
    BY <2>2
<1>4. GateCancelled(c)
  BY <1>2, <1>3
<1>5. c \in Cancellable /\ admitted' = admitted
  BY <1>4 DEF GateCancelled
<1>6. Admitted(c) => route[c] = "overlap"
  BY DEF OverlapInv, Owns, Owning, Left, Overlaps
<1>7. CASE route[c] = "overlap"
  <2>1. pc'[c] = "overlapFail"
    BY <1>1, <1>4, <1>7 DEF GateCancelled, Goto
  <2>2. QED
    BY <1>5, <2>1 DEF Dropped
<1>8. CASE route[c] # "overlap"
  <2>1. ~Admitted(c)'
    BY <1>5, <1>6, <1>8 DEF Admitted
  <2>2. QED
    BY <1>5, <2>1 DEF Dropped
<1>9. QED
  BY <1>7, <1>8

\* A busy gate has a holder until a call is dropped.
LEMMA StepGateHeld ==
    ASSUME TypeOK, OverlapInv, GateHeld, [Next]_vars
    PROVE  GateHeld'
<1>1. CASE \A c \in Callers : ~CallerStep(c)
  <2>1. UNCHANGED <<pc, gateVars, admitted>>
    BY <1>1, OtherSteps
  <2>2. QED
    BY <2>1 DEF gateVars, GateHeld, GateLost, SomeDropped, Dropped, Admitted, Holds, Owns
<1>2. CASE \E c \in Callers : CallerStep(c)
  <2>1. PICK c \in Callers : CallerStep(c)
    BY <1>2
  <2>2. PICK l \in PCs : Goto(c, l) /\ GateMove(c, l)
    BY <2>1, CallerMoves
  <2>3. \A d \in Callers : pc'[d] = IF d = c THEN l ELSE pc[d]
    BY <2>2 DEF Goto, TypeOK
  <2>4. CASE SomeDropped
    <3>1. SomeDropped'
      BY <2>1, <2>4, DroppedStays DEF SomeDropped
    <3>2. QED
      BY <3>1 DEF GateHeld
  <2>5. CASE ~SomeDropped
    <3>1. gateBusy => \E d \in Callers : Holds(d)
      BY <2>5 DEF GateHeld, GateLost
    <3>2. CASE (Gate!Take \/ Gate!Wake(c)) /\ l \in {"send", "overlapLeave"}
      <4>1. Owns(c)'
        BY <2>3, <3>2 DEF Owns, Owning
      <4>2. QED
        BY <4>1 DEF GateHeld, GateLost, Holds
    <3>3. CASE UNCHANGED gateVars /\ (l \in Owning <=> Owns(c))
      BY <2>3, <3>1, <3>3 DEF GateHeld, GateLost, Holds, Owns, gateVars
    <3>4. CASE Gate!Enqueue(c) /\ pc[c] = "gate"
      BY <2>3, <3>1, <3>4 DEF GateHeld, GateLost, Holds, Owns, Owning, Gate!Enqueue
    <3>5. CASE Gate!Release
      <4>1. CASE gateWaiters # <<>>
        <5>1. Head(gateWaiters) \in Callers
          BY <4>1, HeadTailProperties DEF TypeOK, Gate!LockTypeOK
        <5>2. QED
          BY <3>5, <4>1, <5>1 DEF Gate!Release, GateHeld, GateLost, Holds
      <4>2. CASE gateWaiters = <<>>
        BY <3>5, <4>2 DEF Gate!Release, GateHeld, GateLost
      <4>3. QED
        BY <4>1, <4>2
    <3>6. CASE pc[c] = "gateWait" /\ l \in {"overlapFail", "laneLeave", "failed"}
      <4>1. Dropped(c)'
        BY <2>1, <2>3, <3>6, CancelDrops
      <4>2. QED
        BY <4>1 DEF GateHeld, SomeDropped
    <3>7. QED
      BY <2>2, <3>2, <3>3, <3>4, <3>5, <3>6 DEF GateMove
  <2>6. QED
    BY <2>4, <2>5
<1>3. QED
  BY <1>1, <1>2

\* One holder of a busy gate, none of a free one, counted in two disjoint sets.
LEMMA HolderCount == TypeOK /\ GateInv /\ GateHeld => GateConserved
<1> SUFFICES ASSUME TypeOK, GateInv, GateHeld PROVE GateConserved
  OBVIOUS
<1> DEFINE owners == {c \in Callers : Owns(c)}
<1>1. gateBusy \in BOOLEAN /\ gateClosed \subseteq Callers
  BY DEF TypeOK, Gate!LockTypeOK
<1>2. \A c \in gateClosed : ~Owns(c)
  BY DEF GateInv, Owns, Owning
<1>3. CASE ~gateBusy
  <2>1. owners = {} /\ gateClosed = {}
    BY <1>1, <1>3 DEF GateInv, Holds
  <2>2. QED
    BY <1>3, <2>1, FS_EmptySet DEF GateConserved, Bit
<1>4. CASE GateLost
  BY <1>4 DEF GateHeld, GateConserved
<1>5. CASE gateBusy /\ ~GateLost
  <2>1. PICK c \in Callers : Holds(c)
    BY <1>5 DEF GateLost
  <2>2. \A d \in Callers : Holds(d) => d = c
    BY <2>1 DEF GateInv
  <2>3. CASE Owns(c)
    <3>1. owners = {c} /\ gateClosed = {}
      BY <1>1, <1>2, <2>2, <2>3 DEF Holds
    <3>2. Cardinality(owners) = 1 /\ Cardinality(gateClosed) = 0
      BY <3>1, FS_EmptySet, FS_Singleton, Zenon
    <3>3. QED
      BY <1>5, <3>2 DEF GateConserved, Bit
  <2>4. CASE c \in gateClosed
    <3>1. owners = {} /\ gateClosed = {c}
      BY <1>1, <1>2, <2>2, <2>4 DEF Holds
    <3>2. Cardinality(owners) = 0 /\ Cardinality(gateClosed) = 1
      BY <3>1, FS_EmptySet, FS_Singleton, Zenon
    <3>3. QED
      BY <1>5, <3>2 DEF GateConserved, Bit
  <2>5. QED
    BY <2>1, <2>3, <2>4 DEF Holds
<1>6. QED
  BY <1>1, <1>3, <1>4, <1>5

\* The ownership of the gate is never doubled, and never lost unless a call was
\* cancelled, for any callers (relay.go, acquireMessageGate and releaseMessageGate).
THEOREM GateConservation == Spec => []GateConserved
<1>1. Init => GateHeld
  BY DEF Init, Gate!LockInit, GateHeld, GateLost
<1>2. TypeOK /\ OverlapInv /\ GateHeld /\ [Next]_vars => GateHeld'
  BY StepGateHeld
<1>3. QED
  BY <1>1, <1>2, HolderCount, TypeCorrect, InitGateInv, StepGateInv, InitOverlapInv,
     StepOverlapInv, PTL DEF Spec

-----------------------------------------------------------------------------
(* The gate is handed on in the order of arrival *)

\* What a step of one caller does to the others that are parked: they stay where
\* they are, in the same order, or the one at the head is handed the gate; and who
\* queues does so behind all of them.
LEMMA ListMoves ==
    ASSUME TypeOK, GateInv, NEW c \in Callers, NEW l \in PCs, Goto(c, l), GateMove(c, l)
    PROVE  /\ \A b \in Callers \ {c} : Holds(b) => Holds(b)'
           /\ \A b \in Callers \ {c} : Listed(b) => Listed(b)' \/ b \in gateClosed'
           /\ \A b, d \in Callers \ {c} : Before(b, d) => Before(b, d)' \/ b \in gateClosed'
           /\ l = "gateWait" => Listed(c)' /\ \A b \in Callers : Listed(b) => Before(b, c)'
<1>1. /\ pc \in [Callers -> PCs]
      /\ gateWaiters \in Seq(Callers)
      /\ gateClosed \subseteq Callers
      /\ Len(gateWaiters) \in Nat
  BY LenProperties DEF TypeOK, Gate!LockTypeOK
<1>2. \A d \in Callers : pc'[d] = IF d = c THEN l ELSE pc[d]
  BY <1>1 DEF Goto
<1>3. CASE /\ UNCHANGED gateWaiters /\ l # "gateWait"
           /\ \A d \in Callers \ {c} : d \in gateClosed => d \in gateClosed'
  BY <1>2, <1>3 DEF Holds, Owns, Listed, Before
<1>4. CASE Gate!Enqueue(c) /\ l = "gateWait"
  <2>1. /\ gateClosed' = gateClosed
        /\ Len(gateWaiters') = Len(gateWaiters) + 1
        /\ \A i \in 1..Len(gateWaiters) : gateWaiters'[i] = gateWaiters[i]
        /\ gateWaiters'[Len(gateWaiters) + 1] = c
    BY <1>1, <1>4, AppendProperties DEF Gate!Enqueue
  <2>2. /\ \A i \in 1..Len(gateWaiters) : i \in 1..Len(gateWaiters') /\ i < Len(gateWaiters')
        /\ Len(gateWaiters') \in 1..Len(gateWaiters')
    BY <1>1, <2>1
  <2>3. \A b \in Callers \ {c} : Holds(b) => Holds(b)'
    BY <1>2, <2>1 DEF Holds, Owns
  <2>4. \A b \in Callers : Listed(b) => Listed(b)' /\ Before(b, c)'
    BY <2>1, <2>2 DEF Listed, Before
  <2>5. \A b, d \in Callers : Before(b, d) => Before(b, d)'
    BY <2>1, <2>2 DEF Before
  <2>6. Listed(c)'
    BY <2>1, <2>2 DEF Listed
  <2>7. QED
    BY <2>3, <2>4, <2>5, <2>6
<1>5. CASE Gate!Abandon(c) /\ l # "gateWait" /\ UNCHANGED gateBusy
  <2>1. gateClosed' = gateClosed \ {c}
    BY <1>5 DEF Gate!Abandon
  <2>2. CASE UNCHANGED gateWaiters
    BY <1>3, <1>5, <2>1, <2>2
  <2>3. CASE ~UNCHANGED gateWaiters
    <3>1. PICK k \in 1..Len(gateWaiters) :
             gateWaiters[k] = c /\ gateWaiters' = RemoveAt(gateWaiters, k)
      BY <1>5, <2>3 DEF Gate!Abandon, Gate!RemoveAt, RemoveAt
    <3>2. /\ Len(gateWaiters') = Len(gateWaiters) - 1
          /\ \A i \in 1..(Len(gateWaiters) - 1) :
                gateWaiters'[i] = IF i < k THEN gateWaiters[i] ELSE gateWaiters[i + 1]
      BY <1>1, <3>1, RemoveAtFacts
    <3> DEFINE at(i) == IF i < k THEN i ELSE i - 1
    <3>3. ASSUME NEW i \in 1..Len(gateWaiters), gateWaiters[i] # c
          PROVE  at(i) \in 1..Len(gateWaiters') /\ gateWaiters'[at(i)] = gateWaiters[i]
      <4>1. i # k
        BY <3>1, <3>3
      <4>2. CASE i < k
        BY <1>1, <3>2, <4>2
      <4>3. CASE i > k
        BY <1>1, <3>2, <4>3
      <4>4. QED
        BY <1>1, <4>1, <4>2, <4>3
    <3>4. \A i, j \in 1..Len(gateWaiters) : i < j /\ i # k => at(i) < at(j) \/ j = k
      BY <1>1
    <3> HIDE DEF at
    <3>5. \A b \in Callers \ {c} : Listed(b) => Listed(b)'
      BY <3>3 DEF Listed
    <3>6. \A b, d \in Callers \ {c} : Before(b, d) => Before(b, d)'
      BY <3>1, <3>3, <3>4 DEF Before
    <3>7. \A b \in Callers \ {c} : Holds(b) => Holds(b)'
      BY <1>2, <2>1 DEF Holds, Owns
    <3>8. QED
      BY <1>5, <3>5, <3>6, <3>7
  <2>4. QED
    BY <2>2, <2>3
<1>6. CASE Gate!Release /\ gateWaiters # <<>> /\ l # "gateWait"
  <2>1. /\ gateWaiters' = Tail(gateWaiters)
        /\ gateClosed' = gateClosed \union {Head(gateWaiters)}
    BY <1>6 DEF Gate!Release
  <2>2. /\ Head(gateWaiters) = gateWaiters[1]
        /\ Len(gateWaiters) > 0
        /\ Len(gateWaiters') = Len(gateWaiters) - 1
        /\ \A i \in 1..Len(gateWaiters') : gateWaiters'[i] = gateWaiters[i + 1]
    BY <1>1, <1>6, <2>1, HeadTailProperties, EmptySeq
  <2>3. ASSUME NEW i \in 1..Len(gateWaiters), i # 1
        PROVE  i - 1 \in 1..Len(gateWaiters') /\ gateWaiters'[i - 1] = gateWaiters[i]
    BY <1>1, <2>2, <2>3
  <2>4. \A b \in Callers : Listed(b) => Listed(b)' \/ b \in gateClosed'
    BY <2>1, <2>2, <2>3 DEF Listed
  <2>5. ASSUME NEW b \in Callers, NEW d \in Callers, Before(b, d)
        PROVE  Before(b, d)' \/ b \in gateClosed'
    <3>1. PICK i, j \in 1..Len(gateWaiters) :
             i < j /\ gateWaiters[i] = b /\ gateWaiters[j] = d
      BY <2>5 DEF Before
    <3>2. CASE i = 1
      BY <2>1, <2>2, <3>1, <3>2
    <3>3. CASE i # 1
      <4>1. j # 1 /\ i - 1 < j - 1
        BY <1>1, <3>1
      <4>2. QED
        BY <2>3, <3>1, <3>3, <4>1 DEF Before
    <3>4. QED
      BY <3>2, <3>3
  <2>6. \A b \in Callers \ {c} : Holds(b) => Holds(b)'
    BY <1>2, <2>1 DEF Holds, Owns
  <2>7. QED
    BY <1>6, <2>4, <2>5, <2>6
<1>7. QED
  <2>1. CASE UNCHANGED gateVars /\ l # "gateWait"
    BY <1>3, <2>1 DEF gateVars
  <2>2. CASE (Gate!Take \/ Gate!Wake(c)) /\ l \in {"send", "overlapLeave"}
    BY <1>3, <2>2 DEF Gate!Take, Gate!Wake
  <2>3. CASE Gate!Abandon(c) /\ l \in {"overlapFail", "laneLeave", "failed"}
    BY <1>5, <2>3 DEF Gate!Abandon
  <2>4. CASE Gate!Release /\ l \in {"laneLeave", "done"}
    BY <1>3, <1>6, <2>4 DEF Gate!Release
  <2>5. QED
    BY <1>4, <2>1, <2>2, <2>3, <2>4 DEF GateMove

\* Whoever waits is in the list or has been handed a gate that stays busy.
LEMMA StepQueueInv == TypeOK /\ GateInv /\ QueueInv /\ [Next]_vars => QueueInv'
<1> SUFFICES ASSUME TypeOK, GateInv, QueueInv, [Next]_vars PROVE QueueInv'
  OBVIOUS
<1>1. CASE \A c \in Callers : ~CallerStep(c)
  BY <1>1, OtherSteps DEF QueueInv, Listed, gateVars
<1>2. CASE \E c \in Callers : CallerStep(c)
  <2>1. PICK c \in Callers, l \in PCs : Goto(c, l) /\ GateMove(c, l)
    BY <1>2, CallerMoves
  <2>2. \A d \in Callers : pc'[d] = IF d = c THEN l ELSE pc[d]
    BY <2>1 DEF Goto, TypeOK
  <2>3. \A d \in Callers \ {c} : d \in gateClosed => d \in gateClosed'
    BY <2>1 DEF GateMove, gateVars, Gate!Take, Gate!Enqueue, Gate!Wake, Gate!Abandon, Gate!Release
  <2>4. \A d \in Callers : pc'[d] = "gateWait" => Listed(d)' \/ d \in gateClosed'
    BY <2>1, <2>2, <2>3, ListMoves DEF QueueInv
  <2>5. gateWaiters' # <<>> => gateBusy'
    <3>1. CASE Gate!Enqueue(c) \/ Gate!Take
      BY <3>1 DEF Gate!Enqueue, Gate!Take
    <3>2. CASE Gate!Release
      BY <3>2 DEF Gate!Release, QueueInv
    <3>3. CASE UNCHANGED gateVars \/ Gate!Wake(c)
      BY <3>3 DEF gateVars, Gate!Wake, QueueInv
    <3>4. CASE Gate!Abandon(c)
      <4>1. gateBusy' = gateBusy
        BY <3>4 DEF Gate!Abandon
      <4>2. gateWaiters = <<>> => gateWaiters' = gateWaiters
        BY <3>4, EmptySeq DEF Gate!Abandon
      <4>3. QED
        BY <4>1, <4>2 DEF QueueInv
    <3>5. QED
      BY <2>1, <3>1, <3>2, <3>3, <3>4 DEF GateMove
  <2>6. QED
    BY <2>4, <2>5 DEF QueueInv
<1>3. QED
  BY <1>1, <1>2

\* What a caller does that is past sending, or holds the gate.
LEMMA Finishing ==
    ASSUME TypeOK, NEW c \in Callers, CallerStep(c)
    PROVE  /\ GaveUp(c) => GaveUp(c)'
           /\ Owns(c) => Owns(c)' \/ GaveUp(c)'
<1> USE DEF GaveUp, Owns, Owning
<1>1. pc \in [Callers -> PCs]
  BY DEF TypeOK
<1>2. CASE \/ Arrive(c) \/ CheckCapacity(c) \/ Classify(c) \/ Recheck(c) \/ TryOverlap(c)
           \/ PollRoom(c) \/ CheckRoom(c) \/ RoomCancelled(c)
  BY <1>2 DEF Arrive, CheckCapacity, Classify, Recheck, TryOverlap, PollRoom,
     CheckRoom, RoomCancelled
<1>3. CASE \/ AcquireLane(c) \/ LaneGranted(c) \/ LaneCancelled(c)
           \/ TryGate(c) \/ AcquireGate(c) \/ GateGranted(c) \/ GateCancelled(c)
  BY <1>3 DEF AcquireLane, LaneGranted, LaneCancelled, TryGate, AcquireGate, GateGranted,
     GateCancelled
<1>4. CASE \/ SendMSG(c) \/ SendOverlappingMSG(c) \/ SendFailed(c)
           \/ ReleaseOverlapSend(c) \/ LoopEnds(c) \/ ReleaseGate(c) \/ ReleaseLane(c)
  BY <1>1, <1>4 DEF SendMSG, SendOverlappingMSG, SendFailed, ReleaseOverlapSend, LoopEnds, LoopReturn, LoopFails,
     ReleaseGate, ReleaseLane, Goto
<1>5. QED
  BY <1>2, <1>3, <1>4 DEF CallerStep, Caller, Cancel

\* Who comes notes the callers that are parked; nobody else changes what it noted.
LEMMA Arriving ==
    ASSUME TypeOK, NEW c \in Callers, CallerStep(c)
    PROVE  /\ \A d \in Callers \ {c} : ahead'[d] = ahead[d]
           /\ \/ ahead'[c] = ahead[c]
              \/ /\ pc[c] \in {"arrive", "gate"}
                 /\ ahead'[c].gate \subseteq ahead[c].gate \union ParkedAtGate
<1>1. /\ pc \in [Callers -> PCs]
      /\ ahead \in [Callers -> [gate : SUBSET Callers, lane : SUBSET Callers]]
  BY DEF TypeOK
<1>2. CASE Arrive(c) \/ AcquireGate(c)
  BY <1>1, <1>2 DEF Arrive, AcquireGate, NoteParked
<1>3. CASE ~(Arrive(c) \/ AcquireGate(c))
  <2>1. ahead' = ahead
    <3>1. CASE \/ CheckCapacity(c) \/ Classify(c) \/ Recheck(c) \/ TryOverlap(c)
               \/ PollRoom(c) \/ CheckRoom(c) \/ RoomCancelled(c) \/ TryGate(c)
      BY <3>1 DEF CheckCapacity, Classify, Recheck, TryOverlap, PollRoom, CheckRoom,
         RoomCancelled, TryGate
    <3>2. CASE \/ AcquireLane(c) \/ LaneGranted(c) \/ LaneCancelled(c) \/ ReleaseLane(c)
               \/ GateGranted(c) \/ GateCancelled(c) \/ ReleaseGate(c)
      BY <3>2 DEF AcquireLane, LaneGranted, LaneCancelled, ReleaseLane, GateGranted,
         GateCancelled, ReleaseGate
    <3>3. CASE \/ SendMSG(c) \/ SendOverlappingMSG(c) \/ SendFailed(c)
               \/ ReleaseOverlapSend(c) \/ LoopEnds(c)
      BY <3>3 DEF SendMSG, SendOverlappingMSG, SendFailed, ReleaseOverlapSend, LoopEnds, LoopReturn, LoopFails, Admit
    <3>4. QED
      BY <1>3, <3>1, <3>2, <3>3 DEF CallerStep, Caller, Cancel
  <2>2. QED
    BY <2>1
<1>4. QED
  BY <1>2, <1>3

\* What OrderInv says of one caller c and one, b, that it noted.
Turn(c, b) ==
    \/ Admitted(b) \/ GaveUp(b)
    \/ /\ b # c /\ ~Owns(c)
       /\ Holds(b) \/ Listed(b)
       /\ pc[c] = "gateWait" => Holds(b) \/ Before(b, c)
       /\ Admitted(c) => route[c] = "overlap"

\* A caller that has just arrived or come to the gate is after all that are parked.
LEMMA TurnArrives ==
    ASSUME TypeOK, GateInv, QueueInv, OverlapInv, NEW c \in Callers, NEW b \in Callers,
           pc[c] \in {"arrive", "gate"}, pc[b] = "gateWait"
    PROVE  Turn(c, b)
<1>1. (Admitted(c) => route[c] = "overlap") /\ ~Owns(c)
  BY DEF OverlapInv, Owns, Owning, Overlaps, Left
<1>2. Listed(b) \/ Holds(b)
  BY DEF QueueInv, Holds
<1>3. QED
  BY <1>1, <1>2 DEF Turn

\* The step of any caller x keeps it.
LEMMA TurnStep ==
    ASSUME TypeOK, GateInv, QueueInv, OverlapInv,
           NEW c \in Callers, NEW b \in Callers, Turn(c, b),
           NEW x \in Callers, CallerStep(x)
    PROVE  Turn(c, b)'
<1>1. PICK l \in PCs : Goto(x, l) /\ GateMove(x, l)
  BY CallerMoves
<1>2. \A d \in Callers : pc'[d] = IF d = x THEN l ELSE pc[d]
  BY <1>1 DEF Goto, TypeOK
<1>3. \A d \in Callers : Admitted(d) => Admitted(d)'
  BY Sending
<1>4. GaveUp(b) => GaveUp(b)'
  BY <1>2, Finishing DEF GaveUp
<1>5. CASE Admitted(b) \/ GaveUp(b)
  BY <1>3, <1>4, <1>5 DEF Turn
<1>6. CASE ~(Admitted(b) \/ GaveUp(b))
  <2>1. /\ b # c /\ ~Owns(c)
        /\ Holds(b) \/ Listed(b)
        /\ pc[c] = "gateWait" => Holds(b) \/ Before(b, c)
        /\ Admitted(c) => route[c] = "overlap"
    BY <1>6 DEF Turn
  <2>2. /\ \A d \in Callers \ {x} : Holds(d) => Holds(d)'
        /\ \A d \in Callers \ {x} : Listed(d) => Listed(d)' \/ d \in gateClosed'
        /\ \A d, e \in Callers \ {x} : Before(d, e) => Before(d, e)' \/ d \in gateClosed'
        /\ l = "gateWait" => Listed(x)' /\ \A d \in Callers : Listed(d) => Before(d, x)'
    BY <1>1, ListMoves
  <2>3. CASE x = b
    <3>1. CASE Owns(b)
      BY <1>2, <2>1, <2>3, <3>1, Sending, Finishing DEF Turn, Holds, Owns
    <3>2. CASE ~Owns(b)
      <4>1. pc[b] = "gateWait"
        BY <2>1, <3>2 DEF GateInv, Listed, Holds
      <4>2. CASE l \in {"overlapFail", "laneLeave", "failed"}
        BY <1>2, <2>3, <4>2 DEF Turn, GaveUp
      <4>3. CASE l \in {"send", "overlapLeave"}
        <5>1. Owns(b)'
          BY <1>2, <2>3, <4>3 DEF Owns, Owning
        <5>2. ~Owns(c)' /\ (Admitted(c)' => route'[c] = "overlap")
          BY <1>2, <2>1, <2>3, Sending DEF Owns
        <5>3. QED
          BY <2>1, <5>1, <5>2 DEF Turn, Holds
      <4>4. QED
        BY <1>1, <2>3, <4>1, <4>2, <4>3 DEF GateMove
    <3>3. QED
      BY <3>1, <3>2
  <2>4. CASE x = c
    <3>1. Holds(b)' \/ Listed(b)'
      BY <2>1, <2>2, <2>4 DEF Holds
    <3>2. gateBusy
      BY <2>1, EmptySeq DEF GateInv, QueueInv, Listed
    <3>3. ~(Gate!Wake(c) /\ pc[c] = "gateWait")
      <4>1. SUFFICES ASSUME c \in gateClosed, pc[c] = "gateWait" PROVE FALSE
        BY DEF Gate!Wake
      <4>2. CASE Holds(b)
        BY <2>1, <4>1, <4>2 DEF GateInv, Holds
      <4>3. CASE Before(b, c)
        BY <4>1, <4>3 DEF GateInv, Before
      <4>4. QED
        BY <2>1, <4>1, <4>2, <4>3
    <3>4. l \notin Owning
      BY <1>1, <2>1, <2>4, <3>2, <3>3 DEF GateMove, Gate!Take, Owns, Owning
    <3>5. ~Owns(c)'
      BY <1>2, <2>4, <3>4 DEF Owns
    <3>6. pc'[c] = "gateWait" => Holds(b)' \/ Before(b, c)'
      BY <1>2, <2>1, <2>2, <2>4
    <3>7. Admitted(c)' => route'[c] = "overlap"
      BY <2>1, <2>4, Sending DEF Owns, Owning
    <3>8. QED
      BY <2>1, <3>1, <3>5, <3>6, <3>7 DEF Turn
  <2>5. CASE x # b /\ x # c
    <3>1. Holds(b)' \/ Listed(b)'
      BY <2>1, <2>2, <2>5 DEF Holds
    <3>2. pc'[c] = "gateWait" => Holds(b)' \/ Before(b, c)'
      BY <1>2, <2>1, <2>2, <2>5 DEF Holds
    <3>3. ~Owns(c)' /\ (Admitted(c)' => route'[c] = "overlap")
      BY <1>2, <2>1, <2>5, Sending DEF Owns
    <3>4. QED
      BY <2>1, <3>1, <3>2, <3>3 DEF Turn
  <2>6. QED
    BY <2>3, <2>4, <2>5
<1>7. QED
  BY <1>5, <1>6

\* So every pair of a caller and one that it found parked stays in order.
LEMMA StepOrderInv ==
    ASSUME TypeOK, TypeOK', GateInv, QueueInv, OverlapInv, OrderInv, [Next]_vars
    PROVE  OrderInv'
<1>1. \A c \in Callers : \A b \in ahead[c].gate : Turn(c, b)
  BY DEF OrderInv, Turn
<1>2. SUFFICES ASSUME NEW c \in Callers, NEW b \in ahead'[c].gate PROVE Turn(c, b)'
  BY DEF OrderInv, Turn
<1>3. b \in Callers
  BY <1>2 DEF TypeOK
<1>4. CASE \A x \in Callers : ~CallerStep(x)
  <2>1. UNCHANGED <<pc, route, gateVars, overlapBusy, admitted, ahead>>
    BY <1>4, OtherSteps
  <2>2. Turn(c, b)
    BY <1>1, <1>2, <2>1
  <2>3. QED
    BY <2>1, <2>2 DEF gateVars, Turn, Admitted, GaveUp, Owns, Holds, Listed, Before
<1>5. CASE \E x \in Callers : CallerStep(x)
  <2>1. PICK x \in Callers : CallerStep(x)
    BY <1>5
  <2>2. Turn(c, b)
    BY <1>1, <1>2, <1>3, <2>1, Arriving, TurnArrives DEF ParkedAtGate
  <2>3. QED
    BY <1>3, <2>1, <2>2, TurnStep
<1>6. QED
  BY <1>4, <1>5

\* Cancelled callers or not: a message that does not overlap never passes one that
\* was parked on the gate when it came.
THEOREM GateInOrder == Spec => []GateOrder
<1>1. Init => QueueInv
  BY DEF Init, Gate!LockInit, QueueInv
<1>2. Init => OrderInv
  BY DEF Init, OrderInv
<1>3. OrderInv => GateOrder
  BY DEF OrderInv, GateOrder
<1>4. /\ TypeOK /\ TypeOK' /\ GateInv /\ QueueInv /\ OverlapInv /\ OrderInv /\ [Next]_vars
      => OrderInv'
  BY StepOrderInv
<1>5. QED
  BY <1>1, <1>2, <1>3, <1>4, TypeCorrect, InitGateInv, StepGateInv, StepQueueInv,
     InitOverlapInv, StepOverlapInv, PTL DEF Spec

=============================================================================
