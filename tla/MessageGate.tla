---------------------------- MODULE MessageGate ----------------------------
(***************************************************************************)
(* Admission of user messages to the serial link: the part of              *)
(* Relay.HandleMessageStream that runs concurrently.  The terminal channel *)
(* starts one goroutine per line the user enters, so several callers       *)
(* compete for the message gate, the overlap slot and the overflow lane.   *)
(* A caller's program counter names the statement it executes next; each   *)
(* action is one critical section or one unsynchronised read of the flags  *)
(* basicRunning, waitingTool and completionDrain, which the event loop of  *)
(* the gate's owner writes.                                                *)
(***************************************************************************)
EXTENDS Integers, FiniteSets, SequencesExt

CONSTANTS
    Callers,        \* goroutines, each with one message to deliver
    Cancellable,    \* callers whose context may be cancelled
    Slots           \* c64UserQueueSlots

ASSUME SlotsAssumption == Slots \in Nat \ {0}
ASSUME CancellableAssumption == Cancellable \subseteq Callers

VARIABLES
    pc,             \* per caller: the next statement
    route,          \* per caller: how it came to the gate
    depth,          \* per caller: overlapQueueDepth after its first lock
    gateBusy, gateWaiters, gateClosed,
    laneBusy, laneWaiters, laneClosed,
    overlapBusy,
    prompted,       \* SystemPrompt # ""
    basicRunning, waitingTool, completionDrain,
    admitted,       \* messages the C64 has admitted, in order
    atC64,          \* messages it may hold that no turn has answered
    leftBehind,     \* calls that ended with an error and may have left one there
    ahead           \* per caller: who was parked, and where, when it came

gateVars == <<gateBusy, gateWaiters, gateClosed>>
laneVars == <<laneBusy, laneWaiters, laneClosed>>
flagVars == <<prompted, basicRunning, waitingTool, completionDrain>>
c64Vars == <<admitted, atC64, leftBehind>>
vars == <<pc, route, depth, gateVars, laneVars, overlapBusy, flagVars,
          c64Vars, ahead>>

Gate == INSTANCE FifoLock WITH
            busy <- gateBusy, waiters <- gateWaiters, closed <- gateClosed
Lane == INSTANCE FifoLock WITH
            busy <- laneBusy, waiters <- laneWaiters, closed <- laneClosed

PCs == {"arrive", "depth", "lane", "laneWait", "room", "roomDepth", "classify",
        "try", "recheck", "overlap", "overlapSend", "gate", "gateWait", "send",
        "overlapLeave", "overlapFail", "loop", "gateLeave", "laneLeave",
        "done", "failed"}

Returned(c) == pc[c] \in {"done", "failed"}

\* A caller in one of these states owns the gate.
Owning == {"send", "overlapLeave", "loop", "gateLeave"}

Owns(c) == pc[c] \in Owning

\* The callers parked on a channel of the gate, and those parked in the overflow
\* lane, on a channel or polling for room.
ParkedAtGate == {c \in Callers : pc[c] = "gateWait"}
ParkedInLane == {c \in Callers : pc[c] \in {"laneWait", "room", "roomDepth"}}

Goto(c, l) == pc' = [pc EXCEPT ![c] = l]

Bit(b) == IF b THEN 1 ELSE 0

Init ==
    /\ pc = [c \in Callers |-> "arrive"]
    /\ route = [c \in Callers |-> "direct"]
    /\ depth = [c \in Callers |-> 0]
    /\ Gate!LockInit
    /\ Lane!LockInit
    /\ overlapBusy = FALSE
    /\ prompted = FALSE
    /\ basicRunning = FALSE
    /\ waitingTool = FALSE
    /\ completionDrain = FALSE
    /\ admitted = <<>>
    /\ atC64 = 0
    /\ leftBehind = 0
    /\ ahead = [c \in Callers |-> [gate |-> {}, lane |-> {}]]

-----------------------------------------------------------------------------
(* Choosing a route *)

\* Mutant: the owner of the gate is taken off the count.
ReadGateDepthOffByOne(c) ==
    /\ depth' = [depth EXCEPT ![c] = Len(gateWaiters) + Bit(gateBusy) - 1]

\* overlapQueueDepth, first half: the gate's list under msgGateMu.
ReadGateDepth(c) ==
    /\ depth' = [depth EXCEPT ![c] = Len(gateWaiters) + Bit(gateBusy)]

\* overlapQueueAtCapacity: the second half, under overlapMu, and the test.
AtCapacity(c) == depth[c] + Bit(overlapBusy) >= Slots

Arrive(c) ==
    /\ pc[c] = "arrive"
    /\ ReadGateDepth(c)
    /\ Goto(c, "depth")
    /\ ahead' = [ahead EXCEPT ![c] = [gate |-> ParkedAtGate, lane |-> ParkedInLane]]
    /\ UNCHANGED <<route, gateVars, laneVars, overlapBusy, flagVars, c64Vars>>

CheckCapacity(c) ==
    /\ pc[c] = "depth"
    /\ IF AtCapacity(c)
       THEN Goto(c, "lane") /\ route' = [route EXCEPT ![c] = "overflow"]
       ELSE Goto(c, "classify") /\ UNCHANGED route
    /\ UNCHANGED <<depth, gateVars, laneVars, overlapBusy, flagVars, c64Vars, ahead>>

CanSendOverlapping ==
    prompted /\ (completionDrain \/ (basicRunning /\ ~waitingTool))

CanStartRunningOverlap ==
    basicRunning /\ ~waitingTool /\ gateBusy /\ gateWaiters = <<>>

Classify(c) ==
    /\ pc[c] = "classify"
    /\ Goto(c, IF CanSendOverlapping THEN "try" ELSE "gate")
    /\ UNCHANGED <<route, depth, gateVars, laneVars, overlapBusy, flagVars, c64Vars, ahead>>

TryGate(c) ==
    /\ pc[c] = "try"
    /\ \/ Gate!Take /\ Goto(c, "send")
       \/ gateBusy /\ Goto(c, "recheck") /\ UNCHANGED gateVars
    /\ UNCHANGED <<route, depth, laneVars, overlapBusy, flagVars, c64Vars, ahead>>

Recheck(c) ==
    /\ pc[c] = "recheck"
    /\ Goto(c, IF basicRunning /\ ~CanStartRunningOverlap THEN "gate" ELSE "overlap")
    /\ UNCHANGED <<route, depth, gateVars, laneVars, overlapBusy, flagVars, c64Vars, ahead>>

\* Mutant: the overlap slot is taken without looking whether it is free.
TryOverlapUnguarded(c) ==
    /\ pc[c] = "overlap"
    /\ overlapBusy' = TRUE
    /\ route' = [route EXCEPT ![c] = "overlap"]
    /\ Goto(c, "overlapSend")
    /\ UNCHANGED <<depth, gateVars, laneVars, flagVars, c64Vars, ahead>>

TryOverlap(c) ==
    /\ pc[c] = "overlap"
    /\ IF overlapBusy
       THEN Goto(c, "gate") /\ UNCHANGED <<overlapBusy, route>>
       ELSE /\ overlapBusy' = TRUE
            /\ route' = [route EXCEPT ![c] = "overlap"]
            /\ Goto(c, "overlapSend")
    /\ UNCHANGED <<depth, gateVars, laneVars, flagVars, c64Vars, ahead>>

-----------------------------------------------------------------------------
(* The overflow lane *)

AcquireLane(c) ==
    /\ pc[c] = "lane"
    /\ \/ Lane!Take /\ Goto(c, "room")
       \/ Lane!Enqueue(c) /\ Goto(c, "laneWait")
    /\ UNCHANGED <<route, depth, gateVars, overlapBusy, flagVars, c64Vars, ahead>>

LaneGranted(c) ==
    /\ pc[c] = "laneWait"
    /\ Lane!Wake(c)
    /\ Goto(c, "room")
    /\ UNCHANGED <<route, depth, gateVars, overlapBusy, flagVars, c64Vars, ahead>>

LaneCancelled(c) ==
    /\ pc[c] = "laneWait"
    /\ c \in Cancellable
    /\ Lane!Abandon(c)
    /\ Goto(c, "failed")
    /\ UNCHANGED <<route, depth, gateVars, overlapBusy, flagVars, c64Vars, ahead>>

\* waitForOverlapQueueRoom: one evaluation of the loop condition per tick.
PollRoom(c) ==
    /\ pc[c] = "room"
    /\ ReadGateDepth(c)
    /\ Goto(c, "roomDepth")
    /\ UNCHANGED <<route, gateVars, laneVars, overlapBusy, flagVars, c64Vars, ahead>>

CheckRoom(c) ==
    /\ pc[c] = "roomDepth"
    /\ Goto(c, IF AtCapacity(c) THEN "room" ELSE "gate")
    /\ UNCHANGED <<route, depth, gateVars, laneVars, overlapBusy, flagVars, c64Vars, ahead>>

\* ctx.Done while polling: the deferred release of the lane runs.
RoomCancelled(c) ==
    /\ pc[c] = "room"
    /\ c \in Cancellable
    /\ Goto(c, "laneLeave")
    /\ UNCHANGED <<route, depth, gateVars, laneVars, overlapBusy, flagVars, c64Vars, ahead>>

-----------------------------------------------------------------------------
(* The gate *)

\* Whom a message that is not at the C64 yet finds parked goes before it.
NoteParked(c) ==
    IF route[c] = "overlap" THEN UNCHANGED ahead
    ELSE ahead' = [ahead EXCEPT ![c].gate = @ \union ParkedAtGate]

AfterGate(c) == IF route[c] = "overlap" THEN "overlapLeave" ELSE "send"

AcquireGate(c) ==
    /\ pc[c] = "gate"
    /\ \/ Gate!Take /\ Goto(c, AfterGate(c))
       \/ Gate!Enqueue(c) /\ Goto(c, "gateWait")
    /\ NoteParked(c)
    /\ UNCHANGED <<route, depth, laneVars, overlapBusy, flagVars, c64Vars>>

GateGranted(c) ==
    /\ pc[c] = "gateWait"
    /\ Gate!Wake(c)
    /\ Goto(c, AfterGate(c))
    /\ UNCHANGED <<route, depth, laneVars, overlapBusy, flagVars, c64Vars, ahead>>

\* The error return of acquireMessageGate: an overlap sender, whose message is at
\* the C64 already, clears the overlap slot, an overflow caller runs its deferred
\* release of the lane.
GateCancelled(c) ==
    /\ pc[c] = "gateWait"
    /\ c \in Cancellable
    /\ Gate!Abandon(c)
    /\ Goto(c, CASE route[c] = "overlap"  -> "overlapFail"
                 [] route[c] = "overflow" -> "laneLeave"
                 [] OTHER                 -> "failed")
    /\ leftBehind' = leftBehind + Bit(route[c] = "overlap")
    /\ UNCHANGED <<route, depth, laneVars, overlapBusy, flagVars, admitted, atC64, ahead>>

-----------------------------------------------------------------------------
(* Sending the message *)

\* sendMSG and sendOverlappingMSG return nil: the C64 has acknowledged the MSG.
Admit(c) ==
    /\ admitted' = Append(admitted, c)
    /\ atC64' = atC64 + 1
    /\ UNCHANGED <<route, depth, gateVars, laneVars, overlapBusy, flagVars, leftBehind, ahead>>

SendMSG(c) ==
    /\ pc[c] = "send"
    /\ Goto(c, "loop")
    /\ Admit(c)

SendOverlappingMSG(c) ==
    /\ pc[c] = "overlapSend"
    /\ Goto(c, "gate")
    /\ Admit(c)

\* All attempts of sendVerifiedWithTimeout fail: the call does not know whether the
\* MSG or its ACK was lost, so the message may be at the C64.
SendFailed(c) ==
    /\ pc[c] \in {"send", "overlapSend"}
    /\ Goto(c, IF pc[c] = "send" THEN "gateLeave" ELSE "overlapFail")
    /\ atC64' = atC64 + 1
    /\ leftBehind' = leftBehind + 1
    /\ UNCHANGED <<route, depth, gateVars, laneVars, overlapBusy, flagVars, admitted, ahead>>

\* releaseOverlapSend, after the gate is held or on an error return.
ReleaseOverlapSend(c) ==
    /\ pc[c] \in {"overlapLeave", "overlapFail"}
    /\ overlapBusy' = FALSE
    /\ Goto(c, IF pc[c] = "overlapLeave" THEN "loop" ELSE "failed")
    /\ UNCHANGED <<route, depth, gateVars, laneVars, flagVars, c64Vars, ahead>>

-----------------------------------------------------------------------------
(* The event loop of the gate's owner, as far as it writes the shared flags *)

Looping == \E c \in Callers : pc[c] = "loop"

FlagStep == UNCHANGED <<pc, route, depth, gateVars, laneVars, overlapBusy, c64Vars, ahead>>

\* handleSystemFrame stores the complete prompt.
SystemFrame ==
    /\ Looping
    /\ ~prompted
    /\ prompted' = TRUE
    /\ FlagStep
    /\ UNCHANGED <<basicRunning, waitingTool, completionDrain>>

\* callAndDispatch sends a tool request: startToolWait.
DispatchTool ==
    /\ Looping
    /\ prompted
    /\ waitingTool' = TRUE
    /\ FlagStep
    /\ UNCHANGED <<prompted, basicRunning, completionDrain>>

\* A RESULT or an ERROR frame.
ResultFrame ==
    /\ Looping
    /\ waitingTool \/ basicRunning
    /\ waitingTool' = FALSE
    /\ basicRunning' = FALSE
    /\ completionDrain' = FALSE
    /\ FlagStep
    /\ UNCHANGED prompted

StatusFrame(status) ==
    /\ Looping
    /\ waitingTool \/ basicRunning
    /\ waitingTool' = FALSE
    /\ basicRunning' = (status = "RUNNING" \/ status = "STOP REQUESTED")
    /\ completionDrain' = (status = "RUNNING" \/ (completionDrain /\ status # "READY"))
    /\ FlagStep
    /\ UNCHANGED prompted

Statuses == {"RUNNING", "STOP REQUESTED", "READY", "STORED", "BUSY"}

\* The event loop returns nil, at the end of the grace window or with a frame for
\* the next caller: one message has been answered, of this call or of one that
\* left its message behind.
LoopReturn(c) ==
    /\ pc[c] = "loop"
    /\ Goto(c, "gateLeave")
    /\ atC64' = atC64 - 1
    /\ UNCHANGED <<route, depth, gateVars, laneVars, overlapBusy, flagVars, admitted,
                   leftBehind, ahead>>

\* It returns an error: of the LLM, of a drain, of sending or receiving.  The C64 is
\* not told, and its message stays where it is.
LoopFails(c) ==
    /\ pc[c] = "loop"
    /\ Goto(c, "gateLeave")
    /\ leftBehind' = leftBehind + 1
    /\ UNCHANGED <<route, depth, gateVars, laneVars, overlapBusy, flagVars, admitted, atC64,
                   ahead>>

-----------------------------------------------------------------------------
(* The deferred releases, the gate before the lane *)

ReleaseGate(c) ==
    /\ pc[c] = "gateLeave"
    /\ Gate!Release
    /\ Goto(c, IF route[c] = "overflow" THEN "laneLeave" ELSE "done")
    /\ UNCHANGED <<route, depth, laneVars, overlapBusy, flagVars, c64Vars, ahead>>

ReleaseLane(c) ==
    /\ pc[c] = "laneLeave"
    /\ Lane!Release
    /\ Goto(c, "done")
    /\ UNCHANGED <<route, depth, gateVars, overlapBusy, flagVars, c64Vars, ahead>>

\* What a caller does by itself, without the network or the user.
Caller(c) ==
    \/ CheckCapacity(c) \/ Classify(c) \/ TryGate(c) \/ Recheck(c) \/ TryOverlap(c)
    \/ AcquireLane(c) \/ LaneGranted(c) \/ PollRoom(c) \/ CheckRoom(c)
    \/ AcquireGate(c) \/ GateGranted(c)
    \/ SendMSG(c) \/ SendOverlappingMSG(c) \/ SendFailed(c)
    \/ ReleaseOverlapSend(c) \/ ReleaseGate(c) \/ ReleaseLane(c)

Cancel(c) == LaneCancelled(c) \/ RoomCancelled(c) \/ GateCancelled(c)

EventLoop ==
    \/ SystemFrame
    \/ DispatchTool
    \/ ResultFrame
    \/ \E status \in Statuses : StatusFrame(status)

LoopEnds(c) == LoopReturn(c) \/ LoopFails(c)

Next ==
    \/ \E c \in Callers : Arrive(c) \/ Caller(c) \/ Cancel(c) \/ LoopEnds(c)
    \/ EventLoop

Spec == Init /\ [][Next]_vars

\* Goroutines are scheduled, a send ends after a bounded number of attempts,
\* and every event loop returns.
FairSpec ==
    /\ Spec
    /\ \A c \in Callers : WF_vars(Caller(c)) /\ WF_vars(LoopEnds(c))

-----------------------------------------------------------------------------
(* Properties *)

\* Every variable has its type; a caller in a waiting state is queued or woken.
TypeOK ==
    /\ pc \in [Callers -> PCs]
    /\ route \in [Callers -> {"direct", "overflow", "overlap"}]
    /\ depth \in [Callers -> Nat]
    /\ Gate!LockTypeOK
    /\ Lane!LockTypeOK
    /\ overlapBusy \in BOOLEAN
    /\ prompted \in BOOLEAN
    /\ basicRunning \in BOOLEAN
    /\ waitingTool \in BOOLEAN
    /\ completionDrain \in BOOLEAN
    /\ admitted \in Seq(Callers)
    /\ atC64 \in Int
    /\ leftBehind \in Nat
    /\ ahead \in [Callers -> [gate : SUBSET Callers, lane : SUBSET Callers]]

\* Two callers never run an event loop, or send through the socket, at the same
\* time: every field of Relay that the event loop touches relies on it.
GateExclusive == \A c, d \in Callers : Owns(c) /\ Owns(d) => c = d

\* The caller owns the gate or has been handed it and has not run yet.
Holds(c) == Owns(c) \/ c \in gateClosed

\* No caller is queued twice.
Distinct(s) == \A i, j \in 1..Len(s) : s[i] = s[j] => i = j

\* The inductive strengthening of GateExclusive: a hand-off goes to a parked
\* caller, which is no longer queued, and there is one holder, for which the
\* gate is busy.
GateInv ==
    /\ \A c \in gateClosed : pc[c] = "gateWait"
    /\ \A i \in 1..Len(gateWaiters) :
          pc[gateWaiters[i]] = "gateWait" /\ gateWaiters[i] \notin gateClosed
    /\ Distinct(gateWaiters)
    /\ \A c, d \in Callers : Holds(c) /\ Holds(d) => c = d
    /\ \A c \in Callers : Holds(c) => gateBusy

Admitted(c) == c \in Range(admitted)

\* The wait of the call may have been cancelled: it failed, or it ends without its
\* message having been admitted.
Dropped(c) ==
    /\ c \in Cancellable
    /\ \/ pc[c] \in {"overlapFail", "failed"}
       \/ pc[c] \in {"laneLeave", "done"} /\ ~Admitted(c)

SomeDropped == \E c \in Callers : Dropped(c)

\* The lock is busy but nobody owns it or has been handed it.
GateLost == gateBusy /\ \A c \in Callers : ~Holds(c)

\* A gate is only lost where a call was cancelled.  With GateInv it gives GateConserved.
GateHeld == GateLost => SomeDropped

\* The ownership is never doubled, and it is not lost unless a wait was cancelled: while
\* the gate is busy exactly one caller owns it or has been handed it.  The exception is
\* the select of acquireMessageGate, which may take ctx.Done when its channel is closed.
GateConserved ==
    \/ Cardinality({c \in Callers : Owns(c)}) + Cardinality(gateClosed) = Bit(gateBusy)
    \/ GateLost /\ SomeDropped

\* The call has left the gate; an overflow caller may still hold the lane.
Left(c) == pc[c] \in {"laneLeave", "done", "failed"}

\* However many calls there are and whichever of them fail, the messages the C64 may
\* hold unanswered are at most two more than the calls that ended with an error: the
\* owner of the gate and one overlapping sender have one there each, and only an error
\* leaves one behind that the next calls do not know of.
OverlapBounded == atC64 <= 2 + leftBehind

\* The caller holds the overlap slot.
Overlaps(c) ==
    /\ route[c] = "overlap"
    /\ pc[c] \in {"overlapSend", "gate", "gateWait", "overlapLeave", "overlapFail"}

\* The caller has not come to the choice between the slot and the gate.
Undecided(c) ==
    pc[c] \in {"arrive", "depth", "lane", "laneWait", "room", "roomDepth", "classify", "try",
               "recheck", "overlap"}

\* The inductive strengthening of OverlapBounded: the slot has one holder, and who
\* has a message at the C64 holds the slot or the gate.
OverlapInv ==
    /\ \A c \in Callers : Undecided(c) => route[c] # "overlap"
    /\ \A c \in Callers : Overlaps(c) => overlapBusy
    /\ \A c, d \in Callers : Overlaps(c) /\ Overlaps(d) => c = d
    /\ \A c \in Callers :
          pc[c] \in {"overlapSend", "overlapLeave", "overlapFail"} => route[c] = "overlap"
    /\ \A c \in Callers : Admitted(c) => Owns(c) \/ Overlaps(c) \/ Left(c)

\* The callers whose MSG has been admitted and whose call goes on.
Outstanding ==
    {c \in Callers :
        \/ pc[c] \in {"overlapLeave", "loop"}
        \/ route[c] = "overlap" /\ pc[c] \in {"gate", "gateWait"}}

\* What the count is: a message that is not answered belongs to a call that goes on or
\* was left behind.
CountInv ==
    /\ IsFiniteSet(Outstanding)
    /\ atC64 = Cardinality(Outstanding) + leftBehind

\* A caller that will not send its message any more.
GaveUp(c) == pc[c] \in {"gateLeave", "laneLeave", "overlapFail", "done", "failed"}

\* A message that does not overlap never passes one that was already queued on the
\* gate when it arrived, or when it came to the gate itself.
GateOrder ==
    \A c \in Callers :
        Admitted(c) /\ route[c] # "overlap" =>
            \A b \in ahead[c].gate : Admitted(b) \/ GaveUp(b)

Listed(c) == \E i \in 1..Len(gateWaiters) : gateWaiters[i] = c
Before(b, c) ==
    \E i, j \in 1..Len(gateWaiters) : i < j /\ gateWaiters[i] = b /\ gateWaiters[j] = c

\* Who is parked is in the list or has been handed the gate, and a gate that
\* somebody waits for is busy.
QueueInv ==
    /\ \A c \in Callers : pc[c] = "gateWait" => Listed(c) \/ c \in gateClosed
    /\ gateWaiters # <<>> => gateBusy

\* The inductive strengthening of GateOrder: a caller that c found parked is through,
\* or it holds the gate or is in the list, before c if c is there too.
OrderInv ==
    \A c \in Callers : \A b \in ahead[c].gate :
        \/ Admitted(b) \/ GaveUp(b)
        \/ /\ b # c /\ ~Owns(c)
           /\ Holds(b) \/ Listed(b)
           /\ pc[c] = "gateWait" => Holds(b) \/ Before(b, c)
           /\ Admitted(c) => route[c] = "overlap"

\* Overlapping messages included: a message that waits, on the gate or in the
\* overflow lane, is never passed by one that arrives later (SPEC.md:212).  The code
\* does not keep it: README, section 6.
MessageOrder ==
    \A c \in Callers :
        Admitted(c) => \A b \in ahead[c].gate \union ahead[c].lane : Admitted(b) \/ GaveUp(b)

OwnsLane(c) ==
    /\ route[c] = "overflow"
    /\ pc[c] \notin {"lane", "laneWait", "done", "failed"}

LaneLost == laneBusy /\ laneClosed = {} /\ \A c \in Callers : ~OwnsLane(c)

\* Every call of HandleMessageStream returns, unless a cancelled waiter has
\* dropped the ownership of the gate or the lane that it was just handed.
EveryCallReturns ==
    \A c \in Callers :
        pc[c] = "depth" ~> Returned(c) \/ (SomeDropped /\ (GateLost \/ LaneLost))

=============================================================================
