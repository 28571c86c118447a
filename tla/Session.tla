------------------------------ MODULE Session ------------------------------
(***************************************************************************)
(* The agent on the C64 and the bridge at the two ends of one line: a      *)
(* conversation from the user's messages to the texts the user sees.       *)
(***************************************************************************)
EXTENDS Naturals, Sequences, FiniteSets

CONSTANTS PromptChunks, ResultChunks, QueueSlots, Keys, Retries, ScreenClears,
          Messages, Tools, ToolCalls, TextChunks, Attempts, LLMFails,
          Heartbeats,     \* bound: idle events of the C64
          EarlyTimeouts   \* bound: timers that run out although the answer comes

(* What the modules of the two sides assume of their parameters. *)
ASSUME SizesAssumption ==
    /\ PromptChunks \in Nat \ {0} /\ ResultChunks \in Nat \ {0}
    /\ QueueSlots \in Nat \ {0} /\ Keys \in Nat \ {0} /\ Retries \in Nat
ASSUME ScreenClearsAssumption == ScreenClears \in BOOLEAN
ASSUME BoundsAssumption ==
    /\ Messages \in Nat /\ ToolCalls \in Nat
    /\ TextChunks \in Nat \ {0} /\ Attempts \in Nat \ {0}
ASSUME ToolsAssumption ==
    Tools \subseteq {"exec", "line", "screen", "stop", "status", "unknown"}
ASSUME LLMFailsAssumption == LLMFails \in BOOLEAN
ASSUME HeartbeatsAssumption == Heartbeats \in Nat
ASSUME EarlyTimeoutsAssumption == EarlyTimeouts \in Nat

VARIABLES
    down, up,
    agent_state, basic_running, running_reported, stop_requested, busy,
    prompt_sent, prompt_pending, result_pending, result_of, state_pending,
    llm_pending, text_pending, deferred_ack, exec_buf, inj_left, progline_pending,
    rxbuf, userq, tick_overwritten, ack_pending, ack_id, rx_last_id,
    tx_ack_wait, send_buf, tx_retries, tx_next_id, basic, ready,
    pc, out, attempt, delivered, silent, waiters, overlap, overlapAttempt,
    pendingFrames, pendingAcks, rxLastID, nextTxID, textOut,
    basicRunning, waitingTool, completionDrain, promptChunks, prompted, resultChunks,
    toolOpen, toolCalls, texts, forwarded, emitted, arrived, ended, failed,
    heartbeats,           \* idle events so far
    early                 \* timers that ran out early, so far

C64 == INSTANCE C64Agent
Bridge == INSTANCE EventLoop

c64Vars == <<agent_state, basic_running, running_reported, stop_requested, busy,
             prompt_sent, prompt_pending, result_pending, result_of, state_pending,
             llm_pending, text_pending, deferred_ack, exec_buf, inj_left,
             progline_pending, rxbuf, userq, tick_overwritten, ack_pending, ack_id, rx_last_id,
             tx_ack_wait, send_buf, tx_retries, tx_next_id, basic, ready>>
bridgeVars == <<pc, out, attempt, delivered, silent, waiters, overlap, overlapAttempt,
                pendingFrames, pendingAcks, rxLastID, nextTxID, textOut,
                basicRunning, waitingTool, completionDrain, promptChunks, prompted,
                resultChunks, toolOpen, toolCalls, texts, forwarded, emitted,
                arrived, ended, failed>>
vars == <<down, up, c64Vars, bridgeVars, heartbeats, early>>

Init == C64!Init /\ Bridge!Init /\ heartbeats = 0 /\ early = 0

\* Two minutes in which nobody has anything to do: the line is empty, and the
\* bridge waits for the user, for the LLM or, in the loop, for the C64.
Heartbeat ==
    /\ heartbeats < Heartbeats
    /\ up = <<>> /\ down = <<>>
    /\ pc \in {"idle", "loop", "call"} /\ pendingFrames = <<>> /\ ~delivered /\ ~silent
    /\ heartbeats' = heartbeats + 1
    /\ C64!Heartbeat
    /\ UNCHANGED <<bridgeVars, early>>

\* The editor loop, the hooks and the interrupt of the C64.
C64Work == C64!Work /\ UNCHANGED <<bridgeVars, heartbeats, early>>

\* The program the user's BASIC executes.
ProgramEnds == C64!BasicEnds /\ UNCHANGED <<bridgeVars, heartbeats, early>>
ProgramTakesLong == C64!ReportRunning /\ UNCHANGED <<bridgeVars, heartbeats, early>>

BridgeWork == Bridge!Work /\ UNCHANGED <<c64Vars, heartbeats, early>>
UserWrites ==
    (Bridge!Arrive \/ Bridge!Overlap) /\ UNCHANGED <<c64Vars, heartbeats, early>>

\* Timers run out whatever goes on.  A bridge's timer is in time when nothing that
\* could confirm the frame is on its way or will be sent by the C64, the C64's when
\* the bridge is away and the C64 has read every frame.  Other times are counted.
Counted(inTime) ==
    IF inTime THEN UNCHANGED early ELSE early < EarlyTimeouts /\ early' = early + 1

BridgeTimers ==
    /\ Bridge!Timers
    /\ Counted(up = <<>> /\ down = <<>> /\ C64!Quiet)
    /\ UNCHANGED <<c64Vars, heartbeats>>
C64Timer ==
    /\ C64!AckTimeout
    /\ Counted(down = <<>> /\ ~Bridge!AnswersSoon)
    /\ UNCHANGED <<bridgeVars, heartbeats>>

Next ==
    \/ C64Work \/ ProgramEnds \/ ProgramTakesLong \/ Heartbeat \/ BridgeWork \/ UserWrites
    \/ BridgeTimers \/ C64Timer

Spec == Init /\ [][Next]_vars

\* Both processors keep running, the LLM answers, programs end and timers run out.
Fairness ==
    /\ WF_vars(C64Work) /\ WF_vars(BridgeWork)
    /\ WF_vars(ProgramEnds)
    /\ WF_vars(BridgeTimers) /\ WF_vars(C64Timer)

FairSpec == Spec /\ Fairness

-----------------------------------------------------------------------------
(* Properties *)

\* Every variable of the two sides has its type, and so has the line.
TypeOK ==
    /\ C64!TypeOK /\ Bridge!TypeOK
    /\ heartbeats \in 0..Heartbeats /\ early \in 0..EarlyTimeouts
    /\ \A i \in 1..Len(down) : down[i].type \in
        {"MSG", "EXEC", "STOP", "TEXT", "DONE", "SCREENSHOT", "STATUSQ", "ACK"}
    /\ \A i \in 1..Len(up) : up[i].type \in
        {"ACK", "STATUS", "SYSTEM", "RESULT", "LLM", "USER"}

\* See C64Agent.
BasicOwned == C64!BasicOwned

\* When the bridge waits for the user and nothing is on its way, the C64 keeps no
\* message back and does not believe that a call goes on: the next message starts
\* one at once.
SidesIdleTogether ==
    pc = "idle" /\ down = <<>> /\ up = <<>> /\ C64!Quiet =>
        ~busy /\ userq = <<>> /\ llm_pending = "none"

\* See EventLoop.
ShownOnce == Bridge!ShownOnce
AnswersShown == Bridge!AnswersShown
OneToolAtATime == Bridge!OneToolAtATime
EveryTurnEnds == Bridge!EveryTurnEnds
EveryCallReturns == Bridge!EveryCallReturns
EveryMessageForwarded == Bridge!EveryMessageForwarded
=============================================================================
