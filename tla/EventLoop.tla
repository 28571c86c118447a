----------------------------- MODULE EventLoop -----------------------------
(***************************************************************************)
(* The bridge between whole frames (relay.go): the event loop of the call  *)
(* that owns the message gate, the waits inside it, the LLM, and a second  *)
(* call that sends its message meanwhile.  pc is the place where the owner *)
(* waits; a wait takes frames from the C64, or ends by a timeout.          *)
(*                                                                         *)
(* ACK frames reach the bridge through a channel of their own, so that an  *)
(* ACK and a frame next to each other are taken in either order.           *)
(***************************************************************************)
EXTENDS Naturals, FiniteSets, SequencesExt

CONSTANTS
    Messages,       \* the user's messages are 1..Messages
    Tools,          \* tool calls the LLM may choose
    ToolCalls,      \* bound: tool calls of the LLM
    TextChunks,     \* TEXT frames of one answer
    Attempts,       \* transmissions of a frame, 5
    LLMFails        \* the LLM may return an error

VARIABLES
    down, up,           \* the line
    pc,                 \* where the owner of the gate is, "idle" without one
    out, attempt,       \* its frame in flight, and the transmissions so far
    delivered, silent,  \* deliveredUserText, completedWithoutText
    waiters,            \* calls waiting for the gate, in order
    overlap,            \* the MSG another call has in flight, or None
    overlapAttempt,     \* its transmissions so far
    pendingFrames, pendingAcks, rxLastID, nextTxID,
    textOut,            \* textOutQueue
    basicRunning, waitingTool, completionDrain,
    promptChunks, prompted,     \* SYSTEM chunks so far; SystemPrompt # ""
    resultChunks,
    toolOpen,           \* of the history: the last tool call has no answer
    toolCalls, texts,   \* tool calls and TEXT chunks of the LLM so far
    forwarded,          \* messages in the history, in order
    emitted,            \* TEXT chunks the user has seen, in order
    arrived, ended, failed  \* messages so far, calls returned, those with an error

ownerVars == <<pc, out, attempt, delivered, silent>>
gateVars == <<waiters, overlap, overlapAttempt, arrived>>
linkVars == <<pendingFrames, pendingAcks, rxLastID, nextTxID>>
flagVars == <<basicRunning, waitingTool, completionDrain>>
chunkVars == <<promptChunks, prompted, resultChunks>>
llmVars == <<textOut, toolOpen, toolCalls, texts>>
userVars == <<forwarded, emitted, ended, failed>>
vars == <<down, up, ownerVars, gateVars, linkVars, flagVars, chunkVars, llmVars, userVars>>

None == [type |-> "none", id |-> 0]

Init ==
    /\ pc = "idle" /\ out = None /\ attempt = 0
    /\ delivered = FALSE /\ silent = FALSE
    /\ waiters = <<>> /\ overlap = None /\ overlapAttempt = 0
    /\ pendingFrames = <<>> /\ pendingAcks = <<>> /\ rxLastID = 0 /\ nextTxID = 1
    /\ textOut = <<>>
    /\ basicRunning = FALSE /\ waitingTool = FALSE /\ completionDrain = FALSE
    /\ promptChunks = {} /\ prompted = FALSE /\ resultChunks = {}
    /\ toolOpen = FALSE /\ toolCalls = 0 /\ texts = 0
    /\ forwarded = <<>> /\ emitted = <<>>
    /\ arrived = 0 /\ ended = 0 /\ failed = 0

-----------------------------------------------------------------------------
(* Sending *)

AckFrame(id) == [type |-> "ACK", id |-> id]

\* flushPendingAcksLocked: every ACK twice while BASIC runs.
AckFrames(ids) ==
    IF basicRunning THEN [i \in 1..Len(ids) + Len(ids) |-> AckFrame(ids[(i + 1) \div 2])]
                    ELSE [i \in 1..Len(ids) |-> AckFrame(ids[i])]

\* Link.Send behind the ACKs that are owed.
Send(f) == down' = down \o AckFrames(pendingAcks) \o <<f>> /\ pendingAcks' = <<>>

\* sendNewReliableBridgeFrame: the frame gets its id.
SendNew(f) ==
    LET frame == [f EXCEPT !.id = nextTxID]
    IN Send(frame) /\ out' = frame /\ nextTxID' = nextTxID + 1 /\ attempt' = 1

\* The waits that take their frames from the line, and those that look at
\* pendingFrames first.
LineWaits == {"msgWait", "doneWait", "textWait", "semWait", "statusWait",
              "textDrain", "execDrain"}
LoopWaits == {"loop", "llmBatch", "userDrain"}

\* The ACKs go out before a wait, except in the loop with TEXT to be sent and in
\* the wait for the ACK of a TEXT.
HoldsAcks == pc = "textWait" \/ (pc = "loop" /\ textOut # <<>>)

FlushAcks ==
    /\ pc \in LineWaits \/ (pc \in LoopWaits /\ pendingFrames = <<>>)
    /\ ~HoldsAcks /\ pendingAcks # <<>>
    /\ down' = down \o AckFrames(pendingAcks)
    /\ pendingAcks' = <<>>
    /\ UNCHANGED <<up, ownerVars, gateVars, pendingFrames, rxLastID, nextTxID, flagVars,
                   chunkVars, llmVars, userVars>>

\* The call of the owner returns.
Leave(error) ==
    /\ pc' = "leave"
    /\ ended' = ended + 1
    /\ failed' = failed + (IF error THEN 1 ELSE 0)

\* The waits for a confirmation.
Confirmed == {"msgWait", "doneWait", "textWait", "semWait", "statusWait"}

\* The time is up, whatever is on its way: the frame is sent again; at last the call
\* fails.
Timeout ==
    /\ pc \in Confirmed
    /\ HoldsAcks \/ pendingAcks = <<>>
    /\ IF attempt < Attempts
       THEN /\ attempt' = attempt + 1
            /\ Send(out)
            /\ UNCHANGED <<pc, ended, failed>>
       ELSE Leave(TRUE) /\ UNCHANGED <<attempt, down, pendingAcks>>
    /\ UNCHANGED <<up, out, delivered, silent, gateVars, pendingFrames, rxLastID, nextTxID,
                   flagVars, chunkVars, llmVars, forwarded, emitted>>

-----------------------------------------------------------------------------
(* Calls *)

\* A message of the user takes the free gate or waits for it.
Arrive ==
    /\ arrived < Messages
    /\ arrived' = arrived + 1
    /\ IF pc = "idle"
       THEN SendNew([type |-> "MSG", n |-> arrived', id |-> 0]) /\ pc' = "msgWait" /\ UNCHANGED waiters
       ELSE /\ waiters' = Append(waiters, [n |-> arrived', sent |-> FALSE])
            /\ UNCHANGED <<down, out, attempt, nextTxID, pendingAcks, pc>>
    /\ UNCHANGED <<up, delivered, silent, overlap, overlapAttempt, pendingFrames, rxLastID,
                   flagVars, chunkVars, llmVars, userVars>>

\* sendOverlappingMSG: the message goes to the C64 although the gate is taken.
Overlap ==
    /\ arrived < Messages /\ pc \notin {"idle", "leave"} /\ prompted
    /\ overlap = None
    /\ completionDrain \/ basicRunning
    /\ basicRunning => ~waitingTool /\ waiters = <<>>
    /\ arrived' = arrived + 1
    /\ LET frame == [type |-> "MSG", n |-> arrived', id |-> nextTxID]
       IN Send(frame) /\ overlap' = frame
    /\ overlapAttempt' = 1
    /\ nextTxID' = nextTxID + 1
    /\ UNCHANGED <<up, ownerVars, waiters, pendingFrames, rxLastID, flagVars, chunkVars,
                   llmVars, userVars>>

\* sendVerifiedWithAckWaiter: the MSG is sent again; at last its call fails and
\* releaseOverlapSend lets another one overlap.
OverlapTimeout ==
    /\ overlap.id # 0
    /\ IF overlapAttempt < Attempts
       THEN /\ overlapAttempt' = overlapAttempt + 1
            /\ Send(overlap)
            /\ UNCHANGED <<overlap, ended, failed>>
       ELSE /\ overlap' = None /\ overlapAttempt' = 0
            /\ ended' = ended + 1 /\ failed' = failed + 1
            /\ UNCHANGED <<down, pendingAcks>>
    /\ UNCHANGED <<up, ownerVars, waiters, arrived, pendingFrames, rxLastID, nextTxID,
                   flagVars, chunkVars, llmVars, forwarded, emitted>>

\* releaseMessageGate, and what the next call does first.
HandOff ==
    /\ pc = "leave"
    /\ delivered' = FALSE /\ silent' = FALSE
    /\ IF waiters = <<>>
       THEN pc' = "idle" /\ UNCHANGED <<down, out, attempt, nextTxID, pendingAcks, waiters, overlap>>
       ELSE /\ waiters' = Tail(waiters)
            /\ IF Head(waiters).sent
               THEN /\ pc' = "loop" /\ overlap' = None
                    /\ UNCHANGED <<down, out, attempt, nextTxID, pendingAcks>>
               ELSE /\ SendNew([type |-> "MSG", n |-> Head(waiters).n, id |-> 0])
                    /\ pc' = "msgWait" /\ UNCHANGED overlap
    /\ UNCHANGED <<up, overlapAttempt, arrived, pendingFrames, rxLastID, flagVars, chunkVars,
                   llmVars, userVars>>

-----------------------------------------------------------------------------
(* Receiving *)

IsAck(f) == f.type = "ACK"
IsData(f) == ~IsAck(f)

\* ensureRecvLoop and the select: the next frame, or an ACK that is not behind
\* two frames.
Takeable(i) ==
    LET before == 1..(i - 1)
    IN IF IsAck(up[i]) THEN i <= 2 /\ \A j \in before : IsData(up[j])
                       ELSE \A j \in before : IsAck(up[j])

TakeFromLine(f) == \E i \in DOMAIN up : f = up[i] /\ Takeable(i) /\ up' = RemoveAt(up, i)

\* An ACK of the overlapping MSG goes to the call that waits for it, which takes the
\* free gate or waits for it with the message sent.
OverlapAcked ==
    /\ overlap.id # 0
    /\ TakeFromLine(AckFrame(overlap.id))
    /\ overlapAttempt' = 0
    /\ IF pc = "idle"
       THEN pc' = "loop" /\ overlap' = None /\ UNCHANGED waiters
       ELSE /\ waiters' = Append(waiters, [n |-> overlap.n, sent |-> TRUE])
            /\ overlap' = [overlap EXCEPT !.id = 0]
            /\ UNCHANGED pc
    /\ UNCHANGED <<down, out, attempt, delivered, silent, arrived, linkVars, flagVars,
                   chunkVars, llmVars, userVars>>

Receive(f) ==
    /\ HoldsAcks \/ pendingAcks = <<>>
    /\ IsAck(f) => f.id # overlap.id
    /\ TakeFromLine(f)

\* Mutant: the last frame counts as new when it is repeated.
OlderOnly(f) == f.id < rxLastID

\* transportIDAhead: accepted already.
Stale(f) == f.id <= rxLastID

\* semanticConfirmsDelivery, and waitForAckID for a TEXT.
Answers == [EXEC |-> {"STATUS", "RESULT"}, SCREENSHOT |-> {"RESULT"}, STOP |-> {"STATUS"}]

Confirms(f) ==
    \/ pc = "textWait" /\ f.type = "USER"
    \/ pc = "statusWait" /\ f.type = "STATUS"
    \/ pc = "semWait" /\ f.type \in Answers[out.type]

\* The ACK of f is sent at once in the wait for the ACK of a TEXT, that of a USER
\* twice, in a drain, and with the frame that confirms a tool; else it is owed.
AckedAtOnce(f) ==
    \/ pc \in {"textWait", "textDrain", "execDrain"}
    \/ pc = "semWait" /\ ~Stale(f) /\ Confirms(f)

Acknowledge(f) ==
    IF AckedAtOnce(f)
    THEN /\ down' = down \o AckFrames(Append(pendingAcks, f.id))
                          \o IF pc = "textWait" /\ f.type = "USER"
                             THEN <<AckFrame(f.id)>> ELSE <<>>
         /\ pendingAcks' = <<>>
    ELSE UNCHANGED down /\ pendingAcks' = Append(pendingAcks, f.id)

\* acceptC64Frame of a frame that is not new: acknowledged again and dropped.  In
\* the loop every frame ends the grace window of a silent completion.
DropStale ==
    \E f \in ToSet(up) :
        /\ pc \in LineWaits \/ (pc \in LoopWaits /\ pendingFrames = <<>>)
        /\ IsData(f) /\ Stale(f)
        /\ Receive(f)
        /\ Acknowledge(f)
        /\ silent' = (silent /\ pc # "loop")
        /\ UNCHANGED <<pc, out, attempt, delivered, gateVars, pendingFrames, rxLastID, nextTxID,
                       flagVars, chunkVars, llmVars, userVars>>

\* acceptC64Frame of a new frame.
Accept(f) ==
    /\ IsData(f) /\ ~Stale(f)
    /\ Receive(f)
    /\ Acknowledge(f)
    /\ rxLastID' = f.id
    /\ UNCHANGED <<nextTxID, gateVars>>

-----------------------------------------------------------------------------
(* Waits for the line *)

\* An ACK that confirms nothing here is dropped.
StrayAck ==
    /\ pc \in LineWaits
    /\ \E f \in ToSet(up) :
        /\ IsAck(f) /\ (pc \in {"msgWait", "doneWait", "textWait"} => f.id # out.id)
        /\ Receive(f)
    /\ UNCHANGED <<down, ownerVars, gateVars, linkVars, flagVars, chunkVars, llmVars, userVars>>

\* sendNextTextChunk: TEXT is held while the C64 completes a command.
TextNext == IF textOut = <<>> \/ completionDrain THEN "loop" ELSE "textDrain"

\* waitForAckID
AckArrives ==
    /\ pc \in {"msgWait", "doneWait", "textWait"}
    /\ Receive(AckFrame(out.id))
    /\ pc' = IF pc = "textWait" THEN TextNext ELSE "loop"
    /\ silent' = (pc = "doneWait")
    /\ UNCHANGED <<down, out, attempt, delivered, gateVars, linkVars, flagVars, chunkVars,
                   llmVars, userVars>>

\* A frame in a wait for a confirmation is left to the event loop.
WaitReceives ==
    /\ pc \in Confirmed
    /\ \E f \in ToSet(up) :
        /\ Accept(f)
        /\ pendingFrames' = Append(pendingFrames, f)
        /\ IF Confirms(f)
           THEN /\ pc' = IF pc = "textWait" THEN TextNext ELSE "loop"
                /\ waitingTool' = (waitingTool \/ pc # "textWait")
           ELSE UNCHANGED <<pc, waitingTool>>
    /\ UNCHANGED <<out, attempt, delivered, silent, basicRunning, completionDrain, chunkVars,
                   llmVars, userVars>>

\* drainC64OutboundBeforeText: a STATUS is dropped, another frame is an error.
DrainReceives ==
    /\ pc \in {"textDrain", "execDrain"}
    /\ \E f \in ToSet(up) :
        /\ Accept(f)
        /\ IF f.type = "STATUS"
           THEN UNCHANGED <<pc, pendingFrames, ended, failed>>
           ELSE Leave(TRUE) /\ pendingFrames' = <<f>> \o pendingFrames
    /\ UNCHANGED <<out, attempt, delivered, silent, flagVars, chunkVars, llmVars, forwarded, emitted>>

DrainEnds ==
    /\ pc \in {"textDrain", "execDrain"} /\ pendingAcks = <<>>
    /\ IF pc = "textDrain"
       THEN /\ SendNew([type |-> "TEXT", n |-> Head(textOut), id |-> 0])
            /\ textOut' = Tail(textOut)
            /\ pc' = "textWait"
       ELSE SendNew(out) /\ pc' = "semWait" /\ UNCHANGED textOut
    /\ UNCHANGED <<up, delivered, silent, gateVars, pendingFrames, rxLastID, flagVars, chunkVars,
                   toolOpen, toolCalls, texts, userVars>>

-----------------------------------------------------------------------------
(* The event loop *)

\* recvFromC64: a frame left by a wait, else one from the line.
NextFrame(f) ==
    IF pendingFrames # <<>>
    THEN /\ f = Head(pendingFrames)
         /\ UNCHANGED <<down, up, pendingAcks, rxLastID, nextTxID, gateVars>>
    ELSE \/ Accept(f)
         \/ IsAck(f) /\ Receive(f) /\ UNCHANGED <<down, pendingAcks, rxLastID, nextTxID, gateVars>>

Rest == IF pendingFrames # <<>> THEN Tail(pendingFrames) ELSE <<>>
Candidates == ToSet(up) \cup ToSet(pendingFrames)

\* handleSystemFrame
AddPromptChunk(f) ==
    LET chunks == promptChunks \cup {f.at}
    IN /\ prompted' = (prompted \/ Cardinality(chunks) = f.total)
       /\ promptChunks' = IF Cardinality(chunks) = f.total THEN {} ELSE chunks
       /\ UNCHANGED resultChunks

\* After a text has reached the user, a waiting call takes over.
LoopHandsOver(f) ==
    /\ delivered /\ waiters # <<>> /\ f.type \in {"LLM", "STATUS", "RESULT"}
    /\ pendingFrames' = <<f>> \o Rest
    /\ Leave(FALSE)
    /\ UNCHANGED <<flagVars, chunkVars, llmVars, forwarded, emitted>>

ForwardedBy(f) == IF f.event = "user" THEN <<f.body.msg>> ELSE <<>>

LoopTakes(f) ==
    /\ ~(delivered /\ waiters # <<>>) \/ f.type \notin {"LLM", "STATUS", "RESULT"}
    /\ pendingFrames' = Rest
    /\ \/ /\ f.type = "LLM"
          /\ forwarded' = forwarded \o ForwardedBy(f)
          /\ pc' = "llmBatch"
          /\ UNCHANGED <<flagVars, chunkVars, toolOpen, emitted>>
       \/ /\ f.type = "RESULT"
          /\ waitingTool' = FALSE /\ basicRunning' = FALSE /\ completionDrain' = FALSE
          /\ LET chunks == IF f.at = 0 THEN {0} ELSE resultChunks \cup {f.at}
                 complete == Cardinality(chunks) = f.total
             IN /\ resultChunks' = IF complete THEN {} ELSE chunks
                /\ toolOpen' = (toolOpen /\ ~complete)
                /\ pc' = IF complete THEN "call" ELSE "loop"
          /\ UNCHANGED <<promptChunks, prompted, forwarded, emitted>>
       \/ /\ f.type = "STATUS"
          /\ waitingTool' = FALSE
          /\ basicRunning' = (f.text \in {"RUNNING", "STOP REQUESTED"})
          /\ completionDrain' = IF f.text = "RUNNING" THEN TRUE
                                ELSE completionDrain /\ f.text # "READY"
          /\ toolOpen' = FALSE
          /\ pc' = "call"
          /\ UNCHANGED <<chunkVars, forwarded, emitted>>
       \/ /\ f.type = "USER"
          /\ emitted' = Append(emitted, f.n)
          /\ pc' = "userDrain"
          /\ UNCHANGED <<flagVars, chunkVars, toolOpen, forwarded>>
       \/ /\ f.type = "SYSTEM"
          /\ AddPromptChunk(f)
          /\ UNCHANGED <<pc, flagVars, toolOpen, forwarded, emitted>>
       \/ /\ IsAck(f)
          /\ UNCHANGED <<pc, flagVars, chunkVars, toolOpen, forwarded, emitted>>
    /\ UNCHANGED <<textOut, toolCalls, texts, ended, failed>>

Loop ==
    /\ pc = "loop"
    /\ \E f \in Candidates : NextFrame(f) /\ (LoopHandsOver(f) \/ LoopTakes(f))
    /\ silent' = FALSE
    /\ UNCHANGED <<out, attempt, delivered>>

\* completionGraceWindow: after a text or a silent completion the call returns if
\* nothing comes.
GraceEnds ==
    /\ pc = "loop" /\ pendingFrames = <<>> /\ pendingAcks = <<>>
    /\ delivered \/ silent
    /\ textOut = <<>> /\ ~waitingTool /\ ~basicRunning
    /\ Leave(FALSE)
    /\ UNCHANGED <<down, up, out, attempt, delivered, silent, gateVars, linkVars, flagVars,
                   chunkVars, llmVars, forwarded, emitted>>

\* drainTrailingLLMMessages and drainTrailingAfterUserText: frames of the kind
\* being drained; another one ends the drain.  SYSTEM frames, which are drained
\* too, all come before the first LLM frame.
Drains(f) ==
    \/ /\ pc = "llmBatch" /\ f.type = "LLM"
       /\ forwarded' = forwarded \o ForwardedBy(f)
       /\ UNCHANGED emitted
    \/ /\ pc = "userDrain" /\ f.type = "USER"
       /\ emitted' = Append(emitted, f.n)
       /\ UNCHANGED forwarded

DrainOver ==
    IF pc = "llmBatch" THEN pc' = "call" /\ UNCHANGED delivered
    ELSE pc' = "loop" /\ delivered' = TRUE

TrailingDrain ==
    /\ pc \in {"llmBatch", "userDrain"}
    /\ \/ \E f \in Candidates :
             /\ NextFrame(f)
             /\ \/ Drains(f) /\ pendingFrames' = Rest /\ UNCHANGED <<pc, delivered>>
                \/ /\ f.type # IF pc = "llmBatch" THEN "LLM" ELSE "USER"
                   /\ pendingFrames' = Append(Rest, f)
                   /\ DrainOver
                   /\ UNCHANGED <<forwarded, emitted>>
       \/ /\ pendingFrames = <<>> /\ pendingAcks = <<>>
          /\ DrainOver
          /\ UNCHANGED <<down, up, linkVars, gateVars, forwarded, emitted>>
    /\ UNCHANGED <<out, attempt, silent, flagVars, chunkVars, llmVars, ended, failed>>

-----------------------------------------------------------------------------
(* The LLM: callAndDispatch *)

LLMError ==
    /\ LLMFails \/ ~prompted
    /\ Leave(TRUE)
    /\ UNCHANGED <<down, out, attempt, pendingAcks, nextTxID, llmVars>>

LLMSilent ==
    /\ prompted
    /\ SendNew([type |-> "DONE", id |-> 0])
    /\ pc' = "doneWait"
    /\ UNCHANGED <<llmVars, ended, failed>>

LLMText ==
    /\ prompted
    /\ \E n \in 1..TextChunks :
          /\ textOut' = [i \in 1..n |-> texts + i]
          /\ texts' = texts + n
    /\ pc' = IF completionDrain THEN "loop" ELSE "textDrain"
    /\ UNCHANGED <<down, out, attempt, pendingAcks, nextTxID, toolOpen, toolCalls, ended, failed>>

LLMTool ==
    /\ prompted /\ toolCalls < ToolCalls
    /\ toolCalls' = toolCalls + 1
    /\ \E tool \in Tools :
          /\ toolOpen' = (tool # "unknown")
          /\ \/ /\ tool \in {"exec", "line"}
                /\ out' = [type |-> "EXEC", id |-> 0, n |-> 0, line |-> tool = "line"]
                /\ pc' = "execDrain"
                /\ UNCHANGED <<down, attempt, pendingAcks, nextTxID>>
             \/ /\ tool \in {"screen", "stop"}
                /\ SendNew([type |-> IF tool = "screen" THEN "SCREENSHOT" ELSE "STOP", id |-> 0])
                /\ pc' = "semWait"
             \/ /\ tool = "status"
                /\ out' = [type |-> "STATUSQ", id |-> 0] /\ attempt' = 1
                /\ Send(out')
                /\ pc' = "statusWait"
                /\ UNCHANGED nextTxID
             \/ /\ tool = "unknown"
                /\ pc' = "loop"
                /\ UNCHANGED <<down, out, attempt, pendingAcks, nextTxID>>
    /\ UNCHANGED <<textOut, texts, ended, failed>>

Complete ==
    /\ pc = "call"
    /\ LLMError \/ LLMSilent \/ LLMText \/ LLMTool
    /\ UNCHANGED <<up, delivered, silent, gateVars, pendingFrames, rxLastID, flagVars, chunkVars,
                   forwarded, emitted>>

\* The C64 gets its ACKs within a second.
AnswersSoon ==
    /\ pc \in LineWaits \/ (pc \in LoopWaits /\ textOut = <<>>)

\* Everything the bridge does by itself: it waits for no one but the C64 and the LLM.
Work ==
    \/ FlushAcks \/ OverlapAcked \/ HandOff
    \/ DropStale \/ StrayAck \/ AckArrives \/ WaitReceives \/ DrainReceives \/ DrainEnds
    \/ Loop \/ GraceEnds \/ TrailingDrain \/ Complete

Timers == Timeout \/ OverlapTimeout

Next == Work \/ Timers \/ Arrive \/ Overlap

-----------------------------------------------------------------------------
(* Properties *)

TypeOK ==
    /\ pc \in LineWaits \cup LoopWaits \cup {"idle", "call", "leave"}
    /\ {attempt, overlapAttempt} \subseteq 0..Attempts
    /\ {delivered, silent, basicRunning, waitingTool, completionDrain, prompted, toolOpen}
        \subseteq BOOLEAN
    /\ waiters \in Seq([n : 1..Messages, sent : BOOLEAN])
    /\ pendingAcks \in Seq(Nat) /\ {out.id, overlap.id, rxLastID, nextTxID} \subseteq Nat
    /\ \A i \in 1..Len(pendingFrames) : IsAck(pendingFrames[i]) \/ pendingFrames[i].id <= rxLastID
    /\ textOut \in Seq(1..texts) /\ emitted \in Seq(0..texts) /\ forwarded \in Seq(0..arrived)
    /\ promptChunks \subseteq Nat /\ resultChunks \subseteq Nat
    /\ toolCalls \in 0..ToolCalls /\ arrived \in 0..Messages
    /\ ended \in 0..arrived /\ failed \in 0..ended

\* A text is shown at most once, although its TEXT frame and the USER frame that
\* brings it back are repeated until they are acknowledged.  (0 is no text: see
\* README, section 6, for a command that is shown in the place of one.)
ShownOnce ==
    \A i, j \in 1..Len(emitted) : emitted[i] = emitted[j] /\ emitted[i] # 0 => i = j

\* No call is active: the user has seen every text of the LLM, in order.
AnswersShown == pc = "idle" => emitted = [i \in 1..texts |-> i]

\* A tool call is answered in the history before the LLM is asked again.
OneToolAtATime == pc = "call" => ~toolOpen

\* Every call returns, after its message has come to the LLM.
EveryTurnEnds ==
    \A n \in 1..Messages : arrived >= n ~> ended >= n /\ Len(forwarded) >= n

\* Every call returns.
EveryCallReturns == \A n \in 1..Messages : arrived >= n ~> ended >= n

\* Every message comes to the LLM.
EveryMessageForwarded == \A n \in 1..Messages : arrived >= n ~> n \in ToSet(forwarded)
=============================================================================
