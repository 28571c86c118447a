------------------------------ MODULE C64Agent ------------------------------
(***************************************************************************)
(* The agent on the C64 (agent.asm, guarded_queue.asm) between whole       *)
(* frames: what it does with a frame from the bridge, how it types a       *)
(* command into BASIC and notices that BASIC is done, and which frame it   *)
(* sends next.  The editor loop (bloop), the RUN/STOP hook, BASIC's main   *)
(* loop hook and the raster interrupt are actions of one process: each     *)
(* runs on the same state, in any order.                                   *)
(*                                                                         *)
(* The lines are sequences of whole frames; loss, repetition and ids that  *)
(* wrap are the subject of Transport, bytes of OutboundGuard.              *)
(***************************************************************************)
EXTENDS Naturals, SequencesExt

CONSTANTS
    PromptChunks,   \* SYSTEM frames of the soul, PROMPT_CHUNKS
    ResultChunks,   \* RESULT frames of a screen
    QueueSlots,     \* pages of the user queue, 3
    Keys,           \* keys of a command, RETURN included
    Retries,        \* repetitions of an outbound frame, 3
    ScreenClears    \* a program may clear the screen and end above scan_start

VARIABLES
    down, up,           \* frames on the line to and from the C64, oldest first
    agent_state, basic_running, running_reported, stop_requested, busy,
    prompt_sent, prompt_pending,    \* the latter: SYSTEM frames left
    result_pending, result_of,      \* RESULT frames left, and of which kind
    state_pending,                  \* STATUS text to send, or "none"
    llm_pending,                    \* kind of LLM event to send, or "none"
    text_pending, deferred_ack,
    exec_buf,                       \* the frame last copied here: EXEC or TEXT
    inj_left, progline_pending,     \* keys to type; exec_buf is a program line
    rxbuf,                          \* the message in AGENT_RXBUF, and if it is whole
    userq,                          \* messages in the guarded queue
    tick_overwritten,               \* the code of the idle timer is not whole
    ack_pending, ack_id, rx_last_id,
    tx_ack_wait, send_buf, tx_retries, tx_next_id,
    basic, ready                    \* BASIC's state; READY. below scan_start

lineVars == <<down, up>>
agentVars == <<agent_state, basic_running, running_reported, stop_requested, busy>>
pendingVars == <<prompt_sent, prompt_pending, result_pending, result_of, state_pending,
                 llm_pending, text_pending, deferred_ack>>
bufferVars == <<exec_buf, inj_left, progline_pending, rxbuf, userq, tick_overwritten>>
txVars == <<tx_ack_wait, send_buf, tx_retries, tx_next_id>>
rxVars == <<ack_pending, ack_id, rx_last_id>>
basicVars == <<basic, ready>>
vars == <<lineVars, agentVars, pendingVars, bufferVars, txVars, rxVars, basicVars>>

Nothing == [type |-> "none", id |-> 0, n |-> 0]
NoBody == [msg |-> 0, whole |-> TRUE]

Init ==
    /\ down = <<>> /\ up = <<>>
    /\ agent_state = "IDLE"
    /\ basic_running = FALSE /\ running_reported = FALSE /\ stop_requested = FALSE
    /\ busy = FALSE
    /\ prompt_sent = FALSE /\ prompt_pending = 0
    /\ result_pending = 0 /\ result_of = "exec"
    /\ state_pending = "none" /\ llm_pending = "none"
    /\ text_pending = FALSE /\ deferred_ack = FALSE
    /\ exec_buf = Nothing /\ inj_left = 0 /\ progline_pending = FALSE
    /\ rxbuf = NoBody
    /\ userq = <<>> /\ tick_overwritten = FALSE
    /\ ack_pending = FALSE /\ ack_id = 0 /\ rx_last_id = 0
    /\ tx_ack_wait = FALSE /\ send_buf = Nothing /\ tx_retries = 0 /\ tx_next_id = 1
    /\ basic = "prompt" /\ ready = FALSE

-----------------------------------------------------------------------------
(* Sending *)

Ack(id) == [type |-> "ACK", id |-> id]

\* guard_userq_load_head_to_rxbuf takes the oldest message off the queue.  Its page
\* has EVENT_MSG in the first byte only if RAM had it there at power on, which is left
\* out here (see UserQueue): guq_load_unsupported drops it, and no LLM event is made.
LoadHead == userq' = Tail(userq)

\* The order of service_outbound_inner.
NextKind ==
    IF state_pending # "none" THEN "STATUS"
    ELSE IF prompt_pending > 0 THEN "SYSTEM"
    ELSE IF result_pending > 0 THEN "RESULT"
    ELSE IF llm_pending # "none" THEN "LLM"
    ELSE IF text_pending THEN "USER" ELSE "none"

\* The frame of a kind with the next id.
Frame(kind) ==
    CASE kind = "STATUS" -> [type |-> kind, id |-> tx_next_id, text |-> state_pending]
      [] kind = "SYSTEM" -> [type |-> kind, id |-> tx_next_id,
                             at |-> PromptChunks - prompt_pending, total |-> PromptChunks]
      [] kind = "RESULT" -> [type |-> kind, id |-> tx_next_id, of |-> result_of,
                             at |-> ResultChunks - result_pending, total |-> ResultChunks]
      [] kind = "LLM"    -> [type |-> kind, id |-> tx_next_id, event |-> llm_pending,
                             body |-> IF llm_pending = "user" THEN rxbuf ELSE NoBody]
      [] kind = "USER"   -> [type |-> kind, id |-> tx_next_id, of |-> exec_buf.type,
                             n |-> exec_buf.n]

\* Builds the next frame behind the ACKs that go out with it.  inject_tx_id
\* makes every one of them wait for its ACK.
Build(acks) ==
    LET kind == NextKind
        frame == Frame(kind)
    IN /\ kind # "none"
       /\ up' = up \o acks \o <<frame>>
       /\ send_buf' = frame
       /\ tx_next_id' = tx_next_id + 1
       /\ tx_ack_wait' = TRUE
       /\ tx_retries' = 0
       /\ state_pending' = IF kind = "STATUS" THEN "none" ELSE state_pending
       /\ prompt_pending' = IF kind = "SYSTEM" THEN prompt_pending - 1 ELSE prompt_pending
       /\ result_pending' = IF kind = "RESULT" THEN result_pending - 1 ELSE result_pending
       /\ llm_pending' = IF kind = "LLM" THEN "none" ELSE llm_pending
       /\ text_pending' = (text_pending /\ kind # "USER")
       /\ UNCHANGED <<prompt_sent, result_of>>

\* Mutant: the ACK of a TEXT is sent like any other.
TextReleasedAtOnce == deferred_ack

\* The ACK of a TEXT is owed until its USER frame is out and acknowledged.
TextReleased == deferred_ack /\ ~text_pending /\ ~tx_ack_wait

AcksDue == IF ack_pending \/ TextReleased THEN <<Ack(ack_id)>> ELSE <<>>

\* service_outbound, with the ACK of a TEXT that takes a message off the queue: the
\* ACK goes out alone.
ServiceReleasesQueue ==
    /\ TextReleased /\ userq # <<>>
    /\ LoadHead
    /\ up' = up \o AcksDue
    /\ deferred_ack' = FALSE /\ ack_pending' = FALSE
    /\ UNCHANGED <<down, agentVars, prompt_sent, prompt_pending, result_pending, result_of,
                   state_pending, llm_pending, text_pending, exec_buf, inj_left,
                   progline_pending, rxbuf, tick_overwritten, ack_id, rx_last_id, txVars,
                   basicVars>>

\* service_outbound otherwise: the ACK that is due, then the next frame unless
\* the last one still waits for its ACK.
Service ==
    /\ ~(TextReleased /\ userq # <<>>)
    /\ \/ /\ ~tx_ack_wait
          /\ Build(AcksDue)
       \/ /\ tx_ack_wait \/ NextKind = "none"
          /\ AcksDue # <<>>
          /\ up' = up \o AcksDue
          /\ UNCHANGED <<txVars, prompt_sent, prompt_pending, result_pending, result_of,
                         state_pending, llm_pending, text_pending>>
    /\ deferred_ack' = (deferred_ack /\ ~TextReleased)
    /\ ack_pending' = FALSE
    /\ UNCHANGED <<down, agentVars, bufferVars, ack_id, rx_last_id, basicVars>>

\* Mutant: the limit is checked one repetition too late.
GivesUpLate == tx_retries > Retries

\* so_ack_retry
GivesUp == tx_retries >= Retries

\* tx_ack_timer ran out: the frame is repeated, or given up for the next one.
AckTimeout ==
    /\ tx_ack_wait
    /\ IF ~GivesUp
       THEN /\ tx_retries' = tx_retries + 1
            /\ up' = up \o AcksDue \o <<send_buf>>
            /\ UNCHANGED <<tx_ack_wait, send_buf, tx_next_id, pendingVars>>
       ELSE /\ \/ Build(AcksDue)
               \/ /\ NextKind = "none"
                  /\ tx_ack_wait' = FALSE
                  /\ up' = up \o AcksDue
                  /\ UNCHANGED <<send_buf, tx_retries, tx_next_id, prompt_sent,
                                 prompt_pending, result_pending, result_of,
                                 state_pending, llm_pending, text_pending>>
            /\ UNCHANGED deferred_ack
    /\ ack_pending' = FALSE
    /\ UNCHANGED <<down, agentVars, bufferVars, ack_id, rx_last_id, basicVars>>

-----------------------------------------------------------------------------
(* Frames from the bridge *)

\* frame_rx_byte has stored the payload of f: a message, an ACK's two bytes
\* over the id and the first character, an id, or other text.
Received(f) ==
    CASE f.type = "MSG"             -> [msg |-> f.n, whole |-> TRUE]
      [] f.type = "ACK"             -> [rxbuf EXCEPT !.whole = FALSE]
      [] f.type \in {"TEXT", "EXEC"} -> [msg |-> 0, whole |-> FALSE]
      [] OTHER                      -> rxbuf

\* frame_dispatch of an ACK.  An ACK that is repeated is taken as often as it
\* comes, as long as no other frame was built.
TakeAck(f) ==
    /\ f.type = "ACK"
    /\ rxbuf' = Received(f)
    /\ IF f.id = send_buf.id /\ send_buf.type = "LLM" /\ userq # <<>>
       THEN LoadHead ELSE UNCHANGED userq
    /\ tx_ack_wait' = (tx_ack_wait /\ f.id # send_buf.id)
    /\ UNCHANGED <<up, agentVars, pendingVars, exec_buf, inj_left, progline_pending,
                   tick_overwritten, send_buf, tx_retries, tx_next_id, rxVars, basicVars>>

\* fd_status: READY unless BASIC is known or waited for and shows no READY.
TakeStatusReq(f) ==
    /\ f.type = "STATUSQ"
    /\ IF (basic_running \/ agent_state = "WAITING") /\ ~ready
       THEN state_pending' = "RUNNING" /\ UNCHANGED <<basic_running, running_reported>>
       ELSE /\ state_pending' = "READY"
            /\ basic_running' = FALSE
            /\ running_reported' = (running_reported /\ ~basic_running)
    /\ UNCHANGED <<up, agent_state, stop_requested, busy, prompt_sent, prompt_pending,
                   result_pending, result_of, llm_pending, text_pending, deferred_ack,
                   bufferVars, rxVars, txVars, basicVars>>

Reliable == {"MSG", "EXEC", "STOP", "TEXT", "DONE", "SCREENSHOT"}

OweAck(f) == ack_id' = f.id /\ ack_pending' = TRUE

\* fd_stale: acknowledged again, unless it is the TEXT whose ACK is deferred.
TakeStale(f) ==
    /\ f.type \in Reliable /\ f.id <= rx_last_id
    /\ rxbuf' = Received(f)
    /\ IF f.type = "TEXT" /\ deferred_ack THEN UNCHANGED <<ack_id, ack_pending>> ELSE OweAck(f)
    /\ UNCHANGED <<up, agentVars, pendingVars, exec_buf, inj_left, progline_pending, userq,
                   tick_overwritten, rx_last_id, txVars, basicVars>>

\* Mutant: a request counts as new when it is repeated.
AcceptAgain(f) ==
    /\ f.type \in Reliable /\ f.id >= rx_last_id
    /\ rx_last_id' = f.id
    /\ tx_ack_wait' = FALSE
    /\ UNCHANGED <<up, send_buf, tx_retries, tx_next_id, basic>>

\* fd_accept: a new request also ends the wait for an ACK.
Accept(f) ==
    /\ f.type \in Reliable /\ f.id > rx_last_id
    /\ rx_last_id' = f.id
    /\ tx_ack_wait' = FALSE
    /\ UNCHANGED <<up, send_buf, tx_retries, tx_next_id, basic>>

\* A message that comes while the agent is busy is queued, with EVENT_MSG written to
\* $9200: guard_idle_llm_tick then reads another byte than busy, which is never 0.
TakeMsg(f) ==
    /\ f.type = "MSG" /\ Accept(f) /\ OweAck(f)
    /\ rxbuf' = Received(f)
    /\ prompt_sent' = TRUE
    /\ prompt_pending' = IF prompt_sent THEN prompt_pending ELSE PromptChunks
    /\ IF busy
       THEN /\ userq' = Append(IF Len(userq) = QueueSlots THEN Tail(userq) ELSE userq, f.n)
            /\ tick_overwritten' = TRUE
            /\ UNCHANGED <<busy, llm_pending>>
       ELSE busy' = TRUE /\ llm_pending' = "user" /\ UNCHANGED <<userq, tick_overwritten>>
    /\ UNCHANGED <<agent_state, basic_running, running_reported, stop_requested,
                   result_pending, result_of, state_pending, text_pending, deferred_ack,
                   exec_buf, inj_left, progline_pending, ready>>

\* Mutant: DONE does not end the call on the C64.
TakeDoneStaysBusy(f) ==
    /\ f.type = "DONE" /\ Accept(f) /\ OweAck(f)
    /\ IF userq # <<>> THEN LoadHead ELSE UNCHANGED userq
    /\ text_pending' = FALSE
    /\ UNCHANGED <<agentVars, prompt_sent, prompt_pending, result_pending, result_of,
                   state_pending, llm_pending, deferred_ack, exec_buf, inj_left,
                   progline_pending, rxbuf, tick_overwritten, ready>>

\* guard_done
TakeDone(f) ==
    /\ f.type = "DONE" /\ Accept(f) /\ OweAck(f)
    /\ IF userq # <<>> THEN LoadHead ELSE UNCHANGED userq
    /\ busy' = FALSE /\ text_pending' = FALSE
    /\ UNCHANGED <<agent_state, basic_running, running_reported, stop_requested, prompt_sent,
                   prompt_pending, result_pending, result_of, state_pending, llm_pending,
                   deferred_ack, exec_buf, inj_left, progline_pending, rxbuf,
                   tick_overwritten, ready>>

\* fd_not_done: while BASIC works on a command the TEXT is refused with BUSY and
\* without an ACK.
TakeText(f) ==
    /\ f.type = "TEXT" /\ Accept(f)
    /\ rxbuf' = Received(f)
    /\ IF ~basic_running /\ agent_state = "WAITING"
       THEN /\ state_pending' = "BUSY"
            /\ UNCHANGED <<busy, exec_buf, ack_id, deferred_ack, text_pending>>
       ELSE /\ busy' = (busy /\ basic_running)
            /\ exec_buf' = f
            /\ ack_id' = f.id
            /\ deferred_ack' = TRUE /\ text_pending' = TRUE
            /\ UNCHANGED state_pending
    /\ UNCHANGED <<agent_state, basic_running, running_reported, stop_requested, prompt_sent,
                   prompt_pending, result_pending, result_of, llm_pending, inj_left,
                   progline_pending, userq, tick_overwritten, ack_pending, ready>>

\* fd_not_text: while BASIC runs the answer is a STATUS.
TakeScreenshot(f) ==
    /\ f.type = "SCREENSHOT" /\ Accept(f) /\ OweAck(f)
    /\ IF basic_running /\ ~ready
       THEN /\ state_pending' = "RUNNING"
            /\ UNCHANGED <<basic_running, running_reported, result_pending, result_of>>
       ELSE /\ basic_running' = FALSE
            /\ running_reported' = (running_reported /\ ~basic_running)
            /\ result_pending' = ResultChunks /\ result_of' = "screen"
            /\ UNCHANGED state_pending
    /\ UNCHANGED <<agent_state, stop_requested, busy, prompt_sent, prompt_pending,
                   llm_pending, text_pending, deferred_ack, bufferVars, ready>>

TakeStop(f) ==
    /\ f.type = "STOP" /\ Accept(f) /\ OweAck(f)
    /\ stop_requested' = TRUE
    /\ state_pending' = "STOP REQUESTED"
    /\ UNCHANGED <<agent_state, basic_running, running_reported, busy, prompt_sent,
                   prompt_pending, result_pending, result_of, llm_pending, text_pending,
                   deferred_ack, bufferVars, ready>>

\* fd_not_stop: a command is typed from row scan_start on, READY. counts below it.
TakeExec(f) ==
    /\ f.type = "EXEC" /\ Accept(f) /\ OweAck(f)
    /\ rxbuf' = Received(f)
    /\ IF basic_running \/ agent_state = "WAITING"
       THEN /\ state_pending' = "BUSY"
            /\ UNCHANGED <<agent_state, basic_running, running_reported, exec_buf, inj_left,
                           progline_pending, ready>>
       ELSE /\ exec_buf' = f /\ progline_pending' = f.line /\ inj_left' = Keys
            /\ agent_state' = "INJECTING"
            /\ basic_running' = FALSE /\ running_reported' = FALSE /\ ready' = FALSE
            /\ UNCHANGED state_pending
    /\ UNCHANGED <<stop_requested, busy, prompt_sent, prompt_pending, result_pending,
                   result_of, llm_pending, text_pending, deferred_ack, userq,
                   tick_overwritten>>

Dispatch ==
    /\ down # <<>>
    /\ down' = Tail(down)
    /\ LET f == Head(down)
       IN \/ TakeAck(f) \/ TakeStatusReq(f) \/ TakeStale(f) \/ TakeMsg(f) \/ TakeDone(f)
          \/ TakeText(f) \/ TakeScreenshot(f) \/ TakeStop(f) \/ TakeExec(f)

-----------------------------------------------------------------------------
(* BASIC *)

\* bl_inj_do: the editor loop types the next key.  BASIC gets the line with the
\* last one.
InjectKey ==
    /\ basic = "prompt" /\ agent_state = "INJECTING" /\ inj_left > 0
    /\ inj_left' = inj_left - 1
    /\ IF inj_left = 1
       THEN /\ agent_state' = IF progline_pending THEN "STOREWAIT" ELSE "WAITING"
            /\ basic' = IF progline_pending THEN "store" ELSE "exec"
       ELSE UNCHANGED <<agent_state, basic>>
    /\ UNCHANGED <<lineVars, basic_running, running_reported, stop_requested, busy, pendingVars,
                   exec_buf, progline_pending, rxbuf, userq, tick_overwritten, txVars,
                   rxVars, ready>>

\* BASIC has stored the line and comes to its main loop: imain_hook.
LineStored ==
    /\ basic = "store"
    /\ basic' = "prompt"
    /\ IF agent_state = "STOREWAIT"
       THEN /\ progline_pending' = FALSE /\ busy' = FALSE
            /\ state_pending' = "STORED"
            /\ agent_state' = "IDLE"
       ELSE UNCHANGED <<progline_pending, busy, state_pending, agent_state>>
    /\ UNCHANGED <<lineVars, basic_running, running_reported, stop_requested, prompt_sent,
                   prompt_pending, result_pending, result_of, llm_pending, text_pending,
                   deferred_ack, exec_buf, inj_left, rxbuf, userq, tick_overwritten, txVars,
                   rxVars, ready>>

\* The program ends.  READY. is below the command, unless it cleared the screen.
BasicEnds ==
    /\ basic = "exec"
    /\ basic' = "prompt"
    /\ ready' \in {TRUE, ~ScreenClears}
    /\ UNCHANGED <<lineVars, agentVars, pendingVars, bufferVars, txVars, rxVars>>

\* consume_stop_request in a hook: the RUN/STOP key seems pressed.
BasicBreaks ==
    /\ basic = "exec" /\ stop_requested
    /\ basic' = "prompt" /\ ready' = TRUE
    /\ UNCHANGED <<lineVars, agentVars, pendingVars, bufferVars, txVars, rxVars>>

\* prepare_result_chunks, unless a result is on its way.
OutputResult ==
    IF result_pending > 0 THEN UNCHANGED <<result_pending, result_of>>
    ELSE result_pending' = ResultChunks /\ result_of' = "exec"

\* bl_wait_ready, in the editor loop.
WaitReady ==
    /\ basic = "prompt" /\ agent_state = "WAITING" /\ ready
    /\ basic_running' = FALSE /\ running_reported' = FALSE
    /\ agent_state' = "IDLE"
    /\ OutputResult
    /\ UNCHANGED <<lineVars, stop_requested, busy, prompt_sent, prompt_pending, state_pending,
                   llm_pending, text_pending, deferred_ack, bufferVars, txVars, rxVars,
                   basicVars>>

\* READY. is noticed where it ends the command and its stop request: in the
\* interrupt while the agent waits, and in the editor loop after RUNNING.
ReadyNoticed ==
    /\ ready
    /\ \/ agent_state = "WAITING" /\ ~basic_running
       \/ basic_running /\ basic = "prompt"
    /\ basic_running' = FALSE /\ running_reported' = FALSE /\ stop_requested' = FALSE
    /\ busy' = FALSE /\ agent_state' = "IDLE"
    /\ OutputResult
    /\ UNCHANGED <<lineVars, prompt_sent, prompt_pending, state_pending, llm_pending,
                   text_pending, deferred_ack, bufferVars, txVars, rxVars, basicVars>>

\* irq_rx_done: after RUNNING the interrupt notices READY. and sends no result.
DetachedReady ==
    /\ ready /\ basic_running
    /\ basic_running' = FALSE /\ running_reported' = FALSE /\ stop_requested' = FALSE
    /\ busy' = FALSE /\ agent_state' = "IDLE"
    /\ UNCHANGED <<lineVars, pendingVars, bufferVars, txVars, rxVars, basicVars>>

\* Mutant: the report forgets that BASIC goes on.
ReportRunningOnly ==
    /\ agent_state = "WAITING" /\ ~ready /\ ~running_reported
    /\ state_pending' = "RUNNING"
    /\ running_reported' = TRUE /\ UNCHANGED basic_running
    /\ agent_state' = "IDLE" /\ busy' = FALSE
    /\ UNCHANGED <<lineVars, stop_requested, prompt_sent, prompt_pending, result_pending,
                   result_of, llm_pending, text_pending, deferred_ack, bufferVars, txVars,
                   rxVars, basicVars>>

\* sr_report and irq_mark_running: the command takes long.  (In BASIC's STOP test
\* sr_waiting looks for READY. first; it would have to be printed by the program.)
ReportRunning ==
    /\ agent_state = "WAITING" /\ ~ready /\ ~running_reported
    /\ state_pending' = "RUNNING"
    /\ running_reported' = TRUE /\ basic_running' = TRUE
    /\ agent_state' = "IDLE" /\ busy' = FALSE
    /\ UNCHANGED <<lineVars, stop_requested, prompt_sent, prompt_pending, result_pending,
                   result_of, llm_pending, text_pending, deferred_ack, bufferVars, txVars,
                   rxVars, basicVars>>

\* What guard_idle_llm_tick looks at, as it was assembled.
Idle ==
    /\ ~busy /\ ~basic_running /\ agent_state = "IDLE" /\ prompt_sent
    /\ NextKind = "none" /\ ~ack_pending /\ ~tx_ack_wait

\* guard_idle_llm_tick: two minutes without anything to do.
Heartbeat ==
    /\ Idle /\ ~tick_overwritten
    /\ llm_pending' = "heartbeat" /\ busy' = TRUE
    /\ UNCHANGED <<lineVars, agent_state, basic_running, running_reported, stop_requested,
                   prompt_sent, prompt_pending, result_pending, result_of, state_pending,
                   text_pending, deferred_ack, bufferVars, txVars, rxVars, basicVars>>

\* What the agent does by itself, whoever calls it.
Work ==
    \/ ServiceReleasesQueue \/ Service \/ Dispatch
    \/ InjectKey \/ LineStored \/ BasicBreaks
    \/ WaitReady \/ ReadyNoticed \/ DetachedReady

\* The agent has no command in hand and has sent what it can: what is left waits
\* for the bridge.
Quiet ==
    /\ agent_state = "IDLE"
    /\ AcksDue = <<>>
    /\ tx_ack_wait \/ NextKind = "none"

-----------------------------------------------------------------------------
(* Properties *)

TypeOK ==
    /\ agent_state \in {"IDLE", "INJECTING", "WAITING", "STOREWAIT"}
    /\ {basic_running, running_reported, stop_requested, busy, prompt_sent, text_pending,
        deferred_ack, progline_pending, tick_overwritten, ack_pending, tx_ack_wait, ready}
        \subseteq BOOLEAN
    /\ basic \in {"prompt", "exec", "store"}
    /\ prompt_pending \in 0..PromptChunks /\ result_pending \in 0..ResultChunks
    /\ result_of \in {"exec", "screen"}
    /\ state_pending \in {"none", "READY", "RUNNING", "BUSY", "STORED", "STOP REQUESTED"}
    /\ llm_pending \in {"none", "user", "heartbeat"}
    /\ inj_left \in 0..Keys /\ tx_retries \in 0..Retries
    /\ {ack_id, rx_last_id, tx_next_id, exec_buf.id, send_buf.id, rxbuf.msg} \subseteq Nat
    /\ userq \in Seq(Nat) /\ Len(userq) <= QueueSlots

\* While BASIC executes a command the agent knows it, from the last key to READY.:
\* it is waiting, or it has told the bridge that the program runs.  An EXEC is
\* then refused (fd_not_stop), so its keys never reach a running program.
BasicOwned == basic = "exec" => agent_state = "WAITING" \/ basic_running

\* An agent with nothing to do counts the two minutes to the next heartbeat (SPEC.md
\* 138).  The code does not keep it: README, section 6.
IdleTimerRuns == Idle => ~tick_overwritten

\* What BasicOwned rests on: READY. is only there at the prompt, no program runs
\* while keys are typed, and the line being stored is the agent's.
BasicInv ==
    /\ BasicOwned
    /\ ready => basic = "prompt"
    /\ agent_state = "INJECTING" => ~ready /\ basic # "exec"
    /\ agent_state = "STOREWAIT" => basic = "store" /\ ~ready
=============================================================================
