---------------------------- MODULE SessionProofs ----------------------------
(***************************************************************************)
(* Proofs about the agent and the bridge at the two ends of the line.      *)
(*                                                                         *)
(* BasicIsOwned: while BASIC executes a command, the agent on the C64      *)
(* knows it.  A command starts only with the last key (InjectKey), and     *)
(* then the agent waits.  It stops waiting when it sees READY., which is   *)
(* there only at the prompt, or when it reports RUNNING and notes that the *)
(* program goes on; the notes are only cleared when READY. is seen or      *)
(* where the agent waits.  A new EXEC clears them too, but it is refused   *)
(* while either holds.                                                     *)
(*                                                                         *)
(* SessionTypeCorrect: TypeInv gives every kind of frame its fields, with  *)
(* the messages and texts so far as the numbers in them, and each place of *)
(* the bridge that repeats a frame the frame; CallsInv counts a call once, *)
(* as owner, waiter, overlapping or ended.                                 *)
(*                                                                         *)
(* TextShownOnce: TextInv follows a text from the LLM to the C64 and back. *)
(* Its number grows with the id of its TEXT frame, so the C64, which takes *)
(* no older id, takes each text once, and what is in exec_buf is newer     *)
(* than all that has been sent back; it comes back in a frame of one id,   *)
(* which the bridge accepts once; and an accepted text waits in one frame  *)
(* or has been shown.                                                      *)
(***************************************************************************)
EXTENDS Session, SequenceTheorems, TLAPS

\* What BasicInv speaks of.
basicState == <<agent_state, basic_running, basic, ready>>

\* A step that leaves basicState alone keeps the invariant.
LEMMA BasicFrame == C64!BasicInv /\ UNCHANGED basicState => C64!BasicInv'
  BY DEF basicState, C64!BasicInv, C64!BasicOwned

\* The sending half of the agent has no part in it.
LEMMA SendingFrame ==
    C64!Service \/ C64!ServiceReleasesQueue \/ C64!AckTimeout \/ C64!Heartbeat
        => UNCHANGED basicState
<1>1. C64!Service => UNCHANGED basicState
  BY DEF basicState, C64!Service, C64!agentVars, C64!basicVars
<1>2. C64!ServiceReleasesQueue => UNCHANGED basicState
  BY DEF basicState, C64!ServiceReleasesQueue, C64!agentVars, C64!basicVars
<1>3. C64!AckTimeout => UNCHANGED basicState
  BY DEF basicState, C64!AckTimeout, C64!agentVars, C64!basicVars
<1>4. C64!Heartbeat => UNCHANGED basicState
  BY DEF basicState, C64!Heartbeat, C64!basicVars
<1> QED
  BY <1>1, <1>2, <1>3, <1>4

\* Nor have the frames that ask nothing of BASIC.
LEMMA DispatchFrame ==
    ASSUME NEW f,
           C64!TakeAck(f) \/ C64!TakeStale(f) \/ C64!TakeMsg(f) \/ C64!TakeDone(f)
               \/ C64!TakeText(f) \/ C64!TakeStop(f)
    PROVE  UNCHANGED basicState
<1>1. CASE C64!TakeAck(f)
  BY <1>1 DEF basicState, C64!TakeAck, C64!agentVars, C64!basicVars
<1>2. CASE C64!TakeStale(f)
  BY <1>2 DEF basicState, C64!TakeStale, C64!agentVars, C64!basicVars
<1>3. CASE C64!TakeMsg(f)
  BY <1>3 DEF basicState, C64!TakeMsg, C64!Accept
<1>4. CASE C64!TakeDone(f)
  BY <1>4 DEF basicState, C64!TakeDone, C64!Accept
<1>5. CASE C64!TakeText(f)
  BY <1>5 DEF basicState, C64!TakeText, C64!Accept
<1>6. CASE C64!TakeStop(f)
  BY <1>6 DEF basicState, C64!TakeStop, C64!Accept
<1> QED
  BY <1>1, <1>2, <1>3, <1>4, <1>5, <1>6

\* A STATUS request, a SCREENSHOT and an EXEC clear the note that a program runs
\* only when none does.
LEMMA DispatchKeepsBasicInv ==
    ASSUME C64!BasicInv, C64!Dispatch
    PROVE  C64!BasicInv'
<1>1. PICK f : \/ C64!TakeAck(f) \/ C64!TakeStatusReq(f) \/ C64!TakeStale(f)
               \/ C64!TakeMsg(f) \/ C64!TakeDone(f) \/ C64!TakeText(f)
               \/ C64!TakeScreenshot(f) \/ C64!TakeStop(f) \/ C64!TakeExec(f)
  BY DEF C64!Dispatch
<1>2. CASE C64!TakeStatusReq(f)
  BY <1>2 DEF C64!BasicInv, C64!BasicOwned, C64!TakeStatusReq, C64!basicVars
<1>3. CASE C64!TakeScreenshot(f)
  BY <1>3 DEF C64!BasicInv, C64!BasicOwned, C64!TakeScreenshot, C64!Accept
<1>4. CASE C64!TakeExec(f)
  BY <1>4 DEF C64!BasicInv, C64!BasicOwned, C64!TakeExec, C64!Accept
<1> QED
  BY <1>1, <1>2, <1>3, <1>4, DispatchFrame, BasicFrame

\* Typing, storing, running and the notice of READY.
LEMMA BasicStepKeepsBasicInv ==
    ASSUME C64!BasicInv,
           \/ C64!InjectKey \/ C64!LineStored \/ C64!BasicEnds \/ C64!BasicBreaks
           \/ C64!WaitReady \/ C64!ReadyNoticed \/ C64!DetachedReady \/ C64!ReportRunning
    PROVE  C64!BasicInv'
<1> USE DEF C64!BasicInv, C64!BasicOwned
<1>1. CASE C64!InjectKey
  BY <1>1 DEF C64!InjectKey
<1>2. CASE C64!LineStored
  BY <1>2 DEF C64!LineStored
<1>3. CASE C64!BasicEnds
  BY <1>3 DEF C64!BasicEnds, C64!agentVars
<1>4. CASE C64!BasicBreaks
  BY <1>4 DEF C64!BasicBreaks, C64!agentVars
<1>5. CASE C64!WaitReady
  BY <1>5 DEF C64!WaitReady, C64!basicVars
<1>6. CASE C64!ReadyNoticed
  BY <1>6 DEF C64!ReadyNoticed, C64!basicVars
<1>7. CASE C64!DetachedReady
  BY <1>7 DEF C64!DetachedReady, C64!basicVars
<1>8. CASE C64!ReportRunning
  BY <1>8 DEF C64!ReportRunning, C64!basicVars
<1> QED
  BY <1>1, <1>2, <1>3, <1>4, <1>5, <1>6, <1>7, <1>8

\* The invariant is inductive: every step of the two machines keeps it.
LEMMA StepBasicInv == C64!BasicInv /\ [Next]_vars => C64!BasicInv'
<1> SUFFICES ASSUME C64!BasicInv, [Next]_vars
             PROVE  C64!BasicInv'
  OBVIOUS
<1>1. CASE C64Work
  BY <1>1, SendingFrame, BasicFrame, DispatchKeepsBasicInv, BasicStepKeepsBasicInv
     DEF C64Work, C64!Work
<1>2. CASE ProgramEnds
  BY <1>2, BasicStepKeepsBasicInv DEF ProgramEnds
<1>3. CASE ProgramTakesLong
  BY <1>3, BasicStepKeepsBasicInv DEF ProgramTakesLong
<1>4. CASE Heartbeat
  BY <1>4, SendingFrame, BasicFrame DEF Heartbeat
<1>5. CASE BridgeWork \/ UserWrites \/ BridgeTimers
  BY <1>5, BasicFrame DEF BridgeWork, UserWrites, BridgeTimers, c64Vars, basicState
<1>6. CASE C64Timer
  BY <1>6, SendingFrame, BasicFrame DEF C64Timer
<1>7. CASE UNCHANGED vars
  BY <1>7, BasicFrame DEF vars, c64Vars, basicState
<1> QED
  BY <1>1, <1>2, <1>3, <1>4, <1>5, <1>6, <1>7 DEF Next

\* While BASIC executes a command the agent waits for its READY. or has reported it
\* as running: an EXEC that comes meanwhile is refused (agent.asm, fd_not_stop).
THEOREM BasicIsOwned == Spec => []BasicOwned
<1>1. Init => C64!BasicInv
  BY DEF Init, C64!Init, C64!BasicInv, C64!BasicOwned
<1>2. C64!BasicInv => BasicOwned
  BY DEF C64!BasicInv, BasicOwned
<1> QED
  BY <1>1, <1>2, StepBasicInv, PTL DEF Spec

-----------------------------------------------------------------------------
(* What is on the line, and what the two sides keep of it *)

\* Frames to the C64, and from it.  0 is no message and no text: a command that is
\* sent back in the place of one, or a buffer that was overwritten.
Requests == [type : {"MSG"}, n : 1..arrived, id : Nat]

DownFrames ==
    Requests
    \cup [type : {"ACK", "DONE", "STOP", "SCREENSHOT", "STATUSQ"}, id : Nat]
    \cup [type : {"TEXT"}, n : 1..texts, id : Nat]
    \cup [type : {"EXEC"}, id : Nat, n : {0}, line : BOOLEAN]

MessageBodies == [msg : 0..arrived, whole : BOOLEAN]
StatusTexts == {"READY", "RUNNING", "BUSY", "STORED", "STOP REQUESTED"}

UpFrames ==
    [type : {"ACK"}, id : Nat]
    \cup [type : {"STATUS"}, id : Nat, text : StatusTexts]
    \cup [type : {"SYSTEM"}, id : Nat, at : Nat, total : Nat]
    \cup [type : {"RESULT"}, id : Nat, of : {"exec", "screen"}, at : Nat, total : Nat]
    \cup [type : {"LLM"}, id : Nat, event : {"user", "heartbeat"}, body : MessageBodies]
    \cup [type : {"USER"}, id : Nat, of : {"none", "TEXT", "EXEC"}, n : 0..texts]

\* What the C64 keeps: its state, what it has to send, its buffers, and the frame it
\* repeats.
AgentModes ==
    /\ agent_state \in {"IDLE", "INJECTING", "WAITING", "STOREWAIT"}
    /\ basic_running \in BOOLEAN /\ running_reported \in BOOLEAN
    /\ stop_requested \in BOOLEAN /\ busy \in BOOLEAN
    /\ basic \in {"prompt", "exec", "store"} /\ ready \in BOOLEAN

AgentPending ==
    /\ prompt_sent \in BOOLEAN /\ text_pending \in BOOLEAN /\ deferred_ack \in BOOLEAN
    /\ prompt_pending \in 0..PromptChunks /\ result_pending \in 0..ResultChunks
    /\ result_of \in {"exec", "screen"}
    /\ state_pending \in StatusTexts \cup {"none"}
    /\ llm_pending \in {"none", "user", "heartbeat"}

AgentBuffers ==
    /\ exec_buf \in DownFrames \cup {C64!Nothing}
    /\ exec_buf.type \in {"none", "TEXT", "EXEC"}
    /\ inj_left \in 0..Keys /\ progline_pending \in BOOLEAN
    /\ rxbuf \in MessageBodies
    /\ userq \in Seq(0..arrived) /\ Len(userq) <= QueueSlots
    /\ tick_overwritten \in BOOLEAN

AgentLink ==
    /\ ack_pending \in BOOLEAN /\ ack_id \in Nat /\ rx_last_id \in Nat
    /\ tx_ack_wait \in BOOLEAN /\ tx_next_id \in Nat /\ tx_retries \in 0..Retries
    /\ send_buf \in UpFrames \cup {C64!Nothing}
    /\ tx_ack_wait => send_buf \in UpFrames

AgentInv == AgentModes /\ AgentPending /\ AgentBuffers /\ AgentLink

\* What the bridge keeps: where its call is, the frames it has in hand, the texts and
\* messages.  A place that sends a frame again has one.
LoopModes ==
    /\ pc \in Bridge!LineWaits \cup Bridge!LoopWaits \cup {"idle", "call", "leave"}
    /\ attempt \in 0..Attempts /\ overlapAttempt \in 0..Attempts
    /\ delivered \in BOOLEAN /\ silent \in BOOLEAN /\ basicRunning \in BOOLEAN
    /\ waitingTool \in BOOLEAN /\ completionDrain \in BOOLEAN

LoopFrames ==
    /\ out \in DownFrames \cup {Bridge!None}
    /\ pc \in Bridge!Confirmed => out \in DownFrames
    /\ pc = "execDrain" => out \in DownFrames /\ out.type = "EXEC"
    /\ overlap \in Requests \cup {Bridge!None}

LoopLink ==
    /\ pendingFrames \in Seq(UpFrames) /\ pendingAcks \in Seq(Nat)
    /\ rxLastID \in Nat /\ nextTxID \in Nat

LoopTexts ==
    /\ texts \in Nat /\ textOut \in Seq(1..texts)
    /\ pc = "textDrain" => textOut # <<>>
    /\ emitted \in Seq(0..texts) /\ forwarded \in Seq(0..arrived)
    /\ prompted \in BOOLEAN /\ promptChunks \subseteq Nat /\ resultChunks \subseteq Nat
    /\ toolOpen \in BOOLEAN /\ toolCalls \in 0..ToolCalls

LoopInv == LoopModes /\ LoopFrames /\ LoopLink /\ LoopTexts

\* A call that has begun is in one place: it owns the gate, or waits for it, or has
\* its message on the line, or has ended.
Owner == IF pc \in {"idle", "leave"} THEN 0 ELSE 1
Overlapping == IF overlap.id = 0 THEN 0 ELSE 1

CallsInv ==
    /\ arrived \in 0..Messages /\ ended \in Nat /\ failed \in 0..ended
    /\ waiters \in Seq([n : 1..arrived, sent : BOOLEAN])
    /\ ended + Len(waiters) + Owner + Overlapping <= arrived

TypeInv ==
    /\ down \in Seq(DownFrames) /\ up \in Seq(UpFrames)
    /\ AgentInv /\ LoopInv /\ CallsInv
    /\ heartbeats \in 0..Heartbeats /\ early \in 0..EarlyTimeouts

\* A frame left for the event loop has been accepted.
AcceptedInv == \A f \in Bridge!ToSet(pendingFrames) : f.type = "ACK" \/ f.id <= rxLastID

-----------------------------------------------------------------------------
(* Where a text is *)

\* The TEXT frames that the C64 may get, and the USER frames that the bridge may get
\* or has left for the loop.
TextFrames == {f \in Bridge!ToSet(down) \cup {out} : f.type = "TEXT"}
UserFrames == {f \in Bridge!ToSet(up) \cup {send_buf} : f.type = "USER"}
LeftFrames == {f \in Bridge!ToSet(pendingFrames) : f.type = "USER"}

\* The texts on their way back, shown ones and the one in exec_buf included.
Back == {f.n : f \in UserFrames \cup LeftFrames} \cup Bridge!ToSet(emitted)

\* Texts get their numbers in the order of their ids, and those that the bridge still
\* has to send come after them.
TextsInOrder ==
    /\ \A f \in TextFrames : f.id < nextTxID
    /\ \A f, g \in TextFrames :
        /\ f.id = g.id => f.n = g.n
        /\ f.id < g.id => f.n < g.n
    /\ \A i \in 1..Len(textOut) : \A f \in TextFrames : f.n < textOut[i]
    /\ \A i, j \in 1..Len(textOut) : i < j => textOut[i] < textOut[j]

\* A text that the C64 has not taken is newer than all it has taken; the one that it
\* is about to send back is newer than those it has sent.
NewerToCome ==
    /\ \A f \in TextFrames : f.id > rx_last_id =>
        f.n > exec_buf.n /\ \A n \in Back : f.n > n
    /\ \A i \in 1..Len(textOut) :
        textOut[i] > exec_buf.n /\ \A n \in Back : textOut[i] > n
    /\ text_pending /\ exec_buf.n # 0 => \A n \in Back : exec_buf.n > n

\* A text comes back in one frame, and until that is accepted in no other place.
OneFrame ==
    /\ \A f \in UserFrames \cup LeftFrames : f.id < tx_next_id
    /\ \A f, g \in UserFrames \cup LeftFrames : f.n = g.n /\ f.n # 0 => f.id = g.id
    /\ \A f \in UserFrames : f.id > rxLastID /\ f.n # 0 => f.n \notin Bridge!ToSet(emitted)

\* An accepted text waits for the loop in one frame, or has been shown.
OnePlace ==
    /\ \A i, j \in 1..Len(pendingFrames) :
        /\ pendingFrames[i].type = "USER" /\ pendingFrames[j].type = "USER"
        /\ pendingFrames[i].n = pendingFrames[j].n /\ pendingFrames[i].n # 0
        => i = j
    /\ \A f \in LeftFrames : f.n # 0 => f.n \notin Bridge!ToSet(emitted)
    /\ ShownOnce

TextInv == AcceptedInv /\ TextsInOrder /\ NewerToCome /\ OneFrame /\ OnePlace

-----------------------------------------------------------------------------
(* Sequences and their members *)

LEMMA Members ==
    ASSUME NEW S, NEW s \in Seq(S)
    PROVE  /\ Bridge!ToSet(s) \subseteq S /\ Len(s) \in Nat
           /\ \A e : e \in Bridge!ToSet(s) <=> \E i \in 1..Len(s) : s[i] = e
<1>1. DOMAIN s = 1..Len(s) /\ Len(s) \in Nat /\ \A i \in 1..Len(s) : s[i] \in S
  OBVIOUS
<1>2. QED
  BY <1>1 DEF Bridge!ToSet

LEMMA NoMembers == Bridge!ToSet(<<>>) = {} /\ \A S : <<>> \in Seq(S)
<1>1. Bridge!ToSet(<<>>) = {}
  BY DEF Bridge!ToSet
<1>2. QED
  BY <1>1

LEMMA MembersOne ==
    ASSUME NEW S, NEW e \in S
    PROVE  <<e>> \in Seq(S) /\ Len(<<e>>) = 1 /\ Bridge!ToSet(<<e>>) = {e}
<1>1. <<e>> \in Seq(S) /\ Len(<<e>>) = 1 /\ <<e>>[1] = e
  OBVIOUS
<1>2. QED
  BY <1>1 DEF Bridge!ToSet

LEMMA MembersConcat ==
    ASSUME NEW S, NEW s \in Seq(S), NEW t \in Seq(S)
    PROVE  /\ s \o t \in Seq(S)
           /\ Bridge!ToSet(s \o t) = Bridge!ToSet(s) \cup Bridge!ToSet(t)
<1>1. PICK u \in Seq(S) :
         /\ u = s \o t /\ Len(u) = Len(s) + Len(t)
         /\ \A i \in 1..(Len(s) + Len(t)) : u[i] = IF i <= Len(s) THEN s[i] ELSE t[i - Len(s)]
  <2>1. /\ s \o t \in Seq(S) /\ Len(s \o t) = Len(s) + Len(t)
        /\ \A i \in 1..(Len(s) + Len(t)) :
               (s \o t)[i] = IF i <= Len(s) THEN s[i] ELSE t[i - Len(s)]
    BY ConcatProperties
  <2>2. QED
    BY <2>1, Zenon
<1>2. Len(s) \in Nat /\ Len(t) \in Nat
  OBVIOUS
<1>3. \A i \in 1..Len(u) : \/ i \in 1..Len(s) /\ u[i] = s[i]
                           \/ i - Len(s) \in 1..Len(t) /\ u[i] = t[i - Len(s)]
  BY <1>1, <1>2
<1>4. \A i \in 1..Len(s) : i \in 1..Len(u) /\ u[i] = s[i]
  BY <1>1, <1>2
<1>5. \A i \in 1..Len(t) : Len(s) + i \in 1..Len(u) /\ u[Len(s) + i] = t[i]
  BY <1>1, <1>2
<1>6. ASSUME NEW x PROVE x \in Bridge!ToSet(u) <=> x \in Bridge!ToSet(s) \/ x \in Bridge!ToSet(t)
  <2>1. /\ x \in Bridge!ToSet(u) <=> \E i \in 1..Len(u) : u[i] = x
        /\ x \in Bridge!ToSet(s) <=> \E i \in 1..Len(s) : s[i] = x
        /\ x \in Bridge!ToSet(t) <=> \E i \in 1..Len(t) : t[i] = x
    BY Members
  <2>2. ASSUME NEW i \in 1..Len(u), u[i] = x
        PROVE  (\E j \in 1..Len(s) : s[j] = x) \/ (\E j \in 1..Len(t) : t[j] = x)
    BY <1>3, <2>2
  <2>3. QED
    BY <1>4, <1>5, <2>1, <2>2
<1>7. QED
  BY <1>1, <1>6

LEMMA MembersAppend ==
    ASSUME NEW S, NEW s \in Seq(S), NEW e \in S
    PROVE  /\ Append(s, e) \in Seq(S) /\ Len(Append(s, e)) = Len(s) + 1
           /\ Bridge!ToSet(Append(s, e)) = Bridge!ToSet(s) \cup {e}
           /\ Append(s, e)[Len(s) + 1] = e
           /\ \A i \in 1..Len(s) : Append(s, e)[i] = s[i]
<1>1. /\ Append(s, e) = s \o <<e>> /\ <<e>> \in Seq(S)
      /\ Append(s, e) \in Seq(S) /\ Len(Append(s, e)) = Len(s) + 1
      /\ Append(s, e)[Len(s) + 1] = e
      /\ \A i \in 1..Len(s) : Append(s, e)[i] = s[i]
  OBVIOUS
<1>2. Bridge!ToSet(s \o <<e>>) = Bridge!ToSet(s) \cup Bridge!ToSet(<<e>>)
  BY <1>1, MembersConcat, Zenon
<1>3. Bridge!ToSet(<<e>>) = {e}
  BY MembersOne, Zenon
<1>4. Bridge!ToSet(Append(s, e)) = Bridge!ToSet(s) \cup {e}
  BY <1>1, <1>2, <1>3, Zenon
<1>5. QED
  BY <1>1, <1>4, Zenon

LEMMA MembersPrepend ==
    ASSUME NEW S, NEW s \in Seq(S), NEW e \in S
    PROVE  /\ <<e>> \o s \in Seq(S) /\ Len(<<e>> \o s) = Len(s) + 1
           /\ Bridge!ToSet(<<e>> \o s) = Bridge!ToSet(s) \cup {e}
           /\ (<<e>> \o s)[1] = e
           /\ \A i \in 1..Len(s) : (<<e>> \o s)[i + 1] = s[i]
<1>1. <<e>> \in Seq(S) /\ Len(<<e>>) = 1 /\ <<e>>[1] = e /\ Bridge!ToSet(<<e>>) = {e}
  BY MembersOne
<1>2. PICK one \in Seq(S) : one = <<e>>
  BY <1>1
<1>3. /\ one \o s \in Seq(S)
      /\ Bridge!ToSet(one \o s) = Bridge!ToSet(one) \cup Bridge!ToSet(s)
  BY MembersConcat
<1>4. /\ <<e>> \o s \in Seq(S) /\ Len(<<e>> \o s) = Len(s) + 1
      /\ (<<e>> \o s)[1] = e
      /\ \A i \in 1..Len(s) : (<<e>> \o s)[i + 1] = s[i]
  OBVIOUS
<1>5. QED
  BY <1>1, <1>2, <1>3, <1>4

LEMMA MembersTail ==
    ASSUME NEW S, NEW s \in Seq(S), s # <<>>
    PROVE  /\ Tail(s) \in Seq(S) /\ Len(Tail(s)) = Len(s) - 1 /\ Len(s) \in Nat /\ Len(s) > 0
           /\ Head(s) \in S /\ Head(s) = s[1] /\ Head(s) \in Bridge!ToSet(s)
           /\ \A i \in 1..Len(Tail(s)) : i + 1 \in 1..Len(s) /\ Tail(s)[i] = s[i + 1]
           /\ Bridge!ToSet(Tail(s)) \subseteq Bridge!ToSet(s)
           /\ Bridge!ToSet(s) = Bridge!ToSet(Tail(s)) \cup {Head(s)}
<1>1. PICK t \in Seq(S), h \in S :
         /\ t = Tail(s) /\ h = Head(s) /\ h = s[1] /\ Len(t) = Len(s) - 1
         /\ Len(s) \in Nat /\ Len(s) > 0
         /\ \A i \in 1..Len(t) : t[i] = s[i + 1]
  <2>1. Len(s) \in Nat /\ Len(s) > 0
    BY EmptySeq
  <2>2. /\ Head(s) \in S /\ Tail(s) \in Seq(S) /\ Len(Tail(s)) = Len(s) - 1 /\ Head(s) = s[1]
        /\ \A i \in 1..Len(Tail(s)) : Tail(s)[i] = s[i + 1]
    BY HeadTailProperties
  <2>3. QED
    BY <2>1, <2>2, Zenon
<1>2. /\ \A i \in 1..Len(t) : i + 1 \in 1..Len(s)
      /\ \A i \in 1..Len(s) : i = 1 \/ (i - 1 \in 1..Len(t) /\ (i - 1) + 1 = i)
      /\ 1 \in 1..Len(s)
  BY <1>1
<1>3. ASSUME NEW x PROVE x \in Bridge!ToSet(s) <=> x \in Bridge!ToSet(t) \/ x = h
  <2>1. /\ x \in Bridge!ToSet(t) <=> \E i \in 1..Len(t) : t[i] = x
        /\ x \in Bridge!ToSet(s) <=> \E i \in 1..Len(s) : s[i] = x
    BY Members
  <2>2. ASSUME NEW i \in 1..Len(s), s[i] = x PROVE x = h \/ \E j \in 1..Len(t) : t[j] = x
    BY <1>1, <1>2, <2>2
  <2>3. ASSUME NEW i \in 1..Len(t), t[i] = x PROVE \E j \in 1..Len(s) : s[j] = x
    BY <1>1, <1>2, <2>3
  <2>4. QED
    BY <1>1, <1>2, <2>1, <2>2, <2>3
<1>4. Bridge!ToSet(s) = Bridge!ToSet(t) \cup {h}
  BY <1>3
<1>5. QED
  BY <1>1, <1>2, <1>4

LEMMA MembersPart ==
    ASSUME NEW S, NEW s \in Seq(S), NEW m \in 1..Len(s) + 1, NEW n \in 0..Len(s)
    PROVE  SubSeq(s, m, n) \in Seq(S) /\ Bridge!ToSet(SubSeq(s, m, n)) \subseteq Bridge!ToSet(s)
<1>1. Len(s) \in Nat /\ DOMAIN s = 1..Len(s) /\ \A i \in 1..Len(s) : s[i] \in S
  OBVIOUS
<1>2. PICK u : /\ u = SubSeq(s, m, n) /\ u \in Seq(S)
               /\ Len(u) = IF m <= n THEN n - m + 1 ELSE 0
               /\ \A i \in 1..(n - m + 1) : u[i] = s[m + i - 1]
  <2>1. /\ SubSeq(s, m, n) \in Seq(S)
        /\ Len(SubSeq(s, m, n)) = IF m <= n THEN n - m + 1 ELSE 0
        /\ \A i \in 1..(n - m + 1) : SubSeq(s, m, n)[i] = s[m + i - 1]
    BY <1>1, SubSeqProperties
  <2>2. QED
    BY <2>1, Zenon
<1>3. ASSUME NEW i \in 1..Len(u) PROVE m + i - 1 \in 1..Len(s) /\ u[i] = s[m + i - 1]
  <2>1. m <= n /\ i \in 1..(n - m + 1)
    BY <1>1, <1>2, <1>3
  <2>2. QED
    BY <1>1, <1>2, <2>1
<1>4. ASSUME NEW e \in Bridge!ToSet(u) PROVE e \in Bridge!ToSet(s)
  <2>1. PICK i \in 1..Len(u) : u[i] = e
    BY <1>2, Members
  <2>2. m + i - 1 \in 1..Len(s) /\ s[m + i - 1] = e
    BY <1>3, <2>1
  <2>3. QED
    BY <2>2, Members
<1>5. QED
  BY <1>2, <1>4

LEMMA MembersRemoveAt ==
    ASSUME NEW S, NEW s \in Seq(S), NEW i \in DOMAIN s
    PROVE  /\ Bridge!RemoveAt(s, i) \in Seq(S)
           /\ Bridge!ToSet(Bridge!RemoveAt(s, i)) \subseteq Bridge!ToSet(s)
           /\ s[i] \in Bridge!ToSet(s)
<1>1. i \in 1..Len(s) /\ Len(s) \in Nat
  OBVIOUS
<1>2. /\ 1 \in 1..Len(s) + 1 /\ i - 1 \in 0..Len(s)
      /\ i + 1 \in 1..Len(s) + 1 /\ Len(s) \in 0..Len(s)
  BY <1>1
<1>3. /\ SubSeq(s, 1, i - 1) \in Seq(S) /\ SubSeq(s, i + 1, Len(s)) \in Seq(S)
      /\ Bridge!ToSet(SubSeq(s, 1, i - 1)) \subseteq Bridge!ToSet(s)
      /\ Bridge!ToSet(SubSeq(s, i + 1, Len(s))) \subseteq Bridge!ToSet(s)
  BY <1>2, MembersPart
<1>4. Bridge!RemoveAt(s, i) = SubSeq(s, 1, i - 1) \o SubSeq(s, i + 1, Len(s))
  BY DEF Bridge!RemoveAt
<1>5. s[i] \in Bridge!ToSet(s)
  BY DEF Bridge!ToSet
<1>6. LET a == SubSeq(s, 1, i - 1)  b == SubSeq(s, i + 1, Len(s))
      IN  a \o b \in Seq(S) /\ Bridge!ToSet(a \o b) = Bridge!ToSet(a) \cup Bridge!ToSet(b)
  BY <1>3, MembersConcat, ZenonT(40)
<1>7. QED
  BY <1>3, <1>4, <1>5, <1>6

-----------------------------------------------------------------------------
(* The frames *)

LEMMA UpFields ==
    ASSUME NEW f \in UpFrames
    PROVE  /\ f.id \in Nat
           /\ f.type \in {"ACK", "STATUS", "SYSTEM", "RESULT", "LLM", "USER"}
           /\ f.type = "USER" => f.n \in 0..texts
           /\ f.type = "LLM" => f.event \in {"user", "heartbeat"} /\ f.body.msg \in 0..arrived
           /\ f.type \in {"SYSTEM", "RESULT"} => f.at \in Nat
  BY DEF UpFrames, MessageBodies

LEMMA DownFields ==
    ASSUME NEW f \in DownFrames
    PROVE  /\ f.id \in Nat
           /\ f.type \in {"MSG", "EXEC", "STOP", "TEXT", "DONE", "SCREENSHOT", "STATUSQ", "ACK"}
           /\ f.type = "MSG" => f.n \in 1..arrived
           /\ f.type = "TEXT" => f.n \in 1..texts
           /\ f.type = "EXEC" => f.n = 0 /\ f.line \in BOOLEAN
  BY DEF DownFrames, Requests

Acks == [type : {"ACK"}, id : Nat]

LEMMA AcksAreFrames == Acks \subseteq DownFrames /\ Acks \subseteq UpFrames
  BY DEF Acks, DownFrames, UpFrames

\* More messages and texts, more frames.
LEMMA MoreFrames ==
    ASSUME arrived \in Nat, texts \in Nat, arrived' \in Nat, texts' \in Nat,
           arrived <= arrived', texts <= texts'
    PROVE  /\ Requests \subseteq Requests' /\ DownFrames \subseteq DownFrames'
           /\ UpFrames \subseteq UpFrames' /\ MessageBodies \subseteq MessageBodies'
           /\ Seq(DownFrames) \subseteq Seq(DownFrames') /\ Seq(UpFrames) \subseteq Seq(UpFrames')
<1>1. 0..arrived \subseteq 0..arrived' /\ 1..arrived \subseteq 1..arrived'
      /\ 0..texts \subseteq 0..texts' /\ 1..texts \subseteq 1..texts'
  OBVIOUS
<1>2. Requests \subseteq Requests' /\ MessageBodies \subseteq MessageBodies'
  BY <1>1 DEF Requests, MessageBodies
<1>3. DownFrames \subseteq DownFrames'
  BY <1>1, <1>2 DEF DownFrames
<1>4. UpFrames \subseteq UpFrames'
  BY <1>1, <1>2 DEF UpFrames
<1>5. QED
  BY <1>2, <1>3, <1>4, SeqMonotonic

LEMMA SameFrames ==
    ASSUME UNCHANGED <<arrived, texts>>
    PROVE  /\ Requests' = Requests /\ DownFrames' = DownFrames
           /\ UpFrames' = UpFrames /\ MessageBodies' = MessageBodies
  BY DEF Requests, DownFrames, UpFrames, MessageBodies

\* flushPendingAcksLocked sends nothing but ACKs.
LEMMA AckFramesTyped ==
    ASSUME NEW ids \in Seq(Nat)
    PROVE  Bridge!AckFrames(ids) \in Seq(Acks)
<1>1. Len(ids) \in Nat /\ \A i \in 1..Len(ids) : ids[i] \in Nat
  OBVIOUS
<1>2. \A i \in 1..Len(ids) + Len(ids) : (i + 1) \div 2 \in 1..Len(ids)
  BY <1>1
<1>3. \A n \in Nat : Bridge!AckFrame(n) \in Acks
  BY DEF Bridge!AckFrame, Acks
<1>4. CASE basicRunning
  <2>1. [i \in 1..Len(ids) + Len(ids) |-> Bridge!AckFrame(ids[(i + 1) \div 2])]
            \in [1..Len(ids) + Len(ids) -> Acks]
    BY <1>1, <1>2, <1>3
  <2>2. Len(ids) + Len(ids) \in Nat
    BY <1>1
  <2>3. [i \in 1..Len(ids) + Len(ids) |-> Bridge!AckFrame(ids[(i + 1) \div 2])] \in Seq(Acks)
    BY <2>1, <2>2, IsASeq
  <2>4. QED
    BY <1>4, <2>3 DEF Bridge!AckFrames
<1>5. CASE ~basicRunning
  <2>1. [i \in 1..Len(ids) |-> Bridge!AckFrame(ids[i])] \in [1..Len(ids) -> Acks]
    BY <1>1, <1>3
  <2>2. [i \in 1..Len(ids) |-> Bridge!AckFrame(ids[i])] \in Seq(Acks)
    BY <1>1, <2>1, IsASeq
  <2>3. QED
    BY <1>5, <2>2 DEF Bridge!AckFrames
<1>6. QED
  BY <1>4, <1>5

\* ACKs behind what is on a line.
LEMMA AcksAdded ==
    ASSUME NEW S, Acks \subseteq S, NEW s \in Seq(S), NEW acks \in Seq(Acks)
    PROVE  /\ s \o acks \in Seq(S)
           /\ \A g \in Bridge!ToSet(s \o acks) : g \in Bridge!ToSet(s) \/ g.type = "ACK"
           /\ Bridge!ToSet(s) \subseteq Bridge!ToSet(s \o acks)
<1>1. acks \in Seq(S)
  BY SeqMonotonic
<1>2. s \o acks \in Seq(S) /\ Bridge!ToSet(s \o acks) = Bridge!ToSet(s) \cup Bridge!ToSet(acks)
  BY <1>1, MembersConcat
<1>3. \A g \in Bridge!ToSet(acks) : g.type = "ACK"
  <2>1. Bridge!ToSet(acks) \subseteq Acks
    BY Members
  <2>2. QED
    BY <2>1 DEF Acks
<1>4. QED
  BY <1>2, <1>3

\* And a frame behind them.
LEMMA FrameAdded ==
    ASSUME NEW S, Acks \subseteq S, NEW s \in Seq(S), NEW acks \in Seq(Acks), NEW f \in S
    PROVE  /\ s \o acks \o <<f>> \in Seq(S)
           /\ \A g \in Bridge!ToSet(s \o acks \o <<f>>) :
                  g \in Bridge!ToSet(s) \/ g.type = "ACK" \/ g = f
<1>1. /\ s \o acks \in Seq(S)
      /\ \A g \in Bridge!ToSet(s \o acks) : g \in Bridge!ToSet(s) \/ g.type = "ACK"
  BY AcksAdded
<1>2. <<f>> \in Seq(S) /\ Bridge!ToSet(<<f>>) = {f}
  BY MembersOne
<1>3. /\ (s \o acks) \o <<f>> \in Seq(S)
      /\ Bridge!ToSet((s \o acks) \o <<f>>) = Bridge!ToSet(s \o acks) \cup Bridge!ToSet(<<f>>)
  BY <1>1, <1>2, MembersConcat, ZenonT(40)
<1>4. QED
  BY <1>1, <1>2, <1>3

-----------------------------------------------------------------------------
(* Types: the C64 *)

\* What is to be shown of a step of the C64.
AgentTyped == AgentInv' /\ down' \in Seq(DownFrames') /\ up' \in Seq(UpFrames')

C64Typed ==
    /\ down \in Seq(DownFrames) /\ up \in Seq(UpFrames) /\ AgentInv
    /\ arrived \in Nat /\ texts \in Nat

LEMMA Sizes ==
    /\ PromptChunks \in Nat /\ ResultChunks \in Nat /\ QueueSlots \in Nat /\ QueueSlots > 0
    /\ Keys \in Nat /\ Retries \in Nat /\ PromptChunks > 0 /\ ResultChunks > 0
  BY SizesAssumption

LEMMA NothingFields ==
    C64!Nothing.type = "none" /\ C64!Nothing.id = 0 /\ C64!Nothing.n = 0
  BY DEF C64!Nothing

LEMMA BufferFields ==
    ASSUME AgentInv
    PROVE  /\ exec_buf.id \in Nat /\ exec_buf.type \in {"none", "TEXT", "EXEC"}
           /\ exec_buf.n = 0 \/ (exec_buf.type = "TEXT" /\ exec_buf.n \in 1..texts)
           /\ send_buf.id \in Nat /\ (send_buf.type = "USER" => send_buf.n \in 0..texts)
<1>1. exec_buf \in DownFrames => /\ exec_buf.id \in Nat
                                 /\ exec_buf.type = "TEXT" => exec_buf.n \in 1..texts
                                 /\ exec_buf.type = "EXEC" => exec_buf.n = 0
                                 /\ exec_buf.type # "none"
  BY DownFields
<1>2. send_buf \in UpFrames => /\ send_buf.id \in Nat
                               /\ send_buf.type = "USER" => send_buf.n \in 0..texts
  BY UpFields
<1>3. QED
  BY <1>1, <1>2, NothingFields DEF AgentInv, AgentPending, AgentBuffers, AgentLink

\* The next frame.
LEMMA FrameTyped ==
    ASSUME AgentInv, arrived \in Nat, texts \in Nat, C64!NextKind # "none"
    PROVE  C64!Frame(C64!NextKind) \in UpFrames
<1> DEFINE kind == C64!NextKind
<1>1. /\ kind \in {"STATUS", "SYSTEM", "RESULT", "LLM", "USER"}
      /\ kind = "STATUS" => state_pending # "none"
      /\ kind = "LLM" => llm_pending # "none"
  BY DEF C64!NextKind
<1>2. CASE kind = "STATUS"
  <2>1. C64!Frame(kind) = [type |-> "STATUS", id |-> tx_next_id, text |-> state_pending]
    BY <1>2 DEF C64!Frame
  <2>2. QED
    BY <1>1, <1>2, <2>1 DEF UpFrames, AgentInv, AgentPending, AgentBuffers, AgentLink
<1>3. CASE kind = "SYSTEM"
  <2>1. C64!Frame(kind) = [type |-> "SYSTEM", id |-> tx_next_id,
                           at |-> PromptChunks - prompt_pending, total |-> PromptChunks]
    BY <1>3 DEF C64!Frame
  <2>2. PromptChunks - prompt_pending \in Nat /\ PromptChunks \in Nat
    BY Sizes DEF AgentInv, AgentPending, AgentBuffers, AgentLink
  <2>3. QED
    BY <2>1, <2>2 DEF UpFrames, AgentInv, AgentPending, AgentBuffers, AgentLink
<1>4. CASE kind = "RESULT"
  <2>1. C64!Frame(kind) = [type |-> "RESULT", id |-> tx_next_id, of |-> result_of,
                           at |-> ResultChunks - result_pending, total |-> ResultChunks]
    BY <1>4 DEF C64!Frame
  <2>2. ResultChunks - result_pending \in Nat /\ ResultChunks \in Nat
    BY Sizes DEF AgentInv, AgentPending, AgentBuffers, AgentLink
  <2>3. QED
    BY <2>1, <2>2 DEF UpFrames, AgentInv, AgentPending, AgentBuffers, AgentLink
<1>5. CASE kind = "LLM"
  <2>1. C64!NoBody \in MessageBodies
    BY DEF C64!NoBody, MessageBodies
  <2>2. rxbuf \in MessageBodies
    BY DEF AgentInv, AgentPending, AgentBuffers, AgentLink
  <2>3. PICK b \in MessageBodies :
            C64!Frame(kind) = [type |-> "LLM", id |-> tx_next_id, event |-> llm_pending, body |-> b]
    BY <1>5, <2>1, <2>2 DEF C64!Frame
  <2>4. QED
    BY <1>1, <1>5, <2>3 DEF UpFrames, AgentInv, AgentPending, AgentBuffers, AgentLink
<1>6. CASE kind = "USER"
  <2>1. C64!Frame(kind) = [type |-> "USER", id |-> tx_next_id, of |-> exec_buf.type,
                           n |-> exec_buf.n]
    BY <1>6 DEF C64!Frame
  <2>2. exec_buf.n \in 0..texts
    BY BufferFields
  <2>3. QED
    BY <2>1, <2>2 DEF UpFrames, AgentInv, AgentPending, AgentBuffers, AgentLink
<1>7. QED
  BY <1>1, <1>2, <1>3, <1>4, <1>5, <1>6

\* The ACK that is due.
LEMMA AcksDueTyped == AgentInv => C64!AcksDue \in Seq(Acks)
<1>1. AgentInv => C64!Ack(ack_id) \in Acks
  BY DEF AgentInv, AgentPending, AgentBuffers, AgentLink, Acks, C64!Ack
<1>2. QED
  BY <1>1 DEF C64!AcksDue

LEMMA BuildTyped ==
    ASSUME C64Typed, NEW acks \in Seq(Acks), C64!Build(acks)
    PROVE  /\ up' \in Seq(UpFrames) /\ send_buf' \in UpFrames
           /\ tx_next_id' \in Nat /\ tx_ack_wait' = TRUE /\ tx_retries' \in 0..Retries
           /\ prompt_pending' \in 0..PromptChunks /\ result_pending' \in 0..ResultChunks
           /\ state_pending' \in StatusTexts \cup {"none"}
           /\ llm_pending' \in {"none", "user", "heartbeat"} /\ text_pending' \in BOOLEAN
           /\ prompt_sent' \in BOOLEAN /\ result_of' \in {"exec", "screen"}
<1> DEFINE frame == C64!Frame(C64!NextKind)
<1>1. C64!NextKind # "none"
  BY DEF C64!Build
<1>2. frame \in UpFrames
  BY <1>1, FrameTyped DEF C64Typed
<1>3. up' \in Seq(UpFrames)
  <2>1. (up \o acks) \o <<frame>> \in Seq(UpFrames)
    BY <1>2, AcksAreFrames, FrameAdded DEF C64Typed
  <2>2. QED
    BY <2>1 DEF C64!Build
<1>4. /\ C64!NextKind = "SYSTEM" => prompt_pending > 0
      /\ C64!NextKind = "RESULT" => result_pending > 0
  BY DEF C64!NextKind
<1>5. QED
  BY <1>2, <1>3, <1>4, Sizes DEF C64!Build, C64Typed, AgentInv, AgentPending, AgentLink

LEMMA LoadHeadTyped ==
    ASSUME C64Typed, userq # <<>>, C64!LoadHead
    PROVE  userq' \in Seq(0..arrived) /\ Len(userq') <= QueueSlots
<1>1. /\ Tail(userq) \in Seq(0..arrived)
      /\ Len(Tail(userq)) = Len(userq) - 1 /\ Len(userq) \in Nat
  BY MembersTail DEF C64Typed, AgentInv, AgentBuffers
<1>2. QED
  BY <1>1, Sizes DEF C64!LoadHead, C64Typed, AgentInv, AgentBuffers

\* The ACKs alone.
LEMMA AcksTyped ==
    ASSUME C64Typed
    PROVE  up \o C64!AcksDue \in Seq(UpFrames)
  BY AcksDueTyped, AcksAdded, AcksAreFrames DEF C64Typed

LEMMA ServiceTyped ==
    ASSUME C64Typed, UNCHANGED <<arrived, texts>>,
           C64!ServiceReleasesQueue \/ C64!Service
    PROVE  AgentTyped
<1>0. /\ DownFrames' = DownFrames /\ UpFrames' = UpFrames /\ MessageBodies' = MessageBodies
  BY SameFrames
<1> USE DEF C64Typed, AgentInv
<1>1. CASE C64!ServiceReleasesQueue
  <2>1. userq' \in Seq(0..arrived) /\ Len(userq') <= QueueSlots
    BY <1>1, LoadHeadTyped DEF C64!ServiceReleasesQueue
  <2>2. up' \in Seq(UpFrames')
    BY <1>0, <1>1, AcksTyped DEF C64!ServiceReleasesQueue
  <2>3. AgentModes'
    BY <1>1 DEF C64!ServiceReleasesQueue, AgentModes, C64!agentVars, C64!basicVars
  <2>4. AgentPending'
    BY <1>1 DEF C64!ServiceReleasesQueue, AgentPending
  <2>5. AgentBuffers'
    BY <1>0, <1>1, <2>1 DEF C64!ServiceReleasesQueue, AgentBuffers
  <2>6. AgentLink'
    BY <1>0, <1>1 DEF C64!ServiceReleasesQueue, AgentLink, C64!txVars
  <2>7. QED
    BY <1>0, <1>1, <2>2, <2>3, <2>4, <2>5, <2>6 DEF C64!ServiceReleasesQueue, AgentTyped
<1>2. CASE C64!Service
  <2>1. C64!AcksDue \in Seq(Acks)
    BY AcksDueTyped
  <2>2. AgentModes'
    BY <1>2 DEF C64!Service, AgentModes, C64!agentVars, C64!basicVars
  <2>3. AgentBuffers'
    BY <1>0, <1>2 DEF C64!Service, AgentBuffers, C64!bufferVars
  <2>4. AgentPending' /\ AgentLink' /\ up' \in Seq(UpFrames')
    <3>1. CASE C64!Build(C64!AcksDue)
      <4>1. AgentPending'
        BY <1>2, <2>1, <3>1, BuildTyped DEF C64!Service, AgentPending
      <4>2. AgentLink' /\ up' \in Seq(UpFrames')
        BY <1>0, <1>2, <2>1, <3>1, BuildTyped DEF C64!Service, AgentLink
      <4>3. QED
        BY <4>1, <4>2
    <3>2. CASE ~C64!Build(C64!AcksDue)
      <4>1. AgentPending'
        BY <1>2, <3>2 DEF C64!Service, AgentPending
      <4>2. up' = up \o C64!AcksDue /\ UNCHANGED C64!txVars
        BY <1>2, <3>2 DEF C64!Service
      <4>3. up' \in Seq(UpFrames')
        BY <1>0, <4>2, AcksTyped
      <4>4. AgentLink'
        BY <1>0, <1>2, <4>2 DEF C64!Service, AgentLink, C64!txVars
      <4>5. QED
        BY <4>1, <4>3, <4>4
    <3>3. QED
      BY <3>1, <3>2
  <2>5. QED
    BY <1>0, <1>2, <2>2, <2>3, <2>4 DEF C64!Service, AgentTyped
<1>3. QED
  BY <1>1, <1>2

\* A frame is repeated Retries times and no more.
LEMMA AckTimeoutTyped ==
    ASSUME C64Typed, UNCHANGED <<arrived, texts>>, C64!AckTimeout
    PROVE  AgentTyped
<1>0. /\ DownFrames' = DownFrames /\ UpFrames' = UpFrames /\ MessageBodies' = MessageBodies
  BY SameFrames
<1> USE DEF C64Typed, AgentInv
<1>1. C64!AcksDue \in Seq(Acks) /\ up \o C64!AcksDue \in Seq(UpFrames)
  BY AcksDueTyped, AcksTyped
<1>2. AgentModes'
  BY DEF C64!AckTimeout, AgentModes, C64!agentVars, C64!basicVars
<1>3. AgentBuffers'
  BY <1>0 DEF C64!AckTimeout, AgentBuffers, C64!bufferVars
<1>4. AgentPending' /\ AgentLink' /\ up' \in Seq(UpFrames')
  <2>1. CASE ~C64!GivesUp
    <3>1. send_buf \in UpFrames
      BY DEF C64!AckTimeout, AgentLink
    <3>2. (up \o C64!AcksDue) \o <<send_buf>> \in Seq(UpFrames)
      BY <1>1, <3>1, AcksAreFrames, FrameAdded
    <3>3. tx_retries + 1 \in 0..Retries
      BY <2>1, Sizes DEF C64!GivesUp, AgentLink
    <3>4. AgentPending'
      BY <2>1 DEF C64!AckTimeout, AgentPending, C64!pendingVars
    <3>5. AgentLink' /\ up' \in Seq(UpFrames')
      BY <1>0, <2>1, <3>1, <3>2, <3>3 DEF C64!AckTimeout, AgentLink
    <3>6. QED
      BY <3>4, <3>5
  <2>2. CASE C64!GivesUp /\ C64!Build(C64!AcksDue)
    <3>1. AgentPending'
      BY <1>1, <2>2, BuildTyped DEF C64!AckTimeout, AgentPending
    <3>2. AgentLink' /\ up' \in Seq(UpFrames')
      BY <1>0, <1>1, <2>2, BuildTyped DEF C64!AckTimeout, AgentLink
    <3>3. QED
      BY <3>1, <3>2
  <2>3. CASE C64!GivesUp /\ ~C64!Build(C64!AcksDue)
    <3>1. AgentPending'
      BY <2>3 DEF C64!AckTimeout, AgentPending
    <3>2. AgentLink' /\ up' \in Seq(UpFrames')
      BY <1>0, <1>1, <2>3 DEF C64!AckTimeout, AgentLink
    <3>3. QED
      BY <3>1, <3>2
  <2>4. QED
    BY <2>1, <2>2, <2>3
<1>5. QED
  BY <1>0, <1>2, <1>3, <1>4 DEF C64!AckTimeout, AgentTyped

\* The frames that the C64 takes.
LEMMA TakenTyped ==
    ASSUME C64Typed, UNCHANGED <<arrived, texts, up>>, NEW f \in DownFrames,
           \/ C64!TakeAck(f) \/ C64!TakeStatusReq(f) \/ C64!TakeStale(f)
           \/ C64!TakeMsg(f) \/ C64!TakeDone(f) \/ C64!TakeText(f)
           \/ C64!TakeScreenshot(f) \/ C64!TakeStop(f) \/ C64!TakeExec(f)
    PROVE  AgentInv'
<1>0. /\ DownFrames' = DownFrames /\ UpFrames' = UpFrames /\ MessageBodies' = MessageBodies
  BY SameFrames
<1> USE DEF C64Typed, AgentInv
<1>1. /\ C64!Received(f) \in MessageBodies
      /\ f.id \in Nat
      /\ f.type = "MSG" => f.n \in 1..arrived
      /\ f.type = "EXEC" => f.line \in BOOLEAN
  <2>1. /\ f.id \in Nat
        /\ f.type = "MSG" => f.n \in 1..arrived
        /\ f.type = "EXEC" => f.line \in BOOLEAN
    BY DownFields
  <2>2. rxbuf \in MessageBodies
    BY DEF AgentBuffers
  <2>3. C64!Received(f) \in MessageBodies
    <3>1. CASE f.type = "MSG"
      BY <2>1, <3>1 DEF C64!Received, MessageBodies
    <3>2. [rxbuf EXCEPT !.whole = FALSE] \in MessageBodies
      BY <2>2 DEF MessageBodies
    <3>3. [msg |-> 0, whole |-> FALSE] \in MessageBodies
      BY DEF MessageBodies
    <3>4. CASE f.type # "MSG"
      BY <2>2, <3>2, <3>3, <3>4 DEF C64!Received
    <3>5. QED
      BY <3>1, <3>4
  <2>4. QED
    BY <2>1, <2>3
<1>2. CASE C64!TakeAck(f)
  <2>1. userq' \in Seq(0..arrived) /\ Len(userq') <= QueueSlots
    <3>1. CASE C64!LoadHead /\ userq # <<>>
      BY <3>1, LoadHeadTyped
    <3>2. CASE ~(C64!LoadHead /\ userq # <<>>)
      BY <1>2, <3>2 DEF C64!TakeAck, AgentBuffers
    <3>3. QED
      BY <3>1, <3>2
  <2>2. AgentModes'
    BY <1>2 DEF C64!TakeAck, AgentModes, C64!agentVars, C64!basicVars
  <2>3. AgentPending'
    BY <1>2 DEF C64!TakeAck, AgentPending, C64!pendingVars
  <2>4. AgentBuffers'
    BY <1>0, <1>1, <1>2, <2>1 DEF C64!TakeAck, AgentBuffers
  <2>5. AgentLink'
    BY <1>0, <1>2 DEF C64!TakeAck, AgentLink, C64!rxVars
  <2>6. QED
    BY <2>2, <2>3, <2>4, <2>5
<1>3. CASE C64!TakeStatusReq(f)
  <2>1. AgentModes'
    BY <1>3 DEF C64!TakeStatusReq, AgentModes, C64!basicVars
  <2>2. AgentPending'
    BY <1>3 DEF C64!TakeStatusReq, AgentPending, StatusTexts
  <2>3. AgentBuffers'
    BY <1>0, <1>3 DEF C64!TakeStatusReq, AgentBuffers, C64!bufferVars
  <2>4. AgentLink'
    BY <1>0, <1>3 DEF C64!TakeStatusReq, AgentLink, C64!rxVars, C64!txVars
  <2>5. QED
    BY <2>1, <2>2, <2>3, <2>4
<1>4. CASE C64!TakeStale(f)
  <2>1. AgentModes'
    BY <1>4 DEF C64!TakeStale, AgentModes, C64!basicVars, C64!agentVars
  <2>2. AgentPending'
    BY <1>4 DEF C64!TakeStale, AgentPending, C64!pendingVars
  <2>3. AgentBuffers'
    BY <1>0, <1>1, <1>4 DEF C64!TakeStale, AgentBuffers
  <2>4. AgentLink'
    BY <1>0, <1>1, <1>4 DEF C64!TakeStale, AgentLink, C64!txVars, C64!OweAck
  <2>5. QED
    BY <2>1, <2>2, <2>3, <2>4
<1>5. ASSUME C64!Accept(f), C64!OweAck(f) \/ (UNCHANGED ack_pending /\ ack_id' \in {ack_id, f.id})
      PROVE  AgentLink'
  BY <1>0, <1>1, <1>5 DEF C64!Accept, C64!OweAck, AgentLink
<1>6. CASE C64!TakeMsg(f)
  <2>1. AgentModes'
    BY <1>6 DEF C64!TakeMsg, C64!Accept, AgentModes
  <2>2. AgentPending'
    BY <1>6, Sizes DEF C64!TakeMsg, AgentPending
  <2>3. userq' \in Seq(0..arrived) /\ Len(userq') <= QueueSlots
    <3>1. CASE busy
      <4>1. f.n \in 0..arrived
        BY <1>1, <1>6 DEF C64!TakeMsg
      <4>2. Len(userq) \in Nat /\ (Len(userq) = 0 <=> userq = <<>>)
        BY EmptySeq DEF AgentBuffers
      <4>3. Len(userq) = QueueSlots =>
                Tail(userq) \in Seq(0..arrived) /\ Len(Tail(userq)) = Len(userq) - 1
        BY <4>2, Sizes, MembersTail DEF AgentBuffers
      <4>4. PICK q \in Seq(0..arrived) : Len(q) < QueueSlots /\ userq' = Append(q, f.n)
        <5> DEFINE r == IF Len(userq) = QueueSlots THEN Tail(userq) ELSE userq
        <5>1. userq' = Append(r, f.n)
          BY <1>6, <3>1 DEF C64!TakeMsg
        <5>2. userq \in Seq(0..arrived) /\ Len(userq) <= QueueSlots
          BY DEF AgentBuffers
        <5>3. CASE Len(userq) = QueueSlots
          <6>1. r = Tail(userq) /\ Tail(userq) \in Seq(0..arrived)
            BY <4>3, <5>3
          <6>2. Len(Tail(userq)) < QueueSlots
            BY <4>3, <5>3, Sizes
          <6>3. QED
            BY <5>1, <6>1, <6>2
        <5>4. CASE Len(userq) # QueueSlots
          BY <4>2, <5>1, <5>2, <5>4, Sizes
        <5>5. QED
          BY <5>3, <5>4
      <4>5. QED
        BY <4>1, <4>4, MembersAppend, Sizes
    <3>2. CASE ~busy
      BY <1>6, <3>2 DEF C64!TakeMsg, AgentBuffers
    <3>3. QED
      BY <3>1, <3>2
  <2>4. AgentBuffers'
    BY <1>0, <1>1, <1>6, <2>3 DEF C64!TakeMsg, AgentBuffers
  <2>5. QED
    BY <1>5, <1>6, <2>1, <2>2, <2>4 DEF C64!TakeMsg
<1>7. CASE C64!TakeDone(f)
  <2>1. userq' \in Seq(0..arrived) /\ Len(userq') <= QueueSlots
    <3>1. CASE C64!LoadHead /\ userq # <<>>
      BY <3>1, LoadHeadTyped
    <3>2. CASE ~(C64!LoadHead /\ userq # <<>>)
      BY <1>7, <3>2 DEF C64!TakeDone, AgentBuffers
    <3>3. QED
      BY <3>1, <3>2
  <2>2. AgentModes'
    BY <1>7 DEF C64!TakeDone, C64!Accept, AgentModes
  <2>3. AgentPending'
    BY <1>7 DEF C64!TakeDone, AgentPending
  <2>4. AgentBuffers'
    BY <1>0, <1>7, <2>1 DEF C64!TakeDone, AgentBuffers
  <2>5. QED
    BY <1>5, <1>7, <2>2, <2>3, <2>4 DEF C64!TakeDone
<1>8. CASE C64!TakeText(f)
  <2>1. AgentModes'
    BY <1>8 DEF C64!TakeText, C64!Accept, AgentModes
  <2>2. AgentPending'
    BY <1>8 DEF C64!TakeText, AgentPending, StatusTexts
  <2>3. AgentBuffers'
    BY <1>0, <1>1, <1>8 DEF C64!TakeText, AgentBuffers
  <2>4. QED
    BY <1>5, <1>8, <2>1, <2>2, <2>3 DEF C64!TakeText
<1>9. CASE C64!TakeScreenshot(f)
  <2>1. AgentModes'
    BY <1>9 DEF C64!TakeScreenshot, C64!Accept, AgentModes
  <2>2. AgentPending'
    <3>1. /\ UNCHANGED <<prompt_sent, text_pending, deferred_ack, prompt_pending, llm_pending>>
          /\ state_pending' \in {state_pending, "RUNNING"}
          /\ result_pending' \in {result_pending, ResultChunks}
          /\ result_of' \in {result_of, "screen"}
      BY <1>9 DEF C64!TakeScreenshot
    <3>2. AgentPending /\ ResultChunks \in 0..ResultChunks /\ "RUNNING" \in StatusTexts
      BY Sizes DEF StatusTexts
    <3>3. QED
      BY <3>1, <3>2 DEF AgentPending
  <2>3. AgentBuffers'
    BY <1>0, <1>9 DEF C64!TakeScreenshot, AgentBuffers, C64!bufferVars
  <2>4. QED
    BY <1>5, <1>9, <2>1, <2>2, <2>3 DEF C64!TakeScreenshot
<1>10. CASE C64!TakeStop(f)
  <2>1. AgentModes'
    BY <1>10 DEF C64!TakeStop, C64!Accept, AgentModes
  <2>2. AgentPending'
    BY <1>10 DEF C64!TakeStop, AgentPending, StatusTexts
  <2>3. AgentBuffers'
    BY <1>0, <1>10 DEF C64!TakeStop, AgentBuffers, C64!bufferVars
  <2>4. QED
    BY <1>5, <1>10, <2>1, <2>2, <2>3 DEF C64!TakeStop
<1>11. CASE C64!TakeExec(f)
  <2>1. AgentModes'
    BY <1>11 DEF C64!TakeExec, C64!Accept, AgentModes
  <2>2. AgentPending'
    BY <1>11 DEF C64!TakeExec, AgentPending, StatusTexts
  <2>3. AgentBuffers'
    BY <1>0, <1>1, <1>11, Sizes DEF C64!TakeExec, AgentBuffers
  <2>4. QED
    BY <1>5, <1>11, <2>1, <2>2, <2>3 DEF C64!TakeExec
<1>12. QED
  BY <1>2, <1>3, <1>4, <1>6, <1>7, <1>8, <1>9, <1>10, <1>11

LEMMA DispatchTyped ==
    ASSUME C64Typed, UNCHANGED <<arrived, texts>>, C64!Dispatch
    PROVE  AgentTyped
<1>1. Head(down) \in DownFrames /\ Tail(down) \in Seq(DownFrames)
  BY MembersTail DEF C64!Dispatch, C64Typed
<1>2. PICK f \in DownFrames :
         \/ C64!TakeAck(f) \/ C64!TakeStatusReq(f) \/ C64!TakeStale(f)
         \/ C64!TakeMsg(f) \/ C64!TakeDone(f) \/ C64!TakeText(f)
         \/ C64!TakeScreenshot(f) \/ C64!TakeStop(f) \/ C64!TakeExec(f)
  BY <1>1 DEF C64!Dispatch
<1>3. UNCHANGED up
  BY <1>2 DEF C64!TakeAck, C64!TakeStatusReq, C64!TakeStale, C64!TakeMsg, C64!TakeDone,
     C64!TakeText, C64!TakeScreenshot, C64!TakeStop, C64!TakeExec, C64!Accept
<1>4. AgentInv'
  BY <1>2, <1>3, TakenTyped
<1>5. QED
  BY <1>1, <1>3, <1>4, SameFrames DEF C64!Dispatch, C64Typed, AgentTyped

\* BASIC, and the agent by itself.
LEMMA BasicTyped ==
    ASSUME C64Typed, UNCHANGED <<arrived, texts>>,
           \/ C64!InjectKey \/ C64!LineStored \/ C64!BasicEnds \/ C64!BasicBreaks
           \/ C64!WaitReady \/ C64!ReadyNoticed \/ C64!DetachedReady \/ C64!ReportRunning
           \/ C64!Heartbeat
    PROVE  AgentTyped
<1>0. /\ DownFrames' = DownFrames /\ UpFrames' = UpFrames /\ MessageBodies' = MessageBodies
  BY SameFrames
<1> USE DEF C64Typed, AgentInv, C64!lineVars, C64!agentVars, C64!pendingVars, C64!bufferVars,
            C64!txVars, C64!rxVars, C64!basicVars
<1>1. UNCHANGED <<down, up>> /\ UNCHANGED <<C64!txVars, C64!rxVars>>
      /\ UNCHANGED <<exec_buf, rxbuf, userq, tick_overwritten>>
  BY DEF C64!InjectKey, C64!LineStored, C64!BasicEnds, C64!BasicBreaks, C64!WaitReady,
     C64!ReadyNoticed, C64!DetachedReady, C64!ReportRunning, C64!Heartbeat
<1>2. AgentLink'
  BY <1>0, <1>1 DEF AgentLink
<1>3. inj_left' \in 0..Keys /\ progline_pending' \in BOOLEAN
  <2>1. /\ inj_left' = inj_left \/ (inj_left > 0 /\ inj_left' = inj_left - 1)
        /\ progline_pending' \in {progline_pending, FALSE}
    BY DEF C64!InjectKey, C64!LineStored, C64!BasicEnds, C64!BasicBreaks, C64!WaitReady,
       C64!ReadyNoticed, C64!DetachedReady, C64!ReportRunning, C64!Heartbeat
  <2>2. inj_left \in 0..Keys /\ progline_pending \in BOOLEAN
    BY DEF AgentBuffers
  <2>3. inj_left > 0 => inj_left - 1 \in 0..Keys
    BY <2>2, Sizes
  <2>4. QED
    BY <2>1, <2>2, <2>3
<1>4. AgentBuffers'
  BY <1>0, <1>1, <1>3 DEF AgentBuffers
<1>5. AgentModes'
  BY ScreenClearsAssumption DEF C64!InjectKey, C64!LineStored, C64!BasicEnds, C64!BasicBreaks,
     C64!WaitReady, C64!ReadyNoticed, C64!DetachedReady, C64!ReportRunning, C64!Heartbeat,
     AgentModes
<1>6. AgentPending'
  <2>1. /\ UNCHANGED <<prompt_sent, text_pending, deferred_ack, prompt_pending>>
        /\ state_pending' \in {state_pending, "STORED", "RUNNING"}
        /\ llm_pending' \in {llm_pending, "heartbeat"}
    BY DEF C64!InjectKey, C64!LineStored, C64!BasicEnds, C64!BasicBreaks, C64!WaitReady,
       C64!ReadyNoticed, C64!DetachedReady, C64!ReportRunning, C64!Heartbeat
  <2>2. result_pending' \in {result_pending, ResultChunks} /\ result_of' \in {result_of, "exec"}
    BY DEF C64!InjectKey, C64!LineStored, C64!BasicEnds, C64!BasicBreaks, C64!WaitReady,
       C64!ReadyNoticed, C64!DetachedReady, C64!ReportRunning, C64!Heartbeat, C64!OutputResult
  <2>3. AgentPending /\ ResultChunks \in 0..ResultChunks
    BY Sizes
  <2>4. {"STORED", "RUNNING"} \subseteq StatusTexts
    BY DEF StatusTexts
  <2>5. QED
    BY <2>1, <2>2, <2>3, <2>4 DEF AgentPending
<1>7. QED
  BY <1>0, <1>1, <1>2, <1>4, <1>5, <1>6 DEF AgentTyped

-----------------------------------------------------------------------------
(* Types: the bridge *)

\* What is to be shown of a step of the bridge.
BridgeTyped ==
    /\ down' \in Seq(DownFrames') /\ up' \in Seq(UpFrames')
    /\ LoopInv' /\ CallsInv' /\ AcceptedInv'

BridgeInv == TypeInv /\ AcceptedInv

LEMMA SendTyped ==
    ASSUME NEW S, DownFrames \subseteq S, down \in Seq(DownFrames), pendingAcks \in Seq(Nat),
           NEW f \in S, Bridge!Send(f)
    PROVE  /\ down' \in Seq(S) /\ pendingAcks' \in Seq(Nat)
           /\ \A g \in Bridge!ToSet(down') : g \in Bridge!ToSet(down) \/ g.type = "ACK" \/ g = f
<1>1. Bridge!AckFrames(pendingAcks) \in Seq(Acks)
  BY AckFramesTyped
<1>2. down \in Seq(S) /\ Acks \subseteq S
  BY SeqMonotonic, AcksAreFrames
<1>3. down' = down \o Bridge!AckFrames(pendingAcks) \o <<f>> /\ pendingAcks' = <<>>
  BY DEF Bridge!Send
<1>4. /\ down \o Bridge!AckFrames(pendingAcks) \o <<f>> \in Seq(S)
      /\ \A g \in Bridge!ToSet(down \o Bridge!AckFrames(pendingAcks) \o <<f>>) :
             g \in Bridge!ToSet(down) \/ g.type = "ACK" \/ g = f
  BY <1>1, <1>2, FrameAdded
<1>5. QED
  BY <1>3, <1>4, NoMembers

LEMMA SendNewTyped ==
    ASSUME NEW S, DownFrames \subseteq S, down \in Seq(DownFrames), pendingAcks \in Seq(Nat),
           nextTxID \in Nat, NEW f, [f EXCEPT !.id = nextTxID] \in S, Bridge!SendNew(f)
    PROVE  /\ down' \in Seq(S) /\ pendingAcks' \in Seq(Nat) /\ nextTxID' = nextTxID + 1
           /\ nextTxID' \in Nat /\ attempt' \in 0..Attempts
           /\ out' = [f EXCEPT !.id = nextTxID] /\ out' \in S
           /\ \A g \in Bridge!ToSet(down') : g \in Bridge!ToSet(down) \/ g.type = "ACK" \/ g = out'
<1>1. Bridge!Send([f EXCEPT !.id = nextTxID]) /\ out' = [f EXCEPT !.id = nextTxID]
  BY DEF Bridge!SendNew
<1>2. nextTxID' = nextTxID + 1 /\ nextTxID' \in Nat /\ attempt' \in 0..Attempts
  BY BoundsAssumption DEF Bridge!SendNew
<1>3. PICK frame \in S : frame = [f EXCEPT !.id = nextTxID]
  BY Zenon
<1>4. Bridge!Send(frame)
  BY <1>1, <1>3
<1>5. QED
  BY <1>1, <1>2, <1>3, <1>4, SendTyped, Zenon

\* A frame is taken from the line.
LEMMA TakenFromLine ==
    ASSUME up \in Seq(UpFrames), NEW f, Bridge!TakeFromLine(f)
    PROVE  /\ up' \in Seq(UpFrames) /\ f \in UpFrames /\ f \in Bridge!ToSet(up)
           /\ Bridge!ToSet(up') \subseteq Bridge!ToSet(up)
<1>1. PICK i \in DOMAIN up : f = up[i] /\ up' = Bridge!RemoveAt(up, i)
  BY DEF Bridge!TakeFromLine
<1>2. QED
  BY <1>1, MembersRemoveAt, Members

LEMMA ReceivedTyped ==
    ASSUME up \in Seq(UpFrames), NEW f, Bridge!Receive(f)
    PROVE  /\ up' \in Seq(UpFrames) /\ f \in UpFrames /\ f \in Bridge!ToSet(up)
           /\ Bridge!ToSet(up') \subseteq Bridge!ToSet(up)
  BY TakenFromLine DEF Bridge!Receive

LEMMA AcknowledgeTyped ==
    ASSUME down \in Seq(DownFrames), pendingAcks \in Seq(Nat), NEW f, f.id \in Nat,
           Bridge!Acknowledge(f)
    PROVE  /\ down' \in Seq(DownFrames) /\ pendingAcks' \in Seq(Nat)
           /\ \A g \in Bridge!ToSet(down') : g \in Bridge!ToSet(down) \/ g.type = "ACK"
<1>1. Append(pendingAcks, f.id) \in Seq(Nat) /\ <<>> \in Seq(Nat)
  OBVIOUS
<1>2. CASE Bridge!AckedAtOnce(f)
  <2> DEFINE acks == Bridge!AckFrames(Append(pendingAcks, f.id))
  <2>1. acks \in Seq(Acks) /\ Acks \subseteq DownFrames
    BY <1>1, AckFramesTyped, AcksAreFrames
  <2> HIDE DEF acks
  <2>2. /\ down \o acks \in Seq(DownFrames)
        /\ \A g \in Bridge!ToSet(down \o acks) : g \in Bridge!ToSet(down) \/ g.type = "ACK"
    BY <2>1, AcksAdded
  <2>3. Bridge!AckFrame(f.id) \in DownFrames /\ Bridge!AckFrame(f.id).type = "ACK"
    BY <2>1 DEF Bridge!AckFrame, Acks
  <2>4. /\ down \o acks \o <<Bridge!AckFrame(f.id)>> \in Seq(DownFrames)
        /\ \A g \in Bridge!ToSet(down \o acks \o <<Bridge!AckFrame(f.id)>>) :
               g \in Bridge!ToSet(down) \/ g.type = "ACK"
    BY <2>1, <2>3, FrameAdded
  <2>5. (down \o acks) \o <<>> = down \o acks
    BY <2>2, ConcatEmptySeq
  <2>6. /\ \/ down' = down \o acks \o <<Bridge!AckFrame(f.id)>>
           \/ down' = down \o acks \o <<>>
        /\ pendingAcks' = <<>>
    BY <1>2 DEF Bridge!Acknowledge, acks
  <2>7. QED
    BY <1>1, <2>2, <2>4, <2>5, <2>6
<1>3. CASE ~Bridge!AckedAtOnce(f)
  BY <1>1, <1>3 DEF Bridge!Acknowledge
<1>4. QED
  BY <1>2, <1>3

\* A new frame.
LEMMA AcceptTyped ==
    ASSUME down \in Seq(DownFrames), up \in Seq(UpFrames), LoopLink, NEW f, Bridge!Accept(f)
    PROVE  /\ down' \in Seq(DownFrames) /\ up' \in Seq(UpFrames) /\ pendingAcks' \in Seq(Nat)
           /\ f \in UpFrames /\ f \in Bridge!ToSet(up) /\ f.type # "ACK" /\ f.id > rxLastID
           /\ rxLastID' = f.id /\ rxLastID' \in Nat
           /\ UNCHANGED <<nextTxID, waiters, overlap, overlapAttempt, arrived>>
           /\ Bridge!ToSet(up') \subseteq Bridge!ToSet(up)
           /\ \A g \in Bridge!ToSet(down') : g \in Bridge!ToSet(down) \/ g.type = "ACK"
<1>1. /\ up' \in Seq(UpFrames) /\ f \in UpFrames /\ f \in Bridge!ToSet(up)
      /\ Bridge!ToSet(up') \subseteq Bridge!ToSet(up)
  BY ReceivedTyped DEF Bridge!Accept
<1>2. f.id \in Nat
  BY <1>1, UpFields
<1>3. f.type # "ACK" /\ f.id > rxLastID
  BY <1>2 DEF Bridge!Accept, Bridge!IsData, Bridge!IsAck, Bridge!Stale, LoopLink
<1>4. /\ down' \in Seq(DownFrames) /\ pendingAcks' \in Seq(Nat)
      /\ \A g \in Bridge!ToSet(down') : g \in Bridge!ToSet(down) \/ g.type = "ACK"
  BY <1>2, AcknowledgeTyped DEF Bridge!Accept, LoopLink
<1>5. QED
  BY <1>1, <1>2, <1>3, <1>4 DEF Bridge!Accept, Bridge!gateVars

\* What the loop has in hand: a frame left by a wait, or one from the line.
LEMMA NextFrameTyped ==
    ASSUME down \in Seq(DownFrames), up \in Seq(UpFrames), LoopLink, AcceptedInv,
           NEW f, Bridge!NextFrame(f)
    PROVE  /\ down' \in Seq(DownFrames) /\ up' \in Seq(UpFrames) /\ pendingAcks' \in Seq(Nat)
           /\ f \in UpFrames /\ rxLastID' \in Nat /\ rxLastID <= rxLastID'
           /\ f.type = "ACK" \/ f.id <= rxLastID'
           /\ Bridge!Rest \in Seq(UpFrames)
           /\ \A g \in Bridge!ToSet(Bridge!Rest) : g.type = "ACK" \/ g.id <= rxLastID'
           /\ UNCHANGED <<nextTxID, waiters, overlap, overlapAttempt, arrived>>
           /\ Bridge!ToSet(Bridge!Rest) \subseteq Bridge!ToSet(pendingFrames)
           /\ Bridge!ToSet(up') \subseteq Bridge!ToSet(up)
           /\ \A g \in Bridge!ToSet(down') : g \in Bridge!ToSet(down) \/ g.type = "ACK"
<1>1. CASE pendingFrames # <<>>
  <2>1. /\ Head(pendingFrames) \in UpFrames
        /\ Head(pendingFrames) \in Bridge!ToSet(pendingFrames)
        /\ Tail(pendingFrames) \in Seq(UpFrames)
        /\ Bridge!ToSet(Tail(pendingFrames)) \subseteq Bridge!ToSet(pendingFrames)
    BY <1>1, MembersTail DEF LoopLink
  <2>2. /\ f = Head(pendingFrames) /\ UNCHANGED <<down, up, pendingAcks, rxLastID, nextTxID>>
        /\ UNCHANGED <<waiters, overlap, overlapAttempt, arrived>> /\ Bridge!Rest = Tail(pendingFrames)
    BY <1>1 DEF Bridge!NextFrame, Bridge!gateVars, Bridge!Rest
  <2>3. QED
    BY <2>1, <2>2 DEF LoopLink, AcceptedInv
<1>2. CASE pendingFrames = <<>>
  <2>1. Bridge!Rest = <<>> /\ Bridge!Rest \in Seq(UpFrames) /\ Bridge!ToSet(Bridge!Rest) = {}
    BY <1>2, NoMembers DEF Bridge!Rest
  <2>2. CASE Bridge!Accept(f)
    BY <2>1, <2>2, AcceptTyped, UpFields DEF LoopLink
  <2>3. CASE ~Bridge!Accept(f)
    <3>1. /\ f.type = "ACK" /\ Bridge!Receive(f)
          /\ UNCHANGED <<down, pendingAcks, rxLastID, nextTxID, waiters, overlap, overlapAttempt, arrived>>
      BY <1>2, <2>3 DEF Bridge!NextFrame, Bridge!IsAck, Bridge!gateVars
    <3>2. QED
      BY <2>1, <3>1, ReceivedTyped DEF LoopLink
  <2>4. QED
    BY <2>2, <2>3
<1>3. QED
  BY <1>1, <1>2

\* What a step leaves alone keeps its type.
LEMMA FramesKept ==
    ASSUME LoopFrames, UNCHANGED <<out, overlap, arrived, texts>>,
           pc' = pc \/ pc' \notin Bridge!Confirmed \cup {"execDrain"}
    PROVE  LoopFrames'
  BY SameFrames DEF LoopFrames

LEMMA TextsKept ==
    ASSUME LoopTexts, UNCHANGED <<texts, textOut, emitted, forwarded, prompted, promptChunks,
                                  resultChunks, toolOpen, toolCalls, arrived>>,
           pc' = pc \/ pc' # "textDrain"
    PROVE  LoopTexts'
  BY DEF LoopTexts

LEMMA CallsKept ==
    ASSUME CallsInv, UNCHANGED <<waiters, overlap, arrived, ended, failed>>,
           pc' = pc \/ pc \notin {"idle", "leave"}
    PROVE  CallsInv'
<1>1. Owner' <= Owner /\ Owner \in 0..1 /\ Owner' \in 0..1
  BY DEF Owner
<1>2. Overlapping' = Overlapping /\ Overlapping \in 0..1
  BY DEF Overlapping
<1>3. Len(waiters) \in Nat
  BY DEF CallsInv
<1>4. QED
  BY <1>1, <1>2, <1>3 DEF CallsInv

\* The owner's call returns.
LEMMA LeaveCalls ==
    ASSUME CallsInv, UNCHANGED <<waiters, overlap, arrived>>, pc \notin {"idle", "leave"},
           NEW error, Bridge!Leave(error)
    PROVE  CallsInv' /\ pc' = "leave"
<1>1. pc' = "leave" /\ ended' = ended + 1 /\ failed' \in {failed, failed + 1}
  <2>1. failed' = failed + (IF error THEN 1 ELSE 0)
    BY DEF Bridge!Leave
  <2>2. failed \in Nat
    BY DEF CallsInv
  <2>3. QED
    BY <2>1, <2>2 DEF Bridge!Leave
<1>2. Owner' = 0 /\ Owner = 1
  BY <1>1 DEF Owner
<1>3. Overlapping' = Overlapping /\ Overlapping \in 0..1
  BY DEF Overlapping
<1>4. Len(waiters) \in Nat
  BY DEF CallsInv
<1>5. QED
  BY <1>1, <1>2, <1>3, <1>4 DEF CallsInv

LEMMA LinkKept ==
    ASSUME LoopLink, AcceptedInv, UNCHANGED <<pendingFrames, rxLastID, arrived, texts>>,
           pendingAcks' \in Seq(Nat), nextTxID' \in Nat
    PROVE  LoopLink' /\ AcceptedInv'
  BY SameFrames DEF LoopLink, AcceptedInv

LEMMA FlushAcksTyped ==
    ASSUME BridgeInv, Bridge!FlushAcks
    PROVE  BridgeTyped
<1> USE DEF BridgeInv, TypeInv, LoopInv, Bridge!ownerVars, Bridge!gateVars, Bridge!flagVars,
            Bridge!chunkVars, Bridge!llmVars, Bridge!userVars
<1>1. UNCHANGED <<up, pc, arrived, texts>> /\ pendingAcks' \in Seq(Nat)
  BY DEF Bridge!FlushAcks
<1>2. down' \in Seq(DownFrames)
  <2>1. Bridge!AckFrames(pendingAcks) \in Seq(Acks)
    BY AckFramesTyped DEF LoopLink
  <2>2. QED
    BY <2>1, AcksAreFrames, AcksAdded DEF Bridge!FlushAcks
<1>3. LoopModes'
  BY DEF Bridge!FlushAcks, LoopModes
<1>4. LoopFrames'
  BY <1>1, FramesKept DEF Bridge!FlushAcks
<1>5. LoopLink' /\ AcceptedInv'
  BY <1>1, LinkKept DEF Bridge!FlushAcks, LoopLink
<1>6. LoopTexts'
  BY <1>1, TextsKept DEF Bridge!FlushAcks
<1>7. CallsInv'
  BY <1>1, CallsKept DEF Bridge!FlushAcks
<1>8. QED
  BY <1>1, <1>2, <1>3, <1>4, <1>5, <1>6, <1>7, SameFrames DEF BridgeTyped

LEMMA TimeoutTyped ==
    ASSUME BridgeInv, Bridge!Timeout
    PROVE  BridgeTyped
<1> USE DEF BridgeInv, TypeInv, LoopInv, Bridge!gateVars, Bridge!flagVars,
            Bridge!chunkVars, Bridge!llmVars
<1>1. /\ UNCHANGED <<up, out, arrived, texts, delivered, silent, waiters, overlap, overlapAttempt, pendingFrames,
                     rxLastID, nextTxID, basicRunning, waitingTool, completionDrain,
                     promptChunks, prompted, resultChunks, textOut, toolOpen, toolCalls,
                     forwarded, emitted>>
      /\ pc \in Bridge!Confirmed
  BY DEF Bridge!Timeout
<1>2. out \in DownFrames
  BY <1>1 DEF LoopFrames
<1>3. \/ attempt < Attempts /\ attempt' = attempt + 1 /\ Bridge!Send(out)
         /\ UNCHANGED <<pc, ended, failed>>
      \/ Bridge!Leave(TRUE) /\ UNCHANGED <<attempt, down, pendingAcks>>
  BY DEF Bridge!Timeout
<1>4. down' \in Seq(DownFrames) /\ pendingAcks' \in Seq(Nat)
  BY <1>2, <1>3, SendTyped DEF LoopLink
<1>5. pc' = pc \/ pc' = "leave"
  BY <1>3 DEF Bridge!Leave
<1>6. LoopModes'
  <2>1. Attempts \in Nat /\ attempt \in 0..Attempts
    BY BoundsAssumption DEF LoopModes
  <2>2. attempt' = attempt \/ (attempt < Attempts /\ attempt' = attempt + 1)
    BY <1>3
  <2>3. attempt' \in 0..Attempts
    BY <2>1, <2>2
  <2>4. QED
    BY <1>1, <1>5, <2>3 DEF LoopModes
<1>7. LoopFrames'
  BY <1>1, <1>5, FramesKept DEF Bridge!Confirmed
<1>8. LoopLink' /\ AcceptedInv'
  BY <1>1, <1>4, LinkKept DEF LoopLink
<1>9. LoopTexts'
  BY <1>1, <1>5, TextsKept
<1>10. CallsInv'
  BY <1>1, <1>3, CallsKept, LeaveCalls DEF Bridge!Confirmed
<1>11. QED
  BY <1>1, <1>4, <1>6, <1>7, <1>8, <1>9, <1>10, SameFrames DEF BridgeTyped

LEMMA OverlapTimeoutTyped ==
    ASSUME BridgeInv, Bridge!OverlapTimeout
    PROVE  BridgeTyped
<1> USE DEF BridgeInv, TypeInv, LoopInv, Bridge!gateVars, Bridge!flagVars, Bridge!ownerVars,
            Bridge!chunkVars, Bridge!llmVars, Bridge!userVars
<1>1. /\ UNCHANGED <<up, pc, out, waiters, arrived, texts>>
      /\ overlap \in DownFrames /\ overlap.id # 0
      /\ \/ /\ overlapAttempt < Attempts /\ overlapAttempt' = overlapAttempt + 1
            /\ Bridge!Send(overlap) /\ UNCHANGED <<overlap, ended, failed>>
         \/ /\ overlap' = Bridge!None /\ overlapAttempt' = 0
            /\ ended' = ended + 1 /\ failed' = failed + 1
            /\ UNCHANGED <<down, pendingAcks>>
  BY DEF Bridge!OverlapTimeout, LoopFrames, Bridge!None, DownFrames
<1>2. down' \in Seq(DownFrames) /\ pendingAcks' \in Seq(Nat)
  BY <1>1, SendTyped DEF LoopLink
<1>3. LoopModes'
  <2>1. overlapAttempt' \in 0..Attempts
    BY <1>1, BoundsAssumption DEF LoopModes
  <2>2. QED
    BY <2>1 DEF Bridge!OverlapTimeout, LoopModes
<1>4. LoopFrames'
  BY <1>1, SameFrames DEF LoopFrames
<1>5. LoopLink' /\ AcceptedInv'
  BY <1>1, <1>2, LinkKept DEF Bridge!OverlapTimeout, LoopLink
<1>6. LoopTexts'
  BY <1>1, TextsKept DEF Bridge!OverlapTimeout
<1>7. CallsInv'
  <2>1. CASE UNCHANGED <<overlap, ended, failed>>
    BY <1>1, <2>1, CallsKept
  <2>2. CASE overlap' = Bridge!None /\ ended' = ended + 1 /\ failed' = failed + 1
    <3>1. Overlapping = 1 /\ Overlapping' = 0 /\ Owner' = Owner /\ Owner \in 0..1
      BY <1>1, <2>2 DEF Overlapping, Owner, Bridge!None
    <3>2. Len(waiters) \in Nat
      BY DEF CallsInv
    <3>3. QED
      BY <1>1, <2>2, <3>1, <3>2 DEF CallsInv
  <2>3. QED
    BY <1>1, <2>1, <2>2
<1>8. QED
  BY <1>1, <1>2, <1>3, <1>4, <1>5, <1>6, <1>7, SameFrames DEF BridgeTyped

\* The call whose message was confirmed takes the free gate or joins the waiting ones.
LEMMA OverlapAckedTyped ==
    ASSUME BridgeInv, Bridge!OverlapAcked
    PROVE  BridgeTyped
<1> USE DEF BridgeInv, TypeInv, LoopInv, Bridge!linkVars, Bridge!flagVars,
            Bridge!chunkVars, Bridge!llmVars, Bridge!userVars
<1>1. /\ UNCHANGED <<down, out, attempt, delivered, silent, arrived, texts, ended, failed,
                     basicRunning, waitingTool, completionDrain>>
      /\ up' \in Seq(UpFrames) /\ overlapAttempt' = 0
      /\ \/ pc = "idle" /\ pc' = "loop" /\ overlap' = Bridge!None /\ UNCHANGED waiters
         \/ /\ waiters' = Append(waiters, [n |-> overlap.n, sent |-> TRUE])
            /\ overlap' = [overlap EXCEPT !.id = 0]
            /\ UNCHANGED pc
  BY TakenFromLine DEF Bridge!OverlapAcked
<1>2. overlap \in Requests /\ overlap.n \in 1..arrived /\ [overlap EXCEPT !.id = 0] \in Requests
      /\ [overlap EXCEPT !.id = 0].id = 0 /\ overlap.id # 0
  BY SMTT(30) DEF Bridge!OverlapAcked, LoopFrames, Bridge!None, Requests
<1>3. LoopModes'
  <2>1. 0 \in 0..Attempts
    BY BoundsAssumption
  <2>2. QED
    BY <1>1, <2>1 DEF LoopModes, Bridge!LoopWaits
<1>4. LoopFrames'
  BY <1>1, <1>2, SameFrames DEF LoopFrames, Bridge!Confirmed
<1>5. LoopLink' /\ AcceptedInv'
  BY <1>1, LinkKept DEF Bridge!OverlapAcked, LoopLink
<1>6. LoopTexts'
  BY <1>1, TextsKept DEF Bridge!OverlapAcked
<1>7. CallsInv'
  <2>1. Overlapping = 1 /\ Overlapping' = 0
    <3>1. overlap' = Bridge!None \/ overlap' = [overlap EXCEPT !.id = 0]
      BY <1>1
    <3>2. Bridge!None.id = 0
      BY DEF Bridge!None
    <3>3. overlap'.id = 0
      BY <1>2, <3>1, <3>2, Zenon
    <3>4. QED
      BY <1>2, <3>3 DEF Overlapping
  <2>2. Len(waiters) \in Nat
    BY DEF CallsInv
  <2>3. CASE pc = "idle" /\ pc' = "loop" /\ UNCHANGED waiters
    <3>1. Owner = 0 /\ Owner' = 1
      BY <2>3 DEF Owner
    <3>2. QED
      BY <1>1, <2>1, <2>2, <2>3, <3>1 DEF CallsInv
  <2>4. CASE waiters' = Append(waiters, [n |-> overlap.n, sent |-> TRUE]) /\ UNCHANGED pc
    <3>1. [n |-> overlap.n, sent |-> TRUE] \in [n : 1..arrived, sent : BOOLEAN]
      BY <1>2
    <3>2. waiters' \in Seq([n : 1..arrived, sent : BOOLEAN]) /\ Len(waiters') = Len(waiters) + 1
      BY <2>4, <3>1, MembersAppend DEF CallsInv
    <3>3. Owner' = Owner /\ Owner \in 0..1
      BY <2>4 DEF Owner
    <3>4. QED
      BY <1>1, <2>1, <2>2, <3>2, <3>3 DEF CallsInv
  <2>5. QED
    BY <1>1, <2>3, <2>4
<1>8. QED
  BY <1>1, <1>3, <1>4, <1>5, <1>6, <1>7, SameFrames DEF BridgeTyped

\* A reliable frame of the owner, with its id.
LEMMA NewFrames ==
    ASSUME nextTxID \in Nat
    PROVE  /\ \A n \in 1..arrived :
                  LET f == [type |-> "MSG", n |-> n, id |-> 0]
                  IN [f EXCEPT !.id = nextTxID] = [type |-> "MSG", n |-> n, id |-> nextTxID]
           /\ \A n \in 1..arrived : [type |-> "MSG", n |-> n, id |-> nextTxID] \in Requests
           /\ Requests \subseteq DownFrames
  BY DEF DownFrames, Requests

LEMMA HandOffTyped ==
    ASSUME BridgeInv, Bridge!HandOff
    PROVE  BridgeTyped
<1> USE DEF BridgeInv, TypeInv, LoopInv, Bridge!flagVars, Bridge!chunkVars, Bridge!llmVars,
            Bridge!userVars
<1>1. /\ UNCHANGED <<up, arrived, texts, pendingFrames, rxLastID, basicRunning, waitingTool,
                     completionDrain, promptChunks, prompted, resultChunks, textOut, toolOpen,
                     toolCalls, forwarded, emitted, ended, failed, overlapAttempt>>
      /\ delivered' \in BOOLEAN /\ silent' \in BOOLEAN /\ pc = "leave"
  BY DEF Bridge!HandOff
<1>2. LoopTexts' \/ pc' = "textDrain"
  BY <1>1, TextsKept
<1>3. Owner = 0 /\ Len(waiters) \in Nat /\ Overlapping \in 0..1
  BY <1>1 DEF Owner, Overlapping, CallsInv
<1>4. CASE waiters = <<>>
  <2>1. /\ pc' = "idle"
        /\ UNCHANGED <<down, out, attempt, nextTxID, pendingAcks, waiters, overlap>>
    BY <1>4 DEF Bridge!HandOff
  <2>2. LoopModes'
    BY <1>1, <2>1 DEF LoopModes
  <2>3. LoopFrames'
    BY <1>1, <2>1, FramesKept DEF Bridge!Confirmed
  <2>4. LoopLink' /\ AcceptedInv'
    BY <1>1, <2>1, LinkKept DEF LoopLink
  <2>5. CallsInv'
    <3>1. Owner' = 0 /\ Overlapping' = Overlapping
      BY <2>1 DEF Owner, Overlapping
    <3>2. QED
      BY <1>1, <1>3, <2>1, <3>1 DEF CallsInv
  <2>6. QED
    BY <1>1, <1>2, <2>1, <2>2, <2>3, <2>4, <2>5, SameFrames DEF BridgeTyped
<1>5. CASE waiters # <<>>
  <2>1. /\ waiters' \in Seq([n : 1..arrived, sent : BOOLEAN]) /\ Len(waiters') = Len(waiters) - 1
        /\ Head(waiters) \in [n : 1..arrived, sent : BOOLEAN]
    <3>1. waiters \in Seq([n : 1..arrived, sent : BOOLEAN])
      BY DEF CallsInv
    <3>2. waiters' = Tail(waiters)
      BY <1>5 DEF Bridge!HandOff
    <3>3. QED
      BY <1>5, <3>1, <3>2, MembersTail, Zenon
  <2>2. /\ pc' \in {"loop", "msgWait"} /\ down' \in Seq(DownFrames) /\ pendingAcks' \in Seq(Nat)
        /\ nextTxID' \in Nat /\ attempt' \in 0..Attempts
        /\ out' \in DownFrames \cup {Bridge!None} /\ (pc' = "msgWait" => out' \in DownFrames)
        /\ overlap' \in {overlap, Bridge!None}
    <3>1. CASE Head(waiters).sent
      BY <1>5, <3>1 DEF Bridge!HandOff, LoopLink, LoopModes, LoopFrames
    <3>2. CASE ~Head(waiters).sent
      <4> DEFINE f == [type |-> "MSG", n |-> Head(waiters).n, id |-> 0]
      <4>1. [f EXCEPT !.id = nextTxID] \in DownFrames
        BY <2>1, NewFrames DEF LoopLink
      <4>2. Bridge!SendNew(f) /\ pc' = "msgWait" /\ UNCHANGED overlap
        BY <1>5, <3>2 DEF Bridge!HandOff
      <4> HIDE DEF f
      <4>3. QED
        BY <4>1, <4>2, SendNewTyped DEF LoopLink
    <3>3. QED
      BY <3>1, <3>2
  <2>3. LoopModes'
    BY <1>1, <2>2 DEF LoopModes, Bridge!LineWaits, Bridge!LoopWaits
  <2>4. LoopFrames'
    BY <1>1, <2>2, SameFrames DEF LoopFrames, Bridge!Confirmed
  <2>5. LoopLink' /\ AcceptedInv'
    BY <1>1, <2>2, LinkKept
  <2>6. CallsInv'
    <3>1. Owner' = 1 /\ Overlapping' <= Overlapping /\ Overlapping' \in 0..1
      BY <2>2 DEF Owner, Overlapping, Bridge!None
    <3>2. QED
      BY <1>1, <1>3, <2>1, <3>1 DEF CallsInv
  <2>7. QED
    BY <1>1, <1>2, <2>2, <2>3, <2>4, <2>5, <2>6, SameFrames DEF BridgeTyped
<1>6. QED
  BY <1>4, <1>5

LEMMA DropStaleTyped ==
    ASSUME BridgeInv, Bridge!DropStale
    PROVE  BridgeTyped
<1> USE DEF BridgeInv, TypeInv, LoopInv, Bridge!gateVars, Bridge!flagVars, Bridge!chunkVars,
            Bridge!llmVars, Bridge!userVars
<1>1. PICK f : Bridge!Receive(f) /\ Bridge!Acknowledge(f)
  BY DEF Bridge!DropStale
<1>2. /\ UNCHANGED <<pc, out, attempt, delivered, waiters, overlap, overlapAttempt, arrived, pendingFrames,
                     rxLastID, nextTxID, basicRunning, waitingTool, completionDrain, promptChunks,
                     prompted, resultChunks, textOut, toolOpen, toolCalls, texts, forwarded,
                     emitted, ended, failed>>
      /\ silent' \in BOOLEAN
  BY DEF Bridge!DropStale, LoopModes
<1>3. up' \in Seq(UpFrames) /\ f.id \in Nat
  BY <1>1, ReceivedTyped, UpFields
<1>4. down' \in Seq(DownFrames) /\ pendingAcks' \in Seq(Nat)
  BY <1>1, <1>3, AcknowledgeTyped DEF LoopLink
<1>5. LoopModes'
  BY <1>2 DEF LoopModes
<1>6. LoopFrames' /\ LoopTexts' /\ CallsInv'
  BY <1>2, FramesKept, TextsKept, CallsKept
<1>7. LoopLink' /\ AcceptedInv'
  BY <1>2, <1>4, LinkKept DEF LoopLink
<1>8. QED
  BY <1>2, <1>3, <1>4, <1>5, <1>6, <1>7, SameFrames DEF BridgeTyped

LEMMA AckStepsTyped ==
    ASSUME BridgeInv, Bridge!StrayAck \/ Bridge!AckArrives
    PROVE  BridgeTyped
<1> USE DEF BridgeInv, TypeInv, LoopInv, Bridge!gateVars, Bridge!flagVars, Bridge!chunkVars,
            Bridge!llmVars, Bridge!userVars, Bridge!linkVars, Bridge!ownerVars
<1>1. PICK f : Bridge!Receive(f)
  BY DEF Bridge!StrayAck, Bridge!AckArrives
<1>2. /\ UNCHANGED <<down, out, attempt, delivered, waiters, overlap, overlapAttempt, arrived, pendingFrames,
                     pendingAcks, rxLastID, nextTxID, basicRunning, waitingTool, completionDrain,
                     promptChunks, prompted, resultChunks, textOut, toolOpen, toolCalls, texts,
                     forwarded, emitted, ended, failed>>
      /\ silent' \in BOOLEAN
      /\ pc \in Bridge!LineWaits
      /\ \/ pc' = pc \/ pc' = "loop"
         \/ pc' = "textDrain" /\ textOut # <<>>
  BY DEF Bridge!StrayAck, Bridge!AckArrives, Bridge!TextNext, LoopModes, Bridge!LineWaits
<1>3. up' \in Seq(UpFrames)
  BY <1>1, ReceivedTyped
<1>4. LoopModes'
  BY <1>2 DEF LoopModes, Bridge!LineWaits, Bridge!LoopWaits
<1>5. LoopFrames'
  BY <1>2, FramesKept DEF Bridge!Confirmed
<1>6. LoopTexts'
  BY <1>2 DEF LoopTexts
<1>7. CallsInv'
  BY <1>2, CallsKept DEF Bridge!LineWaits
<1>8. LoopLink' /\ AcceptedInv'
  BY <1>2, LinkKept DEF LoopLink
<1>9. QED
  BY <1>2, <1>3, <1>4, <1>5, <1>6, <1>7, <1>8, SameFrames DEF BridgeTyped

\* An accepted frame joins those left for the loop, at either end.
LEMMA LeftTyped ==
    ASSUME UNCHANGED <<arrived, texts>>, NEW s \in Seq(UpFrames), NEW f \in UpFrames,
           rxLastID' \in Nat, f.type = "ACK" \/ f.id <= rxLastID',
           \A g \in Bridge!ToSet(s) : g.type = "ACK" \/ g.id <= rxLastID',
           pendingFrames' = Append(s, f) \/ pendingFrames' = <<f>> \o s \/ pendingFrames' = s,
           pendingAcks' \in Seq(Nat), nextTxID' \in Nat
    PROVE  LoopLink' /\ AcceptedInv'
<1>1. /\ Append(s, f) \in Seq(UpFrames)
      /\ Bridge!ToSet(Append(s, f)) = Bridge!ToSet(s) \cup {f}
  BY MembersAppend
<1>2. /\ <<f>> \o s \in Seq(UpFrames)
      /\ Bridge!ToSet(<<f>> \o s) = Bridge!ToSet(s) \cup {f}
  BY MembersPrepend
<1>3. pendingFrames' \in Seq(UpFrames)
      /\ \A g \in Bridge!ToSet(pendingFrames') : g \in Bridge!ToSet(s) \/ g = f
  BY <1>1, <1>2
<1>4. AcceptedInv'
  BY <1>3 DEF AcceptedInv
<1>5. QED
  BY <1>3, <1>4, SameFrames DEF LoopLink

LEMMA WaitReceivesTyped ==
    ASSUME BridgeInv, Bridge!WaitReceives
    PROVE  BridgeTyped
<1> USE DEF BridgeInv, TypeInv, LoopInv, Bridge!chunkVars, Bridge!llmVars, Bridge!userVars
<1>1. PICK f : /\ Bridge!Accept(f) /\ pendingFrames' = Append(pendingFrames, f)
               /\ IF Bridge!Confirms(f)
                  THEN /\ pc' = IF pc = "textWait" THEN Bridge!TextNext ELSE "loop"
                       /\ waitingTool' = (waitingTool \/ pc # "textWait")
                  ELSE UNCHANGED <<pc, waitingTool>>
  BY DEF Bridge!WaitReceives
<1>2. /\ down' \in Seq(DownFrames) /\ up' \in Seq(UpFrames) /\ pendingAcks' \in Seq(Nat)
      /\ f \in UpFrames /\ f.type # "ACK" /\ f.id > rxLastID /\ rxLastID' = f.id /\ rxLastID' \in Nat
      /\ UNCHANGED <<nextTxID, waiters, overlap, overlapAttempt, arrived>>
  BY <1>1, AcceptTyped
<1>3. /\ UNCHANGED <<out, attempt, delivered, silent, basicRunning, completionDrain, promptChunks,
                     prompted, resultChunks, textOut, toolOpen, toolCalls, texts, forwarded,
                     emitted, ended, failed>>
      /\ waitingTool' \in BOOLEAN
      /\ pc \in Bridge!Confirmed
      /\ \/ pc' = pc \/ pc' = "loop"
         \/ pc' = "textDrain" /\ textOut # <<>>
  BY <1>1 DEF Bridge!WaitReceives, Bridge!TextNext, LoopModes
<1>4. LoopModes'
  BY <1>2, <1>3 DEF LoopModes, Bridge!LineWaits, Bridge!LoopWaits
<1>5. LoopFrames'
  BY <1>2, <1>3, FramesKept DEF Bridge!Confirmed
<1>6. LoopTexts'
  BY <1>2, <1>3 DEF LoopTexts
<1>7. CallsInv'
  BY <1>2, <1>3, CallsKept DEF Bridge!Confirmed
<1>8. LoopLink' /\ AcceptedInv'
  <2>1. f.id \in Nat
    BY <1>2, UpFields
  <2>2. pendingFrames \in Seq(UpFrames) /\ rxLastID \in Nat /\ nextTxID \in Nat
    BY DEF LoopLink
  <2>3. \A g \in Bridge!ToSet(pendingFrames) : g.type = "ACK" \/ g.id <= rxLastID'
    <3>1. \A g \in Bridge!ToSet(pendingFrames) : g.id \in Nat
      BY <2>2, Members, UpFields
    <3>2. QED
      BY <1>2, <2>1, <2>2, <3>1 DEF AcceptedInv
  <2>4. pendingFrames' = Append(pendingFrames, f) /\ UNCHANGED <<arrived, texts>> /\ nextTxID' \in Nat
    BY <1>1, <1>2, <1>3, <2>2
  <2>5. f.id <= rxLastID'
    BY <1>2, <2>1
  <2>6. QED
    BY <1>2, <2>2, <2>3, <2>4, <2>5, LeftTyped
<1>9. QED
  BY <1>2, <1>3, <1>4, <1>5, <1>6, <1>7, <1>8, SameFrames DEF BridgeTyped

LEMMA DrainReceivesTyped ==
    ASSUME BridgeInv, Bridge!DrainReceives
    PROVE  BridgeTyped
<1> USE DEF BridgeInv, TypeInv, LoopInv, Bridge!flagVars, Bridge!chunkVars, Bridge!llmVars
<1>1. PICK f : /\ Bridge!Accept(f)
               /\ \/ UNCHANGED <<pc, pendingFrames, ended, failed>>
                  \/ Bridge!Leave(TRUE) /\ pendingFrames' = <<f>> \o pendingFrames
  BY DEF Bridge!DrainReceives
<1>2. /\ down' \in Seq(DownFrames) /\ up' \in Seq(UpFrames) /\ pendingAcks' \in Seq(Nat)
      /\ f \in UpFrames /\ f.type # "ACK" /\ f.id > rxLastID /\ rxLastID' = f.id /\ rxLastID' \in Nat
      /\ UNCHANGED <<nextTxID, waiters, overlap, overlapAttempt, arrived>>
  BY <1>1, AcceptTyped
<1>3. /\ UNCHANGED <<out, attempt, delivered, silent, basicRunning, waitingTool, completionDrain,
                     promptChunks, prompted, resultChunks, textOut, toolOpen, toolCalls, texts,
                     forwarded, emitted>>
      /\ pc \in {"textDrain", "execDrain"}
      /\ pc' = pc \/ pc' = "leave"
  BY <1>1 DEF Bridge!DrainReceives, Bridge!Leave
<1>4. LoopModes'
  BY <1>2, <1>3 DEF LoopModes
<1>5. LoopFrames'
  BY <1>2, <1>3, FramesKept DEF Bridge!Confirmed
<1>6. LoopTexts'
  BY <1>2, <1>3, TextsKept
<1>7. CallsInv'
  BY <1>1, <1>2, <1>3, CallsKept, LeaveCalls
<1>8. LoopLink' /\ AcceptedInv'
  <2>1. f.id \in Nat
    BY <1>2, UpFields
  <2>2. pendingFrames \in Seq(UpFrames) /\ rxLastID \in Nat /\ nextTxID \in Nat
    BY DEF LoopLink
  <2>3. \A g \in Bridge!ToSet(pendingFrames) : g.type = "ACK" \/ g.id <= rxLastID'
    <3>1. \A g \in Bridge!ToSet(pendingFrames) : g.id \in Nat
      BY <2>2, Members, UpFields
    <3>2. QED
      BY <1>2, <2>1, <2>2, <3>1 DEF AcceptedInv
  <2>4. pendingFrames' = pendingFrames \/ pendingFrames' = <<f>> \o pendingFrames
    BY <1>1
  <2>5. /\ UNCHANGED <<arrived, texts>> /\ nextTxID' \in Nat /\ pendingAcks' \in Seq(Nat)
        /\ f \in UpFrames /\ rxLastID' \in Nat /\ f.id <= rxLastID'
    BY <1>2, <1>3, <2>1, <2>2
  <2>6. QED
    BY <2>2, <2>3, <2>4, <2>5, LeftTyped
<1>9. QED
  BY <1>2, <1>3, <1>4, <1>5, <1>6, <1>7, <1>8, SameFrames DEF BridgeTyped

LEMMA DrainEndsTyped ==
    ASSUME BridgeInv, Bridge!DrainEnds
    PROVE  BridgeTyped
<1> USE DEF BridgeInv, TypeInv, LoopInv, Bridge!gateVars, Bridge!flagVars, Bridge!chunkVars,
            Bridge!userVars
<1>1. /\ UNCHANGED <<up, delivered, silent, waiters, overlap, overlapAttempt, arrived, pendingFrames, rxLastID,
                     basicRunning, waitingTool, completionDrain, promptChunks, prompted,
                     resultChunks, toolOpen, toolCalls, texts, forwarded, emitted, ended, failed>>
      /\ pc \in {"textDrain", "execDrain"}
  BY DEF Bridge!DrainEnds
<1>2. \E f : /\ [f EXCEPT !.id = nextTxID] \in DownFrames /\ Bridge!SendNew(f)
             /\ pc' \in {"textWait", "semWait"}
             /\ textOut' \in Seq(1..texts)
  <2>1. CASE pc = "textDrain"
    <3> DEFINE f == [type |-> "TEXT", n |-> Head(textOut), id |-> 0]
    <3>1. Head(textOut) \in 1..texts /\ Tail(textOut) \in Seq(1..texts)
      BY <2>1, MembersTail DEF LoopTexts
    <3>2. [f EXCEPT !.id = nextTxID] \in DownFrames
      BY <3>1 DEF DownFrames, LoopLink
    <3>3. QED
      BY <2>1, <3>1, <3>2 DEF Bridge!DrainEnds
  <2>2. CASE pc = "execDrain"
    <3>1. out \in DownFrames /\ out.type = "EXEC"
      BY <2>2 DEF LoopFrames
    <3>2. [out EXCEPT !.id = nextTxID] \in DownFrames
      BY <3>1 DEF DownFrames, Requests, LoopLink
    <3>3. QED
      BY <2>2, <3>2 DEF Bridge!DrainEnds, LoopTexts
  <2>3. QED
    BY <1>1, <2>1, <2>2
<1>3. /\ down' \in Seq(DownFrames) /\ pendingAcks' \in Seq(Nat) /\ nextTxID' \in Nat
      /\ attempt' \in 0..Attempts /\ out' \in DownFrames
      /\ pc' \in {"textWait", "semWait"} /\ textOut' \in Seq(1..texts)
  BY <1>2, SendNewTyped DEF LoopLink
<1>4. LoopModes'
  BY <1>1, <1>3 DEF LoopModes, Bridge!LineWaits
<1>5. LoopFrames'
  BY <1>1, <1>3, SameFrames DEF LoopFrames
<1>6. LoopTexts'
  BY <1>1, <1>3 DEF LoopTexts
<1>7. CallsInv'
  BY <1>1, CallsKept
<1>8. LoopLink' /\ AcceptedInv'
  BY <1>1, <1>3, LinkKept
<1>9. QED
  BY <1>1, <1>3, <1>4, <1>5, <1>6, <1>7, <1>8, SameFrames DEF BridgeTyped

\* What comes to the LLM from a frame is a message, or nothing.
LEMMA ForwardedTyped ==
    ASSUME NEW f \in UpFrames, f.type = "LLM", forwarded \in Seq(0..arrived)
    PROVE  forwarded \o Bridge!ForwardedBy(f) \in Seq(0..arrived)
<1>1. f.body.msg \in 0..arrived
  BY UpFields
<1>2. PICK n \in 0..arrived : n = f.body.msg
  BY <1>1
<1>3. <<n>> \in Seq(0..arrived) /\ <<>> \in Seq(0..arrived)
  OBVIOUS
<1>4. Bridge!ForwardedBy(f) = <<n>> \/ Bridge!ForwardedBy(f) = <<>>
  BY <1>2 DEF Bridge!ForwardedBy
<1>5. PICK t \in Seq(0..arrived) : t = Bridge!ForwardedBy(f)
  BY <1>3, <1>4
<1>6. forwarded \o t \in Seq(0..arrived)
  OBVIOUS
<1>7. QED
  BY <1>5, <1>6

LEMMA EmittedTyped ==
    ASSUME NEW f \in UpFrames, f.type = "USER", emitted \in Seq(0..texts)
    PROVE  Append(emitted, f.n) \in Seq(0..texts)
<1>1. PICK n \in 0..texts : n = f.n
  BY UpFields
<1>2. Append(emitted, n) \in Seq(0..texts)
  OBVIOUS
<1>3. QED
  BY <1>1, <1>2

LEMMA ChunkSets ==
    ASSUME NEW chunks, chunks \subseteq Nat, NEW at \in Nat, NEW new,
           new \in {{}, {0}, chunks \cup {at}}
    PROVE  new \subseteq Nat
<1>1. 0 \in Nat
  OBVIOUS
<1>2. QED
  BY <1>1, Zenon

\* The fields of a frame that the loop handles.
LEMMA LoopTakesTyped ==
    ASSUME LoopModes, LoopTexts, UNCHANGED <<arrived, delivered, waiters>>, pc = "loop",
           NEW f \in UpFrames, Bridge!LoopTakes(f)
    PROVE  /\ UNCHANGED <<textOut, toolCalls, texts, ended, failed>>
           /\ pc' \in {"loop", "llmBatch", "call", "userDrain"}
           /\ basicRunning' \in BOOLEAN /\ waitingTool' \in BOOLEAN /\ completionDrain' \in BOOLEAN
           /\ prompted' \in BOOLEAN /\ promptChunks' \subseteq Nat /\ resultChunks' \subseteq Nat
           /\ toolOpen' \in BOOLEAN
           /\ emitted' \in Seq(0..texts) /\ forwarded' \in Seq(0..arrived)
           /\ pendingFrames' = Bridge!Rest
<1> USE DEF LoopModes, LoopTexts
<1>1. /\ f.type \in {"ACK", "STATUS", "SYSTEM", "RESULT", "LLM", "USER"}
      /\ f.type = "USER" => f.n \in 0..texts
      /\ f.type = "LLM" => f.event \in {"user", "heartbeat"} /\ f.body.msg \in 0..arrived
      /\ f.type \in {"SYSTEM", "RESULT"} => f.at \in Nat
  BY UpFields
<1>2. UNCHANGED <<textOut, toolCalls, texts, ended, failed>> /\ pendingFrames' = Bridge!Rest
  BY DEF Bridge!LoopTakes
<1>3. CASE f.type = "LLM"
  <2>1. forwarded' = forwarded \o Bridge!ForwardedBy(f)
        /\ pc' = "llmBatch"
        /\ UNCHANGED <<basicRunning, waitingTool, completionDrain, promptChunks, prompted,
                       resultChunks, toolOpen, emitted>>
    BY <1>3 DEF Bridge!LoopTakes, Bridge!flagVars, Bridge!chunkVars, Bridge!IsAck
  <2>2. forwarded' \in Seq(0..arrived)
    BY <1>3, <2>1, ForwardedTyped
  <2>3. QED
    BY <1>2, <2>1, <2>2
<1>4. CASE f.type = "RESULT"
  <2>1. /\ waitingTool' = FALSE /\ basicRunning' = FALSE /\ completionDrain' = FALSE
        /\ resultChunks' \in {{}, {0}, resultChunks \cup {f.at}}
        /\ toolOpen' \in BOOLEAN
        /\ pc' \in {"call", "loop"}
        /\ UNCHANGED <<promptChunks, prompted, forwarded, emitted>>
    BY <1>4 DEF Bridge!LoopTakes, Bridge!IsAck
  <2>2. f.at \in Nat /\ resultChunks \subseteq Nat
    BY <1>1, <1>4
  <2>3. resultChunks' \subseteq Nat
    BY <2>1, <2>2, ChunkSets, Zenon
  <2>4. QED
    BY <1>2, <2>1, <2>3
<1>5. CASE f.type = "STATUS"
  <2>1. /\ waitingTool' = FALSE /\ basicRunning' \in BOOLEAN /\ completionDrain' \in BOOLEAN
        /\ toolOpen' = FALSE /\ pc' = "call"
        /\ UNCHANGED <<promptChunks, prompted, resultChunks, forwarded, emitted>>
    <3>1. /\ waitingTool' = FALSE /\ toolOpen' = FALSE /\ pc' = "call"
          /\ basicRunning' = (f.text \in {"RUNNING", "STOP REQUESTED"})
          /\ completionDrain' = IF f.text = "RUNNING" THEN TRUE
                                ELSE completionDrain /\ f.text # "READY"
          /\ UNCHANGED <<promptChunks, prompted, resultChunks, forwarded, emitted>>
      BY <1>5 DEF Bridge!LoopTakes, Bridge!IsAck, Bridge!chunkVars
    <3>2. basicRunning' \in BOOLEAN
      <4> DEFINE runs == f.text \in {"RUNNING", "STOP REQUESTED"}
      <4>1. runs \in BOOLEAN
        OBVIOUS
      <4>2. basicRunning' = runs
        BY <3>1
      <4> HIDE DEF runs
      <4>3. QED
        BY <4>1, <4>2
    <3>3. completionDrain' \in BOOLEAN
      BY <3>1
    <3>4. QED
      BY <3>1, <3>2, <3>3
  <2>2. QED
    BY <1>2, <2>1
<1>6. CASE f.type = "USER"
  <2>1. /\ emitted' = Append(emitted, f.n) /\ pc' = "userDrain"
        /\ UNCHANGED <<basicRunning, waitingTool, completionDrain, promptChunks, prompted,
                       resultChunks, toolOpen, forwarded>>
    BY <1>6 DEF Bridge!LoopTakes, Bridge!IsAck, Bridge!chunkVars, Bridge!flagVars
  <2>2. emitted' \in Seq(0..texts)
    BY <1>6, <2>1, EmittedTyped
  <2>3. QED
    BY <1>2, <2>1, <2>2
<1>7. CASE f.type = "SYSTEM"
  <2>1. /\ Bridge!AddPromptChunk(f)
        /\ UNCHANGED <<pc, basicRunning, waitingTool, completionDrain, toolOpen, forwarded, emitted>>
    BY <1>7 DEF Bridge!LoopTakes, Bridge!IsAck, Bridge!flagVars
  <2>2. /\ prompted' \in BOOLEAN /\ promptChunks' \in {{}, promptChunks \cup {f.at}}
        /\ UNCHANGED resultChunks
    BY <2>1 DEF Bridge!AddPromptChunk
  <2>3. QED
    BY <1>1, <1>2, <1>7, <2>1, <2>2
<1>8. CASE f.type = "ACK"
  <2>1. UNCHANGED <<pc, basicRunning, waitingTool, completionDrain, promptChunks, prompted,
                    resultChunks, toolOpen, forwarded, emitted>>
    BY <1>8 DEF Bridge!LoopTakes, Bridge!IsAck, Bridge!chunkVars, Bridge!flagVars
  <2>2. QED
    BY <1>2, <2>1
<1>9. QED
  BY <1>1, <1>3, <1>4, <1>5, <1>6, <1>7, <1>8

LEMMA LoopTyped ==
    ASSUME BridgeInv, Bridge!Loop
    PROVE  BridgeTyped
<1> USE DEF BridgeInv, TypeInv, LoopInv
<1>1. PICK f : Bridge!NextFrame(f) /\ (Bridge!LoopHandsOver(f) \/ Bridge!LoopTakes(f))
  BY DEF Bridge!Loop
<1>2. silent' = FALSE /\ UNCHANGED <<out, attempt, delivered>> /\ pc = "loop"
  BY DEF Bridge!Loop
<1>3. /\ down' \in Seq(DownFrames) /\ up' \in Seq(UpFrames) /\ pendingAcks' \in Seq(Nat)
      /\ f \in UpFrames /\ rxLastID' \in Nat /\ rxLastID <= rxLastID'
      /\ f.type = "ACK" \/ f.id <= rxLastID'
      /\ Bridge!Rest \in Seq(UpFrames)
      /\ \A g \in Bridge!ToSet(Bridge!Rest) : g.type = "ACK" \/ g.id <= rxLastID'
      /\ UNCHANGED <<nextTxID, waiters, overlap, overlapAttempt, arrived>>
  BY <1>1, NextFrameTyped
<1>4. nextTxID' \in Nat
  BY <1>3 DEF LoopLink
<1>5. CASE Bridge!LoopHandsOver(f)
  <2>1. /\ pendingFrames' = <<f>> \o Bridge!Rest /\ Bridge!Leave(FALSE)
        /\ UNCHANGED <<basicRunning, waitingTool, completionDrain, promptChunks, prompted,
                       resultChunks, textOut, toolOpen, toolCalls, texts, forwarded, emitted>>
    BY <1>5 DEF Bridge!LoopHandsOver, Bridge!flagVars, Bridge!chunkVars, Bridge!llmVars
  <2>2. CallsInv' /\ pc' = "leave"
    BY <1>2, <1>3, <2>1, LeaveCalls
  <2>3. LoopModes'
    BY <1>2, <1>3, <2>1, <2>2 DEF LoopModes
  <2>4. LoopFrames'
    BY <1>2, <1>3, <2>1, <2>2, FramesKept DEF Bridge!Confirmed
  <2>5. LoopTexts'
    BY <1>3, <2>1, <2>2, TextsKept
  <2>6. LoopLink' /\ AcceptedInv'
    BY <1>3, <1>4, <2>1, LeftTyped
  <2>7. QED
    BY <1>3, <2>1, <2>2, <2>3, <2>4, <2>5, <2>6, SameFrames DEF BridgeTyped
<1>6. CASE Bridge!LoopTakes(f)
  <2>1. /\ UNCHANGED <<textOut, toolCalls, texts, ended, failed>>
        /\ pc' \in {"loop", "llmBatch", "call", "userDrain"}
        /\ basicRunning' \in BOOLEAN /\ waitingTool' \in BOOLEAN /\ completionDrain' \in BOOLEAN
        /\ prompted' \in BOOLEAN /\ promptChunks' \subseteq Nat /\ resultChunks' \subseteq Nat
        /\ toolOpen' \in BOOLEAN
        /\ emitted' \in Seq(0..texts) /\ forwarded' \in Seq(0..arrived)
        /\ pendingFrames' = Bridge!Rest
    BY <1>2, <1>3, <1>6, LoopTakesTyped
  <2>2. CallsInv'
    BY <1>2, <1>3, <2>1, CallsKept
  <2>3. LoopModes'
    BY <1>2, <1>3, <2>1 DEF LoopModes, Bridge!LineWaits, Bridge!LoopWaits
  <2>4. LoopFrames'
    BY <1>2, <1>3, <2>1, FramesKept DEF Bridge!Confirmed
  <2>5. LoopTexts'
    BY <1>2, <1>3, <2>1 DEF LoopTexts
  <2>6. LoopLink' /\ AcceptedInv'
    BY <1>3, <1>4, <2>1, LeftTyped
  <2>7. QED
    BY <1>3, <2>1, <2>2, <2>3, <2>4, <2>5, <2>6, SameFrames DEF BridgeTyped
<1>7. QED
  BY <1>1, <1>5, <1>6

LEMMA GraceEndsTyped ==
    ASSUME BridgeInv, Bridge!GraceEnds
    PROVE  BridgeTyped
<1> USE DEF BridgeInv, TypeInv, LoopInv, Bridge!gateVars, Bridge!flagVars, Bridge!chunkVars,
            Bridge!llmVars, Bridge!linkVars
<1>1. /\ UNCHANGED <<down, up, out, attempt, delivered, silent, waiters, overlap, overlapAttempt, arrived,
                     pendingFrames, pendingAcks, rxLastID, nextTxID, basicRunning, waitingTool,
                     completionDrain, promptChunks, prompted, resultChunks, textOut, toolOpen,
                     toolCalls, texts, forwarded, emitted>>
      /\ pc = "loop" /\ Bridge!Leave(FALSE)
  BY DEF Bridge!GraceEnds
<1>2. CallsInv' /\ pc' = "leave"
  BY <1>1, LeaveCalls
<1>3. LoopModes'
  BY <1>1, <1>2 DEF LoopModes
<1>4. LoopFrames'
  BY <1>1, <1>2, FramesKept DEF Bridge!Confirmed
<1>5. LoopTexts'
  BY <1>1, <1>2, TextsKept
<1>6. LoopLink' /\ AcceptedInv'
  BY <1>1, LinkKept DEF LoopLink
<1>7. QED
  BY <1>1, <1>2, <1>3, <1>4, <1>5, <1>6, SameFrames DEF BridgeTyped

LEMMA TrailingDrainTyped ==
    ASSUME BridgeInv, Bridge!TrailingDrain
    PROVE  BridgeTyped
<1> USE DEF BridgeInv, TypeInv, LoopInv, Bridge!gateVars, Bridge!flagVars, Bridge!chunkVars,
            Bridge!llmVars, Bridge!linkVars
<1>1. /\ UNCHANGED <<out, attempt, silent, basicRunning, waitingTool, completionDrain, promptChunks,
                     prompted, resultChunks, textOut, toolOpen, toolCalls, texts, ended, failed>>
      /\ pc \in {"llmBatch", "userDrain"}
  BY DEF Bridge!TrailingDrain
<1>2. /\ Bridge!DrainOver => pc' \in {"call", "loop"} /\ delivered' \in BOOLEAN
      /\ UNCHANGED <<pc, delivered>> => delivered' \in BOOLEAN
  BY DEF Bridge!DrainOver, LoopModes
<1>3. /\ UNCHANGED <<waiters, overlap, overlapAttempt, arrived>>
      /\ down' \in Seq(DownFrames) /\ up' \in Seq(UpFrames)
      /\ LoopLink' /\ AcceptedInv'
      /\ pc' \in {pc, "call", "loop"} /\ delivered' \in BOOLEAN
      /\ emitted' \in Seq(0..texts) /\ forwarded' \in Seq(0..arrived)
  <2>1. ASSUME NEW f, Bridge!NextFrame(f),
               \/ Bridge!Drains(f) /\ pendingFrames' = Bridge!Rest /\ UNCHANGED <<pc, delivered>>
               \/ /\ pendingFrames' = Append(Bridge!Rest, f) /\ Bridge!DrainOver
                  /\ UNCHANGED <<forwarded, emitted>>
        PROVE  <1>3!1 /\ <1>3!2 /\ <1>3!3 /\ <1>3!4 /\ <1>3!5
    <3>1. /\ down' \in Seq(DownFrames) /\ up' \in Seq(UpFrames) /\ pendingAcks' \in Seq(Nat)
          /\ f \in UpFrames /\ rxLastID' \in Nat /\ rxLastID <= rxLastID'
          /\ f.type = "ACK" \/ f.id <= rxLastID'
          /\ Bridge!Rest \in Seq(UpFrames)
          /\ \A g \in Bridge!ToSet(Bridge!Rest) : g.type = "ACK" \/ g.id <= rxLastID'
          /\ UNCHANGED <<nextTxID, waiters, overlap, overlapAttempt, arrived>>
      BY <2>1, NextFrameTyped
    <3>2. nextTxID' \in Nat
      BY <3>1 DEF LoopLink
    <3>3. LoopLink' /\ AcceptedInv'
      BY <1>1, <2>1, <3>1, <3>2, LeftTyped
    <3>4. pc' \in {pc, "call", "loop"} /\ delivered' \in BOOLEAN
      BY <1>2, <2>1
    <3>5. emitted' \in Seq(0..texts) /\ forwarded' \in Seq(0..arrived)
      <4>1. \/ UNCHANGED <<forwarded, emitted>>
            \/ f.type = "LLM" /\ forwarded' = forwarded \o Bridge!ForwardedBy(f) /\ UNCHANGED emitted
            \/ f.type = "USER" /\ emitted' = Append(emitted, f.n) /\ UNCHANGED forwarded
        BY <2>1 DEF Bridge!Drains
      <4>2. emitted \in Seq(0..texts) /\ forwarded \in Seq(0..arrived)
        BY DEF LoopTexts
      <4>3. QED
        BY <3>1, <4>1, <4>2, ForwardedTyped, EmittedTyped
    <3>6. QED
      BY <3>1, <3>3, <3>4, <3>5
  <2>2. CASE /\ Bridge!DrainOver
             /\ UNCHANGED <<down, up, pendingFrames, pendingAcks, rxLastID, nextTxID, waiters,
                            overlap, overlapAttempt, arrived, forwarded, emitted>>
    <3>1. LoopLink' /\ AcceptedInv'
      BY <1>1, <2>2, LinkKept DEF LoopLink
    <3>2. QED
      BY <1>2, <2>2, <3>1 DEF LoopTexts
  <2>3. QED
    BY <2>1, <2>2 DEF Bridge!TrailingDrain
<1>4. LoopModes'
  BY <1>1, <1>3 DEF LoopModes, Bridge!LoopWaits, Bridge!LineWaits
<1>5. LoopFrames'
  BY <1>1, <1>3, FramesKept DEF Bridge!Confirmed
<1>6. LoopTexts'
  BY <1>1, <1>3 DEF LoopTexts
<1>7. CallsInv'
  BY <1>1, <1>3, CallsKept
<1>8. QED
  BY <1>1, <1>3, <1>4, <1>5, <1>6, <1>7, SameFrames DEF BridgeTyped

\* The frames that a choice of the LLM sends.
LEMMA LLMFrames ==
    ASSUME nextTxID \in Nat
    PROVE  /\ \A kind \in {"DONE", "SCREENSHOT", "STOP"} :
                  LET f == [type |-> kind, id |-> 0] IN [f EXCEPT !.id = nextTxID] \in DownFrames
           /\ [type |-> "STATUSQ", id |-> 0] \in DownFrames
           /\ \A line \in BOOLEAN :
                  [type |-> "EXEC", id |-> 0, n |-> 0, line |-> line] \in DownFrames
  BY DEF DownFrames

\* Nothing is sent, or a frame of the owner with its wait.
LEMMA LLMToolTyped ==
    ASSUME BridgeInv, Bridge!LLMTool
    PROVE  /\ down' \in Seq(DownFrames) /\ pendingAcks' \in Seq(Nat) /\ nextTxID' \in Nat
           /\ attempt' \in 0..Attempts /\ out' \in DownFrames \cup {Bridge!None}
           /\ pc' \in {"execDrain", "semWait", "statusWait", "loop"}
           /\ pc' \in {"semWait", "statusWait"} => out' \in DownFrames
           /\ pc' = "execDrain" => out' \in DownFrames /\ out'.type = "EXEC"
           /\ toolOpen' \in BOOLEAN /\ toolCalls' \in 0..ToolCalls
           /\ UNCHANGED <<textOut, texts, ended, failed>>
<1> USE DEF BridgeInv, TypeInv, LoopInv
<1>1. toolCalls' \in 0..ToolCalls /\ UNCHANGED <<textOut, texts, ended, failed>>
  BY BoundsAssumption, SMTT(30) DEF Bridge!LLMTool, LoopTexts
<1>2. nextTxID \in Nat /\ pendingAcks \in Seq(Nat) /\ attempt \in 0..Attempts
      /\ out \in DownFrames \cup {Bridge!None} /\ 1 \in 0..Attempts
  BY BoundsAssumption DEF LoopLink, LoopModes, LoopFrames
<1>3. PICK tool \in Tools :
          /\ toolOpen' = (tool # "unknown")
          /\ \/ /\ out' = [type |-> "EXEC", id |-> 0, n |-> 0, line |-> tool = "line"]
                /\ pc' = "execDrain"
                /\ UNCHANGED <<down, attempt, pendingAcks, nextTxID>>
             \/ /\ Bridge!SendNew([type |-> IF tool = "screen" THEN "SCREENSHOT" ELSE "STOP", id |-> 0])
                /\ pc' = "semWait"
             \/ /\ out' = [type |-> "STATUSQ", id |-> 0] /\ attempt' = 1
                /\ Bridge!Send(out')
                /\ pc' = "statusWait"
                /\ UNCHANGED nextTxID
             \/ /\ pc' = "loop"
                /\ UNCHANGED <<down, out, attempt, pendingAcks, nextTxID>>
  BY DEF Bridge!LLMTool
<1>4. toolOpen' \in BOOLEAN
  BY <1>3
<1>5. CASE /\ out' = [type |-> "EXEC", id |-> 0, n |-> 0, line |-> tool = "line"]
           /\ pc' = "execDrain"
           /\ UNCHANGED <<down, attempt, pendingAcks, nextTxID>>
  <2>1. PICK line \in BOOLEAN : out' = [type |-> "EXEC", id |-> 0, n |-> 0, line |-> line]
    <3>1. (tool = "line") \in BOOLEAN
      OBVIOUS
    <3>2. QED
      BY <1>5, <3>1
  <2>2. out' \in DownFrames /\ out'.type = "EXEC"
    BY <1>2, <2>1, LLMFrames
  <2>3. QED
    BY <1>1, <1>2, <1>4, <1>5, <2>2
<1>6. CASE /\ Bridge!SendNew([type |-> IF tool = "screen" THEN "SCREENSHOT" ELSE "STOP", id |-> 0])
           /\ pc' = "semWait"
  <2>1. PICK kind \in {"SCREENSHOT", "STOP"} : Bridge!SendNew([type |-> kind, id |-> 0])
    BY <1>6
  <2> DEFINE f == [type |-> kind, id |-> 0]
  <2>2. [f EXCEPT !.id = nextTxID] \in DownFrames /\ Bridge!SendNew(f)
    BY <1>2, <2>1, LLMFrames
  <2> HIDE DEF f
  <2>3. QED
    BY <1>1, <1>2, <1>4, <1>6, <2>2, SendNewTyped
<1>7. CASE /\ out' = [type |-> "STATUSQ", id |-> 0] /\ attempt' = 1
           /\ Bridge!Send(out')
           /\ pc' = "statusWait"
           /\ UNCHANGED nextTxID
  <2>1. PICK f \in DownFrames : f = out' /\ Bridge!Send(f)
    BY <1>2, <1>7, LLMFrames
  <2>2. QED
    BY <1>1, <1>2, <1>4, <1>7, <2>1, SendTyped
<1>8. CASE pc' = "loop" /\ UNCHANGED <<down, out, attempt, pendingAcks, nextTxID>>
  BY <1>1, <1>2, <1>4, <1>8
<1>9. QED
  BY <1>3, <1>5, <1>6, <1>7, <1>8

LEMMA CompleteTyped ==
    ASSUME BridgeInv, Bridge!Complete
    PROVE  BridgeTyped
<1> USE DEF BridgeInv, TypeInv, LoopInv, Bridge!gateVars, Bridge!flagVars, Bridge!chunkVars,
            Bridge!llmVars
<1>1. /\ UNCHANGED <<up, delivered, silent, waiters, overlap, overlapAttempt, arrived, pendingFrames, rxLastID,
                     basicRunning, waitingTool, completionDrain, promptChunks, prompted,
                     resultChunks, forwarded, emitted>>
      /\ pc = "call"
  BY DEF Bridge!Complete
<1>2. /\ nextTxID \in Nat /\ pendingAcks \in Seq(Nat) /\ attempt \in 0..Attempts
      /\ out \in DownFrames \cup {Bridge!None} /\ arrived \in Nat /\ texts \in Nat
  BY DEF LoopLink, LoopModes, LoopFrames, LoopTexts, CallsInv
<1>3. CASE Bridge!LLMText
  <2>1. PICK n \in 1..TextChunks : textOut' = [i \in 1..n |-> texts + i] /\ texts' = texts + n
    BY <1>3 DEF Bridge!LLMText
  <2>2. n \in Nat /\ n > 0 /\ texts' \in Nat /\ texts <= texts'
    BY <1>2, <2>1, BoundsAssumption
  <2>3. /\ UNCHANGED <<down, out, attempt, pendingAcks, nextTxID, toolOpen, toolCalls, ended, failed>>
        /\ pc' \in {"loop", "textDrain"}
    BY <1>3 DEF Bridge!LLMText
  <2>4. textOut' \in Seq(1..texts') /\ textOut' # <<>>
    <3>1. [i \in 1..n |-> texts + i] \in [1..n -> 1..texts']
      BY <1>2, <2>1, <2>2
    <3>2. [i \in 1..n |-> texts + i] \in Seq(1..texts')
      BY <2>2, <3>1, IsASeq
    <3>3. [i \in 1..n |-> texts + i] # <<>>
      BY <2>2
    <3>4. QED
      BY <2>1, <3>2, <3>3
  <2>5. /\ Requests \subseteq Requests' /\ DownFrames \subseteq DownFrames'
        /\ Seq(DownFrames) \subseteq Seq(DownFrames') /\ Seq(UpFrames) \subseteq Seq(UpFrames')
    BY <1>1, <1>2, <2>2, MoreFrames
  <2>6. LoopModes'
    BY <1>1, <2>3 DEF LoopModes, Bridge!LineWaits, Bridge!LoopWaits
  <2>7. LoopFrames'
    BY <1>1, <1>2, <2>3, <2>5 DEF LoopFrames, Bridge!Confirmed
  <2>8. LoopLink' /\ AcceptedInv'
    BY <1>1, <2>3, <2>5 DEF LoopLink, AcceptedInv
  <2>9. LoopTexts'
    <3>1. 0..texts \subseteq 0..texts'
      BY <1>2, <2>2
    <3>2. Seq(0..texts) \subseteq Seq(0..texts')
      BY <3>1, SeqMonotonic
    <3>3. QED
      BY <1>1, <2>2, <2>3, <2>4, <3>2 DEF LoopTexts
  <2>10. CallsInv'
    BY <1>1, <2>3, CallsKept
  <2>11. QED
    BY <1>1, <2>3, <2>5, <2>6, <2>7, <2>8, <2>9, <2>10 DEF BridgeTyped
<1>4. CASE Bridge!LLMError
  <2>1. /\ UNCHANGED <<down, out, attempt, pendingAcks, nextTxID, textOut, toolOpen, toolCalls, texts>>
        /\ Bridge!Leave(TRUE)
    BY <1>4 DEF Bridge!LLMError
  <2>2. CallsInv' /\ pc' = "leave"
    BY <1>1, <2>1, LeaveCalls
  <2>3. LoopModes'
    BY <1>1, <2>1, <2>2 DEF LoopModes
  <2>4. LoopFrames'
    BY <1>1, <2>1, <2>2, FramesKept DEF Bridge!Confirmed
  <2>5. LoopTexts' /\ LoopLink' /\ AcceptedInv'
    BY <1>1, <1>2, <2>1, <2>2, TextsKept, LinkKept
  <2>6. QED
    BY <1>1, <2>1, <2>2, <2>3, <2>4, <2>5, SameFrames DEF BridgeTyped
<1>5. CASE Bridge!LLMSilent \/ Bridge!LLMTool
  <2>1. /\ down' \in Seq(DownFrames) /\ pendingAcks' \in Seq(Nat) /\ nextTxID' \in Nat
        /\ attempt' \in 0..Attempts /\ out' \in DownFrames \cup {Bridge!None}
        /\ pc' \in {"execDrain", "semWait", "statusWait", "loop", "doneWait"}
        /\ pc' \in {"semWait", "statusWait", "doneWait"} => out' \in DownFrames
        /\ pc' = "execDrain" => out' \in DownFrames /\ out'.type = "EXEC"
        /\ toolOpen' \in BOOLEAN /\ toolCalls' \in 0..ToolCalls
        /\ UNCHANGED <<textOut, texts, ended, failed>>
    <3>1. CASE Bridge!LLMTool
      BY <3>1, LLMToolTyped
    <3>2. CASE Bridge!LLMSilent
      <4> DEFINE f == [type |-> "DONE", id |-> 0]
      <4>1. [f EXCEPT !.id = nextTxID] \in DownFrames
        BY <1>2, LLMFrames
      <4>2. Bridge!SendNew(f) /\ pc' = "doneWait"
            /\ UNCHANGED <<textOut, texts, toolOpen, toolCalls, ended, failed>>
        BY <3>2 DEF Bridge!LLMSilent
      <4> HIDE DEF f
      <4>3. toolOpen' \in BOOLEAN /\ toolCalls' \in 0..ToolCalls
        BY <4>2 DEF LoopTexts
      <4>4. QED
        BY <1>2, <4>1, <4>2, <4>3, SendNewTyped
    <3>3. QED
      BY <1>5, <3>1, <3>2
  <2>2. LoopModes'
    BY <1>1, <2>1 DEF LoopModes, Bridge!LineWaits, Bridge!LoopWaits
  <2>3. LoopFrames'
    BY <1>1, <2>1, SameFrames DEF LoopFrames, Bridge!Confirmed
  <2>4. LoopTexts'
    BY <1>1, <2>1 DEF LoopTexts
  <2>5. LoopLink' /\ AcceptedInv'
    BY <1>1, <2>1, LinkKept
  <2>6. CallsInv'
    BY <1>1, <2>1, CallsKept
  <2>7. QED
    BY <1>1, <2>1, <2>2, <2>3, <2>4, <2>5, <2>6, SameFrames DEF BridgeTyped
<1>6. QED
  BY <1>3, <1>4, <1>5 DEF Bridge!Complete

LEMMA OneMore ==
    ASSUME NEW a \in 0..1, NEW b \in 0..1, NEW c \in 0..1, NEW d \in 0..1, c = a \/ d = b
    PROVE  c + d <= a + b + 1
  OBVIOUS

LEMMA CallsCount ==
    ASSUME NEW e \in Nat, NEW w \in Nat, NEW a \in 0..1, NEW b \in 0..1, NEW c \in 0..1,
           NEW d \in 0..1, NEW n \in Nat, c + d <= a + b + 1, e + w + a + b <= n
    PROVE  e + w + c + d <= n + 1
  OBVIOUS

\* A message of the user: one call more.
LEMMA UserTyped ==
    ASSUME BridgeInv, Bridge!Arrive \/ Bridge!Overlap
    PROVE  BridgeTyped
<1> USE DEF BridgeInv, TypeInv, LoopInv, Bridge!flagVars, Bridge!chunkVars, Bridge!llmVars,
            Bridge!userVars, Bridge!ownerVars
<1>1. /\ UNCHANGED <<up, delivered, silent, pendingFrames, rxLastID, basicRunning, waitingTool,
                     completionDrain, promptChunks, prompted, resultChunks, textOut, toolOpen,
                     toolCalls, texts, forwarded, emitted, ended, failed>>
      /\ arrived < Messages /\ arrived' = arrived + 1
  BY DEF Bridge!Arrive, Bridge!Overlap
<1>2. /\ nextTxID \in Nat /\ pendingAcks \in Seq(Nat) /\ attempt \in 0..Attempts
      /\ out \in DownFrames \cup {Bridge!None} /\ arrived \in Nat /\ texts \in Nat
      /\ waiters \in Seq([n : 1..arrived, sent : BOOLEAN])
  BY DEF LoopLink, LoopModes, LoopFrames, LoopTexts, CallsInv
<1>3. /\ arrived' \in Nat /\ arrived <= arrived' /\ arrived' \in 0..Messages /\ arrived' \in 1..arrived'
  BY <1>1, <1>2, BoundsAssumption
<1>4. /\ Requests \subseteq Requests' /\ DownFrames \subseteq DownFrames'
      /\ UpFrames \subseteq UpFrames'
      /\ Seq(DownFrames) \subseteq Seq(DownFrames') /\ Seq(UpFrames) \subseteq Seq(UpFrames')
  BY <1>1, <1>2, <1>3, MoreFrames
<1>5. /\ [type |-> "MSG", n |-> arrived', id |-> nextTxID] \in Requests'
      /\ Requests' \subseteq DownFrames'
  BY <1>2, <1>3 DEF Requests, DownFrames
<1>6. Seq([n : 1..arrived, sent : BOOLEAN]) \subseteq Seq([n : 1..arrived', sent : BOOLEAN])
      /\ Seq(0..arrived) \subseteq Seq(0..arrived')
  <2>1. [n : 1..arrived, sent : BOOLEAN] \subseteq [n : 1..arrived', sent : BOOLEAN]
        /\ 0..arrived \subseteq 0..arrived'
    BY <1>2, <1>3
  <2>2. QED
    BY <2>1, SeqMonotonic
<1>7. /\ down' \in Seq(DownFrames') /\ pendingAcks' \in Seq(Nat) /\ nextTxID' \in Nat
      /\ attempt' \in 0..Attempts
      /\ \/ pc = "idle" /\ pc' = "msgWait" /\ out' \in DownFrames' /\ UNCHANGED <<waiters, overlap>>
         \/ /\ UNCHANGED <<pc, out, overlap>> /\ pc # "idle"
            /\ waiters' = Append(waiters, [n |-> arrived', sent |-> FALSE])
         \/ /\ UNCHANGED <<pc, out, waiters>> /\ overlap.id = 0 /\ pc \notin {"idle", "leave"}
            /\ overlap' \in Requests'
  <2>1. CASE Bridge!Arrive /\ pc = "idle"
    <3> DEFINE f == [type |-> "MSG", n |-> arrived', id |-> 0]
    <3>1. [f EXCEPT !.id = nextTxID] = [type |-> "MSG", n |-> arrived', id |-> nextTxID]
      OBVIOUS
    <3>2. [f EXCEPT !.id = nextTxID] \in DownFrames'
      BY <1>5, <3>1
    <3>3. Bridge!SendNew(f) /\ pc' = "msgWait" /\ UNCHANGED <<waiters, overlap>>
      BY <2>1 DEF Bridge!Arrive
    <3> HIDE DEF f
    <3>4. QED
      BY <1>2, <1>4, <2>1, <3>2, <3>3, SendNewTyped
  <2>2. CASE Bridge!Arrive /\ pc # "idle"
    BY <1>2, <1>4, <2>2 DEF Bridge!Arrive
  <2>3. CASE Bridge!Overlap
    <3>1. PICK frame \in Requests' : /\ Bridge!Send(frame) /\ overlap' = frame
                                     /\ overlap = Bridge!None /\ pc \notin {"idle", "leave"}
                                     /\ nextTxID' = nextTxID + 1
                                     /\ UNCHANGED <<pc, out, attempt, waiters>>
      BY <1>5, <2>3 DEF Bridge!Overlap
    <3>2. frame \in DownFrames' /\ overlap.id = 0
      BY <1>5, <3>1 DEF Bridge!None
    <3>3. down' \in Seq(DownFrames') /\ pendingAcks' \in Seq(Nat)
      BY <1>2, <1>4, <3>1, <3>2, SendTyped
    <3>4. QED
      BY <1>2, <3>1, <3>2, <3>3
  <2>4. QED
    BY <2>1, <2>2, <2>3
<1>8. LoopModes'
  <2>1. overlapAttempt' \in {overlapAttempt, 1} /\ 1 \in 0..Attempts
    BY BoundsAssumption DEF Bridge!Arrive, Bridge!Overlap
  <2>2. QED
    BY <1>1, <1>7, <2>1 DEF LoopModes, Bridge!LineWaits
<1>9. LoopFrames'
  <2>1. Bridge!None' = Bridge!None
    BY DEF Bridge!None
  <2>2. QED
    BY <1>4, <1>7, <2>1 DEF LoopFrames, Bridge!Confirmed
<1>10. LoopLink' /\ AcceptedInv'
  BY <1>1, <1>4, <1>7 DEF LoopLink, AcceptedInv
<1>11. LoopTexts'
  BY <1>1, <1>6, <1>7 DEF LoopTexts
<1>12. CallsInv'
  <2>1. waiters' \in Seq([n : 1..arrived', sent : BOOLEAN])
        /\ (waiters' = waiters \/ Len(waiters') = Len(waiters) + 1)
        /\ (waiters' # waiters => UNCHANGED <<pc, overlap>>)
    <3>1. CASE waiters' = Append(waiters, [n |-> arrived', sent |-> FALSE]) /\ UNCHANGED <<pc, overlap>>
      <4> DEFINE S == [n : 1..arrived', sent : BOOLEAN]
                 e == [n |-> arrived', sent |-> FALSE]
      <4>1. e \in S
        BY <1>3
      <4>2. waiters \in Seq(S)
        BY <1>2, <1>6
      <4>3. waiters' = Append(waiters, e)
        BY <3>1
      <4> HIDE DEF S, e
      <4>4. Append(waiters, e) \in Seq(S) /\ Len(Append(waiters, e)) = Len(waiters) + 1
        BY <4>1, <4>2, MembersAppend
      <4>5. waiters' \in Seq(S) /\ Len(waiters') = Len(waiters) + 1
        BY <4>3, <4>4
      <4>6. QED
        BY <3>1, <4>5 DEF S
    <3>2. CASE waiters' = waiters
      BY <1>2, <1>6, <3>2
    <3>3. QED
      BY <1>7, <3>1, <3>2
  <2>2. Owner' + Overlapping' <= Owner + Overlapping + 1 /\ Owner \in 0..1 /\ Overlapping \in 0..1
        /\ Owner' \in 0..1 /\ Overlapping' \in 0..1
    <3>1. Owner \in 0..1 /\ Overlapping \in 0..1 /\ Owner' \in 0..1 /\ Overlapping' \in 0..1
      BY DEF Owner, Overlapping
    <3>2. UNCHANGED overlap => Overlapping' = Overlapping
      BY DEF Overlapping
    <3>3. UNCHANGED pc => Owner' = Owner
      BY DEF Owner
    <3>4. UNCHANGED overlap \/ UNCHANGED pc
      BY <1>7
    <3>5. Owner' = Owner \/ Overlapping' = Overlapping
      BY <3>2, <3>3, <3>4
    <3>6. QED
      BY <3>1, <3>5, OneMore
  <2>3. waiters' # waiters => Owner' = Owner /\ Overlapping' = Overlapping
    BY <2>1 DEF Owner, Overlapping
  <2>4. Len(waiters) \in Nat
    BY <1>2
  <2>5. ended \in Nat /\ failed \in 0..ended /\ ended + Len(waiters) + Owner + Overlapping <= arrived
    BY DEF CallsInv
  <2>6. ended' + Len(waiters') + Owner' + Overlapping' <= arrived'
    <3>1. CASE waiters' = waiters
      <4>1. Len(waiters') = Len(waiters)
        BY <3>1
      <4>2. ended' = ended /\ arrived' = arrived + 1 /\ arrived \in Nat
        BY <1>1, <1>2
      <4>3. QED
        BY <2>2, <2>4, <2>5, <4>1, <4>2, CallsCount
    <3>2. CASE waiters' # waiters
      BY <1>1, <1>2, <2>1, <2>2, <2>3, <2>4, <2>5, <3>2
    <3>3. QED
      BY <3>1, <3>2
  <2>7. QED
    BY <1>1, <1>3, <2>1, <2>5, <2>6 DEF CallsInv
<1>13. QED
  BY <1>1, <1>4, <1>7, <1>8, <1>9, <1>10, <1>11, <1>12 DEF BridgeTyped

\* What the bridge may do to the agent's buffers: nothing but let more be meant by a
\* message or a text.
LEMMA AgentKept ==
    ASSUME TypeInv, UNCHANGED c64Vars,
           arrived \in Nat, texts \in Nat, arrived' \in Nat, texts' \in Nat,
           arrived <= arrived', texts <= texts'
    PROVE  AgentInv'
<1> USE DEF TypeInv, AgentInv, c64Vars
<1>1. /\ DownFrames \subseteq DownFrames' /\ UpFrames \subseteq UpFrames'
      /\ MessageBodies \subseteq MessageBodies'
  BY MoreFrames
<1>2. Seq(0..arrived) \subseteq Seq(0..arrived')
  <2>1. 0..arrived \subseteq 0..arrived'
    OBVIOUS
  <2>2. QED
    BY <2>1, SeqMonotonic
<1>3. C64!Nothing' = C64!Nothing
  BY DEF C64!Nothing
<1>4. AgentModes'
  BY DEF AgentModes
<1>5. AgentPending'
  BY DEF AgentPending
<1>6. AgentBuffers'
  BY <1>1, <1>2, <1>3 DEF AgentBuffers
<1>7. AgentLink'
  BY <1>1, <1>3 DEF AgentLink
<1>8. QED
  BY <1>4, <1>5, <1>6, <1>7

\* Messages and texts are only added.
LEMMA CountersGrow ==
    ASSUME arrived \in Nat, texts \in Nat, BridgeWork \/ UserWrites \/ BridgeTimers
    PROVE  arrived <= arrived' /\ texts <= texts'
<1> USE DEF Bridge!gateVars, Bridge!llmVars, Bridge!linkVars
<1>1. ASSUME NEW f, Bridge!Accept(f) PROVE UNCHANGED arrived
  BY <1>1 DEF Bridge!Accept
<1>2. ASSUME NEW f, Bridge!NextFrame(f) PROVE UNCHANGED arrived
  BY <1>1, <1>2 DEF Bridge!NextFrame
<1>3. \/ UNCHANGED <<arrived, texts>>
      \/ UNCHANGED texts /\ arrived' = arrived + 1
      \/ UNCHANGED arrived /\ \E n \in 1..TextChunks : texts' = texts + n
  <2>1. CASE Bridge!FlushAcks \/ Bridge!Timeout \/ Bridge!OverlapTimeout \/ Bridge!OverlapAcked
             \/ Bridge!HandOff \/ Bridge!DropStale \/ Bridge!StrayAck \/ Bridge!AckArrives
    BY <2>1 DEF Bridge!FlushAcks, Bridge!Timeout, Bridge!OverlapTimeout, Bridge!OverlapAcked,
       Bridge!HandOff, Bridge!DropStale, Bridge!StrayAck, Bridge!AckArrives
  <2>2. CASE Bridge!WaitReceives \/ Bridge!DrainReceives \/ Bridge!DrainEnds \/ Bridge!GraceEnds
    BY <1>1, <2>2 DEF Bridge!WaitReceives, Bridge!DrainReceives, Bridge!DrainEnds,
       Bridge!GraceEnds
  <2>3. CASE Bridge!Loop
    <3>1. UNCHANGED arrived
      BY <1>2, <2>3 DEF Bridge!Loop
    <3>2. UNCHANGED texts
      BY <2>3 DEF Bridge!Loop, Bridge!LoopHandsOver, Bridge!LoopTakes
    <3>3. QED
      BY <3>1, <3>2
  <2>4. CASE Bridge!TrailingDrain
    BY <1>2, <2>4 DEF Bridge!TrailingDrain
  <2>5. CASE Bridge!Complete
    <3>1. UNCHANGED arrived
      BY <2>5 DEF Bridge!Complete
    <3>2. UNCHANGED texts \/ \E n \in 1..TextChunks : texts' = texts + n
      BY <2>5 DEF Bridge!Complete, Bridge!LLMError, Bridge!LLMSilent, Bridge!LLMText,
         Bridge!LLMTool
    <3>3. QED
      BY <3>1, <3>2
  <2>6. CASE UserWrites
    BY <2>6 DEF UserWrites, Bridge!Arrive, Bridge!Overlap
  <2>7. QED
    BY <2>1, <2>2, <2>3, <2>4, <2>5, <2>6
       DEF BridgeWork, Bridge!Work, BridgeTimers, Bridge!Timers
<1>4. QED
  BY <1>3, BoundsAssumption

LEMMA LoopKept ==
    ASSUME BridgeInv, UNCHANGED bridgeVars
    PROVE  LoopInv' /\ CallsInv' /\ AcceptedInv'
<1> USE DEF BridgeInv, TypeInv, LoopInv, bridgeVars
<1>1. LoopModes'
  BY DEF LoopModes
<1>2. LoopFrames' /\ LoopTexts' /\ CallsInv'
  BY FramesKept, TextsKept, CallsKept
<1>3. LoopLink' /\ AcceptedInv'
  BY LinkKept DEF LoopLink
<1>4. QED
  BY <1>1, <1>2, <1>3

LEMMA InitBridgeInv == Init => BridgeInv
<1> SUFFICES ASSUME Init PROVE BridgeInv
  OBVIOUS
<1> USE DEF Init, C64!Init, Bridge!Init
<1>0. /\ 0 \in 0..PromptChunks /\ 0 \in 0..ResultChunks /\ 0 \in 0..Keys /\ 0 \in 0..Retries
      /\ 0 \in 0..Attempts /\ 0 \in 0..ToolCalls /\ 0 <= QueueSlots /\ 0 \in Nat /\ 1 \in Nat
      /\ FALSE \in BOOLEAN
  BY Sizes, BoundsAssumption
<1>1. AgentInv
  <2>1. AgentModes
    BY DEF AgentModes
  <2>2. AgentPending
    BY <1>0, Zenon DEF AgentPending
  <2>3. AgentBuffers
    <3>1. C64!NoBody \in MessageBodies
      BY DEF C64!NoBody, MessageBodies
    <3>2. <<>> \in Seq(0..arrived) /\ Len(<<>>) = 0
      OBVIOUS
    <3>3. QED
      BY <1>0, <3>1, <3>2, NothingFields, Zenon DEF AgentBuffers
  <2>4. AgentLink
    BY <1>0, Zenon DEF AgentLink
  <2>5. QED
    BY <2>1, <2>2, <2>3, <2>4 DEF AgentInv
<1>2. LoopInv
  <2>1. LoopModes
    BY <1>0, Zenon DEF LoopModes
  <2>2. LoopFrames
    BY DEF LoopFrames, Bridge!Confirmed
  <2>3. LoopLink
    BY NoMembers DEF LoopLink
  <2>4. LoopTexts
    BY <1>0, NoMembers, Zenon DEF LoopTexts
  <2>5. QED
    BY <2>1, <2>2, <2>3, <2>4 DEF LoopInv
<1>3. CallsInv
  <2>1. Owner = 0 /\ Overlapping = 0
    BY DEF Owner, Overlapping, Bridge!None
  <2>2. Len(waiters) = 0 /\ waiters \in Seq([n : 1..arrived, sent : BOOLEAN])
    BY NoMembers
  <2>3. QED
    BY <2>1, <2>2, BoundsAssumption DEF CallsInv
<1>4. AcceptedInv
  BY NoMembers DEF AcceptedInv
<1>5. down \in Seq(DownFrames) /\ up \in Seq(UpFrames) /\ heartbeats \in 0..Heartbeats
      /\ early \in 0..EarlyTimeouts
  BY NoMembers, HeartbeatsAssumption, EarlyTimeoutsAssumption
<1>6. QED
  BY <1>1, <1>2, <1>3, <1>4, <1>5 DEF BridgeInv, TypeInv

\* No more timers run out early than the bound says.
LEMMA EarlyCounted == early \in 0..EarlyTimeouts /\ [Next]_vars => early' \in 0..EarlyTimeouts
<1> SUFFICES ASSUME early \in 0..EarlyTimeouts, [Next]_vars
             PROVE  early' \in 0..EarlyTimeouts
  OBVIOUS
<1>1. UNCHANGED early \/ (early < EarlyTimeouts /\ early' = early + 1)
  <2>1. CASE BridgeTimers \/ C64Timer
    BY <2>1 DEF BridgeTimers, C64Timer, Counted
  <2>2. CASE ~(BridgeTimers \/ C64Timer)
    BY <2>2 DEF Next, vars, C64Work, ProgramEnds, ProgramTakesLong, Heartbeat, BridgeWork,
       UserWrites
  <2>3. QED
    BY <2>1, <2>2
<1>2. QED
  BY <1>1, EarlyTimeoutsAssumption

\* Every step of the C64 and every step of the bridge keeps the types.
LEMMA StepBridgeInv == BridgeInv /\ [Next]_vars => BridgeInv'
<1> SUFFICES ASSUME BridgeInv, [Next]_vars
             PROVE  BridgeInv'
  OBVIOUS
<1>0. early' \in 0..EarlyTimeouts
  BY EarlyCounted DEF BridgeInv, TypeInv
<1>1. C64Typed /\ arrived \in Nat /\ texts \in Nat /\ heartbeats \in 0..Heartbeats
  BY BoundsAssumption DEF BridgeInv, TypeInv, CallsInv, LoopInv, LoopTexts, C64Typed
<1>2. ASSUME UNCHANGED bridgeVars, heartbeats' \in 0..Heartbeats,
             UNCHANGED <<arrived, texts>> => AgentTyped
      PROVE  BridgeInv'
  <2>1. UNCHANGED <<arrived, texts>>
    BY <1>2 DEF bridgeVars
  <2>2. QED
    BY <1>0, <1>2, <2>1, LoopKept DEF BridgeInv, TypeInv, AgentTyped
<1>3. CASE C64Work \/ C64Timer
  <2>1. UNCHANGED bridgeVars /\ UNCHANGED heartbeats
    BY <1>3 DEF C64Work, C64Timer
  <2>2. ASSUME UNCHANGED <<arrived, texts>> PROVE AgentTyped
    BY <1>1, <1>3, <2>2, ServiceTyped, DispatchTyped, BasicTyped, AckTimeoutTyped
       DEF C64Work, C64!Work, C64Timer
  <2>3. QED
    BY <1>1, <1>2, <2>1, <2>2
<1>4. CASE ProgramEnds \/ ProgramTakesLong
  <2>1. UNCHANGED bridgeVars /\ UNCHANGED heartbeats
    BY <1>4 DEF ProgramEnds, ProgramTakesLong
  <2>2. ASSUME UNCHANGED <<arrived, texts>> PROVE AgentTyped
    BY <1>1, <1>4, <2>2, BasicTyped DEF ProgramEnds, ProgramTakesLong
  <2>3. QED
    BY <1>1, <1>2, <2>1, <2>2
<1>5. CASE Heartbeat
  <2>1. UNCHANGED bridgeVars /\ heartbeats' \in 0..Heartbeats
    BY <1>1, <1>5, HeartbeatsAssumption DEF Heartbeat
  <2>2. ASSUME UNCHANGED <<arrived, texts>> PROVE AgentTyped
    BY <1>1, <1>5, <2>2, BasicTyped DEF Heartbeat
  <2>3. QED
    BY <1>2, <2>1, <2>2
<1>6. CASE BridgeWork \/ UserWrites \/ BridgeTimers
  <2>1. UNCHANGED c64Vars /\ UNCHANGED heartbeats
    BY <1>6 DEF BridgeWork, UserWrites, BridgeTimers
  <2>2. BridgeTyped
    <3>1. CASE Bridge!Work
      BY <3>1, FlushAcksTyped, OverlapAckedTyped,
         HandOffTyped, DropStaleTyped, AckStepsTyped, WaitReceivesTyped, DrainReceivesTyped,
         DrainEndsTyped, LoopTyped, GraceEndsTyped, TrailingDrainTyped, CompleteTyped
         DEF Bridge!Work
    <3>2. CASE UserWrites
      BY <3>2, UserTyped DEF UserWrites
    <3>3. CASE BridgeTimers
      BY <3>3, TimeoutTyped, OverlapTimeoutTyped DEF BridgeTimers, Bridge!Timers
    <3>4. QED
      BY <1>6, <3>1, <3>2, <3>3 DEF BridgeWork
  <2>3. AgentInv'
    <3>1. arrived' \in Nat /\ texts' \in Nat
      BY <2>2, BoundsAssumption DEF BridgeTyped, CallsInv, LoopInv, LoopTexts
    <3>2. arrived <= arrived' /\ texts <= texts'
      BY <1>1, <1>6, CountersGrow
    <3>3. QED
      BY <1>1, <2>1, <3>1, <3>2, AgentKept DEF BridgeInv
  <2>4. QED
    BY <1>0, <1>1, <2>1, <2>2, <2>3 DEF BridgeTyped, BridgeInv, TypeInv
<1>7. CASE UNCHANGED vars
  <2>1. UNCHANGED <<down, up, c64Vars, bridgeVars, heartbeats>>
    BY <1>7 DEF vars
  <2>2. UNCHANGED <<arrived, texts>>
    BY <2>1 DEF bridgeVars
  <2>3. AgentInv' /\ LoopInv' /\ CallsInv' /\ AcceptedInv'
    BY <1>1, <2>1, <2>2, AgentKept, LoopKept DEF BridgeInv
  <2>4. QED
    BY <1>0, <2>1, <2>2, <2>3, SameFrames DEF BridgeInv, TypeInv
<1>8. QED
  BY <1>3, <1>4, <1>5, <1>6, <1>7 DEF Next

\* The types of the lines, of the C64 and of the bridge, with what the bridge keeps to
\* send again and the calls that are counted.
THEOREM SessionTypeCorrect == Spec => []TypeOK
<1>1. BridgeInv => TypeOK
  <2> SUFFICES ASSUME BridgeInv PROVE TypeOK
    OBVIOUS
  <2> USE DEF BridgeInv, TypeInv, AgentInv, LoopInv
  <2>1. C64!TypeOK
    <3>1. exec_buf.id \in Nat /\ send_buf.id \in Nat
      BY BufferFields
    <3>2. rxbuf.msg \in Nat /\ userq \in Seq(Nat)
      <4>1. arrived \in Nat
        BY DEF CallsInv
      <4>2. 0..arrived \subseteq Nat
        BY <4>1
      <4>3. Seq(0..arrived) \subseteq Seq(Nat)
        BY <4>2, SeqMonotonic
      <4>4. QED
        BY <4>1, <4>3 DEF AgentBuffers, MessageBodies
    <3>3. {basic_running, running_reported, stop_requested, busy, prompt_sent, text_pending,
           deferred_ack, progline_pending, tick_overwritten, ack_pending, tx_ack_wait, ready}
              \subseteq BOOLEAN
      BY Zenon DEF AgentModes, AgentPending, AgentBuffers, AgentLink
    <3>4. {ack_id, rx_last_id, tx_next_id, exec_buf.id, send_buf.id, rxbuf.msg} \subseteq Nat
      BY <3>1, <3>2, Zenon DEF AgentLink
    <3>5. state_pending \in {"none", "READY", "RUNNING", "BUSY", "STORED", "STOP REQUESTED"}
      BY DEF AgentPending, StatusTexts
    <3>6. QED
      BY <3>2, <3>3, <3>4, <3>5, Zenon
         DEF C64!TypeOK, AgentModes, AgentPending, AgentBuffers, AgentLink
  <2>2. Bridge!TypeOK
    <3>1. arrived \in 0..Messages /\ ended \in 0..arrived /\ failed \in 0..ended
      <4>1. Owner \in 0..1 /\ Overlapping \in 0..1 /\ Len(waiters) \in Nat
        BY DEF Owner, Overlapping, CallsInv
      <4>2. QED
        BY <4>1 DEF CallsInv
    <3>2. waiters \in Seq([n : 1..Messages, sent : BOOLEAN])
      <4>1. [n : 1..arrived, sent : BOOLEAN] \subseteq [n : 1..Messages, sent : BOOLEAN]
        BY <3>1, BoundsAssumption
      <4>2. QED
        BY <4>1, SeqMonotonic DEF CallsInv
    <3>3. \A i \in 1..Len(pendingFrames) :
              Bridge!IsAck(pendingFrames[i]) \/ pendingFrames[i].id <= rxLastID
      BY Members DEF AcceptedInv, LoopLink, Bridge!IsAck
    <3>4. out.id \in Nat /\ overlap.id \in Nat
      BY DownFields DEF LoopFrames, Bridge!None, Requests
    <3>5. QED
      BY <3>1, <3>2, <3>3, <3>4 DEF Bridge!TypeOK, LoopModes, LoopLink, LoopTexts
  <2>3. \A i \in 1..Len(down) : down[i].type \in
            {"MSG", "EXEC", "STOP", "TEXT", "DONE", "SCREENSHOT", "STATUSQ", "ACK"}
    BY DownFields
  <2>4. \A i \in 1..Len(up) : up[i].type \in
            {"ACK", "STATUS", "SYSTEM", "RESULT", "LLM", "USER"}
    BY UpFields
  <2>5. QED
    BY <2>1, <2>2, <2>3, <2>4 DEF TypeOK
<1>2. QED
  BY <1>1, InitBridgeInv, StepBridgeInv, PTL DEF Spec

-----------------------------------------------------------------------------
(* Where the texts go *)

\* The numbers that are compared are numbers.
LEMMA TextNumbers ==
    ASSUME BridgeInv
    PROVE  /\ \A f \in TextFrames : f.id \in Nat /\ f.n \in Nat /\ f.n > 0 /\ f.n <= texts
           /\ \A f \in UserFrames \cup LeftFrames : f.id \in Nat /\ f.n \in Nat /\ f.n <= texts
           /\ \A n \in Back : n \in Nat /\ n <= texts
           /\ Bridge!ToSet(emitted) \subseteq Back
           /\ exec_buf.n \in Nat /\ exec_buf.n <= texts /\ texts \in Nat
           /\ Len(textOut) \in Nat /\ \A i \in 1..Len(textOut) : textOut[i] \in Nat
           /\ nextTxID \in Nat /\ tx_next_id \in Nat /\ rx_last_id \in Nat /\ rxLastID \in Nat
<1> USE DEF BridgeInv, TypeInv, AgentInv, LoopInv
<1>1. texts \in Nat /\ nextTxID \in Nat /\ tx_next_id \in Nat /\ rx_last_id \in Nat /\ rxLastID \in Nat
  BY DEF LoopTexts, LoopLink, AgentLink
<1>2. ASSUME NEW f \in TextFrames PROVE f.id \in Nat /\ f.n \in Nat /\ f.n > 0 /\ f.n <= texts
  <2>1. f \in Bridge!ToSet(down) \cup {out} /\ f.type = "TEXT"
    BY DEF TextFrames
  <2>2. f \in DownFrames
    BY <2>1, Members DEF LoopFrames, Bridge!None
  <2>3. f.id \in Nat /\ f.n \in 1..texts
    BY <2>1, <2>2, DownFields
  <2>4. QED
    BY <1>1, <2>3
<1>3. ASSUME NEW f \in UserFrames \cup LeftFrames PROVE f.id \in Nat /\ f.n \in Nat /\ f.n <= texts
  <2>1. f \in Bridge!ToSet(up) \cup {send_buf} \cup Bridge!ToSet(pendingFrames) /\ f.type = "USER"
    BY DEF UserFrames, LeftFrames
  <2>2. f \in UpFrames
    BY <2>1, Members, NothingFields DEF LoopLink, AgentLink
  <2>3. f.id \in Nat /\ f.n \in 0..texts
    BY <2>1, <2>2, UpFields
  <2>4. QED
    BY <1>1, <2>3
<1>4. Bridge!ToSet(emitted) \subseteq 0..texts
  BY Members DEF LoopTexts
<1>5. \A n \in Back : n \in Nat /\ n <= texts
  BY <1>1, <1>3, <1>4 DEF Back
<1>6. exec_buf.n \in 0..texts
  BY <1>1, BufferFields
<1>7. Len(textOut) \in Nat /\ \A i \in 1..Len(textOut) : textOut[i] \in 1..texts
  BY DEF LoopTexts
<1>8. QED
  BY <1>1, <1>2, <1>3, <1>5, <1>6, <1>7 DEF Back

\* Fewer frames, and ids that grow, keep the order.
LEMMA OrderKept ==
    ASSUME BridgeInv, TextsInOrder, TextFrames' \subseteq TextFrames,
           nextTxID' \in Nat, nextTxID <= nextTxID', UNCHANGED textOut
    PROVE  TextsInOrder'
<1>1. \A f \in TextFrames' : f.id < nextTxID'
  BY TextNumbers DEF TextsInOrder
<1>2. QED
  BY <1>1 DEF TextsInOrder

LEMMA NewerKept ==
    ASSUME BridgeInv, NewerToCome, TextFrames' \subseteq TextFrames, Back' \subseteq Back,
           rx_last_id' \in Nat, rx_last_id <= rx_last_id',
           UNCHANGED <<textOut, exec_buf>>, text_pending' => text_pending
    PROVE  NewerToCome'
<1>1. \A f \in TextFrames' : f.id > rx_last_id' => f.id > rx_last_id
  BY TextNumbers
<1>2. QED
  BY <1>1 DEF NewerToCome

LEMMA OneFrameKept ==
    ASSUME BridgeInv, OneFrame, UserFrames' \subseteq UserFrames,
           LeftFrames' \subseteq UserFrames \cup LeftFrames,
           tx_next_id' \in Nat, tx_next_id <= tx_next_id', rxLastID' \in Nat, rxLastID <= rxLastID',
           UNCHANGED emitted
    PROVE  OneFrame'
<1>1. UserFrames' \cup LeftFrames' \subseteq UserFrames \cup LeftFrames
  OBVIOUS
<1>2. \A f \in UserFrames' \cup LeftFrames' : f.id < tx_next_id'
  BY <1>1, TextNumbers DEF OneFrame
<1>3. \A f \in UserFrames' : f.id > rxLastID' => f.id > rxLastID
  BY TextNumbers
<1>4. QED
  BY <1>1, <1>2, <1>3 DEF OneFrame

LEMMA OnePlaceKept ==
    ASSUME OnePlace, UNCHANGED <<pendingFrames, emitted>>
    PROVE  OnePlace'
  BY DEF OnePlace, LeftFrames, ShownOnce, Bridge!ShownOnce

LEMMA BackShrinks ==
    ASSUME UserFrames' \cup LeftFrames' \subseteq UserFrames \cup LeftFrames, UNCHANGED emitted
    PROVE  Back' \subseteq Back
  BY DEF Back

-----------------------------------------------------------------------------
(* Texts: the C64 *)

\* A step that takes frames from the line, sends ACKs or repeats its last frame.
LEMMA AgentQuiet ==
    ASSUME BridgeInv, TextInv, UNCHANGED bridgeVars,
           Bridge!ToSet(down') \subseteq Bridge!ToSet(down),
           \A g \in Bridge!ToSet(up') : g \in Bridge!ToSet(up) \/ g.type = "ACK" \/ g = send_buf,
           UNCHANGED <<send_buf, exec_buf, tx_next_id>>,
           rx_last_id' \in Nat, rx_last_id <= rx_last_id', text_pending' => text_pending
    PROVE  TextInv'
<1> USE DEF TextInv
<1>1. UNCHANGED <<out, pendingFrames, emitted, textOut, nextTxID, rxLastID>>
  BY DEF bridgeVars
<1>2. TextFrames' \subseteq TextFrames
  BY <1>1 DEF TextFrames
<1>3. UserFrames' \subseteq UserFrames
  BY DEF UserFrames
<1>4. LeftFrames' = LeftFrames
  BY <1>1 DEF LeftFrames
<1>5. Back' \subseteq Back
  BY <1>1, <1>3, <1>4, BackShrinks
<1>6. nextTxID \in Nat /\ tx_next_id \in Nat /\ rxLastID \in Nat
  BY TextNumbers
<1>7. TextsInOrder'
  BY <1>1, <1>2, <1>6, OrderKept
<1>8. NewerToCome'
  BY <1>1, <1>2, <1>5, NewerKept
<1>9. OneFrame'
  BY <1>1, <1>3, <1>4, <1>6, OneFrameKept
<1>10. OnePlace' /\ AcceptedInv'
  BY <1>1, OnePlaceKept DEF AcceptedInv
<1>11. QED
  BY <1>7, <1>8, <1>9, <1>10

\* The next frame: a USER frame takes its text from exec_buf, and it is newer than
\* every text that is back.
LEMMA BuildTexts ==
    ASSUME BridgeInv, TextInv, UNCHANGED bridgeVars, NEW acks \in Seq(Acks), C64!Build(acks),
           UNCHANGED <<down, exec_buf, rx_last_id>>
    PROVE  TextInv'
<1> USE DEF TextInv
<1> DEFINE kind == C64!NextKind
           frame == C64!Frame(kind)
<1>1. /\ kind # "none" /\ up' = up \o acks \o <<frame>> /\ send_buf' = frame
      /\ tx_next_id' = tx_next_id + 1 /\ text_pending' = (text_pending /\ kind # "USER")
  BY DEF C64!Build
<1>2. /\ kind \in {"STATUS", "SYSTEM", "RESULT", "LLM", "USER"}
      /\ kind = "USER" => text_pending
  BY <1>1 DEF C64!NextKind
<1>3. /\ frame.type = kind /\ frame.id = tx_next_id
      /\ kind = "USER" => frame.n = exec_buf.n
  BY <1>2 DEF C64!Frame
<1>4. frame \in UpFrames
  BY <1>1, FrameTyped DEF BridgeInv, TypeInv, CallsInv, LoopInv, LoopTexts
<1> HIDE DEF kind, frame
<1>5. \A g \in Bridge!ToSet(up') : g \in Bridge!ToSet(up) \/ g.type = "ACK" \/ g = frame
  <2>1. \A g \in Bridge!ToSet(up \o acks \o <<frame>>) :
            g \in Bridge!ToSet(up) \/ g.type = "ACK" \/ g = frame
    BY <1>4, AcksAreFrames, FrameAdded DEF BridgeInv, TypeInv
  <2>2. QED
    BY <1>1, <2>1
<1>6. UNCHANGED <<out, pendingFrames, emitted, textOut, nextTxID, rxLastID>>
  BY DEF bridgeVars
<1>7. TextFrames' = TextFrames /\ LeftFrames' = LeftFrames
  BY <1>6 DEF TextFrames, LeftFrames
<1>8. \A g \in UserFrames' : g \in UserFrames \/ (g = frame /\ kind = "USER")
  BY <1>1, <1>3, <1>5 DEF UserFrames
<1>9. \A n \in Back' : n \in Back \/ (n = exec_buf.n /\ kind = "USER")
  BY <1>3, <1>6, <1>7, <1>8 DEF Back
<1>10. /\ nextTxID \in Nat /\ tx_next_id \in Nat /\ rxLastID \in Nat
       /\ tx_next_id' \in Nat /\ tx_next_id <= tx_next_id'
  BY <1>1, TextNumbers
<1>11. TextsInOrder'
  BY <1>6, <1>7, <1>10, OrderKept
<1>12. NewerToCome'
  <2>1. text_pending' /\ exec_buf'.n # 0 => \A n \in Back' : exec_buf'.n > n
    BY <1>1, <1>9 DEF NewerToCome
  <2>2. QED
    BY <1>6, <1>7, <1>9, <2>1 DEF NewerToCome
<1>13. kind = "USER" /\ exec_buf.n # 0 => \A n \in Back : exec_buf.n > n
  BY <1>2 DEF NewerToCome
<1>14. kind = "USER" /\ exec_buf.n # 0 => exec_buf.n \notin Back
  BY <1>13, TextNumbers
<1>15. OneFrame'
  <2>1. \A f \in UserFrames' \cup LeftFrames' : f.id < tx_next_id'
    <3>1. \A f \in UserFrames \cup LeftFrames : f.id \in Nat /\ f.id < tx_next_id
      BY TextNumbers DEF OneFrame
    <3>2. QED
      BY <1>1, <1>3, <1>7, <1>8, <1>10, <3>1
  <2>2. \A f \in UserFrames \cup LeftFrames : f.n \in Back
    BY DEF Back
  <2>3. \A f, g \in UserFrames' \cup LeftFrames' : f.n = g.n /\ f.n # 0 => f.id = g.id
    BY <1>3, <1>7, <1>8, <1>14, <2>2 DEF OneFrame
  <2>4. \A f \in UserFrames' : f.id > rxLastID' /\ f.n # 0 => f.n \notin Bridge!ToSet(emitted')
    <3>1. Bridge!ToSet(emitted) \subseteq Back
      BY DEF Back
    <3>2. QED
      BY <1>3, <1>6, <1>8, <1>14, <3>1 DEF OneFrame
  <2>5. QED
    BY <2>1, <2>3, <2>4 DEF OneFrame
<1>16. OnePlace' /\ AcceptedInv'
  BY <1>6, OnePlaceKept DEF AcceptedInv
<1>17. QED
  BY <1>11, <1>12, <1>15, <1>16

\* ACKs alone on the line to the bridge.
LEMMA AcksQuiet ==
    ASSUME BridgeInv, up' = up \o C64!AcksDue
    PROVE  \A g \in Bridge!ToSet(up') : g \in Bridge!ToSet(up) \/ g.type = "ACK"
<1>1. C64!AcksDue \in Seq(Acks)
  BY AcksDueTyped DEF BridgeInv, TypeInv
<1>2. \A g \in Bridge!ToSet(up \o C64!AcksDue) : g \in Bridge!ToSet(up) \/ g.type = "ACK"
  BY <1>1, AcksAreFrames, AcksAdded DEF BridgeInv, TypeInv
<1>3. QED
  BY <1>2

LEMMA SendingTexts ==
    ASSUME BridgeInv, TextInv, UNCHANGED bridgeVars,
           C64!ServiceReleasesQueue \/ C64!Service \/ C64!AckTimeout
    PROVE  TextInv'
<1>1. UNCHANGED <<down, exec_buf, rx_last_id>> /\ rx_last_id \in Nat
  BY TextNumbers DEF C64!ServiceReleasesQueue, C64!Service, C64!AckTimeout, C64!bufferVars
<1>2. C64!AcksDue \in Seq(Acks)
  BY AcksDueTyped DEF BridgeInv, TypeInv
<1>3. CASE C64!Build(C64!AcksDue)
  BY <1>1, <1>2, <1>3, BuildTexts
<1>4. CASE ~C64!Build(C64!AcksDue) /\ up' = up \o C64!AcksDue
  <2>1. UNCHANGED <<send_buf, tx_next_id>> /\ (text_pending' => text_pending)
    BY <1>4 DEF C64!ServiceReleasesQueue, C64!Service, C64!AckTimeout, C64!txVars, C64!pendingVars
  <2>2. QED
    BY <1>1, <1>4, <2>1, AcksQuiet, AgentQuiet
<1>5. CASE ~C64!Build(C64!AcksDue) /\ ~C64!GivesUp /\ C64!AckTimeout
  <2>1. /\ UNCHANGED <<send_buf, tx_next_id, text_pending>>
        /\ up' = up \o C64!AcksDue \o <<send_buf>> /\ tx_ack_wait
    BY <1>5 DEF C64!AckTimeout, C64!pendingVars
  <2>2. send_buf \in UpFrames
    BY <2>1 DEF BridgeInv, TypeInv, AgentInv, AgentLink
  <2>3. \A g \in Bridge!ToSet(up \o C64!AcksDue \o <<send_buf>>) :
            g \in Bridge!ToSet(up) \/ g.type = "ACK" \/ g = send_buf
    BY <1>2, <2>2, AcksAreFrames, FrameAdded DEF BridgeInv, TypeInv
  <2>4. QED
    BY <1>1, <2>1, <2>3, AgentQuiet
<1>6. QED
  BY <1>3, <1>4, <1>5 DEF C64!ServiceReleasesQueue, C64!Service, C64!AckTimeout

\* A TEXT is taken: it is newer than all that were taken before.
LEMMA TakeTextTexts ==
    ASSUME BridgeInv, TextInv, UNCHANGED bridgeVars, UNCHANGED up,
           Bridge!ToSet(down') \subseteq Bridge!ToSet(down),
           NEW f \in Bridge!ToSet(down), C64!TakeText(f), exec_buf' # exec_buf
    PROVE  TextInv'
<1> USE DEF TextInv
<1>1. /\ f.type = "TEXT" /\ f.id > rx_last_id /\ rx_last_id' = f.id /\ exec_buf' = f
      /\ UNCHANGED <<send_buf, tx_next_id>>
  BY DEF C64!TakeText, C64!Accept
<1>2. UNCHANGED <<out, pendingFrames, emitted, textOut, nextTxID, rxLastID>>
  BY DEF bridgeVars
<1>3. f \in TextFrames
  BY <1>1 DEF TextFrames
<1>4. TextFrames' \subseteq TextFrames
  BY <1>2 DEF TextFrames
<1>5. UserFrames' = UserFrames /\ LeftFrames' = LeftFrames
  BY <1>1, <1>2 DEF UserFrames, LeftFrames
<1>6. Back' = Back
  BY <1>2, <1>5 DEF Back
<1>7. nextTxID \in Nat /\ tx_next_id \in Nat /\ rxLastID \in Nat
  BY TextNumbers
<1>8. TextsInOrder'
  BY <1>2, <1>4, <1>7, OrderKept
<1>9. \A n \in Back : f.n > n
  BY <1>1, <1>3 DEF NewerToCome
<1>10. NewerToCome'
  <2>1. ASSUME NEW g \in TextFrames', g.id > rx_last_id'
        PROVE  g.n > exec_buf'.n /\ \A n \in Back' : g.n > n
    <3>1. g \in TextFrames /\ g.id > f.id /\ g.n > f.n
      BY <1>1, <1>3, <1>4, <2>1, TextNumbers DEF TextsInOrder
    <3>2. g.n \in Nat /\ f.n \in Nat /\ \A n \in Back : n \in Nat
      BY <1>3, <3>1, TextNumbers
    <3>3. QED
      BY <1>1, <1>6, <1>9, <3>1, <3>2
  <2>2. \A i \in 1..Len(textOut) : textOut[i] > f.n
    BY <1>3, TextNumbers DEF TextsInOrder
  <2>3. \A i \in 1..Len(textOut') :
            textOut'[i] > exec_buf'.n /\ \A n \in Back' : textOut'[i] > n
    BY <1>1, <1>2, <1>6, <2>2 DEF NewerToCome
  <2>4. QED
    BY <1>1, <1>6, <1>9, <2>1, <2>3 DEF NewerToCome
<1>11. OneFrame'
  BY <1>1, <1>2, <1>5, <1>7, OneFrameKept
<1>12. OnePlace' /\ AcceptedInv'
  BY <1>2, OnePlaceKept DEF AcceptedInv
<1>13. QED
  BY <1>8, <1>10, <1>11, <1>12

\* A command in exec_buf is no text.
LEMMA TakeExecTexts ==
    ASSUME BridgeInv, TextInv, UNCHANGED bridgeVars, UNCHANGED up,
           Bridge!ToSet(down') \subseteq Bridge!ToSet(down),
           NEW f \in Bridge!ToSet(down), C64!TakeExec(f), exec_buf' # exec_buf
    PROVE  TextInv'
<1> USE DEF TextInv
<1>1. /\ f.type = "EXEC" /\ f.id > rx_last_id /\ rx_last_id' = f.id /\ exec_buf' = f
      /\ UNCHANGED <<send_buf, tx_next_id>>
  BY DEF C64!TakeExec, C64!Accept
<1>2. UNCHANGED <<out, pendingFrames, emitted, textOut, nextTxID, rxLastID>>
  BY DEF bridgeVars
<1>3. f.n = 0 /\ f.id \in Nat
  BY <1>1, Members, DownFields DEF BridgeInv, TypeInv
<1>4. TextFrames' \subseteq TextFrames
  BY <1>2 DEF TextFrames
<1>5. UserFrames' = UserFrames /\ LeftFrames' = LeftFrames
  BY <1>1, <1>2 DEF UserFrames, LeftFrames
<1>6. Back' = Back
  BY <1>2, <1>5 DEF Back
<1>7. nextTxID \in Nat /\ tx_next_id \in Nat /\ rxLastID \in Nat
  BY TextNumbers
<1>8. TextsInOrder'
  BY <1>2, <1>4, <1>7, OrderKept
<1>9. NewerToCome'
  <2>1. ASSUME NEW g \in TextFrames', g.id > rx_last_id'
        PROVE  g.n > exec_buf'.n /\ \A n \in Back' : g.n > n
    BY <1>1, <1>3, <1>4, <1>6, <2>1, TextNumbers DEF NewerToCome
  <2>2. \A i \in 1..Len(textOut') :
            textOut'[i] > exec_buf'.n /\ \A n \in Back' : textOut'[i] > n
    <3>1. \A i \in 1..Len(textOut) : textOut[i] > exec_buf.n
      BY DEF NewerToCome
    <3>2. \A i \in 1..Len(textOut) : textOut[i] > 0
      BY <3>1, TextNumbers
    <3>3. QED
      BY <1>1, <1>2, <1>3, <1>6, <3>2 DEF NewerToCome
  <2>3. QED
    BY <1>1, <1>3, <2>1, <2>2 DEF NewerToCome
<1>10. OneFrame'
  BY <1>1, <1>2, <1>5, <1>7, OneFrameKept
<1>11. OnePlace' /\ AcceptedInv'
  BY <1>2, OnePlaceKept DEF AcceptedInv
<1>12. QED
  BY <1>8, <1>9, <1>10, <1>11

LEMMA DispatchTexts ==
    ASSUME BridgeInv, TextInv, UNCHANGED bridgeVars, C64!Dispatch
    PROVE  TextInv'
<1>1. /\ Head(down) \in DownFrames /\ Head(down) \in Bridge!ToSet(down)
      /\ Bridge!ToSet(Tail(down)) \subseteq Bridge!ToSet(down)
  BY MembersTail DEF C64!Dispatch, BridgeInv, TypeInv
<1>2. PICK f \in Bridge!ToSet(down) :
         /\ f \in DownFrames
         /\ \/ C64!TakeAck(f) \/ C64!TakeStatusReq(f) \/ C64!TakeStale(f)
            \/ C64!TakeMsg(f) \/ C64!TakeDone(f) \/ C64!TakeText(f)
            \/ C64!TakeScreenshot(f) \/ C64!TakeStop(f) \/ C64!TakeExec(f)
  BY <1>1 DEF C64!Dispatch
<1>3. Bridge!ToSet(down') \subseteq Bridge!ToSet(down)
  BY <1>1 DEF C64!Dispatch
<1>4. f.id \in Nat /\ rx_last_id \in Nat
  BY <1>2, DownFields, TextNumbers
<1>5. /\ UNCHANGED <<up, send_buf, tx_next_id>>
      /\ rx_last_id' = rx_last_id \/ (f.id > rx_last_id /\ rx_last_id' = f.id)
  BY <1>2 DEF C64!TakeAck, C64!TakeStatusReq, C64!TakeStale, C64!TakeMsg, C64!TakeDone,
     C64!TakeText, C64!TakeScreenshot, C64!TakeStop, C64!TakeExec, C64!Accept, C64!txVars,
     C64!rxVars
<1>6. CASE exec_buf' = exec_buf
  <2>1. text_pending' => text_pending
    <3>1. CASE C64!TakeText(f)
      <4>1. f \in TextFrames /\ f.id > rx_last_id
        BY <3>1 DEF C64!TakeText, C64!Accept, TextFrames
      <4>2. f.n > exec_buf.n
        BY <4>1 DEF TextInv, NewerToCome
      <4>3. exec_buf # f
        BY <4>1, <4>2, TextNumbers
      <4>4. QED
        BY <1>6, <3>1, <4>3 DEF C64!TakeText
    <3>2. CASE ~C64!TakeText(f)
      BY <1>2, <3>2 DEF C64!TakeAck, C64!TakeStatusReq, C64!TakeStale, C64!TakeMsg, C64!TakeDone,
         C64!TakeScreenshot, C64!TakeStop, C64!TakeExec, C64!pendingVars
    <3>3. QED
      BY <3>1, <3>2
  <2>2. QED
    BY <1>3, <1>4, <1>5, <1>6, <2>1, AgentQuiet
<1>7. CASE exec_buf' # exec_buf
  <2>1. C64!TakeText(f) \/ C64!TakeExec(f)
    BY <1>2, <1>7 DEF C64!TakeAck, C64!TakeStatusReq, C64!TakeStale, C64!TakeMsg, C64!TakeDone,
       C64!TakeScreenshot, C64!TakeStop, C64!bufferVars
  <2>2. QED
    BY <1>3, <1>5, <1>7, <2>1, TakeTextTexts, TakeExecTexts
<1>8. QED
  BY <1>6, <1>7

LEMMA BasicTexts ==
    ASSUME BridgeInv, TextInv, UNCHANGED bridgeVars,
           \/ C64!InjectKey \/ C64!LineStored \/ C64!BasicEnds \/ C64!BasicBreaks
           \/ C64!WaitReady \/ C64!ReadyNoticed \/ C64!DetachedReady \/ C64!ReportRunning
           \/ C64!Heartbeat
    PROVE  TextInv'
<1>1. UNCHANGED <<down, up, send_buf, exec_buf, tx_next_id, rx_last_id, text_pending>>
  BY DEF C64!InjectKey, C64!LineStored, C64!BasicEnds, C64!BasicBreaks, C64!WaitReady,
     C64!ReadyNoticed, C64!DetachedReady, C64!ReportRunning, C64!Heartbeat, C64!lineVars,
     C64!agentVars, C64!pendingVars, C64!bufferVars, C64!txVars, C64!rxVars
<1>2. rx_last_id \in Nat
  BY TextNumbers
<1>3. QED
  BY <1>1, <1>2, AgentQuiet

-----------------------------------------------------------------------------
(* Texts: the bridge *)

\* The part of the agent that the texts are in.
agentTexts == <<exec_buf, text_pending, send_buf, tx_next_id, rx_last_id>>

\* A step that sends no new text, takes frames from the line that it does not keep, or
\* sends ACKs.
LEMMA BridgeQuiet ==
    ASSUME BridgeInv, TextInv, BridgeTyped, UNCHANGED agentTexts,
           UNCHANGED <<textOut, emitted, pendingFrames>>,
           nextTxID <= nextTxID', rxLastID <= rxLastID',
           Bridge!ToSet(up') \subseteq Bridge!ToSet(up),
           \A g \in Bridge!ToSet(down') : g \in Bridge!ToSet(down) \cup {out} \/ g.type # "TEXT",
           out' = out \/ out'.type # "TEXT"
    PROVE  TextInv'
<1> USE DEF TextInv, BridgeTyped, LoopInv, LoopLink, agentTexts
<1>1. TextFrames' \subseteq TextFrames
  BY DEF TextFrames
<1>2. UserFrames' \subseteq UserFrames
  BY DEF UserFrames
<1>3. LeftFrames' = LeftFrames
  BY DEF LeftFrames
<1>4. Back' \subseteq Back
  BY <1>2, <1>3, BackShrinks
<1>5. nextTxID' \in Nat /\ tx_next_id \in Nat /\ rxLastID' \in Nat /\ rx_last_id \in Nat
  BY TextNumbers
<1>6. TextsInOrder'
  BY <1>1, <1>5, OrderKept
<1>7. NewerToCome'
  BY <1>1, <1>4, <1>5, NewerKept
<1>8. OneFrame'
  BY <1>2, <1>3, <1>5, OneFrameKept
<1>9. OnePlace'
  BY OnePlaceKept
<1>10. QED
  BY <1>6, <1>7, <1>8, <1>9

\* The bridge has f in hand and s is left for the loop: f is in no other place.
Held(s, f) ==
    /\ \A i, j \in 1..Len(s) :
        s[i].type = "USER" /\ s[j].type = "USER" /\ s[i].n = s[j].n /\ s[i].n # 0 => i = j
    /\ \A g \in Bridge!ToSet(s) : g.type = "USER" /\ g.n # 0 => g.n \notin Bridge!ToSet(emitted)
    /\ f.type = "USER" /\ f.n # 0 =>
        /\ f.n \notin Bridge!ToSet(emitted)
        /\ \A g \in Bridge!ToSet(s) : g.type = "USER" => g.n # f.n

\* It is left behind the others or before them, or was none that is kept.
LEMMA HeldIsLeft ==
    ASSUME OnePlace, NEW s \in Seq(UpFrames), NEW f \in UpFrames, Held(s, f), UNCHANGED emitted,
           pendingFrames' = Append(s, f) \/ pendingFrames' = <<f>> \o s \/ pendingFrames' = s
    PROVE  OnePlace'
<1>1. \A i \in 1..Len(s) : s[i] \in Bridge!ToSet(s)
  BY Members
<1>2. Len(s) \in Nat
  OBVIOUS
<1>3. ShownOnce'
  BY DEF OnePlace, ShownOnce, Bridge!ShownOnce
<1>4. \A g \in Bridge!ToSet(pendingFrames') : g \in Bridge!ToSet(s) \/ g = f
  <2>1. Bridge!ToSet(Append(s, f)) = Bridge!ToSet(s) \cup {f}
    BY MembersAppend
  <2>2. Bridge!ToSet(<<f>> \o s) = Bridge!ToSet(s) \cup {f}
    BY MembersPrepend
  <2>3. CASE pendingFrames' = Append(s, f)
    BY <2>1, <2>3
  <2>4. CASE pendingFrames' = <<f>> \o s
    BY <2>2, <2>4
  <2>5. CASE pendingFrames' = s
    BY <2>5
  <2>6. QED
    BY <2>3, <2>4, <2>5
<1>5. \A g \in LeftFrames' : g.n # 0 => g.n \notin Bridge!ToSet(emitted')
  BY <1>4 DEF LeftFrames, Held
<1>6. CASE pendingFrames' = Append(s, f)
  <2>1. /\ Len(Append(s, f)) = Len(s) + 1 /\ Append(s, f)[Len(s) + 1] = f
        /\ \A i \in 1..Len(s) : Append(s, f)[i] = s[i]
    BY MembersAppend
  <2>2. \A i \in 1..Len(pendingFrames') : i = Len(s) + 1 \/ i \in 1..Len(s)
    BY <1>2, <1>6, <2>1
  <2>3. ASSUME NEW i \in 1..Len(pendingFrames'), NEW j \in 1..Len(pendingFrames'),
               pendingFrames'[i].type = "USER", pendingFrames'[j].type = "USER",
               pendingFrames'[i].n = pendingFrames'[j].n, pendingFrames'[i].n # 0
        PROVE  i = j
    BY <1>1, <1>6, <2>1, <2>2, <2>3 DEF Held
  <2>4. QED
    BY <1>3, <1>5, <2>3 DEF OnePlace
<1>7. CASE pendingFrames' = <<f>> \o s
  <2>1. /\ Len(<<f>> \o s) = Len(s) + 1 /\ (<<f>> \o s)[1] = f
        /\ \A i \in 1..Len(s) : (<<f>> \o s)[i + 1] = s[i]
    BY MembersPrepend
  <2>2. \A i \in 1..Len(pendingFrames') :
            (i = 1 /\ pendingFrames'[i] = f)
            \/ (i - 1 \in 1..Len(s) /\ pendingFrames'[i] = s[i - 1])
    BY <1>2, <1>7, <2>1
  <2>3. ASSUME NEW i \in 1..Len(pendingFrames'), NEW j \in 1..Len(pendingFrames'),
               pendingFrames'[i].type = "USER", pendingFrames'[j].type = "USER",
               pendingFrames'[i].n = pendingFrames'[j].n, pendingFrames'[i].n # 0
        PROVE  i = j
    <3>1. CASE i = 1
      BY <1>1, <2>2, <2>3, <3>1 DEF Held
    <3>2. CASE i # 1 /\ j = 1
      <4>1. i - 1 \in 1..Len(s) /\ pendingFrames'[i] = s[i - 1] /\ pendingFrames'[j] = f
        BY <2>2, <3>2
      <4>2. s[i - 1] \in Bridge!ToSet(s)
        BY <1>1, <4>1
      <4>3. f.type = "USER" /\ f.n # 0 /\ s[i - 1].type = "USER" /\ s[i - 1].n = f.n
        BY <2>3, <4>1
      <4>4. QED
        BY <4>2, <4>3 DEF Held
    <3>3. CASE i # 1 /\ j # 1
      <4>1. /\ i - 1 \in 1..Len(s) /\ pendingFrames'[i] = s[i - 1]
            /\ j - 1 \in 1..Len(s) /\ pendingFrames'[j] = s[j - 1]
        BY <2>2, <3>3
      <4>2. i - 1 = j - 1
        BY <2>3, <4>1 DEF Held
      <4>3. QED
        BY <4>2
    <3>4. QED
      BY <3>1, <3>2, <3>3
  <2>4. QED
    BY <1>3, <1>5, <2>3 DEF OnePlace
<1>8. CASE pendingFrames' = s
  BY <1>3, <1>5, <1>8 DEF OnePlace, Held
<1>9. QED
  BY <1>6, <1>7, <1>8

\* It is shown.
LEMMA HeldIsShown ==
    ASSUME OnePlace, NEW s \in Seq(UpFrames), NEW f \in UpFrames, Held(s, f), f.type = "USER",
           pendingFrames' = s, emitted \in Seq(0..texts), emitted' = Append(emitted, f.n)
    PROVE  OnePlace' /\ Bridge!ToSet(emitted') = Bridge!ToSet(emitted) \cup {f.n}
<1>1. PICK n \in 0..texts : n = f.n
  BY UpFields
<1>2. /\ Bridge!ToSet(Append(emitted, n)) = Bridge!ToSet(emitted) \cup {n}
      /\ Len(Append(emitted, n)) = Len(emitted) + 1 /\ Append(emitted, n)[Len(emitted) + 1] = n
      /\ \A i \in 1..Len(emitted) : Append(emitted, n)[i] = emitted[i]
      /\ Len(emitted) \in Nat
  <2> DEFINE S == 0..texts
  <2>1. emitted \in Seq(S) /\ n \in S
    OBVIOUS
  <2> HIDE DEF S
  <2>2. QED
    BY <2>1, MembersAppend, Members
<1>3. \A i \in 1..Len(emitted) : emitted[i] \in Bridge!ToSet(emitted)
  BY Members
<1>4. ShownOnce'
  <2>1. ASSUME NEW i \in 1..Len(emitted'), NEW j \in 1..Len(emitted'),
               emitted'[i] = emitted'[j], emitted'[i] # 0
        PROVE  i = j
    <3>1. \A k \in 1..Len(emitted') : k = Len(emitted) + 1 \/ k \in 1..Len(emitted)
      BY <1>1, <1>2
    <3>2. n # 0 => n \notin Bridge!ToSet(emitted)
      BY <1>1 DEF Held
    <3>3. \A a, b \in 1..Len(emitted) : emitted[a] = emitted[b] /\ emitted[a] # 0 => a = b
      BY DEF OnePlace, ShownOnce, Bridge!ShownOnce
    <3>4. QED
      BY <1>1, <1>2, <1>3, <2>1, <3>1, <3>2, <3>3
  <2>2. QED
    BY <2>1 DEF ShownOnce, Bridge!ShownOnce
<1>5. Bridge!ToSet(emitted') = Bridge!ToSet(emitted) \cup {f.n}
  BY <1>1, <1>2
<1>6. \A g \in LeftFrames' : g.n # 0 => g.n \notin Bridge!ToSet(emitted')
  BY <1>5 DEF LeftFrames, Held
<1>7. QED
  BY <1>4, <1>5, <1>6 DEF OnePlace, Held

\* A new frame is in no other place: those left for the loop and those shown were
\* accepted before, and a text comes back in one frame.
LEMMA AcceptHeld ==
    ASSUME BridgeInv, TextInv, NEW f, Bridge!Accept(f)
    PROVE  Held(pendingFrames, f)
<1>1. f \in UpFrames /\ f \in Bridge!ToSet(up) /\ f.id > rxLastID
  BY AcceptTyped DEF BridgeInv, TypeInv, LoopInv
<1>2. /\ \A i, j \in 1..Len(pendingFrames) :
            /\ pendingFrames[i].type = "USER" /\ pendingFrames[j].type = "USER"
            /\ pendingFrames[i].n = pendingFrames[j].n /\ pendingFrames[i].n # 0
            => i = j
      /\ \A g \in Bridge!ToSet(pendingFrames) :
            g.type = "USER" /\ g.n # 0 => g.n \notin Bridge!ToSet(emitted)
  BY DEF TextInv, OnePlace, LeftFrames
<1>3. ASSUME f.type = "USER", f.n # 0
      PROVE  /\ f.n \notin Bridge!ToSet(emitted)
             /\ \A g \in Bridge!ToSet(pendingFrames) : g.type = "USER" => g.n # f.n
  <2>1. f \in UserFrames
    BY <1>1, <1>3 DEF UserFrames
  <2>2. ASSUME NEW g \in Bridge!ToSet(pendingFrames), g.type = "USER", g.n = f.n PROVE FALSE
    <3>1. g \in LeftFrames
      BY <2>2 DEF LeftFrames
    <3>2. g.id = f.id
      BY <1>3, <2>1, <2>2, <3>1 DEF TextInv, OneFrame
    <3>3. g.id <= rxLastID
      BY <2>2 DEF TextInv, AcceptedInv
    <3>4. f.id \in Nat /\ rxLastID \in Nat
      BY <2>1, TextNumbers
    <3>5. QED
      BY <1>1, <3>2, <3>3, <3>4
  <2>3. QED
    BY <1>1, <1>3, <2>1, <2>2 DEF TextInv, OneFrame
<1>4. QED
  BY <1>2, <1>3 DEF Held

\* And so is the frame that the loop takes, new or left.
LEMMA NextHeld ==
    ASSUME BridgeInv, TextInv, NEW f, Bridge!NextFrame(f)
    PROVE  /\ Held(Bridge!Rest, f)
           /\ f.type = "USER" => f \in UserFrames \cup LeftFrames
<1>1. CASE pendingFrames # <<>>
  <2>1. /\ Head(pendingFrames) = pendingFrames[1] /\ Len(pendingFrames) \in Nat
        /\ Head(pendingFrames) \in Bridge!ToSet(pendingFrames)
        /\ Len(Tail(pendingFrames)) = Len(pendingFrames) - 1 /\ Len(pendingFrames) > 0
        /\ \A i \in 1..Len(Tail(pendingFrames)) :
               i + 1 \in 1..Len(pendingFrames) /\ Tail(pendingFrames)[i] = pendingFrames[i + 1]
        /\ Bridge!ToSet(Tail(pendingFrames)) \subseteq Bridge!ToSet(pendingFrames)
        /\ Tail(pendingFrames) \in Seq(UpFrames)
    BY <1>1, MembersTail DEF BridgeInv, TypeInv, LoopInv, LoopLink
  <2>2. f = Head(pendingFrames) /\ Bridge!Rest = Tail(pendingFrames)
    BY <1>1 DEF Bridge!NextFrame, Bridge!Rest
  <2>3. PICK s \in Seq(UpFrames) : s = Tail(pendingFrames)
    BY <2>1
  <2>4. \A i, j \in 1..Len(s) :
            s[i].type = "USER" /\ s[j].type = "USER" /\ s[i].n = s[j].n /\ s[i].n # 0 => i = j
    <3>1. ASSUME NEW i \in 1..Len(s), NEW j \in 1..Len(s),
                 s[i].type = "USER", s[j].type = "USER", s[i].n = s[j].n, s[i].n # 0
          PROVE  i = j
      <4>1. /\ i + 1 \in 1..Len(pendingFrames) /\ s[i] = pendingFrames[i + 1]
            /\ j + 1 \in 1..Len(pendingFrames) /\ s[j] = pendingFrames[j + 1]
        BY <2>1, <2>3
      <4>2. i + 1 = j + 1
        BY <3>1, <4>1 DEF TextInv, OnePlace
      <4>3. QED
        BY <4>2
    <3>2. QED
      BY <3>1
  <2>5. \A g \in Bridge!ToSet(pendingFrames) :
            g.type = "USER" /\ g.n # 0 => g.n \notin Bridge!ToSet(emitted)
    BY DEF TextInv, OnePlace, LeftFrames
  <2>6. ASSUME f.type = "USER", f.n # 0, NEW g \in Bridge!ToSet(s), g.type = "USER", g.n = f.n
        PROVE  FALSE
    <3>1. PICK i \in 1..Len(s) : s[i] = g
      BY Members
    <3>2. i + 1 \in 1..Len(pendingFrames) /\ g = pendingFrames[i + 1] /\ 1 \in 1..Len(pendingFrames)
      BY <2>1, <2>3, <3>1
    <3>3. i + 1 = 1
      BY <2>1, <2>2, <2>6, <3>2 DEF TextInv, OnePlace
    <3>4. QED
      BY <3>3
  <2>7. Held(s, f)
    BY <2>1, <2>2, <2>3, <2>4, <2>5, <2>6 DEF Held
  <2>8. QED
    BY <2>1, <2>2, <2>3, <2>7 DEF LeftFrames
<1>2. CASE pendingFrames = <<>>
  <2>1. Bridge!Rest = pendingFrames
    BY <1>2 DEF Bridge!Rest
  <2>2. CASE Bridge!Accept(f)
    <3>1. f \in Bridge!ToSet(up)
      BY <2>2, AcceptTyped DEF BridgeInv, TypeInv, LoopInv
    <3>2. QED
      BY <2>1, <2>2, <3>1, AcceptHeld DEF UserFrames
  <2>3. CASE ~Bridge!Accept(f)
    <3>1. f.type = "ACK"
      BY <1>2, <2>3 DEF Bridge!NextFrame, Bridge!IsAck
    <3>2. Len(pendingFrames) = 0 /\ Bridge!ToSet(pendingFrames) = {}
      BY <1>2, NoMembers
    <3>3. QED
      BY <2>1, <3>1, <3>2 DEF Held
  <2>4. QED
    BY <2>2, <2>3
<1>3. QED
  BY <1>1, <1>2

\* A frame is taken: it is left for the loop, shown, or used up.
LEMMA TakenTexts ==
    ASSUME BridgeInv, TextInv, BridgeTyped, UNCHANGED agentTexts,
           UNCHANGED <<out, textOut, nextTxID>>,
           NEW s \in Seq(UpFrames), NEW f \in UpFrames, Held(s, f),
           f.type = "USER" => f \in UserFrames \cup LeftFrames,
           Bridge!ToSet(s) \subseteq Bridge!ToSet(pendingFrames),
           Bridge!ToSet(up') \subseteq Bridge!ToSet(up),
           \A g \in Bridge!ToSet(down') : g \in Bridge!ToSet(down) \/ g.type = "ACK",
           rxLastID <= rxLastID', f.type = "ACK" \/ f.id <= rxLastID',
           \/ /\ UNCHANGED emitted
              /\ pendingFrames' = Append(s, f) \/ pendingFrames' = <<f>> \o s \/ pendingFrames' = s
           \/ f.type = "USER" /\ pendingFrames' = s /\ emitted' = Append(emitted, f.n)
    PROVE  TextInv'
<1> USE DEF TextInv, BridgeTyped, LoopInv, LoopLink, agentTexts
<1>1. TextFrames' \subseteq TextFrames
  BY DEF TextFrames
<1>2. UserFrames' \subseteq UserFrames
  BY DEF UserFrames
<1>3. \A g \in Bridge!ToSet(pendingFrames') : g \in Bridge!ToSet(s) \/ g = f
  <2>1. Bridge!ToSet(Append(s, f)) = Bridge!ToSet(s) \cup {f}
    BY MembersAppend
  <2>2. Bridge!ToSet(<<f>> \o s) = Bridge!ToSet(s) \cup {f}
    BY MembersPrepend, SMTT(30)
  <2>3. CASE pendingFrames' = Append(s, f)
    BY <2>1, <2>3
  <2>4. CASE pendingFrames' = <<f>> \o s
    BY <2>2, <2>4
  <2>5. CASE pendingFrames' = s
    BY <2>5
  <2>6. QED
    BY <2>3, <2>4, <2>5
<1>4. LeftFrames' \subseteq UserFrames \cup LeftFrames
  BY <1>3 DEF LeftFrames
<1>5. nextTxID \in Nat /\ tx_next_id \in Nat /\ rxLastID' \in Nat /\ rx_last_id \in Nat
  BY TextNumbers
<1>6. TextsInOrder'
  BY <1>1, <1>5, OrderKept
<1>7. CASE UNCHANGED emitted /\ (pendingFrames' = Append(s, f) \/ pendingFrames' = <<f>> \o s
                                  \/ pendingFrames' = s)
  <2>1. Back' \subseteq Back
    BY <1>2, <1>4, <1>7, BackShrinks
  <2>2. NewerToCome'
    BY <1>1, <1>5, <2>1, NewerKept
  <2>3. OneFrame'
    BY <1>2, <1>4, <1>5, <1>7, OneFrameKept
  <2>4. OnePlace'
    BY <1>7, HeldIsLeft
  <2>5. QED
    BY <1>6, <2>2, <2>3, <2>4
<1>8. CASE f.type = "USER" /\ pendingFrames' = s /\ emitted' = Append(emitted, f.n)
  <2>1. emitted \in Seq(0..texts)
    BY DEF BridgeInv, TypeInv, LoopTexts
  <2>2. OnePlace' /\ Bridge!ToSet(emitted') = Bridge!ToSet(emitted) \cup {f.n}
    BY <1>8, <2>1, HeldIsShown
  <2>3. Back' \subseteq Back
    BY <1>2, <1>4, <1>8, <2>2 DEF Back
  <2>4. NewerToCome'
    BY <1>1, <1>5, <2>3, NewerKept
  <2>5. OneFrame'
    <3>1. \A g \in UserFrames' \cup LeftFrames' : g.id < tx_next_id'
      BY <1>2, <1>4 DEF OneFrame
    <3>2. \A g, h \in UserFrames' \cup LeftFrames' : g.n = h.n /\ g.n # 0 => g.id = h.id
      BY <1>2, <1>4 DEF OneFrame
    <3>3. ASSUME NEW g \in UserFrames', g.id > rxLastID', g.n # 0
          PROVE  g.n \notin Bridge!ToSet(emitted')
      <4>1. g \in UserFrames /\ g.id \in Nat /\ rxLastID \in Nat /\ g.id > rxLastID
        BY <1>2, <1>5, <3>3, TextNumbers
      <4>2. g.n \notin Bridge!ToSet(emitted)
        BY <3>3, <4>1 DEF OneFrame
      <4>3. ASSUME g.n = f.n PROVE FALSE
        <5>1. g.id = f.id
          BY <1>8, <3>3, <4>1, <4>3 DEF OneFrame
        <5>2. f.id <= rxLastID'
          BY <1>8
        <5>3. QED
          BY <1>5, <3>3, <4>1, <5>1, <5>2
      <4>4. QED
        BY <2>2, <4>2, <4>3
    <3>4. QED
      BY <3>1, <3>2, <3>3 DEF OneFrame
  <2>6. QED
    BY <1>6, <2>2, <2>4, <2>5
<1>9. QED
  BY <1>7, <1>8

\* What a frame of the bridge adds to the line.
LEMMA SendMembers ==
    ASSUME BridgeInv, NEW f, Bridge!Send(f)
    PROVE  \A g \in Bridge!ToSet(down') : g \in Bridge!ToSet(down) \/ g.type = "ACK" \/ g = f
<1> DEFINE S == DownFrames \cup {f}
<1>1. DownFrames \subseteq S /\ f \in S
  OBVIOUS
<1> HIDE DEF S
<1>2. QED
  BY <1>1, SendTyped DEF BridgeInv, TypeInv, LoopInv, LoopLink

LEMMA SendNewMembers ==
    ASSUME BridgeInv, NEW f, Bridge!SendNew(f)
    PROVE  /\ \A g \in Bridge!ToSet(down') : g \in Bridge!ToSet(down) \/ g.type = "ACK" \/ g = out'
           /\ out' = [f EXCEPT !.id = nextTxID] /\ nextTxID' = nextTxID + 1
<1>1. out' = [f EXCEPT !.id = nextTxID] /\ nextTxID' = nextTxID + 1 /\ Bridge!Send(out')
  BY DEF Bridge!SendNew
<1>2. PICK g : g = out'
  OBVIOUS
<1>3. QED
  BY <1>1, <1>2, SendMembers

\* The waits that repeat a frame, and the hand-over.
LEMMA RepeatTexts ==
    ASSUME BridgeInv, TextInv, BridgeTyped, UNCHANGED agentTexts,
           \/ Bridge!FlushAcks \/ Bridge!Timeout \/ Bridge!OverlapTimeout \/ Bridge!OverlapAcked
           \/ Bridge!HandOff
    PROVE  TextInv'
<1> USE DEF Bridge!ownerVars, Bridge!gateVars, Bridge!flagVars, Bridge!chunkVars, Bridge!llmVars,
            Bridge!userVars, Bridge!linkVars
<1>1. /\ UNCHANGED <<textOut, emitted, pendingFrames, rxLastID>>
      /\ UNCHANGED up \/ Bridge!OverlapAcked
  BY DEF Bridge!FlushAcks, Bridge!Timeout, Bridge!OverlapTimeout, Bridge!OverlapAcked,
     Bridge!HandOff
<1>2. Bridge!ToSet(up') \subseteq Bridge!ToSet(up)
  <2>1. CASE Bridge!OverlapAcked
    BY <2>1, TakenFromLine DEF Bridge!OverlapAcked, BridgeInv, TypeInv
  <2>2. QED
    BY <1>1, <2>1
<1>3. nextTxID \in Nat /\ rxLastID \in Nat
  BY TextNumbers
<1>4. /\ \A g \in Bridge!ToSet(down') : g \in Bridge!ToSet(down) \cup {out} \/ g.type # "TEXT"
      /\ out' = out \/ out'.type # "TEXT"
      /\ nextTxID' = nextTxID \/ nextTxID' = nextTxID + 1
  <2>1. CASE Bridge!FlushAcks
    <3>1. Bridge!AckFrames(pendingAcks) \in Seq(Acks)
      BY AckFramesTyped DEF BridgeInv, TypeInv, LoopInv, LoopLink
    <3>2. \A g \in Bridge!ToSet(down \o Bridge!AckFrames(pendingAcks)) :
              g \in Bridge!ToSet(down) \/ g.type = "ACK"
      BY <3>1, AcksAreFrames, AcksAdded DEF BridgeInv, TypeInv
    <3>3. QED
      BY <2>1, <3>2 DEF Bridge!FlushAcks
  <2>2. CASE Bridge!Timeout
    <3>1. UNCHANGED <<out, nextTxID>> /\ (UNCHANGED down \/ Bridge!Send(out))
      BY <2>2 DEF Bridge!Timeout
    <3>2. QED
      BY <3>1, SendMembers
  <2>3. CASE Bridge!OverlapTimeout
    <3>1. /\ UNCHANGED <<out, nextTxID>> /\ overlap.id # 0
          /\ UNCHANGED down \/ Bridge!Send(overlap)
      BY <2>3 DEF Bridge!OverlapTimeout
    <3>2. overlap.type # "TEXT"
      BY <3>1 DEF BridgeInv, TypeInv, LoopInv, LoopFrames, Requests, Bridge!None
    <3>3. \A g \in Bridge!ToSet(down') : g \in Bridge!ToSet(down) \/ g.type = "ACK" \/ g = overlap
      BY <3>1, SendMembers
    <3>4. QED
      BY <3>1, <3>2, <3>3
  <2>4. CASE Bridge!OverlapAcked
    BY <2>4 DEF Bridge!OverlapAcked
  <2>5. CASE Bridge!HandOff
    <3>1. CASE waiters # <<>> /\ ~Head(waiters).sent
      <4> DEFINE f == [type |-> "MSG", n |-> Head(waiters).n, id |-> 0]
      <4>1. Bridge!SendNew(f) /\ [f EXCEPT !.id = nextTxID].type = "MSG"
        BY <2>5, <3>1 DEF Bridge!HandOff
      <4> HIDE DEF f
      <4>2. out'.type = "MSG" /\ nextTxID' = nextTxID + 1
            /\ \A g \in Bridge!ToSet(down') : g \in Bridge!ToSet(down) \/ g.type = "ACK" \/ g = out'
        BY <4>1, SendNewMembers
      <4>3. QED
        BY <4>2
    <3>2. CASE ~(waiters # <<>> /\ ~Head(waiters).sent)
      BY <2>5, <3>2 DEF Bridge!HandOff
    <3>3. QED
      BY <3>1, <3>2
  <2>6. QED
    BY <2>1, <2>2, <2>3, <2>4, <2>5
<1>5. nextTxID <= nextTxID' /\ rxLastID <= rxLastID'
  BY <1>1, <1>3, <1>4
<1>6. QED
  BY <1>1, <1>2, <1>4, <1>5, BridgeQuiet

\* Frames that are dropped.
LEMMA DroppedTexts ==
    ASSUME BridgeInv, TextInv, BridgeTyped, UNCHANGED agentTexts,
           Bridge!DropStale \/ Bridge!StrayAck \/ Bridge!AckArrives \/ Bridge!GraceEnds
    PROVE  TextInv'
<1> USE DEF Bridge!ownerVars, Bridge!gateVars, Bridge!flagVars, Bridge!chunkVars, Bridge!llmVars,
            Bridge!userVars, Bridge!linkVars
<1>1. /\ UNCHANGED <<textOut, emitted, pendingFrames, rxLastID, nextTxID, out>>
      /\ UNCHANGED <<up, down>> \/ \E f : Bridge!Receive(f) /\ (UNCHANGED down \/ Bridge!Acknowledge(f))
  BY DEF Bridge!DropStale, Bridge!StrayAck, Bridge!AckArrives, Bridge!GraceEnds
<1>2. /\ Bridge!ToSet(up') \subseteq Bridge!ToSet(up)
      /\ \A g \in Bridge!ToSet(down') : g \in Bridge!ToSet(down) \/ g.type = "ACK"
  <2>1. CASE UNCHANGED <<up, down>>
    BY <2>1
  <2>2. ASSUME NEW f, Bridge!Receive(f), UNCHANGED down \/ Bridge!Acknowledge(f)
        PROVE  /\ Bridge!ToSet(up') \subseteq Bridge!ToSet(up)
               /\ \A g \in Bridge!ToSet(down') : g \in Bridge!ToSet(down) \/ g.type = "ACK"
    <3>1. f \in UpFrames /\ Bridge!ToSet(up') \subseteq Bridge!ToSet(up)
      BY <2>2, ReceivedTyped DEF BridgeInv, TypeInv
    <3>2. f.id \in Nat
      BY <3>1, UpFields
    <3>3. QED
      BY <2>2, <3>1, <3>2, AcknowledgeTyped DEF BridgeInv, TypeInv, LoopInv, LoopLink
  <2>3. QED
    BY <1>1, <2>1, <2>2
<1>3. nextTxID \in Nat /\ rxLastID \in Nat
  BY TextNumbers
<1>4. nextTxID <= nextTxID' /\ rxLastID <= rxLastID'
  BY <1>1, <1>3
<1>5. QED
  BY <1>1, <1>2, <1>4, BridgeQuiet

\* Frames that are accepted in a wait or a drain.
LEMMA AcceptedTexts ==
    ASSUME BridgeInv, TextInv, BridgeTyped, UNCHANGED agentTexts,
           Bridge!WaitReceives \/ Bridge!DrainReceives
    PROVE  TextInv'
<1> USE DEF Bridge!flagVars, Bridge!chunkVars, Bridge!llmVars, Bridge!userVars
<1>1. PICK f : /\ Bridge!Accept(f)
               /\ \/ pendingFrames' = Append(pendingFrames, f)
                  \/ pendingFrames' = <<f>> \o pendingFrames
                  \/ pendingFrames' = pendingFrames
               /\ UNCHANGED <<out, textOut, emitted>>
  BY DEF Bridge!WaitReceives, Bridge!DrainReceives
<1>2. /\ f \in UpFrames /\ f \in Bridge!ToSet(up) /\ f.id > rxLastID
      /\ rxLastID' = f.id /\ UNCHANGED nextTxID
      /\ Bridge!ToSet(up') \subseteq Bridge!ToSet(up)
      /\ \A g \in Bridge!ToSet(down') : g \in Bridge!ToSet(down) \/ g.type = "ACK"
  BY <1>1, AcceptTyped DEF BridgeInv, TypeInv, LoopInv
<1>3. f.id \in Nat /\ rxLastID \in Nat
  BY <1>2, UpFields, TextNumbers
<1>4. rxLastID <= rxLastID' /\ f.id <= rxLastID'
  BY <1>2, <1>3
<1>5. Held(pendingFrames, f)
  BY <1>1, AcceptHeld
<1>6. pendingFrames \in Seq(UpFrames)
  BY DEF BridgeInv, TypeInv, LoopInv, LoopLink
<1>7. f.type = "USER" => f \in UserFrames
  BY <1>2 DEF UserFrames
<1>8. QED
  BY <1>1, <1>2, <1>4, <1>5, <1>6, <1>7, TakenTexts

\* Frames that the loop and its drains take: a USER frame is shown once.
LEMMA LoopTakesTexts ==
    ASSUME BridgeInv, TextInv, BridgeTyped, UNCHANGED agentTexts,
           Bridge!Loop \/ Bridge!TrailingDrain
    PROVE  TextInv'
<1> USE DEF Bridge!flagVars, Bridge!chunkVars, Bridge!llmVars, Bridge!linkVars, Bridge!gateVars
<1>1. UNCHANGED <<out, textOut>>
  BY DEF Bridge!Loop, Bridge!LoopHandsOver, Bridge!LoopTakes, Bridge!TrailingDrain
<1>2. CASE \E f : /\ Bridge!NextFrame(f)
                  /\ \/ /\ UNCHANGED emitted
                        /\ \/ pendingFrames' = Append(Bridge!Rest, f)
                           \/ pendingFrames' = <<f>> \o Bridge!Rest
                           \/ pendingFrames' = Bridge!Rest
                     \/ /\ f.type = "USER" /\ pendingFrames' = Bridge!Rest
                        /\ emitted' = Append(emitted, f.n)
  <2>1. PICK f : /\ Bridge!NextFrame(f)
                 /\ \/ /\ UNCHANGED emitted
                       /\ \/ pendingFrames' = Append(Bridge!Rest, f)
                          \/ pendingFrames' = <<f>> \o Bridge!Rest
                          \/ pendingFrames' = Bridge!Rest
                    \/ /\ f.type = "USER" /\ pendingFrames' = Bridge!Rest
                       /\ emitted' = Append(emitted, f.n)
    BY <1>2
  <2>2. /\ f \in UpFrames /\ rxLastID <= rxLastID' /\ UNCHANGED nextTxID
        /\ f.type = "ACK" \/ f.id <= rxLastID'
        /\ Bridge!Rest \in Seq(UpFrames)
        /\ Bridge!ToSet(Bridge!Rest) \subseteq Bridge!ToSet(pendingFrames)
        /\ Bridge!ToSet(up') \subseteq Bridge!ToSet(up)
        /\ \A g \in Bridge!ToSet(down') : g \in Bridge!ToSet(down) \/ g.type = "ACK"
    BY <2>1, NextFrameTyped DEF BridgeInv, TypeInv, LoopInv
  <2>3. Held(Bridge!Rest, f) /\ (f.type = "USER" => f \in UserFrames \cup LeftFrames)
    BY <2>1, NextHeld
  <2>4. PICK s \in Seq(UpFrames) : s = Bridge!Rest
    BY <2>2
  <2>5. QED
    BY <1>1, <2>1, <2>2, <2>3, <2>4, TakenTexts
<1>3. CASE Bridge!TrailingDrain
           /\ UNCHANGED <<down, up, pendingFrames, rxLastID, nextTxID, emitted>>
  <2>1. nextTxID \in Nat /\ rxLastID \in Nat
    BY TextNumbers
  <2>2. nextTxID <= nextTxID' /\ rxLastID <= rxLastID'
    BY <1>3, <2>1
  <2>3. QED
    BY <1>1, <1>3, <2>2, BridgeQuiet
<1>4. CASE Bridge!Loop
  <2>1. PICK f : Bridge!NextFrame(f) /\ (Bridge!LoopHandsOver(f) \/ Bridge!LoopTakes(f))
    BY <1>4 DEF Bridge!Loop
  <2>2. CASE Bridge!LoopHandsOver(f)
    BY <1>2, <2>1, <2>2 DEF Bridge!LoopHandsOver
  <2>3. CASE Bridge!LoopTakes(f)
    <3>1. /\ pendingFrames' = Bridge!Rest
          /\ UNCHANGED emitted \/ (f.type = "USER" /\ emitted' = Append(emitted, f.n))
      BY <2>3 DEF Bridge!LoopTakes
    <3>2. QED
      BY <1>2, <2>1, <3>1
  <2>4. QED
    BY <2>1, <2>2, <2>3
<1>5. CASE Bridge!TrailingDrain
  BY <1>2, <1>3, <1>5 DEF Bridge!TrailingDrain, Bridge!Drains
<1>6. QED
  BY <1>4, <1>5

\* The next text is sent: it is newer than every one sent before, and the oldest of
\* those to come.
LEMMA SendText ==
    ASSUME BridgeInv, TextInv, BridgeTyped, UNCHANGED agentTexts,
           UNCHANGED <<up, emitted, pendingFrames, rxLastID>>, textOut # <<>>,
           textOut' = Tail(textOut), nextTxID' = nextTxID + 1,
           out'.type = "TEXT", out'.n = Head(textOut), out'.id = nextTxID,
           \A g \in Bridge!ToSet(down') : g \in Bridge!ToSet(down) \/ g.type = "ACK" \/ g = out'
    PROVE  TextInv'
<1> USE DEF TextInv, BridgeTyped, LoopInv, LoopLink, agentTexts
<1>1. /\ Len(Tail(textOut)) = Len(textOut) - 1 /\ Len(textOut) \in Nat /\ Len(textOut) > 0
      /\ Head(textOut) = textOut[1]
      /\ \A i \in 1..Len(Tail(textOut)) :
             i + 1 \in 1..Len(textOut) /\ Tail(textOut)[i] = textOut[i + 1]
  <2> DEFINE S == 1..texts
  <2>1. textOut \in Seq(S)
    BY DEF BridgeInv, TypeInv, LoopTexts
  <2> HIDE DEF S
  <2>2. QED
    BY <2>1, MembersTail
<1>2. 1 \in 1..Len(textOut) /\ textOut[1] = out'.n /\ out'.n \in Nat
  BY <1>1, TextNumbers
<1>3. \A f \in TextFrames' : f \in TextFrames \/ f = out'
  BY DEF TextFrames
<1>4. UserFrames' = UserFrames /\ LeftFrames' = LeftFrames /\ Back' = Back
  BY DEF UserFrames, LeftFrames, Back
<1>5. nextTxID \in Nat /\ tx_next_id \in Nat /\ rxLastID \in Nat
  BY TextNumbers
<1>6. \A f \in TextFrames : f.id < out'.id /\ f.n < out'.n /\ f.id \in Nat /\ f.n \in Nat
  BY <1>2, TextNumbers DEF TextsInOrder
<1>7. \A i \in 1..Len(textOut') :
          /\ i + 1 \in 1..Len(textOut) /\ textOut'[i] = textOut[i + 1] /\ textOut'[i] \in Nat
          /\ textOut'[i] > out'.n
  <2>1. ASSUME NEW i \in 1..Len(textOut')
        PROVE  /\ i + 1 \in 1..Len(textOut) /\ textOut'[i] = textOut[i + 1]
               /\ textOut'[i] \in Nat /\ textOut'[i] > out'.n
    <3>1. i + 1 \in 1..Len(textOut) /\ textOut'[i] = textOut[i + 1] /\ 1 < i + 1
      BY <1>1
    <3>2. textOut[1] < textOut[i + 1]
      BY <1>2, <3>1 DEF TextsInOrder
    <3>3. textOut[i + 1] \in Nat
      BY <3>1, TextNumbers
    <3>4. QED
      BY <1>2, <3>1, <3>2, <3>3
  <2>2. QED
    BY <2>1
<1>8. TextsInOrder'
  <2>1. \A f \in TextFrames' : f.id < nextTxID'
    BY <1>3, <1>5, <1>6
  <2>2. ASSUME NEW f \in TextFrames', NEW g \in TextFrames'
        PROVE  (f.id = g.id => f.n = g.n) /\ (f.id < g.id => f.n < g.n)
    <3>1. CASE f \in TextFrames /\ g \in TextFrames
      BY <3>1 DEF TextsInOrder
    <3>2. CASE f = out' \/ g = out'
      BY <1>3, <1>5, <1>6, <3>2
    <3>3. QED
      BY <1>3, <3>1, <3>2
  <2>3. ASSUME NEW i \in 1..Len(textOut'), NEW f \in TextFrames'
        PROVE  f.n < textOut'[i]
    BY <1>2, <1>3, <1>6, <1>7, <2>3
  <2>4. ASSUME NEW i \in 1..Len(textOut'), NEW j \in 1..Len(textOut'), i < j
        PROVE  textOut'[i] < textOut'[j]
    <3>1. i + 1 \in 1..Len(textOut) /\ j + 1 \in 1..Len(textOut) /\ i + 1 < j + 1
      BY <1>7, <2>4
    <3>2. QED
      BY <1>7, <3>1 DEF TextsInOrder
  <2>5. QED
    BY <2>1, <2>2, <2>3, <2>4 DEF TextsInOrder
<1>9. NewerToCome'
  <2>1. out'.n > exec_buf.n /\ \A n \in Back : out'.n > n
    BY <1>2 DEF NewerToCome
  <2>2. ASSUME NEW f \in TextFrames', f.id > rx_last_id'
        PROVE  f.n > exec_buf'.n /\ \A n \in Back' : f.n > n
    BY <1>3, <1>4, <2>1, <2>2 DEF NewerToCome
  <2>3. ASSUME NEW i \in 1..Len(textOut')
        PROVE  textOut'[i] > exec_buf'.n /\ \A n \in Back' : textOut'[i] > n
    BY <1>4, <1>7 DEF NewerToCome
  <2>4. QED
    BY <1>4, <2>2, <2>3 DEF NewerToCome
<1>10. OneFrame'
  BY <1>4, <1>5, OneFrameKept
<1>11. OnePlace'
  BY OnePlaceKept
<1>12. QED
  BY <1>8, <1>9, <1>10, <1>11

LEMMA DrainEndsTexts ==
    ASSUME BridgeInv, TextInv, BridgeTyped, UNCHANGED agentTexts, Bridge!DrainEnds
    PROVE  TextInv'
<1> USE DEF Bridge!gateVars, Bridge!flagVars, Bridge!chunkVars, Bridge!userVars
<1>1. UNCHANGED <<up, emitted, pendingFrames, rxLastID>> /\ nextTxID \in Nat /\ rxLastID \in Nat
  BY TextNumbers DEF Bridge!DrainEnds
<1>2. CASE pc = "textDrain"
  <2> DEFINE f == [type |-> "TEXT", n |-> Head(textOut), id |-> 0]
  <2>1. /\ Bridge!SendNew(f) /\ textOut' = Tail(textOut) /\ textOut # <<>>
        /\ LET g == [f EXCEPT !.id = nextTxID]
           IN g.type = "TEXT" /\ g.n = Head(textOut) /\ g.id = nextTxID
    BY <1>2 DEF Bridge!DrainEnds, BridgeInv, TypeInv, LoopInv, LoopTexts
  <2> HIDE DEF f
  <2>2. /\ out'.type = "TEXT" /\ out'.n = Head(textOut) /\ out'.id = nextTxID
        /\ nextTxID' = nextTxID + 1
        /\ \A g \in Bridge!ToSet(down') : g \in Bridge!ToSet(down) \/ g.type = "ACK" \/ g = out'
    BY <2>1, SendNewMembers
  <2>3. QED
    BY <1>1, <2>1, <2>2, SendText
<1>3. CASE pc = "execDrain"
  <2>1. Bridge!SendNew(out) /\ UNCHANGED textOut /\ out.type = "EXEC" /\ out \in DownFrames
    BY <1>3 DEF Bridge!DrainEnds, BridgeInv, TypeInv, LoopInv, LoopFrames
  <2>2. [out EXCEPT !.id = nextTxID].type = "EXEC"
    BY <2>1 DEF DownFrames
  <2>3. /\ out'.type = "EXEC" /\ nextTxID' = nextTxID + 1
        /\ \A g \in Bridge!ToSet(down') : g \in Bridge!ToSet(down) \/ g.type = "ACK" \/ g = out'
    BY <2>1, <2>2, SendNewMembers
  <2>4. nextTxID <= nextTxID' /\ rxLastID <= rxLastID'
    BY <1>1, <2>3
  <2>5. QED
    BY <1>1, <2>1, <2>3, <2>4, BridgeQuiet
<1>4. QED
  BY <1>2, <1>3 DEF Bridge!DrainEnds

\* The answer of the LLM: its texts are newer than all before.
LEMMA AnswerTexts ==
    ASSUME BridgeInv, TextInv, BridgeTyped, UNCHANGED agentTexts,
           UNCHANGED <<down, up, out, emitted, pendingFrames, rxLastID, nextTxID>>,
           NEW n \in 1..TextChunks, textOut' = [i \in 1..n |-> texts + i]
    PROVE  TextInv'
<1> USE DEF TextInv
<1>1. TextFrames' = TextFrames /\ UserFrames' = UserFrames /\ LeftFrames' = LeftFrames
      /\ Back' = Back
  BY DEF TextFrames, UserFrames, LeftFrames, Back, agentTexts
<1>2. n \in Nat /\ texts \in Nat /\ nextTxID \in Nat /\ tx_next_id \in Nat /\ rxLastID \in Nat
  BY TextNumbers, BoundsAssumption
<1>3. Len(textOut') = n /\ \A i \in 1..n : textOut'[i] = texts + i
  BY <1>2
<1>4. TextsInOrder'
  <2>1. ASSUME NEW i \in 1..Len(textOut'), NEW f \in TextFrames' PROVE f.n < textOut'[i]
    BY <1>1, <1>2, <1>3, TextNumbers
  <2>2. \A i, j \in 1..Len(textOut') : i < j => textOut'[i] < textOut'[j]
    BY <1>2, <1>3
  <2>3. QED
    BY <1>1, <2>1, <2>2 DEF TextsInOrder
<1>5. NewerToCome'
  <2>1. ASSUME NEW i \in 1..Len(textOut')
        PROVE  textOut'[i] > exec_buf.n /\ \A m \in Back : textOut'[i] > m
    BY <1>2, <1>3, TextNumbers
  <2>2. QED
    BY <1>1, <2>1 DEF NewerToCome, agentTexts
<1>6. OneFrame'
  BY <1>1, <1>2, OneFrameKept DEF agentTexts
<1>7. OnePlace' /\ AcceptedInv'
  BY OnePlaceKept DEF AcceptedInv
<1>8. QED
  BY <1>4, <1>5, <1>6, <1>7

LEMMA CompleteTexts ==
    ASSUME BridgeInv, TextInv, BridgeTyped, UNCHANGED agentTexts, Bridge!Complete
    PROVE  TextInv'
<1> USE DEF Bridge!gateVars, Bridge!flagVars, Bridge!chunkVars, Bridge!llmVars
<1>1. UNCHANGED <<up, pendingFrames, rxLastID, emitted>> /\ nextTxID \in Nat /\ rxLastID \in Nat
  BY TextNumbers DEF Bridge!Complete
<1>2. CASE Bridge!LLMText
  <2>1. /\ UNCHANGED <<down, out, nextTxID>>
        /\ \E n \in 1..TextChunks : textOut' = [i \in 1..n |-> texts + i]
    BY <1>2 DEF Bridge!LLMText
  <2>2. QED
    BY <1>1, <2>1, AnswerTexts
<1>3. CASE ~Bridge!LLMText
  <2>1. UNCHANGED textOut
    BY <1>3 DEF Bridge!Complete, Bridge!LLMError, Bridge!LLMSilent, Bridge!LLMTool
  <2>2. /\ \A g \in Bridge!ToSet(down') : g \in Bridge!ToSet(down) \/ g.type # "TEXT"
        /\ out' = out \/ out'.type # "TEXT"
        /\ nextTxID' = nextTxID \/ nextTxID' = nextTxID + 1
    <3>1. CASE Bridge!LLMError
      BY <3>1 DEF Bridge!LLMError
    <3>2. ASSUME NEW kind \in {"DONE", "SCREENSHOT", "STOP"},
                 Bridge!SendNew([type |-> kind, id |-> 0])
          PROVE  /\ \A g \in Bridge!ToSet(down') : g \in Bridge!ToSet(down) \/ g.type # "TEXT"
                 /\ out'.type # "TEXT" /\ nextTxID' = nextTxID + 1
      <4> DEFINE f == [type |-> kind, id |-> 0]
      <4>1. Bridge!SendNew(f) /\ [f EXCEPT !.id = nextTxID].type # "TEXT"
        BY <3>2
      <4> HIDE DEF f
      <4>2. out'.type # "TEXT" /\ nextTxID' = nextTxID + 1
            /\ \A g \in Bridge!ToSet(down') : g \in Bridge!ToSet(down) \/ g.type = "ACK" \/ g = out'
        BY <4>1, SendNewMembers
      <4>3. QED
        BY <4>2
    <3>3. CASE Bridge!LLMSilent
      BY <3>2, <3>3 DEF Bridge!LLMSilent
    <3>4. CASE Bridge!LLMTool
      <4>1. PICK tool \in Tools :
                \/ /\ out' = [type |-> "EXEC", id |-> 0, n |-> 0, line |-> tool = "line"]
                   /\ UNCHANGED <<down, nextTxID>>
                \/ Bridge!SendNew([type |-> IF tool = "screen" THEN "SCREENSHOT" ELSE "STOP", id |-> 0])
                \/ /\ out' = [type |-> "STATUSQ", id |-> 0]
                   /\ Bridge!Send(out') /\ UNCHANGED nextTxID
                \/ UNCHANGED <<down, out, nextTxID>>
        BY <3>4 DEF Bridge!LLMTool
      <4>2. CASE out' = [type |-> "EXEC", id |-> 0, n |-> 0, line |-> tool = "line"]
                 /\ UNCHANGED <<down, nextTxID>>
        BY <4>2
      <4>3. CASE Bridge!SendNew([type |-> IF tool = "screen" THEN "SCREENSHOT" ELSE "STOP", id |-> 0])
        <5>1. PICK kind \in {"SCREENSHOT", "STOP"} : Bridge!SendNew([type |-> kind, id |-> 0])
          BY <4>3
        <5>2. QED
          BY <3>2, <5>1
      <4>4. CASE out' = [type |-> "STATUSQ", id |-> 0] /\ Bridge!Send(out') /\ UNCHANGED nextTxID
        <5>1. PICK f : f = out' /\ f.type = "STATUSQ" /\ Bridge!Send(f)
          BY <4>4
        <5>2. \A g \in Bridge!ToSet(down') : g \in Bridge!ToSet(down) \/ g.type = "ACK" \/ g = f
          BY <5>1, SendMembers
        <5>3. QED
          BY <4>4, <5>1, <5>2
      <4>5. QED
        BY <4>1, <4>2, <4>3, <4>4
    <3>5. QED
      BY <1>3, <3>1, <3>3, <3>4 DEF Bridge!Complete
  <2>3. nextTxID <= nextTxID' /\ rxLastID <= rxLastID'
    BY <1>1, <2>2
  <2>4. QED
    BY <1>1, <2>1, <2>2, <2>3, BridgeQuiet
<1>4. QED
  BY <1>2, <1>3

\* A message of the user is no text.
LEMMA UserTexts ==
    ASSUME BridgeInv, TextInv, BridgeTyped, UNCHANGED agentTexts,
           Bridge!Arrive \/ Bridge!Overlap
    PROVE  TextInv'
<1> USE DEF Bridge!ownerVars, Bridge!flagVars, Bridge!chunkVars, Bridge!llmVars, Bridge!userVars
<1>1. UNCHANGED <<up, pendingFrames, rxLastID, emitted, textOut>>
      /\ nextTxID \in Nat /\ rxLastID \in Nat
  BY TextNumbers DEF Bridge!Arrive, Bridge!Overlap
<1>2. /\ \A g \in Bridge!ToSet(down') : g \in Bridge!ToSet(down) \/ g.type # "TEXT"
      /\ out' = out \/ out'.type # "TEXT"
      /\ nextTxID' = nextTxID \/ nextTxID' = nextTxID + 1
  <2>1. CASE Bridge!Arrive /\ pc = "idle"
    <3> DEFINE f == [type |-> "MSG", n |-> arrived', id |-> 0]
    <3>1. Bridge!SendNew(f) /\ [f EXCEPT !.id = nextTxID].type = "MSG"
      BY <2>1 DEF Bridge!Arrive
    <3> HIDE DEF f
    <3>2. out'.type = "MSG" /\ nextTxID' = nextTxID + 1
          /\ \A g \in Bridge!ToSet(down') : g \in Bridge!ToSet(down) \/ g.type = "ACK" \/ g = out'
      BY <3>1, SendNewMembers
    <3>3. QED
      BY <3>2
  <2>2. CASE Bridge!Arrive /\ pc # "idle"
    BY <2>2 DEF Bridge!Arrive
  <2>3. CASE Bridge!Overlap
    <3>1. PICK f : f = [type |-> "MSG", n |-> arrived', id |-> nextTxID] /\ Bridge!Send(f)
      BY <2>3 DEF Bridge!Overlap
    <3>2. \A g \in Bridge!ToSet(down') : g \in Bridge!ToSet(down) \/ g.type = "ACK" \/ g = f
      BY <3>1, SendMembers
    <3>3. UNCHANGED out /\ nextTxID' = nextTxID + 1
      BY <2>3 DEF Bridge!Overlap
    <3>4. QED
      BY <3>1, <3>2, <3>3
  <2>4. QED
    BY <2>1, <2>2, <2>3
<1>3. nextTxID <= nextTxID' /\ rxLastID <= rxLastID'
  BY <1>1, <1>2
<1>4. QED
  BY <1>1, <1>2, <1>3, BridgeQuiet

LEMMA InitTextInv == Init => TextInv
<1> SUFFICES ASSUME Init PROVE TextInv
  OBVIOUS
<1> USE DEF Init, C64!Init, Bridge!Init
<1>1. /\ Bridge!ToSet(down) = {} /\ Bridge!ToSet(up) = {} /\ Bridge!ToSet(pendingFrames) = {}
      /\ Bridge!ToSet(emitted) = {}
      /\ Len(textOut) = 0 /\ Len(pendingFrames) = 0 /\ Len(emitted) = 0
  BY NoMembers
<1>2. TextFrames = {} /\ UserFrames = {} /\ LeftFrames = {} /\ Back = {}
  BY <1>1 DEF TextFrames, UserFrames, LeftFrames, Back, Bridge!None, C64!Nothing
<1>3. AcceptedInv
  BY <1>1 DEF AcceptedInv
<1>4. TextsInOrder /\ NewerToCome /\ OneFrame
  BY <1>1, <1>2 DEF TextsInOrder, NewerToCome, OneFrame
<1>5. OnePlace
  BY <1>1, <1>2 DEF OnePlace, ShownOnce, Bridge!ShownOnce
<1>6. QED
  BY <1>3, <1>4, <1>5 DEF TextInv

\* Every step of the C64 and of the bridge keeps the texts where they may be.
LEMMA StepTextInv == BridgeInv /\ TextInv /\ [Next]_vars => TextInv'
<1> SUFFICES ASSUME BridgeInv, TextInv, [Next]_vars
             PROVE  TextInv'
  OBVIOUS
<1>1. CASE C64Work \/ C64Timer \/ ProgramEnds \/ ProgramTakesLong \/ Heartbeat
  <2>1. UNCHANGED bridgeVars
    BY <1>1 DEF C64Work, C64Timer, ProgramEnds, ProgramTakesLong, Heartbeat
  <2>2. CASE C64Work \/ C64Timer
    BY <2>1, <2>2, SendingTexts, DispatchTexts, BasicTexts DEF C64Work, C64!Work, C64Timer
  <2>3. CASE ProgramEnds \/ ProgramTakesLong \/ Heartbeat
    BY <2>1, <2>3, BasicTexts DEF ProgramEnds, ProgramTakesLong, Heartbeat
  <2>4. QED
    BY <1>1, <2>2, <2>3
<1>2. CASE BridgeWork \/ UserWrites \/ BridgeTimers
  <2>1. UNCHANGED agentTexts
    BY <1>2 DEF BridgeWork, UserWrites, BridgeTimers, c64Vars, agentTexts
  <2>2. CASE Bridge!FlushAcks \/ Bridge!Timeout \/ Bridge!OverlapTimeout \/ Bridge!OverlapAcked
             \/ Bridge!HandOff
    BY <2>1, <2>2, FlushAcksTyped, TimeoutTyped, OverlapTimeoutTyped, OverlapAckedTyped,
       HandOffTyped, RepeatTexts
  <2>3. CASE Bridge!DropStale \/ Bridge!StrayAck \/ Bridge!AckArrives \/ Bridge!GraceEnds
    BY <2>1, <2>3, DropStaleTyped, AckStepsTyped, GraceEndsTyped, DroppedTexts
  <2>4. CASE Bridge!WaitReceives \/ Bridge!DrainReceives
    BY <2>1, <2>4, WaitReceivesTyped, DrainReceivesTyped, AcceptedTexts
  <2>5. CASE Bridge!Loop \/ Bridge!TrailingDrain
    BY <2>1, <2>5, LoopTyped, TrailingDrainTyped, LoopTakesTexts
  <2>6. CASE Bridge!DrainEnds \/ Bridge!Complete
    BY <2>1, <2>6, DrainEndsTyped, CompleteTyped, DrainEndsTexts, CompleteTexts
  <2>7. CASE UserWrites
    BY <2>1, <2>7, UserTyped, UserTexts DEF UserWrites
  <2>8. QED
    BY <1>2, <2>2, <2>3, <2>4, <2>5, <2>6, <2>7
       DEF BridgeWork, Bridge!Work, BridgeTimers, Bridge!Timers
<1>3. CASE UNCHANGED vars
  <2>1. UNCHANGED bridgeVars
        /\ UNCHANGED <<down, up, send_buf, exec_buf, tx_next_id, rx_last_id, text_pending>>
    BY <1>3 DEF vars, c64Vars
  <2>2. rx_last_id \in Nat
    BY TextNumbers
  <2>3. QED
    BY <2>1, <2>2, AgentQuiet
<1>4. QED
  BY <1>1, <1>2, <1>3 DEF Next

\* No text is shown twice, whatever is repeated on the way to the C64 and back: a
\* TEXT frame until its USER frame comes (relay.go, waitForAckID), the USER frame until
\* it is acknowledged (agent.asm, ul_ack_timeout).
THEOREM TextShownOnce == Spec => []ShownOnce
<1>1. TextInv => ShownOnce
  BY DEF TextInv, OnePlace
<1>2. QED
  BY <1>1, InitBridgeInv, StepBridgeInv, InitTextInv, StepTextInv, PTL DEF Spec
=============================================================================
