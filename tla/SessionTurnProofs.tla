------------------------- MODULE SessionTurnProofs -------------------------
(***************************************************************************)
(* Proofs about the turns of a conversation in which the LLM calls no tool *)
(* and does not fail, in which the C64 is not left alone for the two       *)
(* minutes of a heartbeat, and in which no timer runs out while the answer *)
(* it waits for is coming: AllTextsShown and IdleTogether.  The last is an *)
(* assumption on the timing of a session, which the code's timers do not   *)
(* guarantee; without it both can fail (README, section 6).                *)
(*                                                                         *)
(* PlainInv says for each place where the owner of the gate waits what the *)
(* C64, the line and the frames left for the loop have for it: its last    *)
(* request or the ACK of it, the prompt and the LLM frame of a message, or *)
(* the USER frame of a text.  LinesInv has what is common to all places:   *)
(* each side has one reliable frame that the other has not taken, and the  *)
(* rest of the line are ACKs.  PromptInv and TextsInv count the chunks of  *)
(* the prompt and the texts: each is in one place, in order.               *)
(*                                                                         *)
(* The assumption leaves the timers whose answer does not come.  There are *)
(* none: while the bridge waits its answer is somewhere (NoTimeout), and   *)
(* the bridge is there to acknowledge what the C64 has sent                *)
(* (NothingRepeated).                                                      *)
(***************************************************************************)
EXTENDS SessionProofs, FiniteSetTheorems, TLAPS

\* The model has no tools and does not fail, the C64 is not left alone for long, and
\* no timer runs out early.
Plain == Tools = {} /\ ~LLMFails /\ Heartbeats = 0 /\ EarlyTimeouts = 0

\* Then BASIC has nothing to do, and nobody passes the owner of the gate.
NoTools ==
    /\ agent_state = "IDLE" /\ ~basic_running /\ basic = "prompt" /\ ~ready
    /\ result_pending = 0 /\ state_pending = "none" /\ userq = <<>>
    /\ overlap = Bridge!None /\ ~basicRunning /\ ~waitingTool /\ ~completionDrain
    /\ \A i \in 1..Len(waiters) : ~waiters[i].sent
    /\ pc \in {"idle", "msgWait", "loop", "llmBatch", "call", "doneWait", "textDrain",
               "textWait", "userDrain", "leave"}
    /\ pc = "idle" => waiters = <<>>

(* Frames to the C64: ACKs of the one that it has sent, then the request. *)
AckOf(id) == [type |-> "ACK", id |-> id]
Asked(d) == d # <<>> /\ d[Len(d)].type # "ACK"
DownTrue(d, id, request) ==
    \A i \in 1..Len(d) : d[i] = AckOf(id) \/ (i = Len(d) /\ d[i] = request)

(* Frames from the C64: old ACKs, and at times the one frame f that waits to be
   taken. *)
UpOld(u, last) == \A i \in 1..Len(u) : u[i].type = "ACK" /\ u[i].id <= last
UpWith(u, last, f) ==
    /\ \A i \in 1..Len(u) : IF u[i].type = "ACK" THEN u[i].id <= last ELSE u[i] = f
    /\ \A i, j \in 1..Len(u) : u[i].type # "ACK" /\ u[j].type # "ACK" => i = j
    /\ \E i \in 1..Len(u) : u[i] = f
NoAckIn(u) == \A i \in 1..Len(u) : u[i].type # "ACK"
NotAcked(u, id) == \A i \in 1..Len(u) : u[i].type = "ACK" => u[i].id < id
\* The ACK of id is there, behind all others.
Acked(u, id) ==
    \E i \in 1..Len(u) :
        /\ u[i] = AckOf(id)
        /\ \A j \in 1..Len(u) : u[j].type = "ACK" /\ j # i => j < i /\ u[j].id < id

(* Frames left for the loop: chunks of the prompt from number c on, then the LLM
   frame; or texts from number n on. *)
HasLLM(p) == p # <<>> /\ p[Len(p)].type = "LLM"
Systems(p) == IF HasLLM(p) THEN Len(p) - 1 ELSE Len(p)
SystemsFirst(p) == \A i \in 1..Systems(p) : p[i].type = "SYSTEM"
Chunks(p, c) == \A i \in 1..Systems(p) : p[i].at = c + i - 1 /\ p[i].total = PromptChunks
AllUser(p) == \A i \in 1..Len(p) : p[i].type = "USER"
UsersFrom(p, n) == \A i \in 1..Len(p) : p[i].type = "USER" => p[i].n = n + i

\* The last request is on its way; the last frame of the C64 is, or is in its buffer.
Requested == Asked(down)
Fresh == rxLastID # send_buf.id
FreshOf(kind) == Fresh /\ send_buf.type = kind

\* What the C64 has to send is not taken yet, one frame at a time.
LinesInv ==
    /\ nextTxID = out.id + 1 /\ out.id = (IF Requested THEN rx_last_id + 1 ELSE rx_last_id)
    /\ tx_next_id = send_buf.id + 1 /\ send_buf.id \in {rxLastID, rxLastID + 1}
    /\ DownTrue(down, send_buf.id, out)
    /\ IF Fresh THEN UpWith(up, rx_last_id, send_buf) ELSE UpOld(up, rx_last_id)
    /\ Fresh => tx_ack_wait /\ down = <<>> /\ pendingAcks = <<>>
    /\ Requested => pendingAcks = <<>>
    /\ pendingAcks # <<>> =>
          pendingAcks = <<send_buf.id>> /\ pc \in {"msgWait", "loop", "llmBatch"}
    /\ tx_ack_wait => Fresh \/ pendingAcks # <<>> \/ down # <<>>
    /\ send_buf.type # "ACK" /\ out.type # "ACK"
    /\ pc = "loop" => pendingFrames = <<>> \/ pendingAcks = <<>>
    /\ ack_pending \/ deferred_ack => ack_id <= rx_last_id

\* The C64 has nothing to send.
Still == prompt_pending = 0 /\ llm_pending = "none" /\ ~text_pending /\ ~Fresh

NoAck == ~ack_pending /\ ~deferred_ack /\ NoAckIn(up)

\* The ACK of the request is the last that comes.
AckComes ==
    \/ /\ ack_pending /\ ack_id = out.id /\ (deferred_ack => ~tx_ack_wait)
       /\ NotAcked(up, out.id)
    \/ ~ack_pending /\ ~deferred_ack /\ Acked(up, out.id)

\* The LLM frame of a message is in one place, behind the prompt.
LLMComes ==
    /\ busy /\ ~text_pending /\ prompt_sent
    /\ SystemsFirst(pendingFrames)
    /\ Fresh => ~HasLLM(pendingFrames) /\ send_buf.type \in {"SYSTEM", "LLM"}
    /\ llm_pending = IF HasLLM(pendingFrames) \/ FreshOf("LLM") THEN "none" ELSE "user"
    /\ llm_pending = "none" => prompt_pending = 0
    /\ IF tx_ack_wait /\ ~Fresh
       THEN Len(down) + Len(pendingAcks) = 1 ELSE down = <<>> /\ pendingAcks = <<>>

\* The USER frame of a TEXT is in one place.
TextComes ==
    /\ deferred_ack /\ ack_id = out.id /\ ~busy
    /\ prompt_pending = 0 /\ llm_pending = "none" /\ down = <<>>
    /\ \/ text_pending /\ exec_buf = out /\ ~Fresh /\ ~tx_ack_wait
       \/ ~text_pending /\ FreshOf("USER") /\ send_buf.n = out.n

\* Where the call is, and what the C64 and the line have for it.
Between ==
    /\ ~Requested /\ Still /\ pendingFrames = <<>> /\ ~ack_pending /\ ~busy
    /\ pc = "idle" => ~delivered /\ ~silent
Messaging ==
    /\ out.type = "MSG" /\ ~delivered /\ ~silent
    /\ IF Requested THEN Still /\ pendingFrames = <<>> /\ ~ack_pending /\ ~busy
       ELSE LLMComes /\ AckComes
Prompting == out.type = "MSG" /\ ~Requested /\ LLMComes /\ ~delivered /\ ~silent /\ NoAck
Asking ==
    out.type = "MSG" /\ ~Requested /\ ~delivered /\ ~silent /\ Still /\ pendingFrames = <<>> /\ NoAck
Ending ==
    /\ out.type = "DONE" /\ Still /\ pendingFrames = <<>>
    /\ IF Requested THEN NoAck ELSE AckComes /\ ~busy
Ended == out.type = "DONE" /\ ~Requested /\ Still /\ pendingFrames = <<>> /\ ~busy /\ NoAck
Draining ==
    out.type \in {"MSG", "TEXT"} /\ ~Requested /\ Still /\ ~ack_pending /\ AllUser(pendingFrames)
Showing ==
    /\ out.type = "TEXT" /\ ~ack_pending /\ AllUser(pendingFrames)
    /\ NotAcked(up, out.id)
    /\ IF Requested THEN Still ELSE TextComes
Shown ==
    /\ out.type = "TEXT" /\ ~Requested /\ Still /\ ~ack_pending /\ ~busy
    /\ AllUser(pendingFrames) \/ (Len(pendingFrames) = 1 /\ pendingFrames[1].type = "ACK")

TurnInv ==
    /\ pc \in {"idle", "leave"} => Between
    /\ pc = "msgWait" => Messaging
    /\ pc = "loop" => Prompting \/ Ended \/ Shown
    /\ pc \in {"llmBatch", "call"} => Asking
    /\ pc = "doneWait" => Ending
    /\ pc = "textDrain" => Draining
    /\ pc = "textWait" => Showing
    /\ pc = "userDrain" => Shown /\ AllUser(pendingFrames)

\* The chunks of the prompt come in order, one of each; then the prompt is there.
PromptComes(c) ==
    /\ promptChunks = 0..(c - 1) /\ Chunks(pendingFrames, c)
    /\ IF FreshOf("SYSTEM")
       THEN /\ send_buf.at = c + Systems(pendingFrames) /\ send_buf.total = PromptChunks
            /\ prompt_pending = PromptChunks - (c + Systems(pendingFrames) + 1)
       ELSE prompt_pending = PromptChunks - (c + Systems(pendingFrames))

PromptInv ==
    /\ prompted =>
          /\ promptChunks = {} /\ prompt_pending = 0 /\ prompt_sent /\ ~FreshOf("SYSTEM")
          /\ \A i \in 1..Len(pendingFrames) : pendingFrames[i].type # "SYSTEM"
    /\ ~prompt_sent => promptChunks = {} /\ ~prompted /\ pc \in {"idle", "msgWait"}
                       /\ (pc = "msgWait" => Requested) /\ prompt_pending = 0
    /\ ~prompted /\ prompt_sent =>
          /\ pc \in {"msgWait", "loop"} /\ out.type = "MSG" /\ ~Requested
          /\ \E c \in 0..(PromptChunks - 1) : PromptComes(c)

\* Every text is in one place, in order.
Taken == IF AllUser(pendingFrames) THEN Len(pendingFrames) ELSE 0
Sent == IF pc = "textWait" THEN 1 ELSE 0
TextsInv ==
    /\ \A i \in 1..Len(emitted) : emitted[i] = i
    /\ UsersFrom(pendingFrames, Len(emitted))
    /\ pc = "textWait" => out.n = Len(emitted) + Taken + 1
    /\ \A i \in 1..Len(textOut) : textOut[i] = Len(emitted) + Taken + Sent + i
    /\ texts = Len(emitted) + Taken + Sent + Len(textOut)
    /\ pc \notin {"textDrain", "textWait"} => textOut = <<>>

PlainInv == NoTools /\ LinesInv /\ TurnInv /\ PromptInv /\ TextsInv

-----------------------------------------------------------------------------
(* Frames on the line and frames left for the loop, one more or one less *)

\* A sequence without its k-th element.
LEMMA RemovedAt ==
    ASSUME NEW S, NEW s \in Seq(S), NEW k \in 1..Len(s), NEW t, t = Bridge!RemoveAt(s, k)
    PROVE  /\ t \in Seq(S) /\ Len(t) = Len(s) - 1 /\ Len(s) \in Nat
           /\ \A i \in 1..Len(t) : t[i] = IF i < k THEN s[i] ELSE s[i + 1]
<1>1. Len(s) \in Nat /\ t = SubSeq(s, 1, k - 1) \o SubSeq(s, k + 1, Len(s))
  BY DEF Bridge!RemoveAt
<1>2. /\ SubSeq(s, 1, k - 1) \in Seq(S) /\ Len(SubSeq(s, 1, k - 1)) = k - 1
      /\ \A i \in 1..(k - 1) : SubSeq(s, 1, k - 1)[i] = s[i]
  <2>1. 1 \in Int /\ k - 1 \in Int /\ \A i \in 1..(k - 1) : s[i] \in S
    BY <1>1
  <2>2. /\ SubSeq(s, 1, k - 1) \in Seq(S)
        /\ Len(SubSeq(s, 1, k - 1)) = IF 1 <= k - 1 THEN (k - 1) - 1 + 1 ELSE 0
        /\ \A i \in 1..((k - 1) - 1 + 1) : SubSeq(s, 1, k - 1)[i] = s[1 + i - 1]
    BY <2>1, SubSeqProperties
  <2>3. (k - 1) - 1 + 1 = k - 1 /\ \A i \in 1..(k - 1) : 1 + i - 1 = i
    BY <1>1
  <2>4. QED
    BY <1>1, <2>2, <2>3
<1>3. /\ SubSeq(s, k + 1, Len(s)) \in Seq(S) /\ Len(SubSeq(s, k + 1, Len(s))) = Len(s) - k
      /\ \A i \in 1..(Len(s) - k) : SubSeq(s, k + 1, Len(s))[i] = s[k + i]
  <2>1. k + 1 \in Int /\ Len(s) \in Int /\ \A i \in (k + 1)..Len(s) : s[i] \in S
    BY <1>1
  <2>2. /\ SubSeq(s, k + 1, Len(s)) \in Seq(S)
        /\ Len(SubSeq(s, k + 1, Len(s))) = IF k + 1 <= Len(s) THEN Len(s) - (k + 1) + 1 ELSE 0
        /\ \A i \in 1..(Len(s) - (k + 1) + 1) : SubSeq(s, k + 1, Len(s))[i] = s[(k + 1) + i - 1]
    BY <2>1, SubSeqProperties
  <2>3. /\ \A i \in 1..(Len(s) - k) :
              i \in 1..(Len(s) - (k + 1) + 1) /\ (k + 1) + i - 1 = k + i
        /\ (IF k + 1 <= Len(s) THEN Len(s) - (k + 1) + 1 ELSE 0) = Len(s) - k
    BY <1>1
  <2>4. \A i \in 1..(Len(s) - k) : SubSeq(s, k + 1, Len(s))[i] = s[k + i]
    BY <2>2, <2>3, Zenon
  <2>5. QED
    BY <2>2, <2>3, <2>4, Zenon
<1> DEFINE a == SubSeq(s, 1, k - 1)
           b == SubSeq(s, k + 1, Len(s))
<1>4. t = a \o b
  BY <1>1
<1>5. /\ a \o b \in Seq(S) /\ Len(a \o b) = Len(s) - 1
      /\ \A i \in 1..(Len(s) - 1) : (a \o b)[i] = IF i < k THEN a[i] ELSE b[i - (k - 1)]
  <2>1. a \in Seq(S) /\ b \in Seq(S) /\ Len(a) = k - 1 /\ Len(b) = Len(s) - k
    BY <1>2, <1>3
  <2> HIDE DEF a, b
  <2>2. /\ a \o b \in Seq(S) /\ Len(a \o b) = Len(a) + Len(b)
        /\ \A i \in 1..Len(a) + Len(b) : (a \o b)[i] = IF i <= Len(a) THEN a[i] ELSE b[i - Len(a)]
    BY <2>1, ConcatProperties
  <2>3. QED
    BY <1>1, <2>1, <2>2
<1>6. \A i \in 1..(Len(s) - 1) : IF i < k THEN i \in 1..(k - 1)
                                 ELSE i - (k - 1) \in 1..(Len(s) - k) /\ k + (i - (k - 1)) = i + 1
  BY <1>1
<1>2a. \A i \in 1..(k - 1) : a[i] = s[i]
  BY <1>2
<1>3a. \A i \in 1..(Len(s) - k) : b[i] = s[k + i]
  BY <1>3
<1> HIDE DEF a, b
<1>7. ASSUME NEW i \in 1..(Len(s) - 1) PROVE (a \o b)[i] = IF i < k THEN s[i] ELSE s[i + 1]
  <2>1. CASE i < k
    BY <1>2a, <1>5, <1>6, <2>1
  <2>2. CASE ~(i < k)
    <3>1. i - (k - 1) \in 1..(Len(s) - k) /\ k + (i - (k - 1)) = i + 1
      BY <1>6, <2>2
    <3>2. (a \o b)[i] = s[k + (i - (k - 1))]
      BY <1>3a, <1>5, <2>2, <3>1
    <3>3. QED
      BY <2>2, <3>1, <3>2
  <2>3. QED
    BY <2>1, <2>2
<1>8. QED
  BY <1>1, <1>4, <1>5, <1>7

LEMMA AckFields == \A id : AckOf(id).type = "ACK" /\ AckOf(id).id = id
  BY DEF AckOf

\* Without a request there are only ACKs.
LEMMA OnlyAcks ==
    ASSUME NEW S, NEW d \in Seq(S), NEW id, NEW o, DownTrue(d, id, o), ~Asked(d), o.type # "ACK"
    PROVE  \A i \in 1..Len(d) : d[i] = AckOf(id)
<1>1. Len(d) \in Nat /\ (d = <<>> \/ Len(d) > 0)
  OBVIOUS
<1>2. \A i \in 1..Len(d) : d # <<>>
  BY <1>1
<1>3. QED
  BY <1>1, <1>2 DEF DownTrue, Asked

\* The C64 takes the first frame: an ACK, or the request, which is the last one.
LEMMA DownTail ==
    ASSUME NEW S, NEW d \in Seq(S), NEW id, NEW o, DownTrue(d, id, o), o.type # "ACK", d # <<>>
    PROVE  /\ DownTrue(Tail(d), id, o) /\ Len(Tail(d)) = Len(d) - 1
           /\ \/ Head(d) = AckOf(id) /\ (Asked(Tail(d)) <=> Asked(d))
              \/ Head(d) = o /\ Tail(d) = <<>> /\ Asked(d)
<1>1. /\ Len(d) \in Nat /\ Len(d) >= 1 /\ Head(d) = d[1] /\ Tail(d) \in Seq(S)
      /\ Len(Tail(d)) = Len(d) - 1 /\ \A i \in 1..(Len(d) - 1) : Tail(d)[i] = d[i + 1]
  OBVIOUS
<1>2. DownTrue(Tail(d), id, o)
  <2> SUFFICES ASSUME NEW i \in 1..Len(Tail(d))
               PROVE  Tail(d)[i] = AckOf(id) \/ (i = Len(Tail(d)) /\ Tail(d)[i] = o)
    BY DEF DownTrue
  <2>1. i + 1 \in 1..Len(d) /\ Tail(d)[i] = d[i + 1]
    BY <1>1
  <2>2. d[i + 1] = AckOf(id) \/ (i + 1 = Len(d) /\ d[i + 1] = o)
    BY <2>1 DEF DownTrue
  <2>3. QED
    BY <1>1, <2>1, <2>2
<1>3. d[1] = AckOf(id) \/ (1 = Len(d) /\ d[1] = o)
  <2>1. 1 \in 1..Len(d)
    BY <1>1
  <2>2. QED
    BY <2>1 DEF DownTrue
<1>4. CASE Len(d) = 1
  <2>1. Tail(d) = <<>>
    <3>1. Len(Tail(d)) = 0 /\ Tail(d) \in Seq(S)
      BY <1>1, <1>4
    <3>2. QED
      BY <3>1, EmptySeq
  <2>2. Asked(d) <=> d[1].type # "ACK"
    BY <1>4 DEF Asked
  <2>3. ~Asked(Tail(d))
    BY <2>1 DEF Asked
  <2>4. QED
    BY <1>1, <1>2, <1>3, <2>1, <2>2, <2>3, AckFields
<1>5. CASE Len(d) # 1
  <2>1. Tail(d) # <<>> /\ Tail(d)[Len(Tail(d))] = d[Len(d)]
    <3>1. Len(Tail(d)) \in 1..(Len(d) - 1) /\ Len(Tail(d)) + 1 = Len(d) /\ Len(Tail(d)) # 0
      BY <1>1, <1>5
    <3>2. Tail(d)[Len(Tail(d))] = d[Len(Tail(d)) + 1]
      BY <1>1, <3>1
    <3>3. Len(<<>>) = 0
      OBVIOUS
    <3>4. QED
      BY <3>1, <3>2, <3>3
  <2>2. Asked(Tail(d)) <=> Asked(d)
    BY <2>1 DEF Asked
  <2>3. QED
    BY <1>1, <1>2, <1>3, <1>5, <2>2
<1>6. QED
  BY <1>4, <1>5

\* One more ACK for the C64.
LEMMA DownAck ==
    ASSUME NEW S, NEW d \in Seq(S), NEW id, NEW o, DownTrue(d, id, o), ~Asked(d), o.type # "ACK",
           AckOf(id) \in S
    PROVE  /\ \A p : DownTrue(d \o <<AckOf(id)>>, id, p)
           /\ ~Asked(d \o <<AckOf(id)>>) /\ d \o <<AckOf(id)>> \in Seq(S)
           /\ Len(d \o <<AckOf(id)>>) = Len(d) + 1 /\ Len(d) \in Nat /\ d \o <<AckOf(id)>> # <<>>
<1> DEFINE e == d \o <<AckOf(id)>>
<1>1. /\ Len(d) \in Nat /\ e \in Seq(S) /\ Len(e) = Len(d) + 1
      /\ \A i \in 1..(Len(d) + 1) : e[i] = IF i <= Len(d) THEN d[i] ELSE AckOf(id)
  <2>1. e = Append(d, AckOf(id))
    OBVIOUS
  <2>2. QED
    BY <2>1
<1> HIDE DEF e
<1>2. \A i \in 1..Len(d) : d[i] = AckOf(id)
  BY OnlyAcks
<1>3. \A i \in 1..Len(e) : e[i] = AckOf(id)
  BY <1>1, <1>2
<1>4. e # <<>>
  <2>1. Len(<<>>) = 0 /\ Len(e) # 0
    BY <1>1
  <2>2. QED
    BY <2>1
<1>5. ~Asked(e)
  <2>1. Len(e) \in 1..Len(e)
    BY <1>1
  <2>2. QED
    BY <1>3, <2>1, AckFields DEF Asked
<1>6. QED
  BY <1>1, <1>3, <1>4, <1>5 DEF DownTrue, e

\* A request goes behind the ACKs.
LEMMA DownRequest ==
    ASSUME NEW S, NEW d \in Seq(S), NEW id, NEW o, DownTrue(d, id, o), ~Asked(d), o.type # "ACK",
           NEW r \in S, r.type # "ACK"
    PROVE  DownTrue(Append(d, r), id, r) /\ Asked(Append(d, r))
<1>1. /\ Len(d) \in Nat /\ Append(d, r) # <<>> /\ Len(Append(d, r)) = Len(d) + 1
      /\ \A i \in 1..(Len(d) + 1) : Append(d, r)[i] = IF i <= Len(d) THEN d[i] ELSE r
  OBVIOUS
<1>2. \A i \in 1..Len(d) : d[i] = AckOf(id)
  BY OnlyAcks
<1>3. \A i \in 1..(Len(d) + 1) : i \in 1..Len(d) \/ i = Len(d) + 1
  BY <1>1
<1>4. DownTrue(Append(d, r), id, r)
  BY <1>1, <1>2, <1>3 DEF DownTrue
<1>5. Append(d, r)[Len(d) + 1] = r
  BY <1>1
<1>6. QED
  BY <1>1, <1>4, <1>5 DEF Asked

LEMMA DownNone == \A id, o : DownTrue(<<>>, id, o) /\ ~Asked(<<>>)
  BY DEF DownTrue, Asked

\* One more ACK for the bridge.
LEMMA UpMoreAck ==
    ASSUME NEW S, NEW u \in Seq(S), NEW last \in Nat, NEW f,
           NEW id \in Nat, id <= last, AckOf(id) \in S
    PROVE  /\ UpOld(u, last) => UpOld(Append(u, AckOf(id)), last)
           /\ UpWith(u, last, f) => UpWith(Append(u, AckOf(id)), last, f)
           /\ NotAcked(u, id) => Acked(Append(u, AckOf(id)), id)
           /\ \A k \in Nat : NotAcked(u, k) /\ id < k => NotAcked(Append(u, AckOf(id)), k)
<1> DEFINE v == Append(u, AckOf(id))
<1>1. /\ Len(u) \in Nat /\ Len(v) = Len(u) + 1 /\ v[Len(u) + 1] = AckOf(id)
      /\ \A i \in 1..Len(u) : v[i] = u[i]
      /\ \A i \in 1..Len(u) + 1 : i \in 1..Len(u) \/ i = Len(u) + 1
  OBVIOUS
<1> HIDE DEF v
<1>2. AckOf(id).type = "ACK" /\ AckOf(id).id = id
  BY AckFields
<1>3. UpOld(u, last) => UpOld(v, last)
  BY <1>1, <1>2 DEF UpOld
<1>3a. ASSUME UpWith(u, last, f) PROVE UpWith(v, last, f)
  <2>1. \A i \in 1..Len(v) : IF v[i].type = "ACK" THEN v[i].id <= last ELSE v[i] = f
    BY <1>1, <1>2, <1>3a DEF UpWith
  <2>2. \A i, j \in 1..Len(v) : v[i].type # "ACK" /\ v[j].type # "ACK" => i = j
    BY <1>1, <1>2, <1>3a DEF UpWith
  <2>3. \E i \in 1..Len(v) : v[i] = f
    <3>1. \A i \in 1..Len(u) : i \in 1..Len(v)
      BY <1>1
    <3>2. QED
      BY <1>1, <1>3a, <3>1 DEF UpWith
  <2>4. QED
    BY <2>1, <2>2, <2>3 DEF UpWith
<1>4. NotAcked(u, id) => Acked(v, id)
  <2> SUFFICES ASSUME NotAcked(u, id) PROVE Acked(v, id)
    OBVIOUS
  <2>1. Len(u) + 1 \in 1..Len(v) /\ v[Len(u) + 1] = AckOf(id)
    BY <1>1
  <2>2. \A j \in 1..Len(v) : v[j].type = "ACK" /\ j # Len(u) + 1 => j < Len(u) + 1 /\ v[j].id < id
    BY <1>1 DEF NotAcked
  <2>3. QED
    BY <2>1, <2>2 DEF Acked
<1>5. \A k \in Nat : NotAcked(u, k) /\ id < k => NotAcked(v, k)
  BY <1>1, <1>2 DEF NotAcked
<1>6. QED
  BY <1>3, <1>3a, <1>4, <1>5 DEF v

\* The C64 sends its frame.
LEMMA UpBuild ==
    ASSUME NEW S, NEW u \in Seq(S), NEW last \in Nat, UpOld(u, last),
           NEW f \in S, f.type # "ACK"
    PROVE  /\ UpWith(Append(u, f), last, f)
           /\ NoAckIn(u) => NoAckIn(Append(u, f))
           /\ \A k : NotAcked(u, k) => NotAcked(Append(u, f), k)
           /\ \A k : Acked(u, k) => Acked(Append(u, f), k)
<1> DEFINE v == Append(u, f)
<1>1. /\ Len(u) \in Nat /\ Len(v) = Len(u) + 1 /\ v[Len(u) + 1] = f
      /\ \A i \in 1..Len(u) : v[i] = u[i] /\ i \in 1..Len(v)
      /\ \A i \in 1..Len(u) + 1 : i \in 1..Len(u) \/ i = Len(u) + 1
      /\ Len(u) + 1 \in 1..Len(v)
  OBVIOUS
<1> HIDE DEF v
<1>2. \A i \in 1..Len(u) : u[i].type = "ACK" /\ u[i].id <= last
  BY DEF UpOld
<1>3. UpWith(v, last, f)
  BY <1>1, <1>2 DEF UpWith
<1>4. NoAckIn(u) => NoAckIn(v)
  BY <1>1 DEF NoAckIn
<1>5. \A k : NotAcked(u, k) => NotAcked(v, k)
  BY <1>1 DEF NotAcked
<1>6. \A k : Acked(u, k) => Acked(v, k)
  <2> SUFFICES ASSUME NEW k, Acked(u, k) PROVE Acked(v, k)
    OBVIOUS
  <2>1. PICK i \in 1..Len(u) :
            /\ u[i] = AckOf(k)
            /\ \A j \in 1..Len(u) : u[j].type = "ACK" /\ j # i => j < i /\ u[j].id < k
    BY DEF Acked
  <2>2. i \in 1..Len(v) /\ v[i] = AckOf(k)
    BY <1>1, <2>1
  <2>3. \A j \in 1..Len(v) : v[j].type = "ACK" /\ j # i => j < i /\ v[j].id < k
    BY <1>1, <2>1
  <2>4. QED
    BY <2>2, <2>3 DEF Acked
<1>7. QED
  BY <1>3, <1>4, <1>5, <1>6 DEF v

\* A newer request has no ACK yet, and makes old ACKs older.
LEMMA UpLater ==
    ASSUME NEW S, NEW u \in Seq(S), NEW last \in Nat, NEW f, UpOld(u, last) \/ UpWith(u, last, f),
           \A x \in S : x.id \in Nat
    PROVE  /\ UpOld(u, last) => UpOld(u, last + 1)
           /\ UpWith(u, last, f) => UpWith(u, last + 1, f)
           /\ NotAcked(u, last + 1)
           /\ NoAckIn(u) => \A k : NotAcked(u, k)
<1>1. \A i \in 1..Len(u) : u[i].id \in Nat
  OBVIOUS
<1>2. \A i \in 1..Len(u) : u[i].type = "ACK" => u[i].id <= last + 1 /\ u[i].id < last + 1
  BY <1>1 DEF UpOld, UpWith
<1>3. QED
  BY <1>2 DEF UpOld, UpWith, NotAcked, NoAckIn

\* The bridge takes the k-th frame, an ACK.
LEMMA UpLessAck ==
    ASSUME NEW S, NEW u \in Seq(S), NEW last \in Nat, NEW f,
           NEW k \in 1..Len(u), u[k].type = "ACK", f.type # "ACK",
           NEW t, t = Bridge!RemoveAt(u, k)
    PROVE  /\ UpOld(u, last) => UpOld(t, last)
           /\ UpWith(u, last, f) => UpWith(t, last, f)
           /\ NoAckIn(u) => NoAckIn(t)
           /\ \A id : NotAcked(u, id) => NotAcked(t, id)
           /\ \A id : Acked(u, id) /\ u[k] # AckOf(id) => Acked(t, id)
           /\ \A id : Acked(u, id) /\ u[k] = AckOf(id)
                      /\ (\A j \in 1..(k - 1) : u[j].type # "ACK") /\ id \in Nat => NoAckIn(t)
<1>1. /\ Len(t) = Len(u) - 1 /\ Len(u) \in Nat
      /\ \A i \in 1..Len(t) : t[i] = IF i < k THEN u[i] ELSE u[i + 1]
  BY RemovedAt
<1> DEFINE old(i) == IF i < k THEN i ELSE i + 1
           new(i) == IF i < k THEN i ELSE i - 1
<1>2. /\ \A i \in 1..Len(t) : old(i) \in 1..Len(u) /\ old(i) # k /\ t[i] = u[old(i)]
      /\ \A i, j \in 1..Len(t) : (old(i) = old(j) => i = j) /\ (old(i) < old(j) => i < j)
  BY <1>1
<1>3. \A i \in 1..Len(u) : i # k => new(i) \in 1..Len(t) /\ old(new(i)) = i /\ t[new(i)] = u[i]
  BY <1>1
<1>3a. \A i \in 1..Len(t), j \in 1..Len(u) : j # k /\ old(i) < j => i < new(j)
  BY <1>1
<1> HIDE DEF old, new
<1>4. UpOld(u, last) => UpOld(t, last)
  BY <1>2 DEF UpOld
<1>4a. ASSUME UpWith(u, last, f) PROVE UpWith(t, last, f)
  <2>1. \A i \in 1..Len(t) : IF t[i].type = "ACK" THEN t[i].id <= last ELSE t[i] = f
    BY <1>2, <1>4a DEF UpWith
  <2>2. \A i, j \in 1..Len(t) : t[i].type # "ACK" /\ t[j].type # "ACK" => i = j
    BY <1>2, <1>4a DEF UpWith
  <2>3. \E i \in 1..Len(t) : t[i] = f
    BY <1>3, <1>4a DEF UpWith
  <2>4. QED
    BY <2>1, <2>2, <2>3 DEF UpWith
<1>5. (NoAckIn(u) => NoAckIn(t)) /\ \A id : NotAcked(u, id) => NotAcked(t, id)
  BY <1>2 DEF NoAckIn, NotAcked
<1>6. ASSUME NEW id, Acked(u, id), u[k] # AckOf(id) PROVE Acked(t, id)
  <2>1. PICK i \in 1..Len(u) :
            /\ u[i] = AckOf(id)
            /\ \A j \in 1..Len(u) : u[j].type = "ACK" /\ j # i => j < i /\ u[j].id < id
    BY <1>6 DEF Acked
  <2>2. i # k
    BY <1>6, <2>1
  <2>3. new(i) \in 1..Len(t) /\ t[new(i)] = AckOf(id) /\ old(new(i)) = i
    BY <1>3, <2>1, <2>2
  <2>4. ASSUME NEW j \in 1..Len(t), t[j].type = "ACK", j # new(i)
        PROVE  j < new(i) /\ t[j].id < id
    <3>1. old(j) \in 1..Len(u) /\ t[j] = u[old(j)] /\ old(j) # i
      BY <1>2, <2>3, <2>4
    <3>2. old(j) < i /\ u[old(j)].id < id
      BY <2>1, <2>4, <3>1
    <3>3. QED
      BY <1>3a, <2>2, <3>1, <3>2
  <2>5. QED
    BY <2>3, <2>4 DEF Acked
<1>7. ASSUME NEW id \in Nat, Acked(u, id), u[k] = AckOf(id), \A j \in 1..(k - 1) : u[j].type # "ACK"
      PROVE  NoAckIn(t)
  <2>1. PICK i \in 1..Len(u) :
            /\ u[i] = AckOf(id)
            /\ \A j \in 1..Len(u) : u[j].type = "ACK" /\ j # i => j < i /\ u[j].id < id
    BY <1>7 DEF Acked
  <2>2. u[k].id = id
    BY <1>7, AckFields
  <2>3. i = k
    BY <1>7, <2>1, <2>2
  <2>4. ASSUME NEW j \in 1..Len(t), t[j].type = "ACK" PROVE FALSE
    <3>1. old(j) \in 1..Len(u) /\ t[j] = u[old(j)] /\ old(j) # i
      BY <1>2, <2>3
    <3>2. old(j) < k
      BY <2>1, <2>3, <2>4, <3>1
    <3>3. old(j) \in 1..(k - 1)
      BY <3>1, <3>2
    <3>4. QED
      BY <1>7, <2>4, <3>1, <3>3
  <2>5. QED
    BY <2>4 DEF NoAckIn
<1>8. QED
  BY <1>4, <1>4a, <1>5, <1>6, <1>7

\* The bridge takes the k-th frame, the one of the C64.
LEMMA UpLessData ==
    ASSUME NEW S, NEW u \in Seq(S), NEW last \in Nat, NEW f, UpWith(u, last, f),
           NEW k \in 1..Len(u), u[k].type # "ACK",
           NEW t, t = Bridge!RemoveAt(u, k)
    PROVE  /\ u[k] = f /\ UpOld(t, last)
           /\ NoAckIn(u) => NoAckIn(t)
           /\ \A id : NotAcked(u, id) => NotAcked(t, id)
           /\ \A id : Acked(u, id) => Acked(t, id)
<1>1. /\ Len(t) = Len(u) - 1 /\ Len(u) \in Nat
      /\ \A i \in 1..Len(t) : t[i] = IF i < k THEN u[i] ELSE u[i + 1]
  BY RemovedAt
<1> DEFINE old(i) == IF i < k THEN i ELSE i + 1
           new(i) == IF i < k THEN i ELSE i - 1
<1>2. \A i \in 1..Len(t) : old(i) \in 1..Len(u) /\ old(i) # k /\ t[i] = u[old(i)]
  BY <1>1
<1>3. \A i \in 1..Len(u) : i # k => new(i) \in 1..Len(t) /\ old(new(i)) = i /\ t[new(i)] = u[i]
  BY <1>1
<1>3a. \A i \in 1..Len(t), j \in 1..Len(u) : j # k /\ old(i) < j => i < new(j)
  BY <1>1
<1> HIDE DEF old, new
<1>4. u[k] = f
  BY DEF UpWith
<1>4a. \A i \in 1..Len(t) : t[i].type = "ACK" /\ t[i].id <= last
  BY <1>2 DEF UpWith
<1>4b. UpOld(t, last)
  BY <1>4a DEF UpOld
<1>5. (NoAckIn(u) => NoAckIn(t)) /\ \A id : NotAcked(u, id) => NotAcked(t, id)
  BY <1>2 DEF NoAckIn, NotAcked
<1>6. ASSUME NEW id, Acked(u, id) PROVE Acked(t, id)
  <2>1. PICK i \in 1..Len(u) :
            /\ u[i] = AckOf(id)
            /\ \A j \in 1..Len(u) : u[j].type = "ACK" /\ j # i => j < i /\ u[j].id < id
    BY <1>6 DEF Acked
  <2>2. i # k
    BY <2>1, AckFields
  <2>3. new(i) \in 1..Len(t) /\ t[new(i)] = AckOf(id) /\ old(new(i)) = i
    BY <1>3, <2>1, <2>2
  <2>4. ASSUME NEW j \in 1..Len(t), t[j].type = "ACK", j # new(i)
        PROVE  j < new(i) /\ t[j].id < id
    <3>1. old(j) \in 1..Len(u) /\ t[j] = u[old(j)] /\ (old(j) # i \/ old(j) = i)
      BY <1>2
    <3>2. CASE old(j) # i
      <4>1. old(j) < i /\ u[old(j)].id < id
        BY <2>1, <2>4, <3>1, <3>2
      <4>2. QED
        BY <1>3a, <2>2, <3>1, <4>1
    <3>3. CASE old(j) = i
      BY <1>1, <2>4, <3>3 DEF old, new
    <3>4. QED
      BY <3>2, <3>3
  <2>5. QED
    BY <2>3, <2>4 DEF Acked
<1>7. QED
  BY <1>4, <1>4b, <1>5, <1>6

\* One more frame left for the loop.
LEMMA LeftMore ==
    ASSUME NEW S, NEW p \in Seq(S), NEW f \in S
    PROVE  /\ Len(Append(p, f)) = Len(p) + 1 /\ Len(p) \in Nat
           /\ AllUser(p) /\ f.type = "USER" => AllUser(Append(p, f))
           /\ \A n \in Nat : UsersFrom(p, n) /\ (f.type = "USER" => f.n = n + Len(p) + 1)
                  => UsersFrom(Append(p, f), n)
           /\ ~HasLLM(p) /\ SystemsFirst(p) /\ f.type \in {"SYSTEM", "LLM"} =>
                /\ SystemsFirst(Append(p, f)) /\ HasLLM(Append(p, f)) = (f.type = "LLM")
                /\ Systems(p) = Len(p)
                /\ Systems(Append(p, f)) = IF f.type = "LLM" THEN Len(p) ELSE Len(p) + 1
                /\ \A c \in Nat : Chunks(p, c)
                        /\ (f.type = "SYSTEM" => f.at = c + Len(p) /\ f.total = PromptChunks)
                        => Chunks(Append(p, f), c)
<1> DEFINE q == Append(p, f)
<1>1. /\ Len(p) \in Nat /\ Len(q) = Len(p) + 1 /\ q[Len(p) + 1] = f /\ q # <<>>
      /\ \A i \in 1..Len(p) : q[i] = p[i]
      /\ \A i \in 1..Len(p) + 1 : i \in 1..Len(p) \/ i = Len(p) + 1
  <2>1. /\ Len(p) \in Nat /\ Len(q) = Len(p) + 1 /\ q[Len(p) + 1] = f
        /\ \A i \in 1..Len(p) : q[i] = p[i]
    OBVIOUS
  <2>2. q # <<>>
    <3>1. Len(<<>>) = 0 /\ Len(q) # 0
      BY <2>1
    <3>2. QED
      BY <3>1
  <2>3. \A i \in 1..Len(p) + 1 : i \in 1..Len(p) \/ i = Len(p) + 1
    BY <2>1
  <2>4. QED
    BY <2>1, <2>2, <2>3
<1> HIDE DEF q
<1>2. AllUser(p) /\ f.type = "USER" => AllUser(q)
  BY <1>1 DEF AllUser
<1>3. ASSUME NEW n \in Nat, UsersFrom(p, n), f.type = "USER" => f.n = n + Len(p) + 1
      PROVE  UsersFrom(q, n)
  <2> SUFFICES ASSUME NEW i \in 1..Len(q), q[i].type = "USER" PROVE q[i].n = n + i
    BY DEF UsersFrom
  <2>1. CASE i \in 1..Len(p)
    BY <1>1, <1>3, <2>1 DEF UsersFrom
  <2>2. CASE i = Len(p) + 1
    BY <1>1, <1>3, <2>2
  <2>3. QED
    BY <1>1, <2>1, <2>2
<1>4. ASSUME ~HasLLM(p), SystemsFirst(p), f.type \in {"SYSTEM", "LLM"}
      PROVE  /\ SystemsFirst(q) /\ HasLLM(q) = (f.type = "LLM") /\ Systems(p) = Len(p)
             /\ Systems(q) = IF f.type = "LLM" THEN Len(p) ELSE Len(p) + 1
             /\ \A c \in Nat : Chunks(p, c)
                        /\ (f.type = "SYSTEM" => f.at = c + Len(p) /\ f.total = PromptChunks)
                        => Chunks(q, c)
  <2>1. Systems(p) = Len(p) /\ HasLLM(q) = (f.type = "LLM")
    BY <1>1, <1>4, SMTT(30) DEF Systems, HasLLM
  <2>2. Systems(q) = IF f.type = "LLM" THEN Len(p) ELSE Len(p) + 1
    <3>1. Len(q) - 1 = Len(p)
      BY <1>1
    <3>2. QED
      BY <1>1, <2>1, <3>1 DEF Systems
  <2>3. SystemsFirst(q)
    <3> SUFFICES ASSUME NEW i \in 1..Systems(q) PROVE q[i].type = "SYSTEM"
      BY DEF SystemsFirst
    <3>1. CASE i \in 1..Len(p)
      BY <1>1, <1>4, <2>1, <3>1 DEF SystemsFirst
    <3>2. CASE i = Len(p) + 1
      BY <1>1, <1>4, <2>2, <3>2
    <3>3. QED
      BY <1>1, <2>2, <3>1, <3>2
  <2>4. ASSUME NEW c \in Nat, Chunks(p, c),
               f.type = "SYSTEM" => f.at = c + Len(p) /\ f.total = PromptChunks
        PROVE  Chunks(q, c)
    <3> SUFFICES ASSUME NEW i \in 1..Systems(q)
                 PROVE  q[i].at = c + i - 1 /\ q[i].total = PromptChunks
      BY DEF Chunks
    <3>1. CASE i \in 1..Len(p)
      BY <1>1, <2>1, <2>4, <3>1 DEF Chunks
    <3>2. CASE i = Len(p) + 1
      <4>1. f.type = "SYSTEM" /\ c + i - 1 = c + Len(p)
        BY <1>1, <1>4, <2>2, <3>2
      <4>2. QED
        BY <1>1, <2>4, <3>2, <4>1
    <3>3. QED
      BY <1>1, <2>2, <3>1, <3>2
  <2>5. QED
    BY <2>1, <2>2, <2>3, <2>4
<1>5. QED
  BY <1>1, <1>2, <1>3, <1>4 DEF q

LEMMA LeftNone ==
    /\ AllUser(<<>>) /\ (\A n : UsersFrom(<<>>, n)) /\ ~HasLLM(<<>>) /\ Systems(<<>>) = 0
    /\ SystemsFirst(<<>>) /\ \A c : Chunks(<<>>, c)
<1>1. Len(<<>>) = 0 /\ 1..0 = {}
  OBVIOUS
<1>2. ~HasLLM(<<>>) /\ Systems(<<>>) = 0
  BY <1>1 DEF HasLLM, Systems
<1>3. AllUser(<<>>) /\ \A n : UsersFrom(<<>>, n)
  BY <1>1 DEF AllUser, UsersFrom
<1>4. SystemsFirst(<<>>) /\ \A c : Chunks(<<>>, c)
  BY <1>1, <1>2 DEF SystemsFirst, Chunks
<1>5. QED
  BY <1>2, <1>3, <1>4

\* The first of the frames left for the loop.
LEMMA LeftLess ==
    ASSUME NEW S, NEW p \in Seq(S), p # <<>>
    PROVE  /\ Len(Tail(p)) = Len(p) - 1 /\ Len(p) \in Nat /\ Head(p) = p[1] /\ Len(p) >= 1
           /\ Tail(p) \in Seq(S)
           /\ AllUser(p) => AllUser(Tail(p)) /\ Head(p).type = "USER"
           /\ \A n \in Nat : UsersFrom(p, n) =>
                /\ UsersFrom(Tail(p), n + 1) /\ (Head(p).type = "USER" => Head(p).n = n + 1)
           /\ SystemsFirst(p) =>
                \/ /\ Head(p).type = "SYSTEM" /\ Systems(Tail(p)) = Systems(p) - 1
                   /\ Systems(p) >= 1 /\ Systems(p) \in Nat
                   /\ HasLLM(Tail(p)) = HasLLM(p) /\ SystemsFirst(Tail(p))
                   /\ \A c \in Nat : Chunks(p, c) =>
                        Head(p).at = c /\ Head(p).total = PromptChunks /\ Chunks(Tail(p), c + 1)
                \/ Head(p).type = "LLM" /\ HasLLM(p) /\ Systems(p) = 0 /\ Tail(p) = <<>>
<1> DEFINE q == Tail(p)
<1>1. /\ Len(p) \in Nat /\ Len(p) >= 1 /\ Head(p) = p[1] /\ q \in Seq(S)
      /\ Len(q) = Len(p) - 1 /\ \A i \in 1..(Len(p) - 1) : q[i] = p[i + 1]
  OBVIOUS
<1> HIDE DEF q
<1>2. 1 \in 1..Len(p) /\ \A i \in 1..Len(q) : q[i] = p[i + 1] /\ i + 1 \in 1..Len(p)
  BY <1>1
<1>3. AllUser(p) => AllUser(q) /\ Head(p).type = "USER"
  BY <1>1, <1>2 DEF AllUser
<1>4. ASSUME NEW n \in Nat, UsersFrom(p, n)
      PROVE  UsersFrom(q, n + 1) /\ (Head(p).type = "USER" => Head(p).n = n + 1)
  <2>1. \A i \in 1..Len(q) : n + (i + 1) = (n + 1) + i
    BY <1>1
  <2>2. \A i \in 1..Len(q) : p[i + 1].type = "USER" => p[i + 1].n = n + (i + 1)
    BY <1>2, <1>4 DEF UsersFrom
  <2>3. UsersFrom(q, n + 1)
    BY <1>2, <2>1, <2>2 DEF UsersFrom
  <2>4. p[1].type = "USER" => p[1].n = n + 1
    BY <1>2, <1>4 DEF UsersFrom
  <2>5. QED
    BY <1>1, <2>3, <2>4
<1>5. ASSUME SystemsFirst(p)
      PROVE  \/ /\ Head(p).type = "SYSTEM" /\ Systems(q) = Systems(p) - 1
                /\ Systems(p) >= 1 /\ Systems(p) \in Nat
                /\ HasLLM(q) = HasLLM(p) /\ SystemsFirst(q)
                /\ \A c \in Nat : Chunks(p, c) =>
                     Head(p).at = c /\ Head(p).total = PromptChunks /\ Chunks(q, c + 1)
             \/ Head(p).type = "LLM" /\ HasLLM(p) /\ Systems(p) = 0 /\ q = <<>>
  <2>1. CASE HasLLM(p) /\ Len(p) = 1
    <3>1. Systems(p) = 0 /\ Len(q) = 0
      BY <1>1, <2>1 DEF Systems
    <3>2. q = <<>>
      BY <1>1, <3>1, EmptySeq
    <3>3. Head(p).type = "LLM"
      BY <1>1, <2>1 DEF HasLLM
    <3>4. QED
      BY <2>1, <3>1, <3>2, <3>3
  <2>2. CASE ~(HasLLM(p) /\ Len(p) = 1)
    <3>1. Systems(p) \in Nat /\ Systems(p) >= 1 /\ 1 \in 1..Systems(p)
      BY <1>1, <2>2 DEF Systems
    <3>2. p[1].type = "SYSTEM"
      BY <1>5, <3>1 DEF SystemsFirst
    <3>3. HasLLM(q) = HasLLM(p)
      <4>1. CASE Len(p) = 1
        <5>1. Len(q) = 0
          BY <1>1, <4>1
        <5>2. q = <<>>
          BY <1>1, <5>1, EmptySeq
        <5>3. HasLLM(p) \in BOOLEAN /\ HasLLM(q) \in BOOLEAN
          BY DEF HasLLM
        <5>4. QED
          BY <2>2, <4>1, <5>2, <5>3 DEF HasLLM
      <4>2. CASE Len(p) # 1
        <5>1. Len(q) \in 1..(Len(p) - 1) /\ Len(q) + 1 = Len(p) /\ Len(q) # 0
          BY <1>1, <4>2
        <5>2. q[Len(q)] = p[Len(p)]
          BY <1>1, <5>1
        <5>3. Len(<<>>) = 0
          OBVIOUS
        <5>4. q # <<>>
          BY <5>1, <5>3
        <5>5. QED
          BY <5>2, <5>4 DEF HasLLM
      <4>3. QED
        BY <4>1, <4>2
    <3>4. Systems(q) = Systems(p) - 1
      <4>1. CASE HasLLM(p)
        BY <1>1, <3>3, <4>1 DEF Systems
      <4>2. CASE ~HasLLM(p)
        BY <1>1, <3>3, <4>2 DEF Systems
      <4>3. QED
        BY <4>1, <4>2
    <3>5. Systems(q) <= Len(q)
      BY <1>1 DEF Systems
    <3>6. \A i \in 1..Systems(q) : i + 1 \in 1..Systems(p) /\ i \in 1..Len(q)
      BY <1>1, <3>1, <3>4, <3>5
    <3>7. SystemsFirst(q)
      BY <1>2, <1>5, <3>6 DEF SystemsFirst
    <3>8. ASSUME NEW c \in Nat, Chunks(p, c)
          PROVE  Head(p).at = c /\ Head(p).total = PromptChunks /\ Chunks(q, c + 1)
      <4>1. p[1].at = c + 1 - 1 /\ p[1].total = PromptChunks
        BY <3>1, <3>8 DEF Chunks
      <4>2. \A i \in 1..Systems(q) : p[i + 1].at = c + (i + 1) - 1 /\ p[i + 1].total = PromptChunks
        BY <3>6, <3>8 DEF Chunks
      <4>3. \A i \in 1..Systems(q) : c + (i + 1) - 1 = (c + 1) + i - 1
        BY <3>6
      <4>4. Chunks(q, c + 1)
        BY <1>2, <3>6, <4>2, <4>3 DEF Chunks
      <4>5. QED
        BY <1>1, <4>1, <4>4
    <3>9. QED
      BY <1>1, <3>1, <3>2, <3>3, <3>4, <3>7, <3>8
  <2>3. QED
    BY <2>1, <2>2
<1>6. QED
  BY <1>1, <1>3, <1>4, <1>5 DEF q

\* What the bridge sends for the ACKs that it owes.
LEMMA OwedAcks ==
    ASSUME NEW id \in Nat, NEW ids, ids = <<>> \/ ids = <<id>>, ~basicRunning
    PROVE  /\ ids = <<>> => Bridge!AckFrames(ids) = <<>>
           /\ ids = <<id>> => Bridge!AckFrames(ids) = <<AckOf(id)>>
<1>1. CASE ids = <<>>
  <2>1. Len(ids) = 0 /\ 1..0 = {} /\ <<>> # <<id>>
    BY <1>1
  <2>2. Bridge!AckFrames(ids) = [i \in 1..Len(ids) |-> Bridge!AckFrame(ids[i])]
    BY DEF Bridge!AckFrames
  <2>3. Bridge!AckFrames(ids) = <<>>
    BY <2>1, <2>2
  <2>4. QED
    BY <1>1, <2>1, <2>3
<1>2. CASE ids = <<id>>
  <2>1. Len(ids) = 1 /\ 1..1 = {1} /\ ids[1] = id /\ <<>> # <<id>>
    BY <1>2
  <2>2. Bridge!AckFrames(ids) = [i \in 1..Len(ids) |-> Bridge!AckFrame(ids[i])]
    BY DEF Bridge!AckFrames
  <2>3. Bridge!AckFrames(ids) = [i \in 1..1 |-> AckOf(id)]
    BY <2>1, <2>2 DEF Bridge!AckFrame, AckOf
  <2>4. Bridge!AckFrames(ids) = <<AckOf(id)>>
    BY <2>3
  <2>5. QED
    BY <1>2, <2>1, <2>4
<1>3. QED
  BY <1>1, <1>2

-----------------------------------------------------------------------------
(* The C64 *)

\* What TypeInv says of the variables that the invariant is about.
LEMMA PlainTypes ==
    ASSUME TypeInv
    PROVE  /\ out.id \in Nat /\ send_buf.id \in Nat /\ rx_last_id \in Nat /\ rxLastID \in Nat
           /\ ack_id \in Nat /\ nextTxID \in Nat /\ tx_next_id \in Nat
           /\ down \in Seq(DownFrames) /\ up \in Seq(UpFrames)
           /\ pendingFrames \in Seq(UpFrames) /\ pendingAcks \in Seq(Nat)
           /\ (\A x \in UpFrames : x.id \in Nat) /\ (\A x \in DownFrames : x.id \in Nat)
           /\ (\A id \in Nat : AckOf(id) \in UpFrames /\ AckOf(id) \in DownFrames)
           /\ ack_pending \in BOOLEAN /\ deferred_ack \in BOOLEAN /\ tx_ack_wait \in BOOLEAN
           /\ text_pending \in BOOLEAN /\ prompt_sent \in BOOLEAN /\ busy \in BOOLEAN
           /\ prompt_pending \in 0..PromptChunks /\ PromptChunks \in Nat /\ PromptChunks > 0
           /\ texts \in Nat /\ textOut \in Seq(1..texts) /\ emitted \in Seq(0..texts)
           /\ Len(emitted) \in Nat /\ Len(pendingFrames) \in Nat /\ Len(textOut) \in Nat
           /\ prompted \in BOOLEAN /\ Len(down) \in Nat /\ Len(pendingAcks) \in Nat
<1>1. /\ down \in Seq(DownFrames) /\ up \in Seq(UpFrames)
      /\ pendingFrames \in Seq(UpFrames) /\ pendingAcks \in Seq(Nat)
      /\ texts \in Nat /\ textOut \in Seq(1..texts) /\ emitted \in Seq(0..texts)
      /\ rxLastID \in Nat /\ nextTxID \in Nat /\ prompted \in BOOLEAN
  BY DEF TypeInv, LoopInv, LoopLink, LoopTexts
<1>2. /\ rx_last_id \in Nat /\ ack_id \in Nat /\ tx_next_id \in Nat
      /\ ack_pending \in BOOLEAN /\ deferred_ack \in BOOLEAN /\ tx_ack_wait \in BOOLEAN
      /\ text_pending \in BOOLEAN /\ prompt_sent \in BOOLEAN /\ busy \in BOOLEAN
      /\ prompt_pending \in 0..PromptChunks
  BY DEF TypeInv, AgentInv, AgentModes, AgentPending, AgentLink
<1>3. (\A x \in UpFrames : x.id \in Nat) /\ (\A x \in DownFrames : x.id \in Nat)
  BY UpFields, DownFields
<1>4. out.id \in Nat
  <2>1. out \in DownFrames \cup {Bridge!None}
    BY DEF TypeInv, LoopInv, LoopFrames
  <2>2. QED
    BY <1>3, <2>1 DEF Bridge!None
<1>5. send_buf.id \in Nat
  <2>1. send_buf \in UpFrames \cup {C64!Nothing}
    BY DEF TypeInv, AgentInv, AgentLink
  <2>2. QED
    BY <1>3, <2>1 DEF C64!Nothing
<1>6. \A id \in Nat : AckOf(id) \in UpFrames /\ AckOf(id) \in DownFrames
  BY DEF AckOf, UpFrames, DownFrames
<1>7. PromptChunks \in Nat /\ PromptChunks > 0
  BY SizesAssumption
<1>8. /\ Len(emitted) \in Nat /\ Len(pendingFrames) \in Nat /\ Len(textOut) \in Nat
      /\ Len(down) \in Nat /\ Len(pendingAcks) \in Nat
  BY <1>1
<1>9. QED
  BY <1>1, <1>2, <1>3, <1>4, <1>5, <1>6, <1>7, <1>8

Due == ack_pending \/ C64!TextReleased

\* The line with the ACK that is due.
LEMMA AcksGo ==
    ASSUME TypeInv, LinesInv
    PROVE  \E v \in Seq(UpFrames) :
              /\ v = up \o C64!AcksDue
              /\ v = IF Due THEN Append(up, AckOf(ack_id)) ELSE up
              /\ IF Fresh THEN UpWith(v, rx_last_id, send_buf) ELSE UpOld(v, rx_last_id)
              /\ \A k \in Nat : NotAcked(up, k) /\ (Due => ack_id < k) => NotAcked(v, k)
              /\ Due /\ NotAcked(up, ack_id) => Acked(v, ack_id)
<1>1. CASE Due
  <2>1. C64!AcksDue = <<AckOf(ack_id)>> /\ ack_id <= rx_last_id
    BY <1>1 DEF Due, C64!AcksDue, C64!Ack, AckOf, C64!TextReleased, LinesInv
  <2>2. up \o <<AckOf(ack_id)>> = Append(up, AckOf(ack_id)) /\ AckOf(ack_id) \in UpFrames
    BY PlainTypes
  <2>3. /\ UpOld(up, rx_last_id) => UpOld(Append(up, AckOf(ack_id)), rx_last_id)
        /\ UpWith(up, rx_last_id, send_buf) => UpWith(Append(up, AckOf(ack_id)), rx_last_id, send_buf)
        /\ NotAcked(up, ack_id) => Acked(Append(up, AckOf(ack_id)), ack_id)
        /\ \A k \in Nat : NotAcked(up, k) /\ ack_id < k => NotAcked(Append(up, AckOf(ack_id)), k)
    BY <2>1, <2>2, PlainTypes, UpMoreAck
  <2>4. Append(up, AckOf(ack_id)) \in Seq(UpFrames)
    BY <2>2, PlainTypes
  <2>5. IF Fresh THEN UpWith(Append(up, AckOf(ack_id)), rx_last_id, send_buf)
        ELSE UpOld(Append(up, AckOf(ack_id)), rx_last_id)
    BY <2>3 DEF LinesInv
  <2>6. Append(up, AckOf(ack_id)) = up \o C64!AcksDue
    BY <2>1, <2>2
  <2>7. QED
    BY <1>1, <2>3, <2>4, <2>5, <2>6
<1>2. CASE ~Due
  <2>1. C64!AcksDue = <<>>
    BY <1>2 DEF Due, C64!AcksDue
  <2>2. up \o <<>> = up /\ up \in Seq(UpFrames)
    BY PlainTypes, ConcatEmptySeq
  <2>3. IF Fresh THEN UpWith(up, rx_last_id, send_buf) ELSE UpOld(up, rx_last_id)
    BY DEF LinesInv
  <2>4. up = up \o C64!AcksDue
    BY <2>1, <2>2
  <2>5. QED
    BY <1>2, <2>2, <2>3, <2>4
<1>3. QED
  BY <1>1, <1>2

\* Only ACKs go out.
LEMMA AckGoesPlain ==
    ASSUME TypeInv, PlainInv, C64!Service, UNCHANGED bridgeVars,
           tx_ack_wait \/ C64!NextKind = "none", C64!AcksDue # <<>>
    PROVE  PlainInv'
<1>1. /\ up' = up \o C64!AcksDue /\ ack_pending' = FALSE
      /\ deferred_ack' = (deferred_ack /\ ~C64!TextReleased)
      /\ UNCHANGED <<down, agent_state, basic_running, busy, prompt_sent, prompt_pending,
                     result_pending, state_pending, llm_pending, text_pending, exec_buf,
                     userq, ack_id, rx_last_id, tx_ack_wait, send_buf, tx_next_id, basic,
                     ready>>
  <2>1. C64!NextKind = "none" \/ tx_ack_wait
    OBVIOUS
  <2>2. QED
    BY <2>1 DEF C64!Service, C64!Build, C64!txVars, C64!agentVars, C64!bufferVars, C64!basicVars
<1>2. UNCHANGED <<pc, out, delivered, silent, waiters, overlap, pendingFrames, pendingAcks,
                  rxLastID, nextTxID, textOut, basicRunning, waitingTool, completionDrain,
                  promptChunks, prompted, texts, emitted>>
  BY DEF bridgeVars
<1>3. PICK v \in Seq(UpFrames) :
         /\ v = up \o C64!AcksDue
         /\ v = IF Due THEN Append(up, AckOf(ack_id)) ELSE up
         /\ IF Fresh THEN UpWith(v, rx_last_id, send_buf) ELSE UpOld(v, rx_last_id)
         /\ \A k \in Nat : NotAcked(up, k) /\ (Due => ack_id < k) => NotAcked(v, k)
         /\ Due /\ NotAcked(up, ack_id) => Acked(v, ack_id)
  BY AcksGo DEF PlainInv
<1>4. up' = v /\ Due
  BY <1>1, <1>3 DEF Due, C64!AcksDue
<1>5. NoTools'
  BY <1>1, <1>2 DEF PlainInv, NoTools
<1>6. LinesInv'
  BY <1>1, <1>2, <1>3, <1>4 DEF PlainInv, LinesInv, Requested, Fresh
<1>7. PromptInv'
  BY <1>1, <1>2 DEF PlainInv, PromptInv, Requested, Fresh, FreshOf, PromptComes
<1>8. TextsInv'
  BY <1>1, <1>2 DEF PlainInv, TextsInv, Taken, Sent
<1>9. Fresh' = Fresh /\ Requested' = Requested
  BY <1>1, <1>2 DEF Fresh, Requested
<1>10. Still' = Still /\ LLMComes' = LLMComes
  BY <1>1, <1>2, <1>9 DEF Still, LLMComes, FreshOf
<1>11. AckComes /\ ~text_pending => AckComes'
  <2> SUFFICES ASSUME AckComes, ~text_pending PROVE AckComes'
    OBVIOUS
  <2>1. ack_pending
    BY <1>4 DEF AckComes, Due, C64!TextReleased
  <2>2. ack_id = out.id /\ (deferred_ack => ~tx_ack_wait) /\ NotAcked(up, ack_id)
    BY <2>1 DEF AckComes
  <2>3. ~deferred_ack'
    BY <1>1, <2>2 DEF C64!TextReleased
  <2>4. Acked(v, out.id)
    BY <1>3, <1>4, <2>2
  <2>5. QED
    BY <1>1, <1>2, <1>4, <2>3, <2>4 DEF AckComes
<1>12. ~NoAck
  BY <1>4 DEF NoAck, Due, C64!TextReleased
<1>13. TextComes => ack_pending
  BY <1>4 DEF PlainInv, LinesInv, TextComes, Due, C64!TextReleased, FreshOf
<1>14. TurnInv'
  <2>1. pc \in {"idle", "leave"} => Between'
    BY <1>1, <1>2, <1>9, <1>10 DEF PlainInv, TurnInv, Between
  <2>2. pc = "msgWait" => Messaging'
    <3>1. LLMComes => ~text_pending
      BY DEF LLMComes
    <3>2. QED
      BY <1>1, <1>2, <1>9, <1>10, <1>11, <3>1 DEF PlainInv, TurnInv, Messaging
  <2>3. pc = "loop" => Shown'
    BY <1>1, <1>2, <1>9, <1>10, <1>12 DEF PlainInv, TurnInv, Prompting, Ended, Shown
  <2>4. pc \notin {"llmBatch", "call"}
    BY <1>12 DEF PlainInv, TurnInv, Asking
  <2>5. pc = "doneWait" => Ending'
    <3>1. Still => ~text_pending
      BY DEF Still
    <3>2. QED
      BY <1>1, <1>2, <1>9, <1>10, <1>11, <1>12, <3>1 DEF PlainInv, TurnInv, Ending
  <2>6. pc = "textDrain" => Draining'
    BY <1>1, <1>2, <1>9, <1>10 DEF PlainInv, TurnInv, Draining
  <2>7. pc = "textWait" => Showing'
    <3> SUFFICES ASSUME pc = "textWait" PROVE Showing'
      OBVIOUS
    <3>1. Showing /\ ~ack_pending
      BY DEF PlainInv, TurnInv, Showing
    <3>2. Requested
      BY <1>13, <3>1 DEF Showing
    <3>3. ack_id < out.id
      <4>1. ack_id <= rx_last_id
        BY <1>4 DEF PlainInv, LinesInv, Due, C64!TextReleased
      <4>2. out.id = rx_last_id + 1
        BY <3>2 DEF PlainInv, LinesInv
      <4>3. QED
        BY <4>1, <4>2, PlainTypes, SMTT(30)
    <3>4. NotAcked(v, out.id)
      BY <1>3, <3>1, <3>3, PlainTypes DEF Showing
    <3>5. QED
      BY <1>1, <1>2, <1>4, <1>9, <1>10, <3>1, <3>2, <3>4 DEF Showing
  <2>8. pc = "userDrain" => Shown' /\ AllUser(pendingFrames)
    BY <1>1, <1>2, <1>9, <1>10 DEF PlainInv, TurnInv, Shown
  <2>9. QED
    BY <1>2, <2>1, <2>2, <2>3, <2>4, <2>5, <2>6, <2>7, <2>8 DEF TurnInv
<1>15. QED
  BY <1>5, <1>6, <1>7, <1>8, <1>14 DEF PlainInv

\* Where the C64 has something to send.
LEMMA NotStill ==
    ASSUME PlainInv, ~Still, TypeInv
    PROVE  \/ pc = "msgWait" /\ Messaging /\ ~Requested /\ LLMComes /\ AckComes
           \/ pc = "loop" /\ Prompting /\ LLMComes /\ NoAck /\ ~Requested
           \/ pc = "textWait" /\ Showing /\ ~Requested /\ TextComes
<1>1. pc \in {"idle", "msgWait", "loop", "llmBatch", "call", "doneWait", "textDrain",
               "textWait", "userDrain", "leave"}
  BY DEF PlainInv, NoTools
<1>2. pc \notin {"idle", "leave"}
  BY DEF PlainInv, TurnInv, Between
<1>3. pc \notin {"llmBatch", "call"}
  BY DEF PlainInv, TurnInv, Asking
<1>4. pc # "doneWait" /\ pc # "textDrain" /\ pc # "userDrain"
  BY DEF PlainInv, TurnInv, Ending, Draining, Shown
<1>5. pc = "msgWait" => Messaging /\ ~Requested /\ LLMComes /\ AckComes
  BY DEF PlainInv, TurnInv, Messaging
<1>6. pc = "loop" => Prompting /\ LLMComes /\ NoAck /\ ~Requested
  BY DEF PlainInv, TurnInv, Ended, Shown, Prompting
<1>7. pc = "textWait" => Showing /\ ~Requested /\ TextComes
  BY DEF PlainInv, TurnInv, Showing
<1>8. QED
  BY <1>1, <1>2, <1>3, <1>4, <1>5, <1>6, <1>7

\* A frame of the C64 goes out, behind the ACK that is due.
LEMMA FrameGoesPlain ==
    ASSUME TypeInv, PlainInv, C64!Service, UNCHANGED bridgeVars,
           ~tx_ack_wait, C64!Build(C64!AcksDue)
    PROVE  PlainInv'
<1> DEFINE kind == C64!NextKind
           f == C64!Frame(kind)
<1>1. /\ ack_pending' = FALSE /\ deferred_ack' = (deferred_ack /\ ~C64!TextReleased)
      /\ UNCHANGED <<down, agent_state, basic_running, busy, prompt_sent, exec_buf,
                     userq, ack_id, rx_last_id, basic, ready>>
  BY DEF C64!Service, C64!Build, C64!agentVars, C64!bufferVars, C64!basicVars
<1>2. /\ kind # "none" /\ up' = (up \o C64!AcksDue) \o <<f>> /\ send_buf' = f
      /\ tx_next_id' = tx_next_id + 1 /\ tx_ack_wait' = TRUE
      /\ state_pending' = IF kind = "STATUS" THEN "none" ELSE state_pending
      /\ prompt_pending' = IF kind = "SYSTEM" THEN prompt_pending - 1 ELSE prompt_pending
      /\ result_pending' = IF kind = "RESULT" THEN result_pending - 1 ELSE result_pending
      /\ llm_pending' = IF kind = "LLM" THEN "none" ELSE llm_pending
      /\ text_pending' = (text_pending /\ kind # "USER")
  BY DEF C64!Build
<1>3. UNCHANGED <<pc, out, delivered, silent, waiters, overlap, pendingFrames, pendingAcks,
                  rxLastID, nextTxID, textOut, basicRunning, waitingTool, completionDrain,
                  promptChunks, prompted, texts, emitted>>
  BY DEF bridgeVars
<1>4. kind = IF prompt_pending > 0 THEN "SYSTEM" ELSE IF llm_pending # "none" THEN "LLM"
             ELSE IF text_pending THEN "USER" ELSE "none"
  BY DEF PlainInv, NoTools, C64!NextKind
<1>5. f \in UpFrames
  BY <1>2, FrameTyped DEF TypeInv, CallsInv, LoopInv, LoopTexts
<1>6. f.type = kind /\ f.id = tx_next_id
  <2>1. CASE kind = "SYSTEM"
    BY <2>1 DEF C64!Frame
  <2>2. CASE kind = "LLM"
    BY <2>2 DEF C64!Frame
  <2>3. CASE kind = "USER"
    BY <2>3 DEF C64!Frame
  <2>4. QED
    BY <1>2, <1>4, <2>1, <2>2, <2>3
<1>7. /\ kind = "SYSTEM" => f.at = PromptChunks - prompt_pending /\ f.total = PromptChunks
      /\ kind = "USER" => f.n = exec_buf.n
  BY DEF C64!Frame
<1> HIDE DEF kind, f
<1>8. ~Fresh /\ rxLastID = send_buf.id /\ f.id = rxLastID + 1
  <2>1. ~Fresh /\ tx_next_id = send_buf.id + 1
    BY DEF PlainInv, LinesInv
  <2>2. QED
    BY <1>6, <2>1 DEF Fresh
<1>9. PICK v \in Seq(UpFrames) :
         /\ v = up \o C64!AcksDue
         /\ v = IF Due THEN Append(up, AckOf(ack_id)) ELSE up
         /\ IF Fresh THEN UpWith(v, rx_last_id, send_buf) ELSE UpOld(v, rx_last_id)
         /\ \A k \in Nat : NotAcked(up, k) /\ (Due => ack_id < k) => NotAcked(v, k)
         /\ Due /\ NotAcked(up, ack_id) => Acked(v, ack_id)
  BY AcksGo DEF PlainInv
<1>10. up' = Append(v, f)
  <2>1. up' = v \o <<f>>
    BY <1>2, <1>9
  <2>2. QED
    BY <1>5, <2>1
<1>11. /\ UpWith(up', rx_last_id, f)
       /\ NoAckIn(v) => NoAckIn(up')
       /\ \A k : NotAcked(v, k) => NotAcked(up', k)
       /\ \A k : Acked(v, k) => Acked(up', k)
  <2>1. UpOld(v, rx_last_id) /\ f.type # "ACK" /\ rx_last_id \in Nat
    BY <1>2, <1>4, <1>6, <1>8, <1>9, PlainTypes
  <2>2. QED
    BY <1>5, <1>10, <2>1, UpBuild
<1>12. kind \in {"SYSTEM", "LLM", "USER"} /\ ~Still
  BY <1>2, <1>4, PlainTypes DEF Still
<1>13. /\ \/ pc = "msgWait" /\ Messaging /\ LLMComes /\ AckComes
          \/ pc = "loop" /\ Prompting /\ LLMComes /\ NoAck
          \/ pc = "textWait" /\ Showing /\ TextComes
       /\ ~Requested
  BY <1>12, NotStill
<1>14. down = <<>> /\ pendingAcks = <<>>
  <2>1. LLMComes => down = <<>> /\ pendingAcks = <<>>
    BY DEF LLMComes
  <2>2. TextComes => down = <<>>
    BY DEF TextComes
  <2>3. pc = "textWait" => pendingAcks = <<>>
    BY DEF PlainInv, LinesInv
  <2>4. QED
    BY <1>13, <2>1, <2>2, <2>3
<1>15. Fresh' /\ Requested' = Requested
  <2>1. rxLastID # rxLastID + 1
    BY PlainTypes
  <2>2. QED
    BY <1>1, <1>2, <1>3, <1>8, <2>1 DEF Fresh, Requested
<1>16. NoTools'
  BY <1>1, <1>2, <1>3, <1>12 DEF PlainInv, NoTools
<1>17. LinesInv'
  <2>1. DownTrue(<<>>, f.id, out)
    BY DownNone
  <2>2. f.type # "ACK" /\ f.id \in {rxLastID, rxLastID + 1} /\ tx_next_id + 1 = f.id + 1
    BY <1>6, <1>8, <1>12
  <2>3. QED
    BY <1>1, <1>2, <1>3, <1>11, <1>13, <1>14, <1>15, <2>1, <2>2 DEF PlainInv, LinesInv
<1>18. PromptInv'
  <2>1. CASE kind = "SYSTEM"
    <3>1. prompt_pending > 0
      BY <1>4, <2>1
    <3>2. ~prompted /\ prompt_sent
      BY <3>1, PlainTypes DEF PlainInv, PromptInv
    <3>3. PICK c \in 0..(PromptChunks - 1) : PromptComes(c)
      BY <3>2 DEF PlainInv, PromptInv
    <3>4. /\ promptChunks = 0..(c - 1) /\ Chunks(pendingFrames, c)
          /\ prompt_pending = PromptChunks - (c + Systems(pendingFrames))
      BY <1>8, <3>3 DEF PromptComes, FreshOf
    <3>5. Systems(pendingFrames) \in Int
      BY PlainTypes DEF Systems
    <3>6. /\ f.at = c + Systems(pendingFrames) /\ f.total = PromptChunks
          /\ prompt_pending - 1 = PromptChunks - (c + Systems(pendingFrames) + 1)
      <4>1. f.at = PromptChunks - prompt_pending /\ f.total = PromptChunks
        BY <1>7, <2>1
      <4>2. c \in Nat /\ PromptChunks \in Nat
        BY PlainTypes
      <4>3. QED
        BY <3>4, <3>5, <4>1, <4>2
    <3>7. FreshOf("SYSTEM")'
      BY <1>2, <1>6, <1>15, <2>1 DEF FreshOf
    <3>8. PromptComes(c)'
      BY <1>2, <1>3, <2>1, <3>4, <3>6, <3>7 DEF PromptComes
    <3>9. /\ ~prompted' /\ prompt_sent' /\ pc' \in {"msgWait", "loop"}
          /\ out'.type = "MSG" /\ ~Requested'
      BY <1>1, <1>3, <1>13, <1>15, <3>2 DEF PlainInv, PromptInv
    <3>10. QED
      BY <3>3, <3>8, <3>9 DEF PromptInv
  <2>2. CASE kind # "SYSTEM"
    <3>1. ~FreshOf("SYSTEM")' /\ ~FreshOf("SYSTEM") /\ prompt_pending' = prompt_pending
      BY <1>2, <1>6, <1>8, <2>2 DEF FreshOf
    <3>2. \A c : PromptComes(c)' = PromptComes(c)
      BY <1>3, <3>1 DEF PromptComes
    <3>3. QED
      BY <1>1, <1>3, <1>15, <3>1, <3>2 DEF PlainInv, PromptInv
  <2>3. QED
    BY <2>1, <2>2
<1>19. TextsInv'
  BY <1>1, <1>3 DEF PlainInv, TextsInv, Taken, Sent
<1>20. LLMComes => LLMComes'
  <2> SUFFICES ASSUME LLMComes PROVE LLMComes'
    OBVIOUS
  <2>1. ~text_pending
    BY DEF LLMComes
  <2>2. kind \in {"SYSTEM", "LLM"}
    BY <1>4, <1>12, <2>1
  <2>3. ~HasLLM(pendingFrames) /\ llm_pending = "user"
    <3>1. llm_pending # "none"
      BY <1>4, <2>2, PlainTypes DEF LLMComes
    <3>2. QED
      BY <3>1 DEF LLMComes
  <2>4. FreshOf("LLM")' <=> kind = "LLM"
    BY <1>2, <1>6, <1>15 DEF FreshOf
  <2>5. llm_pending' = IF HasLLM(pendingFrames') \/ FreshOf("LLM")' THEN "none" ELSE "user"
    BY <1>2, <1>3, <2>3, <2>4
  <2>6. llm_pending' = "none" => prompt_pending' = 0
    BY <1>2, <1>4, <2>3, PlainTypes
  <2>7. QED
    BY <1>1, <1>2, <1>3, <1>6, <1>14, <1>15, <2>1, <2>2, <2>3, <2>5, <2>6 DEF LLMComes
<1>21. TextComes => TextComes'
  <2> SUFFICES ASSUME TextComes PROVE TextComes'
    OBVIOUS
  <2>1. text_pending /\ exec_buf = out
    BY <1>8 DEF TextComes, FreshOf
  <2>2. kind = "USER" /\ prompt_pending = 0 /\ llm_pending = "none"
    BY <1>4, <2>1, PlainTypes DEF TextComes
  <2>3. FreshOf("USER")' /\ send_buf'.n = out'.n
    BY <1>2, <1>3, <1>6, <1>7, <1>15, <2>1, <2>2 DEF FreshOf
  <2>4. ~C64!TextReleased
    BY <2>1 DEF C64!TextReleased
  <2>5. QED
    BY <1>1, <1>2, <1>3, <2>2, <2>3, <2>4 DEF TextComes
<1>22. LLMComes /\ AckComes => AckComes'
  <2> SUFFICES ASSUME LLMComes, AckComes PROVE AckComes'
    OBVIOUS
  <2>1. ~text_pending
    BY DEF LLMComes
  <2>2. ~deferred_ack'
    BY <1>1, <2>1 DEF C64!TextReleased
  <2>3. CASE ack_pending
    <3>1. ack_id = out.id /\ NotAcked(up, ack_id) /\ Due
      BY <2>3 DEF AckComes, Due
    <3>2. Acked(up', out.id)
      BY <1>9, <1>11, <3>1
    <3>3. QED
      BY <1>1, <1>3, <2>2, <3>2 DEF AckComes
  <2>4. CASE ~ack_pending
    <3>1. ~Due /\ Acked(up, out.id)
      BY <2>4 DEF AckComes, Due, C64!TextReleased
    <3>2. Acked(up', out.id)
      BY <1>9, <1>11, <3>1
    <3>3. QED
      BY <1>1, <1>3, <2>2, <3>2 DEF AckComes
  <2>5. QED
    BY <2>3, <2>4
<1>23. NoAck => NoAck'
  <2> SUFFICES ASSUME NoAck PROVE NoAck'
    OBVIOUS
  <2>1. ~Due
    BY DEF NoAck, Due, C64!TextReleased
  <2>2. NoAckIn(up')
    BY <1>9, <1>11, <2>1 DEF NoAck
  <2>3. QED
    BY <1>1, <2>2 DEF NoAck
<1>24. pc = "textWait" => NotAcked(up', out.id)
  <2> SUFFICES ASSUME pc = "textWait" PROVE NotAcked(up', out.id)
    OBVIOUS
  <2>1. Showing /\ TextComes
    BY <1>13
  <2>2. ~Due
    BY <1>8, <2>1 DEF Showing, TextComes, Due, C64!TextReleased, FreshOf
  <2>3. QED
    BY <1>9, <1>11, <2>1, <2>2 DEF Showing
<1>25. TurnInv'
  <2>1. CASE pc = "msgWait"
    <3>1. Messaging'
      BY <1>3, <1>13, <1>15, <1>20, <1>22, <2>1 DEF Messaging
    <3>2. QED
      BY <1>3, <2>1, <3>1 DEF TurnInv
  <2>2. CASE pc = "loop"
    <3>1. Prompting'
      BY <1>3, <1>13, <1>15, <1>20, <1>23, <2>2 DEF Prompting
    <3>2. QED
      BY <1>3, <2>2, <3>1 DEF TurnInv
  <2>3. CASE pc = "textWait"
    <3>1. Showing'
      BY <1>1, <1>3, <1>13, <1>15, <1>21, <1>24, <2>3 DEF Showing
    <3>2. QED
      BY <1>3, <2>3, <3>1 DEF TurnInv
  <2>4. QED
    BY <1>13, <2>1, <2>2, <2>3
<1>26. QED
  BY <1>16, <1>17, <1>18, <1>19, <1>25 DEF PlainInv

\* service_outbound: the C64 sends what it owes.
LEMMA ServicePlain ==
    ASSUME TypeInv, PlainInv, C64!Service, UNCHANGED bridgeVars
    PROVE  PlainInv'
<1>1. CASE ~tx_ack_wait /\ C64!Build(C64!AcksDue)
  BY <1>1, FrameGoesPlain
<1>2. CASE ~(~tx_ack_wait /\ C64!Build(C64!AcksDue))
  <2>1. (tx_ack_wait \/ C64!NextKind = "none") /\ C64!AcksDue # <<>>
    BY <1>2 DEF C64!Service
  <2>2. QED
    BY <2>1, AckGoesPlain
<1>3. QED
  BY <1>1, <1>2

\* Where a request is on its way.
LEMMA OnItsWay ==
    ASSUME PlainInv, Requested, TypeInv
    PROVE  /\ Still
           /\ \/ /\ pc = "msgWait" /\ out.type = "MSG" /\ ~delivered /\ ~silent
                 /\ pendingFrames = <<>> /\ ~ack_pending /\ ~busy
              \/ pc = "doneWait" /\ out.type = "DONE" /\ pendingFrames = <<>> /\ NoAck
              \/ /\ pc = "textWait" /\ out.type = "TEXT" /\ ~ack_pending /\ NotAcked(up, out.id)
                 /\ AllUser(pendingFrames)
<1>1. pc \in {"idle", "msgWait", "loop", "llmBatch", "call", "doneWait", "textDrain",
               "textWait", "userDrain", "leave"}
  BY DEF PlainInv, NoTools
<1>2. pc \notin {"idle", "leave"}
  BY DEF PlainInv, TurnInv, Between
<1>3. pc \notin {"llmBatch", "call"}
  BY DEF PlainInv, TurnInv, Asking
<1>4. pc # "textDrain" /\ pc # "userDrain" /\ pc # "loop"
  BY DEF PlainInv, TurnInv, Draining, Shown, Prompting, Ended
<1>5. CASE pc = "msgWait"
  BY <1>5 DEF PlainInv, TurnInv, Messaging
<1>6. CASE pc = "doneWait"
  BY <1>6 DEF PlainInv, TurnInv, Ending
<1>7. CASE pc = "textWait"
  BY <1>7 DEF PlainInv, TurnInv, Showing
<1>8. QED
  BY <1>1, <1>2, <1>3, <1>4, <1>5, <1>6, <1>7

\* The C64 takes an ACK, or the request.
LEMMA TakeAckPlain ==
    ASSUME TypeInv, PlainInv, UNCHANGED bridgeVars, down # <<>>, down' = Tail(down),
           Head(down) = AckOf(send_buf.id), C64!TakeAck(Head(down)),
           Requested' = Requested
    PROVE  PlainInv'
<1>1. /\ tx_ack_wait' = FALSE
      /\ UNCHANGED <<up, agent_state, basic_running, busy, prompt_sent, prompt_pending,
                     result_pending, state_pending, llm_pending, text_pending,
                     deferred_ack, exec_buf, userq, ack_pending, ack_id, rx_last_id,
                     send_buf, tx_next_id, basic, ready>>
  <2>1. userq = <<>> /\ Head(down).id = send_buf.id
    BY AckFields DEF PlainInv, NoTools
  <2>2. QED
    BY <2>1, PlainTypes
       DEF C64!TakeAck, C64!agentVars, C64!pendingVars, C64!rxVars, C64!basicVars
<1>2. UNCHANGED <<pc, out, delivered, silent, waiters, overlap, pendingFrames, pendingAcks,
                  rxLastID, nextTxID, textOut, basicRunning, waitingTool, completionDrain,
                  promptChunks, prompted, texts, emitted>>
  BY DEF bridgeVars
<1>3. ~Fresh /\ Fresh' = Fresh
  BY <1>1, <1>2 DEF PlainInv, LinesInv, Fresh
<1>4. DownTrue(Tail(down), send_buf.id, out) /\ Len(Tail(down)) = Len(down) - 1 /\ Len(down) \in Nat
      /\ Len(down) >= 1
  <2>1. down \in Seq(DownFrames) /\ DownTrue(down, send_buf.id, out) /\ out.type # "ACK"
    BY PlainTypes DEF PlainInv, LinesInv
  <2>2. Len(down) \in Nat /\ Len(down) >= 1
    BY <2>1
  <2>3. QED
    BY <2>1, <2>2, DownTail
<1>5. NoTools'
  BY <1>1, <1>2 DEF PlainInv, NoTools
<1>6. LinesInv'
  BY <1>1, <1>2, <1>3, <1>4 DEF PlainInv, LinesInv
<1>7. PromptInv'
  BY <1>1, <1>2, <1>3 DEF PlainInv, PromptInv, FreshOf, PromptComes
<1>8. TextsInv'
  BY <1>1, <1>2 DEF PlainInv, TextsInv, Taken, Sent
<1>9. Still' = Still /\ NoAck' = NoAck /\ FreshOf("LLM")' = FreshOf("LLM")
  BY <1>1, <1>2, <1>3 DEF Still, NoAck, FreshOf
<1>10. LLMComes => LLMComes'
  <2> SUFFICES ASSUME LLMComes PROVE LLMComes'
    OBVIOUS
  <2>1. tx_ack_wait /\ Len(down) + Len(pendingAcks) = 1 /\ Len(pendingAcks) \in Nat
    BY <1>3, PlainTypes DEF LLMComes
  <2>2. Len(Tail(down)) = 0 /\ Len(pendingAcks) = 0
    BY <1>4, <2>1
  <2>3. down' = <<>> /\ pendingAcks' = <<>>
    <3>1. Tail(down) \in Seq(DownFrames) /\ pendingAcks \in Seq(Nat)
      BY PlainTypes
    <3>2. QED
      BY <1>2, <2>2, <3>1, EmptySeq
  <2>4. QED
    BY <1>1, <1>2, <1>3, <1>9, <2>3 DEF LLMComes
<1>11. AckComes => AckComes'
  BY <1>1, <1>2 DEF AckComes
<1>12. ~TextComes
  BY DEF TextComes
<1>13. TurnInv'
  <2>1. pc \in {"idle", "leave"} => Between'
    BY <1>1, <1>2, <1>9 DEF PlainInv, TurnInv, Between
  <2>2. pc = "msgWait" => Messaging'
    BY <1>1, <1>2, <1>9, <1>10, <1>11 DEF PlainInv, TurnInv, Messaging
  <2>3. pc = "loop" => Prompting' \/ Ended' \/ Shown'
    BY <1>1, <1>2, <1>9, <1>10 DEF PlainInv, TurnInv, Prompting, Ended, Shown
  <2>4. pc \in {"llmBatch", "call"} => Asking'
    BY <1>1, <1>2, <1>9 DEF PlainInv, TurnInv, Asking
  <2>5. pc = "doneWait" => Ending'
    BY <1>1, <1>2, <1>9, <1>11 DEF PlainInv, TurnInv, Ending
  <2>6. pc = "textDrain" => Draining'
    BY <1>1, <1>2, <1>9 DEF PlainInv, TurnInv, Draining
  <2>7. pc = "textWait" => Showing'
    BY <1>1, <1>2, <1>9, <1>12 DEF PlainInv, TurnInv, Showing
  <2>8. pc = "userDrain" => Shown' /\ AllUser(pendingFrames)
    BY <1>1, <1>2, <1>9 DEF PlainInv, TurnInv, Shown
  <2>9. QED
    BY <1>2, <2>1, <2>2, <2>3, <2>4, <2>5, <2>6, <2>7, <2>8 DEF TurnInv
<1>14. QED
  BY <1>5, <1>6, <1>7, <1>8, <1>13 DEF PlainInv

\* The request is taken: what is common to all kinds of it.
LEMMA RequestTaken ==
    ASSUME TypeInv, PlainInv, Requested, UNCHANGED bridgeVars, down' = <<>>,
           rx_last_id' = out.id, tx_ack_wait' = FALSE,
           UNCHANGED <<up, send_buf, tx_next_id>>,
           ack_pending' \/ deferred_ack' => ack_id' = out.id \/ (ack_id' = ack_id /\ (ack_pending \/ deferred_ack))
    PROVE  LinesInv' /\ ~Fresh' /\ ~Requested' /\ NotAcked(up, out.id)
           /\ (NoAckIn(up) => NoAckIn(up'))
<1>1. UNCHANGED <<pc, out, pendingFrames, pendingAcks, rxLastID, nextTxID>>
  BY DEF bridgeVars
<1>2. out.id = rx_last_id + 1 /\ ~Fresh /\ pendingAcks = <<>>
  BY OnItsWay DEF PlainInv, LinesInv, Still
<1>3. ~Fresh' /\ ~Requested'
  BY <1>1, <1>2, DownNone DEF Fresh, Requested
<1>4. UpOld(up, rx_last_id)
  BY <1>2 DEF PlainInv, LinesInv
<1>5. UpOld(up, out.id) /\ NotAcked(up, out.id)
  BY <1>2, <1>4, PlainTypes, UpLater
<1>6. ack_pending' \/ deferred_ack' => ack_id' <= out.id
  <2>1. ack_pending \/ deferred_ack => ack_id <= rx_last_id
    BY DEF PlainInv, LinesInv
  <2>2. QED
    BY <1>2, <2>1, PlainTypes
<1>7. DownTrue(<<>>, send_buf.id, out)
  BY DownNone
<1>8. LinesInv'
  BY <1>1, <1>2, <1>3, <1>5, <1>6, <1>7 DEF PlainInv, LinesInv
<1>9. QED
  BY <1>3, <1>5, <1>8

\* The C64 takes a message: it has the prompt and the LLM frame to send.
LEMMA TakeMsgPlain ==
    ASSUME TypeInv, PlainInv, Requested, UNCHANGED bridgeVars, down' = <<>>, C64!TakeMsg(out)
    PROVE  PlainInv'
<1>1. /\ rx_last_id' = out.id /\ tx_ack_wait' = FALSE /\ ack_id' = out.id /\ ack_pending' = TRUE
      /\ prompt_sent' = TRUE
      /\ prompt_pending' = IF prompt_sent THEN prompt_pending ELSE PromptChunks
      /\ UNCHANGED <<up, send_buf, tx_next_id, basic, agent_state, basic_running, result_pending,
                     state_pending, text_pending, deferred_ack, exec_buf, ready>>
      /\ out.type = "MSG"
  BY DEF C64!TakeMsg, C64!Accept, C64!OweAck
<1>2. UNCHANGED <<pc, out, delivered, silent, waiters, overlap, pendingFrames, pendingAcks,
                  rxLastID, nextTxID, textOut, basicRunning, waitingTool, completionDrain,
                  promptChunks, prompted, texts, emitted>>
  BY DEF bridgeVars
<1>3. /\ pc = "msgWait" /\ ~delivered /\ ~silent /\ pendingFrames = <<>> /\ ~ack_pending /\ ~busy
      /\ Still
  BY <1>1, OnItsWay
<1>4. busy' = TRUE /\ llm_pending' = "user" /\ UNCHANGED userq
  BY <1>3 DEF C64!TakeMsg
<1>5. LinesInv' /\ ~Fresh' /\ ~Requested' /\ NotAcked(up, out.id)
  BY <1>1, RequestTaken
<1>6. NoTools'
  BY <1>1, <1>2, <1>4 DEF PlainInv, NoTools
<1>7. TextsInv'
  BY <1>1, <1>2 DEF PlainInv, TextsInv, Taken, Sent
<1>8. /\ ~HasLLM(pendingFrames) /\ Systems(pendingFrames) = 0 /\ SystemsFirst(pendingFrames)
      /\ Chunks(pendingFrames, 0)
  BY <1>3, LeftNone
<1>9. pendingAcks = <<>>
  BY DEF PlainInv, LinesInv
<1>10. LLMComes'
  BY <1>1, <1>2, <1>3, <1>4, <1>5, <1>8, <1>9 DEF LLMComes, FreshOf, Still
<1>11. AckComes'
  BY <1>1, <1>2, <1>5 DEF AckComes
<1>12. TurnInv'
  <2>1. Messaging'
    BY <1>1, <1>2, <1>3, <1>5, <1>10, <1>11 DEF Messaging
  <2>2. QED
    BY <1>2, <1>3, <2>1 DEF TurnInv
<1>13. PromptInv'
  <2>1. CASE prompt_sent
    <3>1. prompted
      BY <2>1 DEF PlainInv, PromptInv
    <3>2. QED
      BY <1>1, <1>2, <1>5, <2>1, <3>1 DEF PlainInv, PromptInv, FreshOf
  <2>2. CASE ~prompt_sent
    <3>1. promptChunks = {} /\ ~prompted
      BY <2>2 DEF PlainInv, PromptInv
    <3>2. 0..(0 - 1) = {} /\ 0 \in 0..(PromptChunks - 1)
      BY PlainTypes
    <3>3. PromptComes(0)'
      <4>1. prompt_pending' = PromptChunks - (0 + Systems(pendingFrames'))
        BY <1>1, <1>2, <1>8, <2>2, PlainTypes
      <4>2. ~FreshOf("SYSTEM")'
        BY <1>5 DEF FreshOf
      <4>3. QED
        BY <1>2, <1>8, <3>1, <3>2, <4>1, <4>2 DEF PromptComes
    <3>4. QED
      BY <1>1, <1>2, <1>3, <1>5, <3>1, <3>2, <3>3 DEF PromptInv
  <2>3. QED
    BY <2>1, <2>2
<1>14. QED
  BY <1>5, <1>6, <1>7, <1>12, <1>13 DEF PlainInv

\* The C64 takes a DONE: its call is over.
LEMMA TakeDonePlain ==
    ASSUME TypeInv, PlainInv, Requested, UNCHANGED bridgeVars, down' = <<>>, C64!TakeDone(out)
    PROVE  PlainInv'
<1>1. /\ rx_last_id' = out.id /\ tx_ack_wait' = FALSE /\ ack_id' = out.id /\ ack_pending' = TRUE
      /\ busy' = FALSE /\ text_pending' = FALSE /\ out.type = "DONE"
      /\ UNCHANGED <<up, send_buf, tx_next_id, basic, agent_state, basic_running, result_pending,
                     state_pending, deferred_ack, exec_buf, ready, prompt_sent, prompt_pending,
                     llm_pending, userq>>
  BY DEF C64!TakeDone, C64!Accept, C64!OweAck, PlainInv, NoTools
<1>2. UNCHANGED <<pc, out, delivered, silent, waiters, overlap, pendingFrames, pendingAcks,
                  rxLastID, nextTxID, textOut, basicRunning, waitingTool, completionDrain,
                  promptChunks, prompted, texts, emitted>>
  BY DEF bridgeVars
<1>3. pc = "doneWait" /\ pendingFrames = <<>> /\ NoAck /\ Still
  BY <1>1, OnItsWay
<1>4. LinesInv' /\ ~Fresh' /\ ~Requested' /\ NotAcked(up, out.id)
  BY <1>1, RequestTaken
<1>5. NoTools'
  BY <1>1, <1>2 DEF PlainInv, NoTools
<1>6. TextsInv'
  BY <1>1, <1>2 DEF PlainInv, TextsInv, Taken, Sent
<1>7. AckComes'
  BY <1>1, <1>2, <1>3, <1>4 DEF AckComes, NoAck
<1>8. TurnInv'
  <2>1. Still'
    BY <1>1, <1>3, <1>4 DEF Still
  <2>2. Ending'
    BY <1>1, <1>2, <1>3, <1>4, <1>7, <2>1 DEF Ending
  <2>3. QED
    BY <1>2, <1>3, <2>2 DEF TurnInv
<1>9. PromptInv'
  BY <1>1, <1>2, <1>3, <1>4 DEF PlainInv, PromptInv, FreshOf
<1>10. QED
  BY <1>4, <1>5, <1>6, <1>8, <1>9 DEF PlainInv

\* The C64 takes a TEXT: it has the USER frame to send, and holds the ACK back.
LEMMA TakeTextPlain ==
    ASSUME TypeInv, PlainInv, Requested, UNCHANGED bridgeVars, down' = <<>>, C64!TakeText(out)
    PROVE  PlainInv'
<1>1. /\ rx_last_id' = out.id /\ tx_ack_wait' = FALSE /\ ack_id' = out.id
      /\ busy' = FALSE /\ text_pending' = TRUE /\ deferred_ack' = TRUE /\ exec_buf' = out
      /\ out.type = "TEXT"
      /\ UNCHANGED <<up, send_buf, tx_next_id, basic, agent_state, basic_running, result_pending,
                     state_pending, ack_pending, ready, prompt_sent, prompt_pending,
                     llm_pending, userq>>
  BY DEF C64!TakeText, C64!Accept, PlainInv, NoTools
<1>2. UNCHANGED <<pc, out, delivered, silent, waiters, overlap, pendingFrames, pendingAcks,
                  rxLastID, nextTxID, textOut, basicRunning, waitingTool, completionDrain,
                  promptChunks, prompted, texts, emitted>>
  BY DEF bridgeVars
<1>3. pc = "textWait" /\ AllUser(pendingFrames) /\ ~ack_pending /\ Still
  BY <1>1, OnItsWay
<1>4. LinesInv' /\ ~Fresh' /\ ~Requested' /\ NotAcked(up, out.id)
  BY <1>1, RequestTaken
<1>5. NoTools'
  BY <1>1, <1>2 DEF PlainInv, NoTools
<1>6. TextsInv'
  BY <1>1, <1>2 DEF PlainInv, TextsInv, Taken, Sent
<1>7. TurnInv'
  <2>1. TextComes'
    BY <1>1, <1>2, <1>3, <1>4 DEF TextComes, Still, FreshOf
  <2>2. Showing'
    BY <1>1, <1>2, <1>3, <1>4, <2>1 DEF Showing
  <2>3. QED
    BY <1>2, <1>3, <2>2 DEF TurnInv
<1>8. PromptInv'
  BY <1>1, <1>2, <1>3, <1>4 DEF PlainInv, PromptInv, FreshOf
<1>9. QED
  BY <1>4, <1>5, <1>6, <1>7, <1>8 DEF PlainInv

\* frame_dispatch: the C64 takes a frame.
LEMMA DispatchPlain ==
    ASSUME TypeInv, PlainInv, C64!Dispatch, UNCHANGED bridgeVars
    PROVE  PlainInv'
<1> DEFINE f == Head(down)
<1>1. /\ down # <<>> /\ down' = Tail(down)
      /\ \/ C64!TakeAck(f) \/ C64!TakeStatusReq(f) \/ C64!TakeStale(f) \/ C64!TakeMsg(f)
         \/ C64!TakeDone(f) \/ C64!TakeText(f) \/ C64!TakeScreenshot(f) \/ C64!TakeStop(f)
         \/ C64!TakeExec(f)
  BY DEF C64!Dispatch
<1>2. \/ Head(down) = AckOf(send_buf.id) /\ (Asked(Tail(down)) <=> Asked(down))
      \/ Head(down) = out /\ Tail(down) = <<>> /\ Asked(down)
  <2>1. down \in Seq(DownFrames) /\ DownTrue(down, send_buf.id, out) /\ out.type # "ACK"
    BY PlainTypes DEF PlainInv, LinesInv
  <2>2. QED
    BY <1>1, <2>1, DownTail
<1>3. CASE f = AckOf(send_buf.id) /\ (Asked(Tail(down)) <=> Asked(down))
  <2>1. f.type = "ACK"
    BY <1>3, AckFields
  <2>2. C64!TakeAck(f)
    BY <1>1, <2>1 DEF C64!TakeStatusReq, C64!TakeStale, C64!TakeMsg, C64!TakeDone, C64!TakeText,
       C64!TakeScreenshot, C64!TakeStop, C64!TakeExec, C64!Reliable
  <2>3. Requested' = Requested
    BY <1>1, <1>3 DEF Requested, Asked
  <2>4. QED
    BY <1>1, <1>3, <2>2, <2>3, TakeAckPlain
<1>4. CASE f = out /\ Tail(down) = <<>> /\ Asked(down)
  <2>1. Requested /\ down' = <<>>
    BY <1>1, <1>4 DEF Requested
  <2>2. out.type \in {"MSG", "DONE", "TEXT"} /\ out.id = rx_last_id + 1
    BY <2>1, OnItsWay DEF PlainInv, LinesInv
  <2>3. ~(out.id <= rx_last_id)
    BY <2>2, PlainTypes, SMTT(30)
  <2>4. C64!TakeMsg(out) \/ C64!TakeDone(out) \/ C64!TakeText(out)
    BY <1>1, <1>4, <2>2, <2>3 DEF C64!TakeAck, C64!TakeStatusReq, C64!TakeStale,
       C64!TakeScreenshot, C64!TakeStop, C64!TakeExec
  <2>5. QED
    BY <2>1, <2>4, TakeMsgPlain, TakeDonePlain, TakeTextPlain
<1>5. QED
  BY <1>2, <1>3, <1>4

-----------------------------------------------------------------------------
(* What does not happen without tools *)

\* BASIC and the user queue have nothing to do.
LEMMA NothingForBasic ==
    ASSUME PlainInv
    PROVE  /\ ~C64!ServiceReleasesQueue /\ ~C64!InjectKey /\ ~C64!LineStored
           /\ ~C64!BasicEnds /\ ~C64!BasicBreaks /\ ~C64!WaitReady /\ ~C64!ReadyNoticed
           /\ ~C64!DetachedReady /\ ~C64!ReportRunning
  BY DEF PlainInv, NoTools, C64!ServiceReleasesQueue, C64!InjectKey, C64!LineStored,
     C64!BasicEnds, C64!BasicBreaks, C64!WaitReady, C64!ReadyNoticed, C64!DetachedReady,
     C64!ReportRunning

\* A timer that runs out is in time.
LEMMA TimersInTime ==
    ASSUME TypeInv, EarlyTimeouts = 0
    PROVE  \A inTime : Counted(inTime) => inTime
  BY DEF Counted, TypeInv

\* A frame is not repeated: the bridge is there to acknowledge it.
LEMMA NothingRepeated ==
    ASSUME TypeInv, PlainInv, EarlyTimeouts = 0
    PROVE  ~C64Timer
<1> SUFFICES ASSUME C64Timer PROVE FALSE
  OBVIOUS
<1>0. Counted(down = <<>> /\ ~Bridge!AnswersSoon)
  BY DEF C64Timer
<1>1. tx_ack_wait /\ down = <<>> /\ ~Bridge!AnswersSoon
  BY <1>0, TimersInTime DEF C64Timer, C64!AckTimeout
<1>2. pc \in {"idle", "msgWait", "loop", "llmBatch", "call", "doneWait", "textDrain",
               "textWait", "userDrain", "leave"}
  BY DEF PlainInv, NoTools
<1>3. pc \in Bridge!LoopWaits => textOut = <<>>
  BY DEF PlainInv, TextsInv, Bridge!LoopWaits
<1>4. pc \in {"idle", "leave", "call"}
  BY <1>1, <1>2, <1>3 DEF Bridge!AnswersSoon, Bridge!LineWaits, Bridge!LoopWaits
<1>5. Still
  BY <1>4 DEF PlainInv, TurnInv, Between, Asking
<1>6. ~Fresh /\ pendingAcks = <<>>
  BY <1>4, <1>5 DEF Still, PlainInv, LinesInv
<1>7. QED
  BY <1>1, <1>6 DEF PlainInv, LinesInv

\* What the C64 has on the line that is no ACK is new.
LEMMA DataIsFresh ==
    ASSUME TypeInv, PlainInv, NEW f \in Bridge!ToSet(up), f.type # "ACK"
    PROVE  Fresh /\ f = send_buf /\ f.id = rxLastID + 1 /\ f.id > rxLastID
<1>1. PICK i \in 1..Len(up) : up[i] = f
  BY PlainTypes, Members
<1>2. Fresh
  BY <1>1 DEF PlainInv, LinesInv, UpOld
<1>3. f = send_buf
  BY <1>1, <1>2 DEF PlainInv, LinesInv, UpWith
<1>4. send_buf.id \in {rxLastID, rxLastID + 1} /\ rxLastID \in Nat
  BY PlainTypes DEF PlainInv, LinesInv
<1>5. QED
  BY <1>2, <1>3, <1>4 DEF Fresh

\* No message overlaps, no frame is old, and the C64 sends nothing into a drain.
LEMMA NothingUnexpected ==
    ASSUME TypeInv, PlainInv
    PROVE  /\ ~Bridge!Overlap /\ ~Bridge!OverlapTimeout /\ ~Bridge!OverlapAcked
           /\ ~Bridge!DropStale /\ ~Bridge!DrainReceives
<1>1. ~Bridge!Overlap /\ ~Bridge!OverlapTimeout /\ ~Bridge!OverlapAcked
  BY DEF PlainInv, NoTools, Bridge!Overlap, Bridge!OverlapTimeout, Bridge!OverlapAcked,
     Bridge!None
<1>2. ~Bridge!DropStale
  <2> SUFFICES ASSUME NEW f \in Bridge!ToSet(up), Bridge!IsData(f), Bridge!Stale(f) PROVE FALSE
    BY DEF Bridge!DropStale
  <2>1. f.id > rxLastID /\ f.id <= rxLastID /\ f.id = rxLastID + 1
    BY DataIsFresh DEF Bridge!IsData, Bridge!IsAck, Bridge!Stale
  <2>2. QED
    BY <2>1, PlainTypes
<1>3. ~Bridge!DrainReceives
  <2> SUFFICES ASSUME Bridge!DrainReceives PROVE FALSE
    OBVIOUS
  <2>1. PICK f \in Bridge!ToSet(up) : Bridge!Accept(f) /\ pc \in {"textDrain", "execDrain"}
    BY DEF Bridge!DrainReceives
  <2>2. pc = "textDrain"
    BY <2>1 DEF PlainInv, NoTools
  <2>3. ~Fresh
    BY <2>2 DEF PlainInv, TurnInv, Draining, Still
  <2>4. f.type # "ACK"
    BY <2>1 DEF Bridge!Accept, Bridge!IsData, Bridge!IsAck
  <2>5. QED
    BY <2>3, <2>4, DataIsFresh
<1>4. QED
  BY <1>1, <1>2, <1>3

\* No wait ends by a timeout: while the answer is missing it is somewhere.
LEMMA NoTimeout ==
    ASSUME TypeInv, PlainInv, EarlyTimeouts = 0
    PROVE  ~BridgeTimers
<1> SUFFICES ASSUME BridgeTimers PROVE FALSE
  OBVIOUS
<1>0. Counted(up = <<>> /\ down = <<>> /\ C64!Quiet) /\ Bridge!Timeout
  BY NothingUnexpected DEF BridgeTimers, Bridge!Timers
<1>1. pc \in Bridge!Confirmed /\ up = <<>> /\ down = <<>> /\ C64!Quiet
  BY <1>0, TimersInTime DEF Bridge!Timeout
<1>2. pc \in {"msgWait", "doneWait", "textWait"}
  BY <1>1 DEF Bridge!Confirmed, PlainInv, NoTools
<1>3. ~Requested
  BY <1>1, DownNone DEF Requested
<1>4. \A id : ~Acked(up, id)
  <2>1. Len(up) = 0
    BY <1>1
  <2>2. QED
    BY <2>1 DEF Acked
<1>5. ~ack_pending
  <2>1. C64!AcksDue = <<>>
    BY <1>1 DEF C64!Quiet
  <2>2. <<C64!Ack(ack_id)>> # <<>>
    OBVIOUS
  <2>3. QED
    BY <2>1, <2>2 DEF C64!AcksDue
<1>6. ~AckComes
  BY <1>4, <1>5 DEF AckComes
<1>7. pc = "textWait" /\ TextComes
  BY <1>2, <1>3, <1>6 DEF PlainInv, TurnInv, Messaging, Ending, Showing
<1>8. ~Fresh
  <2>1. Len(up) = 0
    BY <1>1
  <2>2. QED
    BY <2>1 DEF PlainInv, LinesInv, UpWith
<1>9. text_pending /\ ~tx_ack_wait /\ C64!NextKind # "none"
  BY <1>7, <1>8, PlainTypes DEF TextComes, FreshOf, C64!NextKind
<1>10. QED
  BY <1>1, <1>9 DEF C64!Quiet

-----------------------------------------------------------------------------
(* The bridge *)

LEMMA AgentStays ==
    ASSUME UNCHANGED c64Vars
    PROVE  UNCHANGED <<agent_state, basic_running, busy, prompt_sent, prompt_pending,
                       result_pending, state_pending, llm_pending, text_pending, deferred_ack,
                       exec_buf, userq, ack_pending, ack_id, rx_last_id, tx_ack_wait, send_buf,
                       tx_next_id, basic, ready>>
  BY DEF c64Vars

\* An ACK is taken from the line.
LEMMA AckTaken ==
    ASSUME TypeInv, PlainInv, NEW f, Bridge!TakeFromLine(f), f.type = "ACK"
    PROVE  /\ IF Fresh THEN UpWith(up', rx_last_id, send_buf) ELSE UpOld(up', rx_last_id)
           /\ NoAckIn(up) => NoAckIn(up')
           /\ \A id : NotAcked(up, id) => NotAcked(up', id)
           /\ \A id : Acked(up, id) /\ f # AckOf(id) => Acked(up', id)
           /\ \A id \in Nat : Acked(up, id) /\ f = AckOf(id) => NoAckIn(up')
           /\ ~NoAckIn(up) /\ \A id : NotAcked(up, id) => f.id < id
<1>1. PICK k \in 1..Len(up) : f = up[k] /\ Bridge!Takeable(k) /\ up' = Bridge!RemoveAt(up, k)
  <2>1. DOMAIN up = 1..Len(up)
    BY PlainTypes
  <2>2. QED
    BY <2>1 DEF Bridge!TakeFromLine
<1>2. \A j \in 1..(k - 1) : up[j].type # "ACK"
  BY <1>1 DEF Bridge!Takeable, Bridge!IsAck, Bridge!IsData
<1>3. send_buf.type # "ACK" /\ up \in Seq(UpFrames) /\ rx_last_id \in Nat
  BY PlainTypes DEF PlainInv, LinesInv
<1>4. /\ UpOld(up, rx_last_id) => UpOld(up', rx_last_id)
      /\ UpWith(up, rx_last_id, send_buf) => UpWith(up', rx_last_id, send_buf)
      /\ NoAckIn(up) => NoAckIn(up')
      /\ \A id : NotAcked(up, id) => NotAcked(up', id)
      /\ \A id : Acked(up, id) /\ up[k] # AckOf(id) => Acked(up', id)
      /\ \A id : Acked(up, id) /\ up[k] = AckOf(id)
                 /\ (\A j \in 1..(k - 1) : up[j].type # "ACK") /\ id \in Nat => NoAckIn(up')
  BY <1>1, <1>3, UpLessAck
<1>5. ~NoAckIn(up) /\ \A id : NotAcked(up, id) => f.id < id
  BY <1>1 DEF NoAckIn, NotAcked
<1>6. QED
  BY <1>1, <1>2, <1>4, <1>5 DEF PlainInv, LinesInv

\* The frame of the C64 is taken from the line.
LEMMA DataTaken ==
    ASSUME TypeInv, PlainInv, NEW f, Bridge!TakeFromLine(f), f.type # "ACK"
    PROVE  /\ f = send_buf /\ Fresh /\ f \in UpFrames /\ f.id = rxLastID + 1
           /\ UpOld(up', rx_last_id)
           /\ NoAckIn(up) => NoAckIn(up')
           /\ \A id : NotAcked(up, id) => NotAcked(up', id)
           /\ \A id : Acked(up, id) => Acked(up', id)
<1>1. PICK k \in 1..Len(up) : f = up[k] /\ up' = Bridge!RemoveAt(up, k)
  <2>1. DOMAIN up = 1..Len(up)
    BY PlainTypes
  <2>2. QED
    BY <2>1 DEF Bridge!TakeFromLine
<1>2. f \in Bridge!ToSet(up) /\ f \in UpFrames
  BY <1>1, PlainTypes, Members
<1>3. f = send_buf /\ Fresh /\ f.id = rxLastID + 1
  BY <1>2, DataIsFresh
<1>4. UpWith(up, rx_last_id, send_buf) /\ up \in Seq(UpFrames) /\ rx_last_id \in Nat
  BY <1>3, PlainTypes DEF PlainInv, LinesInv
<1>5. /\ UpOld(up', rx_last_id)
      /\ NoAckIn(up) => NoAckIn(up')
      /\ \A id : NotAcked(up, id) => NotAcked(up', id)
      /\ \A id : Acked(up, id) => Acked(up', id)
  BY <1>1, <1>4, UpLessData
<1>6. QED
  BY <1>2, <1>3, <1>5

\* The ACK that is owed goes out.
LEMMA FlushAcksPlain ==
    ASSUME TypeInv, PlainInv, Bridge!FlushAcks, UNCHANGED c64Vars
    PROVE  PlainInv'
<1>1. UNCHANGED <<up, pc, out, delivered, silent, waiters, overlap, pendingFrames, rxLastID,
                  nextTxID, textOut, basicRunning, waitingTool, completionDrain, promptChunks,
                  prompted, texts, emitted>>
  BY DEF Bridge!FlushAcks, Bridge!ownerVars, Bridge!gateVars, Bridge!flagVars,
     Bridge!chunkVars, Bridge!llmVars, Bridge!userVars
<1>2. UNCHANGED <<agent_state, basic_running, busy, prompt_sent, prompt_pending,
                  result_pending, state_pending, llm_pending, text_pending, deferred_ack,
                  exec_buf, userq, ack_pending, ack_id, rx_last_id, tx_ack_wait, send_buf,
                  tx_next_id, basic, ready>>
  BY AgentStays
<1>3. pendingAcks # <<>> /\ down' = down \o Bridge!AckFrames(pendingAcks) /\ pendingAcks' = <<>>
  BY DEF Bridge!FlushAcks
<1>4. /\ pendingAcks = <<send_buf.id>> /\ pc \in {"msgWait", "loop", "llmBatch"}
      /\ ~Requested /\ ~Fresh
  BY <1>3 DEF PlainInv, LinesInv
<1>5. ~basicRunning /\ DownTrue(down, send_buf.id, out) /\ out.type # "ACK"
  BY DEF PlainInv, NoTools, LinesInv
<1>6. Bridge!AckFrames(pendingAcks) = <<AckOf(send_buf.id)>>
  BY <1>4, <1>5, OwedAcks, PlainTypes
<1>7. down \in Seq(DownFrames) /\ ~Asked(down) /\ AckOf(send_buf.id) \in DownFrames
  BY <1>4, PlainTypes DEF Requested
<1>8. down' = down \o <<AckOf(send_buf.id)>>
  BY <1>3, <1>6
<1>9. /\ DownTrue(down', send_buf.id, out) /\ ~Asked(down') /\ Len(down') = Len(down) + 1
      /\ Len(down) \in Nat /\ down' # <<>>
  BY <1>5, <1>7, <1>8, DownAck
<1>10. Len(pendingAcks) = 1 /\ Len(pendingAcks') = 0
  BY <1>3, <1>4
<1>11. Len(down') + Len(pendingAcks') = Len(down) + Len(pendingAcks)
  BY <1>9, <1>10
<1>12. ~Requested' /\ ~Fresh'
  BY <1>1, <1>2, <1>4, <1>9 DEF Requested, Fresh
<1>13. NoTools'
  BY <1>1, <1>2 DEF PlainInv, NoTools
<1>14. LinesInv'
  BY <1>1, <1>2, <1>3, <1>4, <1>9, <1>12 DEF PlainInv, LinesInv
<1>15. PromptInv'
  BY <1>1, <1>2, <1>4, <1>12 DEF PlainInv, PromptInv, FreshOf, PromptComes
<1>16. TextsInv'
  BY <1>1, <1>2 DEF PlainInv, TextsInv, Taken, Sent
<1>17. Still' = Still /\ NoAck' = NoAck /\ AckComes' = AckComes
  BY <1>1, <1>2, <1>4, <1>12 DEF Still, NoAck, AckComes
<1>18. LLMComes => LLMComes'
  <2> SUFFICES ASSUME LLMComes PROVE LLMComes'
    OBVIOUS
  <2>1. tx_ack_wait /\ Len(down') + Len(pendingAcks') = Len(down) + Len(pendingAcks)
    <3>1. tx_ack_wait
      BY <1>3, <1>4 DEF LLMComes
    <3>2. QED
      BY <1>11, <3>1
  <2>2. Len(down') + Len(pendingAcks') = 1
    BY <1>4, <2>1 DEF LLMComes
  <2>3. QED
    BY <1>1, <1>2, <1>4, <1>12, <2>1, <2>2 DEF LLMComes, FreshOf
<1>19. TurnInv'
  <2>1. CASE pc = "msgWait"
    <3>1. Messaging'
      BY <1>1, <1>4, <1>12, <1>17, <1>18, <2>1 DEF PlainInv, TurnInv, Messaging
    <3>2. QED
      BY <1>1, <2>1, <3>1 DEF TurnInv
  <2>2. CASE pc = "loop"
    <3>1. Prompting' \/ Ended' \/ Shown'
      BY <1>1, <1>2, <1>4, <1>12, <1>17, <1>18, <2>2
         DEF PlainInv, TurnInv, Prompting, Ended, Shown
    <3>2. QED
      BY <1>1, <2>2, <3>1 DEF TurnInv
  <2>3. CASE pc = "llmBatch"
    <3>1. Asking'
      BY <1>1, <1>12, <1>17, <2>3 DEF PlainInv, TurnInv, Asking
    <3>2. QED
      BY <1>1, <2>3, <3>1 DEF TurnInv
  <2>4. QED
    BY <1>4, <2>1, <2>2, <2>3
<1>20. QED
  BY <1>13, <1>14, <1>15, <1>16, <1>19 DEF PlainInv

\* An ACK that confirms nothing is dropped.
LEMMA StrayAckPlain ==
    ASSUME TypeInv, PlainInv, Bridge!StrayAck, UNCHANGED c64Vars
    PROVE  PlainInv'
<1>1. UNCHANGED <<down, pc, out, delivered, silent, waiters, overlap, pendingFrames, pendingAcks,
                  rxLastID, nextTxID, textOut, basicRunning, waitingTool, completionDrain,
                  promptChunks, prompted, texts, emitted>>
  BY DEF Bridge!StrayAck, Bridge!ownerVars, Bridge!gateVars, Bridge!linkVars, Bridge!flagVars,
     Bridge!chunkVars, Bridge!llmVars, Bridge!userVars
<1>2. UNCHANGED <<agent_state, basic_running, busy, prompt_sent, prompt_pending,
                  result_pending, state_pending, llm_pending, text_pending, deferred_ack,
                  exec_buf, userq, ack_pending, ack_id, rx_last_id, tx_ack_wait, send_buf,
                  tx_next_id, basic, ready>>
  BY AgentStays
<1>3. PICK f : /\ Bridge!TakeFromLine(f) /\ f.type = "ACK"
               /\ pc \in {"msgWait", "doneWait", "textWait"} => f.id # out.id
  BY DEF Bridge!StrayAck, Bridge!Receive, Bridge!IsAck
<1>4. pc \in {"msgWait", "doneWait", "textDrain", "textWait"}
  BY DEF Bridge!StrayAck, Bridge!LineWaits, PlainInv, NoTools
<1>5. /\ IF Fresh THEN UpWith(up', rx_last_id, send_buf) ELSE UpOld(up', rx_last_id)
      /\ \A id : NotAcked(up, id) => NotAcked(up', id)
      /\ \A id : Acked(up, id) /\ f # AckOf(id) => Acked(up', id)
      /\ ~NoAckIn(up)
  BY <1>3, AckTaken
<1>6. Fresh' = Fresh /\ Requested' = Requested
  BY <1>1, <1>2 DEF Fresh, Requested
<1>7. NoTools'
  BY <1>1, <1>2 DEF PlainInv, NoTools
<1>8. LinesInv'
  BY <1>1, <1>2, <1>5, <1>6 DEF PlainInv, LinesInv
<1>9. PromptInv'
  BY <1>1, <1>2, <1>6 DEF PlainInv, PromptInv, FreshOf, PromptComes
<1>10. TextsInv'
  BY <1>1, <1>2 DEF PlainInv, TextsInv, Taken, Sent
<1>11. Still' = Still /\ LLMComes' = LLMComes /\ TextComes' = TextComes
  BY <1>1, <1>2, <1>6 DEF Still, LLMComes, TextComes, FreshOf
<1>12. pc \in {"msgWait", "doneWait"} /\ AckComes => AckComes'
  <2>1. pc \in {"msgWait", "doneWait"} => f # AckOf(out.id)
    BY <1>3, AckFields
  <2>2. QED
    BY <1>1, <1>2, <1>5, <2>1 DEF AckComes
<1>13. TurnInv'
  <2>1. CASE pc = "msgWait"
    <3>1. Messaging'
      BY <1>1, <1>2, <1>6, <1>11, <1>12, <2>1 DEF PlainInv, TurnInv, Messaging
    <3>2. QED
      BY <1>1, <2>1, <3>1 DEF TurnInv
  <2>2. CASE pc = "doneWait"
    <3>1. Ending'
      BY <1>1, <1>2, <1>5, <1>6, <1>11, <1>12, <2>2 DEF PlainInv, TurnInv, Ending, NoAck
    <3>2. QED
      BY <1>1, <2>2, <3>1 DEF TurnInv
  <2>3. CASE pc = "textDrain"
    <3>1. Draining'
      BY <1>1, <1>2, <1>6, <1>11, <2>3 DEF PlainInv, TurnInv, Draining
    <3>2. QED
      BY <1>1, <2>3, <3>1 DEF TurnInv
  <2>4. CASE pc = "textWait"
    <3>1. Showing'
      BY <1>1, <1>2, <1>5, <1>6, <1>11, <2>4 DEF PlainInv, TurnInv, Showing
    <3>2. QED
      BY <1>1, <2>4, <3>1 DEF TurnInv
  <2>5. QED
    BY <1>4, <2>1, <2>2, <2>3, <2>4
<1>14. QED
  BY <1>7, <1>8, <1>9, <1>10, <1>13 DEF PlainInv

\* The ACK of a message or a DONE ends the wait; a TEXT is confirmed by its USER frame.
LEMMA AckArrivesPlain ==
    ASSUME TypeInv, PlainInv, Bridge!AckArrives, UNCHANGED c64Vars
    PROVE  PlainInv'
<1>1. /\ UNCHANGED <<down, out, delivered, waiters, overlap, pendingFrames, pendingAcks,
                     rxLastID, nextTxID, textOut, basicRunning, waitingTool, completionDrain,
                     promptChunks, prompted, texts, emitted>>
      /\ silent' = (pc = "doneWait") /\ (pc # "textWait" => pc' = "loop")
      /\ pc \in {"msgWait", "doneWait", "textWait"}
  BY DEF Bridge!AckArrives, Bridge!gateVars, Bridge!linkVars, Bridge!flagVars,
     Bridge!chunkVars, Bridge!llmVars, Bridge!userVars
<1>2. UNCHANGED <<agent_state, basic_running, busy, prompt_sent, prompt_pending,
                  result_pending, state_pending, llm_pending, text_pending, deferred_ack,
                  exec_buf, userq, ack_pending, ack_id, rx_last_id, tx_ack_wait, send_buf,
                  tx_next_id, basic, ready>>
  BY AgentStays
<1>3. pc # "textWait" => pendingAcks = <<>>
  BY <1>1 DEF Bridge!AckArrives, Bridge!Receive, Bridge!HoldsAcks
<1>4. /\ Bridge!TakeFromLine(AckOf(out.id)) /\ AckOf(out.id).type = "ACK"
      /\ AckOf(out.id).id = out.id /\ out.id \in Nat
  BY AckFields, PlainTypes DEF Bridge!AckArrives, Bridge!Receive, Bridge!AckFrame, AckOf
<1>5. /\ IF Fresh THEN UpWith(up', rx_last_id, send_buf) ELSE UpOld(up', rx_last_id)
      /\ Acked(up, out.id) => NoAckIn(up')
      /\ ~NoAckIn(up) /\ ~NotAcked(up, out.id)
  <2>1. ~(out.id < out.id)
    BY <1>4
  <2>2. QED
    BY <1>4, <2>1, AckTaken
<1>6. pc # "textWait"
  BY <1>5 DEF PlainInv, TurnInv, Showing
<1>7. ~Requested /\ ~ack_pending /\ ~deferred_ack /\ Acked(up, out.id)
      /\ \/ pc = "msgWait" /\ out.type = "MSG" /\ ~delivered /\ ~silent /\ LLMComes
         \/ pc = "doneWait" /\ out.type = "DONE" /\ Still /\ pendingFrames = <<>> /\ ~busy
  <2>1. CASE pc = "msgWait"
    <3>1. Messaging
      BY <2>1 DEF PlainInv, TurnInv
    <3>2. Requested => NotAcked(up, out.id)
      <4> SUFFICES ASSUME Requested PROVE NotAcked(up, out.id)
        OBVIOUS
      <4>1. ~Fresh /\ out.id = rx_last_id + 1
        BY <3>1 DEF Messaging, Still, PlainInv, LinesInv
      <4>2. UpOld(up, rx_last_id)
        BY <4>1 DEF PlainInv, LinesInv
      <4>3. QED
        BY <4>1, <4>2, UpLater, PlainTypes
    <3>3. ~Requested /\ LLMComes /\ AckComes
      BY <1>5, <3>1, <3>2 DEF Messaging
    <3>4. QED
      BY <1>5, <2>1, <3>1, <3>3 DEF Messaging, AckComes
  <2>2. CASE pc = "doneWait"
    <3>1. Ending
      BY <2>2 DEF PlainInv, TurnInv
    <3>2. ~Requested /\ AckComes
      BY <1>5, <3>1 DEF Ending, NoAck
    <3>3. QED
      BY <1>5, <2>2, <3>1, <3>2 DEF Ending, AckComes
  <2>3. QED
    BY <1>1, <1>6, <2>1, <2>2
<1>8. NoAck' /\ Fresh' = Fresh /\ Requested' = Requested /\ pc' = "loop" /\ pendingAcks = <<>>
  BY <1>1, <1>2, <1>3, <1>5, <1>6, <1>7 DEF NoAck, Fresh, Requested
<1>9. NoTools'
  BY <1>1, <1>2, <1>8 DEF PlainInv, NoTools
<1>10. LinesInv'
  BY <1>1, <1>2, <1>5, <1>8 DEF PlainInv, LinesInv
<1>11. PromptInv'
  <2>1. \A c : PromptComes(c)' = PromptComes(c)
    BY <1>1, <1>2, <1>8 DEF PromptComes, FreshOf
  <2>2. prompt_sent
    BY <1>1, <1>6, <1>7 DEF PlainInv, PromptInv
  <2>3. QED
    BY <1>1, <1>2, <1>7, <1>8, <2>1, <2>2 DEF PlainInv, PromptInv, FreshOf
<1>12. TextsInv'
  BY <1>1, <1>2, <1>6, <1>8 DEF PlainInv, TextsInv, Taken, Sent
<1>13. Still' = Still /\ LLMComes' = LLMComes
  BY <1>1, <1>2, <1>8 DEF Still, LLMComes, FreshOf
<1>14. TurnInv'
  <2>1. Prompting' \/ Ended'
    BY <1>1, <1>2, <1>7, <1>8, <1>13 DEF Prompting, Ended
  <2>2. QED
    BY <1>8, <2>1 DEF TurnInv
<1>15. QED
  BY <1>9, <1>10, <1>11, <1>12, <1>14 DEF PlainInv

\* What a new request does to the lines.
LEMMA RequestSent ==
    ASSUME TypeInv, PlainInv, ~Requested, ~Fresh, pendingAcks = <<>>,
           UNCHANGED c64Vars, UNCHANGED <<up, rxLastID>>,
           NEW f, Bridge!SendNew(f),
           NEW g, g = [f EXCEPT !.id = nextTxID], g.id = nextTxID, g.type # "ACK"
    PROVE  /\ LinesInv' /\ Requested' /\ ~Fresh' /\ out' = g
           /\ g.id = rx_last_id + 1 /\ NotAcked(up, g.id)
<1>1. UNCHANGED <<ack_pending, deferred_ack, ack_id, rx_last_id, tx_ack_wait, send_buf, tx_next_id>>
  BY AgentStays
<1>2. /\ down' = (down \o Bridge!AckFrames(pendingAcks)) \o <<g>> /\ pendingAcks' = <<>>
      /\ out' = g /\ nextTxID' = nextTxID + 1
  BY DEF Bridge!SendNew, Bridge!Send
<1>3. Bridge!AckFrames(pendingAcks) = <<>>
  BY OwedAcks, PlainTypes DEF PlainInv, NoTools
<1>4. down \in Seq(DownFrames) /\ DownTrue(down, send_buf.id, out) /\ ~Asked(down)
      /\ out.type # "ACK"
  BY PlainTypes DEF PlainInv, LinesInv, Requested
<1>5. down' = Append(down, g)
  <2>1. down \o <<>> = down
    BY <1>4, ConcatEmptySeq
  <2>2. down' = down \o <<g>>
    BY <1>2, <1>3, <2>1
  <2>3. QED
    BY <1>4, <2>2
<1>6. PICK S : S = DownFrames \cup {g}
  OBVIOUS
<1>7. down \in Seq(S) /\ g \in S
  BY <1>4, <1>6, SeqMonotonic
<1>8. DownTrue(down', send_buf.id, g) /\ Asked(down')
  BY <1>4, <1>5, <1>7, DownRequest
<1>9. nextTxID = out.id + 1 /\ out.id = rx_last_id /\ UpOld(up, rx_last_id)
  BY DEF PlainInv, LinesInv
<1>10. g.id = rx_last_id + 1 /\ nextTxID' = g.id + 1
  BY <1>2, <1>9
<1>11. NotAcked(up, g.id)
  BY <1>9, <1>10, UpLater, PlainTypes
<1>12. Requested' /\ ~Fresh' /\ down' # <<>>
  BY <1>1, <1>8 DEF Requested, Fresh, Asked
<1>13. LinesInv'
  BY <1>1, <1>2, <1>8, <1>9, <1>10, <1>12 DEF PlainInv, LinesInv
<1>14. QED
  BY <1>2, <1>10, <1>11, <1>12, <1>13

\* A message goes to the C64 when there is no call.
LEMMA MessageSent ==
    ASSUME TypeInv, PlainInv, UNCHANGED c64Vars, pc \in {"idle", "leave"}, pc' = "msgWait",
           NEW n, Bridge!SendNew([type |-> "MSG", n |-> n, id |-> 0]),
           ~delivered', ~silent', \A i \in 1..Len(waiters') : ~waiters'[i].sent,
           UNCHANGED <<up, overlap, pendingFrames, rxLastID, textOut, basicRunning, waitingTool,
                       completionDrain, promptChunks, prompted, texts, emitted>>
    PROVE  PlainInv'
<1>1. UNCHANGED <<agent_state, basic_running, busy, prompt_sent, prompt_pending,
                  result_pending, state_pending, llm_pending, text_pending, deferred_ack,
                  exec_buf, userq, ack_pending, ack_id, rx_last_id, tx_ack_wait, send_buf,
                  tx_next_id, basic, ready>>
  BY AgentStays
<1>2. Between /\ Still /\ ~Requested /\ ~Fresh /\ pendingAcks = <<>>
  BY DEF PlainInv, TurnInv, Between, Still, LinesInv
<1>3. PICK f : f = [type |-> "MSG", n |-> n, id |-> 0]
  OBVIOUS
<1>4. PICK g : g = [type |-> "MSG", n |-> n, id |-> nextTxID]
  OBVIOUS
<1>5. g = [f EXCEPT !.id = nextTxID] /\ g.id = nextTxID /\ g.type = "MSG" /\ g.type # "ACK"
  BY <1>3, <1>4
<1>6. LinesInv' /\ Requested' /\ ~Fresh' /\ out' = g
  BY <1>2, <1>3, <1>5, RequestSent
<1>7. NoTools'
  BY <1>1 DEF PlainInv, NoTools
<1>8. PromptInv'
  BY <1>1, <1>6 DEF PlainInv, PromptInv, FreshOf
<1>9. TextsInv'
  BY DEF PlainInv, TextsInv, Taken, Sent
<1>10. Messaging'
  <2>1. Still'
    BY <1>1, <1>2, <1>6 DEF Still
  <2>2. QED
    BY <1>1, <1>2, <1>5, <1>6, <2>1 DEF Messaging, Between
<1>11. TurnInv'
  BY <1>10 DEF TurnInv
<1>12. QED
  BY <1>6, <1>7, <1>8, <1>9, <1>11 DEF PlainInv

\* Nothing changes but the calls that wait.
LEMMA SameElsewhere ==
    ASSUME PlainInv, UNCHANGED c64Vars,
           UNCHANGED <<down, up, pc, out, delivered, silent, overlap, pendingFrames, pendingAcks,
                       rxLastID, nextTxID, textOut, basicRunning, waitingTool, completionDrain,
                       promptChunks, prompted, texts, emitted>>,
           \A i \in 1..Len(waiters') : ~waiters'[i].sent,
           pc = "idle" => waiters' = <<>>
    PROVE  PlainInv'
<1>1. UNCHANGED <<agent_state, basic_running, busy, prompt_sent, prompt_pending,
                  result_pending, state_pending, llm_pending, text_pending, deferred_ack,
                  exec_buf, userq, ack_pending, ack_id, rx_last_id, tx_ack_wait, send_buf,
                  tx_next_id, basic, ready>>
  BY AgentStays
<1>2. NoTools'
  BY <1>1 DEF PlainInv, NoTools
<1>3. Fresh' = Fresh /\ Requested' = Requested
  BY <1>1 DEF Fresh, Requested
<1>4. LinesInv'
  BY <1>1, <1>3 DEF PlainInv, LinesInv
<1>5. PromptInv'
  BY <1>1, <1>3 DEF PlainInv, PromptInv, FreshOf, PromptComes
<1>6. TextsInv'
  BY DEF PlainInv, TextsInv, Taken, Sent
<1>7. Still' = Still /\ NoAck' = NoAck /\ AckComes' = AckComes /\ LLMComes' = LLMComes
      /\ TextComes' = TextComes
  BY <1>1, <1>3 DEF Still, NoAck, AckComes, LLMComes, TextComes, FreshOf
<1>8. /\ Between' = Between /\ Messaging' = Messaging /\ Prompting' = Prompting
      /\ Asking' = Asking /\ Ending' = Ending /\ Ended' = Ended /\ Draining' = Draining
      /\ Showing' = Showing /\ Shown' = Shown
  BY <1>1, <1>3, <1>7 DEF Between, Messaging, Prompting, Asking, Ending, Ended, Draining,
     Showing, Shown
<1>9. TurnInv'
  BY <1>8 DEF PlainInv, TurnInv
<1>10. QED
  BY <1>2, <1>4, <1>5, <1>6, <1>9 DEF PlainInv

\* The next call begins, or nobody waits.
LEMMA HandOffPlain ==
    ASSUME TypeInv, PlainInv, Bridge!HandOff, UNCHANGED c64Vars
    PROVE  PlainInv'
<1>1. /\ pc = "leave" /\ ~delivered' /\ ~silent'
      /\ UNCHANGED <<up, pendingFrames, rxLastID, textOut, basicRunning, waitingTool,
                     completionDrain, promptChunks, prompted, texts, emitted>>
  BY DEF Bridge!HandOff, Bridge!flagVars, Bridge!chunkVars, Bridge!llmVars, Bridge!userVars
<1>2. CASE waiters = <<>>
  <2>1. pc' = "idle" /\ UNCHANGED <<down, out, nextTxID, pendingAcks, waiters, overlap>>
    BY <1>2 DEF Bridge!HandOff
  <2>2. UNCHANGED <<agent_state, basic_running, busy, prompt_sent, prompt_pending,
                    result_pending, state_pending, llm_pending, text_pending, deferred_ack,
                    exec_buf, userq, ack_pending, ack_id, rx_last_id, tx_ack_wait, send_buf,
                    tx_next_id, basic, ready>>
    BY AgentStays
  <2>3. Fresh' = Fresh /\ Requested' = Requested
    BY <1>1, <2>1, <2>2 DEF Fresh, Requested
  <2>4. NoTools'
    BY <1>1, <1>2, <2>1, <2>2 DEF PlainInv, NoTools
  <2>5. LinesInv'
    BY <1>1, <2>1, <2>2, <2>3 DEF PlainInv, LinesInv
  <2>6. PromptInv'
    BY <1>1, <2>1, <2>2, <2>3 DEF PlainInv, PromptInv, FreshOf
  <2>7. TextsInv'
    BY <1>1, <2>1 DEF PlainInv, TextsInv, Taken, Sent
  <2>8. Between'
    BY <1>1, <2>1, <2>2, <2>3 DEF PlainInv, TurnInv, Between, Still
  <2>9. TurnInv'
    BY <2>1, <2>8 DEF TurnInv
  <2>10. QED
    BY <2>4, <2>5, <2>6, <2>7, <2>9 DEF PlainInv
<1>3. CASE waiters # <<>>
  <2>1. /\ waiters \in Seq([n : 1..arrived, sent : BOOLEAN])
        /\ \A i \in 1..Len(waiters) : ~waiters[i].sent
    BY DEF TypeInv, CallsInv, PlainInv, NoTools
  <2>2. /\ Head(waiters) = waiters[1] /\ 1 \in 1..Len(waiters)
        /\ \A i \in 1..Len(Tail(waiters)) : Tail(waiters)[i] = waiters[i + 1] /\ i + 1 \in 1..Len(waiters)
    BY <1>3, <2>1
  <2>3. ~Head(waiters).sent /\ \A i \in 1..Len(Tail(waiters)) : ~Tail(waiters)[i].sent
    BY <2>1, <2>2
  <2>4. /\ Bridge!SendNew([type |-> "MSG", n |-> Head(waiters).n, id |-> 0])
        /\ pc' = "msgWait" /\ UNCHANGED overlap /\ waiters' = Tail(waiters)
    BY <1>3, <2>3 DEF Bridge!HandOff
  <2>5. QED
    BY <1>1, <2>3, <2>4, MessageSent
<1>4. QED
  BY <1>2, <1>3

\* The user writes a message.
LEMMA ArrivePlain ==
    ASSUME TypeInv, PlainInv, Bridge!Arrive, UNCHANGED c64Vars
    PROVE  PlainInv'
<1>1. UNCHANGED <<up, delivered, silent, overlap, pendingFrames, rxLastID, textOut, basicRunning,
                  waitingTool, completionDrain, promptChunks, prompted, texts, emitted>>
  BY DEF Bridge!Arrive, Bridge!flagVars, Bridge!chunkVars, Bridge!llmVars, Bridge!userVars
<1>2. CASE pc = "idle"
  <2>1. /\ Bridge!SendNew([type |-> "MSG", n |-> arrived', id |-> 0])
        /\ pc' = "msgWait" /\ UNCHANGED waiters
    BY <1>2 DEF Bridge!Arrive
  <2>2. ~delivered /\ ~silent /\ \A i \in 1..Len(waiters) : ~waiters[i].sent
    BY <1>2 DEF PlainInv, TurnInv, Between, NoTools
  <2>3. QED
    BY <1>1, <1>2, <2>1, <2>2, MessageSent
<1>3. CASE pc # "idle"
  <2>1. /\ waiters' = Append(waiters, [n |-> arrived', sent |-> FALSE])
        /\ UNCHANGED <<down, out, nextTxID, pendingAcks, pc>>
    BY <1>3 DEF Bridge!Arrive
  <2>2. /\ waiters \in Seq([n : 1..arrived, sent : BOOLEAN])
        /\ \A i \in 1..Len(waiters) : ~waiters[i].sent
    BY DEF TypeInv, CallsInv, PlainInv, NoTools
  <2>3. PICK w : w = [n |-> arrived', sent |-> FALSE]
    OBVIOUS
  <2>4. /\ Len(waiters') = Len(waiters) + 1 /\ Len(waiters) \in Nat
        /\ \A i \in 1..Len(waiters) + 1 :
                waiters'[i] = IF i <= Len(waiters) THEN waiters[i] ELSE w
    BY <2>1, <2>2, <2>3
  <2>5. ~w.sent
    BY <2>3
  <2>6. \A i \in 1..Len(waiters') : ~waiters'[i].sent
    BY <2>2, <2>4, <2>5
  <2>7. QED
    BY <1>1, <1>3, <2>1, <2>6, SameElsewhere
<1>4. QED
  BY <1>2, <1>3

\* The C64 is ready for the TEXT that comes next.
LEMMA DrainEndsPlain ==
    ASSUME TypeInv, PlainInv, Bridge!DrainEnds, UNCHANGED c64Vars
    PROVE  PlainInv'
<1>1. /\ pc = "textDrain" /\ pc' = "textWait" /\ pendingAcks = <<>> /\ textOut' = Tail(textOut)
      /\ Bridge!SendNew([type |-> "TEXT", n |-> Head(textOut), id |-> 0])
      /\ UNCHANGED <<up, delivered, silent, waiters, overlap, pendingFrames, rxLastID,
                     basicRunning, waitingTool, completionDrain, promptChunks, prompted,
                     texts, emitted>>
  BY DEF Bridge!DrainEnds, Bridge!gateVars, Bridge!flagVars, Bridge!chunkVars,
     Bridge!userVars, PlainInv, NoTools
<1>2. UNCHANGED <<agent_state, basic_running, busy, prompt_sent, prompt_pending,
                  result_pending, state_pending, llm_pending, text_pending, deferred_ack,
                  exec_buf, userq, ack_pending, ack_id, rx_last_id, tx_ack_wait, send_buf,
                  tx_next_id, basic, ready>>
  BY AgentStays
<1>3. Draining /\ Still /\ ~Requested /\ ~Fresh
  BY <1>1 DEF PlainInv, TurnInv, Draining, Still
<1>4. PICK f : f = [type |-> "TEXT", n |-> Head(textOut), id |-> 0]
  OBVIOUS
<1>5. PICK g : g = [type |-> "TEXT", n |-> Head(textOut), id |-> nextTxID]
  OBVIOUS
<1>6. /\ g = [f EXCEPT !.id = nextTxID] /\ g.id = nextTxID
      /\ g.type = "TEXT" /\ g.type # "ACK" /\ g.n = Head(textOut)
  BY <1>4, <1>5
<1>7. LinesInv' /\ Requested' /\ ~Fresh' /\ out' = g /\ NotAcked(up, g.id)
  BY <1>1, <1>3, <1>4, <1>6, RequestSent
<1>8. NoTools'
  BY <1>1, <1>2 DEF PlainInv, NoTools
<1>9. PromptInv'
  BY <1>1, <1>2, <1>7 DEF PlainInv, PromptInv, FreshOf
<1>10. /\ textOut # <<>> /\ Head(textOut) = textOut[1] /\ Len(textOut) \in Nat /\ Len(textOut) >= 1
       /\ Len(Tail(textOut)) = Len(textOut) - 1
       /\ \A i \in 1..(Len(textOut) - 1) : Tail(textOut)[i] = textOut[i + 1]
  <2>1. textOut # <<>> /\ textOut \in Seq(1..texts)
    BY <1>1 DEF TypeInv, LoopInv, LoopTexts
  <2>2. QED
    BY <2>1
<1>11. Len(emitted) \in Nat /\ Taken \in Nat /\ Taken' = Taken /\ Sent = 0 /\ Sent' = 1
  BY <1>1, PlainTypes DEF Taken, Sent
<1>12. /\ \A i \in 1..Len(textOut) : textOut[i] = Len(emitted) + Taken + 0 + i
       /\ texts = Len(emitted) + Taken + 0 + Len(textOut)
  BY <1>11 DEF PlainInv, TextsInv
<1>13. out'.n = Len(emitted) + Taken + 1
  BY <1>6, <1>7, <1>10, <1>11, <1>12
<1>14. texts = Len(emitted) + Taken + 1 + Len(Tail(textOut))
  BY <1>10, <1>11, <1>12
<1>15. \A i \in 1..Len(Tail(textOut)) : Tail(textOut)[i] = Len(emitted) + Taken + 1 + i
  <2> SUFFICES ASSUME NEW i \in 1..(Len(textOut) - 1)
               PROVE  Tail(textOut)[i] = Len(emitted) + Taken + 1 + i
    BY <1>10
  <2>1. i + 1 \in 1..Len(textOut) /\ Tail(textOut)[i] = textOut[i + 1]
    BY <1>10
  <2>2. textOut[i + 1] = Len(emitted) + Taken + 0 + (i + 1)
    BY <1>12, <2>1
  <2>3. QED
    BY <1>11, <2>1, <2>2
<1>16. TextsInv'
  BY <1>1, <1>11, <1>13, <1>14, <1>15 DEF PlainInv, TextsInv
<1>17. Showing'
  <2>1. Still'
    BY <1>2, <1>3, <1>7 DEF Still
  <2>2. QED
    BY <1>1, <1>2, <1>3, <1>6, <1>7, <2>1 DEF Showing, Draining
<1>18. TurnInv'
  BY <1>1, <1>17 DEF TurnInv
<1>19. QED
  BY <1>7, <1>8, <1>9, <1>16, <1>18 DEF PlainInv

\* The LLM is silent, or has texts.
LEMMA CompletePlain ==
    ASSUME TypeInv, PlainInv, Plain, Bridge!Complete, UNCHANGED c64Vars
    PROVE  PlainInv'
<1>1. /\ pc = "call"
      /\ Bridge!LLMError \/ Bridge!LLMSilent \/ Bridge!LLMText \/ Bridge!LLMTool
      /\ UNCHANGED <<up, delivered, silent, waiters, overlap, pendingFrames, rxLastID,
                     basicRunning, waitingTool, completionDrain, promptChunks, prompted, emitted>>
  BY DEF Bridge!Complete, Bridge!gateVars, Bridge!flagVars, Bridge!chunkVars
<1>2. UNCHANGED <<agent_state, basic_running, busy, prompt_sent, prompt_pending,
                  result_pending, state_pending, llm_pending, text_pending, deferred_ack,
                  exec_buf, userq, ack_pending, ack_id, rx_last_id, tx_ack_wait, send_buf,
                  tx_next_id, basic, ready>>
  BY AgentStays
<1>3. Asking /\ Still /\ ~Requested /\ ~Fresh /\ pendingFrames = <<>> /\ pendingAcks = <<>> /\ NoAck
  BY <1>1 DEF PlainInv, TurnInv, Asking, Still, LinesInv
<1>4. prompted
  BY <1>1 DEF PlainInv, PromptInv
<1>5. ~Bridge!LLMError /\ ~Bridge!LLMTool
  BY <1>4 DEF Plain, Bridge!LLMError, Bridge!LLMTool
<1>6. textOut = <<>> /\ Taken = 0 /\ Sent = 0
  <2>1. Len(pendingFrames) = 0
    BY <1>3
  <2>2. QED
    BY <1>1, <2>1 DEF PlainInv, TextsInv, Taken, Sent
<1>7. CASE Bridge!LLMSilent
  <2>1. /\ Bridge!SendNew([type |-> "DONE", id |-> 0]) /\ pc' = "doneWait"
        /\ UNCHANGED <<textOut, texts>>
    BY <1>7 DEF Bridge!LLMSilent, Bridge!llmVars
  <2>2. PICK f : f = [type |-> "DONE", id |-> 0]
    OBVIOUS
  <2>3. PICK g : g = [type |-> "DONE", id |-> nextTxID]
    OBVIOUS
  <2>4. g = [f EXCEPT !.id = nextTxID] /\ g.id = nextTxID /\ g.type = "DONE" /\ g.type # "ACK"
    BY <2>2, <2>3
  <2>5. LinesInv' /\ Requested' /\ ~Fresh' /\ out' = g
    BY <1>1, <1>3, <2>1, <2>2, <2>4, RequestSent
  <2>6. NoTools'
    BY <1>1, <1>2, <2>1 DEF PlainInv, NoTools
  <2>7. PromptInv'
    BY <1>1, <1>2, <1>4, <2>5 DEF PlainInv, PromptInv, FreshOf
  <2>8. TextsInv'
    BY <1>1, <2>1 DEF PlainInv, TextsInv, Taken, Sent
  <2>9. Ending'
    <3>1. Still' /\ NoAck'
      BY <1>1, <1>2, <1>3, <2>5 DEF Still, NoAck
    <3>2. QED
      BY <1>1, <1>3, <2>4, <2>5, <3>1 DEF Ending
  <2>10. TurnInv'
    BY <2>1, <2>9 DEF TurnInv
  <2>11. QED
    BY <2>5, <2>6, <2>7, <2>8, <2>10 DEF PlainInv
<1>8. CASE Bridge!LLMText
  <2>1. PICK n \in 1..TextChunks :
            textOut' = [i \in 1..n |-> texts + i] /\ texts' = texts + n
    BY <1>8 DEF Bridge!LLMText
  <2>2. pc' = "textDrain" /\ UNCHANGED <<down, out, pendingAcks, nextTxID>>
    BY <1>8 DEF Bridge!LLMText, PlainInv, NoTools
  <2>3. Fresh' = Fresh /\ Requested' = Requested
    BY <1>1, <1>2, <2>2 DEF Fresh, Requested
  <2>4. NoTools'
    BY <1>1, <1>2, <2>2 DEF PlainInv, NoTools
  <2>5. LinesInv'
    BY <1>1, <1>2, <1>3, <2>2, <2>3 DEF PlainInv, LinesInv
  <2>6. PromptInv'
    BY <1>1, <1>2, <1>4, <2>2, <2>3 DEF PlainInv, PromptInv, FreshOf
  <2>7. TextsInv'
    <3>1. n \in Nat /\ Len(textOut') = n /\ \A i \in 1..n : textOut'[i] = texts + i
      <4>1. n \in Nat
        BY <2>1, BoundsAssumption
      <4>2. QED
        BY <2>1, <4>1
    <3>2. texts = Len(emitted) + 0 + 0 + 0
      <4>1. Len(textOut) = 0
        BY <1>6
      <4>2. QED
        BY <1>6, <4>1 DEF PlainInv, TextsInv
    <3>3. Taken' = 0 /\ Sent' = 0
      BY <1>1, <1>6, <2>2 DEF Taken, Sent
    <3>4. \A i \in 1..Len(textOut') : textOut'[i] = Len(emitted) + 0 + 0 + i
      BY <3>1, <3>2, PlainTypes
    <3>5. texts' = Len(emitted) + 0 + 0 + Len(textOut')
      BY <2>1, <3>1, <3>2, PlainTypes
    <3>6. QED
      BY <1>1, <2>2, <3>3, <3>4, <3>5 DEF PlainInv, TextsInv
  <2>8. Draining'
    <3>1. Still' /\ ~ack_pending'
      BY <1>1, <1>2, <1>3, <2>3 DEF Still, NoAck
    <3>2. QED
      BY <1>1, <1>3, <2>2, <2>3, <3>1, LeftNone DEF Draining, Asking
  <2>9. TurnInv'
    BY <2>2, <2>8 DEF TurnInv
  <2>10. QED
    BY <2>4, <2>5, <2>6, <2>7, <2>9 DEF PlainInv
<1>9. QED
  BY <1>1, <1>5, <1>7, <1>8

\* The call returns.
LEMMA GraceEndsPlain ==
    ASSUME TypeInv, PlainInv, Bridge!GraceEnds, UNCHANGED c64Vars
    PROVE  PlainInv'
<1>1. /\ pc = "loop" /\ pc' = "leave" /\ pendingFrames = <<>> /\ pendingAcks = <<>>
      /\ delivered \/ silent
      /\ UNCHANGED <<down, up, out, delivered, silent, waiters, overlap, pendingFrames, pendingAcks,
                     rxLastID, nextTxID, textOut, basicRunning, waitingTool, completionDrain,
                     promptChunks, prompted, texts, emitted>>
  BY DEF Bridge!GraceEnds, Bridge!Leave, Bridge!gateVars, Bridge!linkVars, Bridge!flagVars,
     Bridge!chunkVars, Bridge!llmVars
<1>2. UNCHANGED <<agent_state, basic_running, busy, prompt_sent, prompt_pending,
                  result_pending, state_pending, llm_pending, text_pending, deferred_ack,
                  exec_buf, userq, ack_pending, ack_id, rx_last_id, tx_ack_wait, send_buf,
                  tx_next_id, basic, ready>>
  BY AgentStays
<1>3. Ended \/ Shown
  BY <1>1 DEF PlainInv, TurnInv, Prompting
<1>4. Fresh' = Fresh /\ Requested' = Requested
  BY <1>1, <1>2 DEF Fresh, Requested
<1>5. NoTools'
  BY <1>1, <1>2 DEF PlainInv, NoTools
<1>6. LinesInv'
  BY <1>1, <1>2, <1>4 DEF PlainInv, LinesInv
<1>7. PromptInv'
  <2>1. out.type # "MSG"
    BY <1>3 DEF Ended, Shown
  <2>2. prompted
    BY <1>1, <2>1 DEF PlainInv, PromptInv
  <2>3. QED
    BY <1>1, <1>2, <1>4, <2>2 DEF PlainInv, PromptInv, FreshOf
<1>8. TextsInv'
  BY <1>1 DEF PlainInv, TextsInv, Taken, Sent
<1>9. Between'
  BY <1>1, <1>2, <1>3, <1>4 DEF Ended, Shown, Between, Still, NoAck
<1>10. TurnInv'
  BY <1>1, <1>9 DEF TurnInv
<1>11. QED
  BY <1>5, <1>6, <1>7, <1>8, <1>10 DEF PlainInv

\* The next frame: one that is left, or the ACK or the new frame at the head of the line.
LEMMA NextIsLeft ==
    ASSUME pendingFrames # <<>>, NEW f, Bridge!NextFrame(f)
    PROVE  /\ f = Head(pendingFrames) /\ Bridge!Rest = Tail(pendingFrames)
           /\ UNCHANGED <<down, up, pendingAcks, rxLastID, nextTxID, waiters, overlap>>
  BY DEF Bridge!NextFrame, Bridge!Rest, Bridge!gateVars

LEMMA NextIsAck ==
    ASSUME TypeInv, PlainInv, ~Fresh, pendingFrames = <<>>, NEW f, Bridge!NextFrame(f)
    PROVE  /\ f.type = "ACK" /\ Bridge!TakeFromLine(f) /\ Bridge!Rest = <<>>
           /\ UpOld(up', rx_last_id) /\ ~NoAckIn(up)
           /\ UNCHANGED <<down, pendingAcks, rxLastID, nextTxID, waiters, overlap>>
           /\ Bridge!HoldsAcks \/ pendingAcks = <<>>
<1>1. Bridge!Rest = <<>>
  BY DEF Bridge!Rest
<1>2. ~Bridge!Accept(f)
  <2> SUFFICES ASSUME Bridge!Accept(f) PROVE FALSE
    OBVIOUS
  <2>1. Bridge!TakeFromLine(f) /\ f.type # "ACK"
    BY DEF Bridge!Accept, Bridge!Receive, Bridge!IsData, Bridge!IsAck
  <2>2. QED
    BY <2>1, DataTaken
<1>3. /\ f.type = "ACK" /\ Bridge!TakeFromLine(f)
      /\ UNCHANGED <<down, pendingAcks, rxLastID, nextTxID, waiters, overlap>>
      /\ Bridge!HoldsAcks \/ pendingAcks = <<>>
  BY <1>2 DEF Bridge!NextFrame, Bridge!IsAck, Bridge!Receive, Bridge!gateVars
<1>4. UpOld(up', rx_last_id) /\ ~NoAckIn(up)
  BY <1>3, AckTaken
<1>5. QED
  BY <1>1, <1>3, <1>4

\* The frame of the C64 is accepted, outside the wait for a TEXT to be confirmed.
LEMMA AcceptPlain ==
    ASSUME TypeInv, PlainInv, NEW f, Bridge!Accept(f), pc # "textWait",
           textOut = <<>> \/ pc # "loop"
    PROVE  /\ f = send_buf /\ Fresh /\ f \in UpFrames
           /\ pendingAcks' = <<send_buf.id>> /\ rxLastID' = send_buf.id
           /\ down = <<>> /\ pendingAcks = <<>> /\ tx_ack_wait
           /\ UNCHANGED <<down, nextTxID, waiters, overlap>>
           /\ UpOld(up', rx_last_id)
           /\ NoAckIn(up) => NoAckIn(up')
           /\ \A id : Acked(up, id) => Acked(up', id)
           /\ \A id : NotAcked(up, id) => NotAcked(up', id)
<1>1. Bridge!TakeFromLine(f) /\ f.type # "ACK"
  BY DEF Bridge!Accept, Bridge!Receive, Bridge!IsData, Bridge!IsAck
<1>2. /\ f = send_buf /\ Fresh /\ f \in UpFrames /\ UpOld(up', rx_last_id)
      /\ NoAckIn(up) => NoAckIn(up')
      /\ \A id : Acked(up, id) => Acked(up', id)
      /\ \A id : NotAcked(up, id) => NotAcked(up', id)
  BY <1>1, DataTaken
<1>3. down = <<>> /\ pendingAcks = <<>> /\ tx_ack_wait
  BY <1>2 DEF PlainInv, LinesInv
<1>4. UNCHANGED <<down, nextTxID, waiters, overlap>> /\ rxLastID' = f.id
      /\ pendingAcks' = Append(pendingAcks, f.id)
  <2>1. ~Bridge!AckedAtOnce(f)
    <3>1. pc \notin {"textDrain", "execDrain", "semWait"}
      BY <1>2 DEF PlainInv, NoTools, TurnInv, Draining, Still
    <3>2. QED
      BY <3>1 DEF Bridge!AckedAtOnce
  <2>2. QED
    BY <2>1 DEF Bridge!Accept, Bridge!Acknowledge, Bridge!gateVars
<1>5. pendingAcks' = <<send_buf.id>>
  BY <1>2, <1>3, <1>4
<1>6. QED
  BY <1>2, <1>3, <1>4, <1>5

-----------------------------------------------------------------------------
(* Texts are shown *)

\* The loop or the drain goes on showing texts.
LEMMA StillShown ==
    ASSUME TypeInv, PlainInv, UNCHANGED c64Vars, Shown,
           pc \in {"loop", "userDrain"}, pc' \in {"loop", "userDrain"},
           UNCHANGED <<down, out, waiters, overlap, pendingAcks, rxLastID, nextTxID, textOut,
                       basicRunning, waitingTool, completionDrain, promptChunks, prompted, texts>>,
           UpOld(up', rx_last_id),
           \/ AllUser(pendingFrames')
           \/ pc' = "loop" /\ Len(pendingFrames') = 1 /\ pendingFrames'[1].type = "ACK",
           pc' = "userDrain" \/ pendingFrames' # <<>> => pendingAcks = <<>>,
           UsersFrom(pendingFrames', Len(emitted')),
           \A i \in 1..Len(emitted') : emitted'[i] = i,
           Len(emitted') + Taken' = Len(emitted) + Taken
    PROVE  PlainInv'
<1>1. UNCHANGED <<agent_state, basic_running, busy, prompt_sent, prompt_pending,
                  result_pending, state_pending, llm_pending, text_pending, deferred_ack,
                  exec_buf, userq, ack_pending, ack_id, rx_last_id, tx_ack_wait, send_buf,
                  tx_next_id, basic, ready>>
  BY AgentStays
<1>2. Fresh' = Fresh /\ Requested' = Requested /\ ~Fresh
  BY <1>1 DEF Fresh, Requested, Shown, Still
<1>3. NoTools'
  BY <1>1 DEF PlainInv, NoTools
<1>4. LinesInv'
  BY <1>1, <1>2 DEF PlainInv, LinesInv
<1>5. PromptInv'
  <2>1. out.type # "MSG"
    BY DEF Shown
  <2>2. prompted
    BY <2>1 DEF PlainInv, PromptInv
  <2>3. \A i \in 1..Len(pendingFrames') : pendingFrames'[i].type # "SYSTEM"
    <3>1. CASE AllUser(pendingFrames')
      BY <3>1 DEF AllUser
    <3>2. CASE Len(pendingFrames') = 1 /\ pendingFrames'[1].type = "ACK"
      BY <3>2
    <3>3. QED
      BY <3>1, <3>2
  <2>4. QED
    BY <1>1, <1>2, <2>2, <2>3 DEF PlainInv, PromptInv, FreshOf
<1>6. TextsInv'
  <2>1. /\ Sent = 0 /\ Sent' = 0 /\ textOut = <<>> /\ Len(textOut) = 0
        /\ texts = Len(emitted) + Taken + 0 + 0
    BY DEF PlainInv, TextsInv, Sent
  <2>2. texts' = Len(emitted') + Taken' + 0 + 0
    BY <2>1
  <2>3. QED
    BY <2>1, <2>2 DEF TextsInv
<1>7. Shown'
  BY <1>1, <1>2 DEF Shown, Still
<1>8. TurnInv'
  BY <1>7 DEF TurnInv
<1>9. QED
  BY <1>3, <1>4, <1>5, <1>6, <1>8 DEF PlainInv

\* The loop or the drain behind it shows the text that is left.
LEMMA TextIsShown ==
    ASSUME TypeInv, PlainInv, UNCHANGED c64Vars, Shown, AllUser(pendingFrames),
           pendingFrames # <<>>, pc \in {"loop", "userDrain"}, pc' = "userDrain",
           pendingFrames' = Tail(pendingFrames),
           emitted' = Append(emitted, Head(pendingFrames).n),
           UNCHANGED <<down, up, out, waiters, overlap, pendingAcks, rxLastID, nextTxID, textOut,
                       basicRunning, waitingTool, completionDrain, promptChunks, prompted, texts>>
    PROVE  PlainInv'
<1>1. /\ AllUser(Tail(pendingFrames)) /\ Head(pendingFrames).type = "USER"
      /\ Len(Tail(pendingFrames)) = Len(pendingFrames) - 1 /\ Len(pendingFrames) \in Nat
      /\ UsersFrom(Tail(pendingFrames), Len(emitted) + 1)
      /\ Head(pendingFrames).n = Len(emitted) + 1
  <2>1. UsersFrom(pendingFrames, Len(emitted)) /\ Len(emitted) \in Nat
        /\ pendingFrames \in Seq(UpFrames)
    BY PlainTypes DEF PlainInv, TextsInv
  <2>2. QED
    BY <2>1, LeftLess
<1>2. /\ Len(emitted') = Len(emitted) + 1 /\ Len(emitted) \in Nat
      /\ \A i \in 1..Len(emitted') : emitted'[i] = i
  <2>1. emitted \in Seq(0..texts) /\ \A i \in 1..Len(emitted) : emitted[i] = i
    BY PlainTypes DEF PlainInv, TextsInv
  <2>2. PICK n : n = Head(pendingFrames).n
    OBVIOUS
  <2>3. /\ Len(emitted') = Len(emitted) + 1 /\ Len(emitted) \in Nat
        /\ \A i \in 1..Len(emitted) + 1 :
                emitted'[i] = IF i <= Len(emitted) THEN emitted[i] ELSE n
    BY <2>1, <2>2
  <2>4. n = Len(emitted) + 1
    BY <1>1, <2>2
  <2>5. QED
    BY <2>1, <2>3, <2>4
<1>3. Len(emitted') + Taken' = Len(emitted) + Taken
  <2>1. Taken = Len(pendingFrames) /\ Taken' = Len(pendingFrames) - 1
    BY <1>1 DEF Taken
  <2>2. QED
    BY <1>1, <1>2, <2>1
<1>4. UsersFrom(pendingFrames', Len(emitted'))
  BY <1>1, <1>2
<1>5. pendingAcks = <<>> /\ UpOld(up', rx_last_id)
  BY DEF PlainInv, LinesInv, Shown, Still
<1>6. QED
  BY <1>1, <1>2, <1>3, <1>4, <1>5, StillShown

\* The drains behind a message and behind a text.
LEMMA TrailingDrainPlain ==
    ASSUME TypeInv, PlainInv, Bridge!TrailingDrain, UNCHANGED c64Vars
    PROVE  PlainInv'
<1>1. /\ pc \in {"llmBatch", "userDrain"}
      /\ UNCHANGED <<out, silent, textOut, basicRunning, waitingTool, completionDrain,
                     promptChunks, prompted, texts>>
  BY DEF Bridge!TrailingDrain, Bridge!flagVars, Bridge!chunkVars, Bridge!llmVars
<1>2. UNCHANGED <<agent_state, basic_running, busy, prompt_sent, prompt_pending,
                  result_pending, state_pending, llm_pending, text_pending, deferred_ack,
                  exec_buf, userq, ack_pending, ack_id, rx_last_id, tx_ack_wait, send_buf,
                  tx_next_id, basic, ready>>
  BY AgentStays
<1>3. CASE pc = "llmBatch"
  <2>1. Asking /\ ~Fresh /\ ~Requested /\ pendingFrames = <<>> /\ NoAckIn(up)
    BY <1>3 DEF PlainInv, TurnInv, Asking, Still, NoAck
  <2>2. \A f : ~Bridge!NextFrame(f)
    BY <2>1, NextIsAck
  <2>3. /\ pc' = "call" /\ pendingAcks = <<>>
        /\ UNCHANGED <<delivered, down, up, pendingFrames, pendingAcks, rxLastID, nextTxID,
                       waiters, overlap, emitted>>
    BY <1>3, <2>2 DEF Bridge!TrailingDrain, Bridge!DrainOver, Bridge!linkVars, Bridge!gateVars
  <2>4. Fresh' = Fresh /\ Requested' = Requested
    BY <1>1, <1>2, <2>3 DEF Fresh, Requested
  <2>5. NoTools'
    BY <1>1, <1>2, <2>3 DEF PlainInv, NoTools
  <2>6. LinesInv'
    BY <1>1, <1>2, <2>3, <2>4 DEF PlainInv, LinesInv
  <2>7. PromptInv'
    BY <1>1, <1>2, <1>3, <2>3, <2>4 DEF PlainInv, PromptInv, FreshOf
  <2>8. TextsInv'
    BY <1>1, <1>3, <2>3 DEF PlainInv, TextsInv, Taken, Sent
  <2>9. Asking'
    BY <1>1, <1>2, <2>1, <2>3, <2>4 DEF Asking, Still, NoAck
  <2>10. TurnInv'
    BY <2>3, <2>9 DEF TurnInv
  <2>11. QED
    BY <2>5, <2>6, <2>7, <2>8, <2>10 DEF PlainInv
<1>4. CASE pc = "userDrain"
  <2>1. Shown /\ AllUser(pendingFrames) /\ ~Fresh
    BY <1>4 DEF PlainInv, TurnInv, Shown, Still
  <2>2. /\ UsersFrom(pendingFrames, Len(emitted)) /\ UpOld(up, rx_last_id)
        /\ \A i \in 1..Len(emitted) : emitted[i] = i
    BY <2>1 DEF PlainInv, TextsInv, LinesInv
  <2>3. CASE pendingFrames # <<>>
    <3>1. Head(pendingFrames).type = "USER"
      BY <2>1, <2>3, LeftLess, PlainTypes
    <3>2. PICK f : /\ Bridge!NextFrame(f)
                   /\ \/ /\ Bridge!Drains(f) /\ pendingFrames' = Bridge!Rest
                         /\ UNCHANGED <<pc, delivered>>
                      \/ f.type # "USER"
      BY <1>4, <2>3 DEF Bridge!TrailingDrain
    <3>3. /\ f = Head(pendingFrames) /\ Bridge!Rest = Tail(pendingFrames)
          /\ UNCHANGED <<down, up, pendingAcks, rxLastID, nextTxID, waiters, overlap>>
      BY <2>3, <3>2, NextIsLeft
    <3>4. /\ pendingFrames' = Tail(pendingFrames) /\ pc' = "userDrain"
          /\ emitted' = Append(emitted, Head(pendingFrames).n)
      BY <1>4, <3>1, <3>2, <3>3 DEF Bridge!Drains
    <3>5. QED
      BY <1>1, <1>4, <2>1, <2>3, <3>3, <3>4, TextIsShown
  <2>4. CASE pendingFrames = <<>> /\ \E f : Bridge!NextFrame(f)
    <3>1. PICK f : /\ Bridge!NextFrame(f)
                   /\ \/ Bridge!Drains(f)
                      \/ /\ pendingFrames' = Append(Bridge!Rest, f)
                         /\ Bridge!DrainOver
                         /\ UNCHANGED <<forwarded, emitted>>
                      \/ /\ Bridge!DrainOver
                         /\ UNCHANGED <<down, up, pendingFrames, pendingAcks, rxLastID, nextTxID,
                                        waiters, overlap, emitted>>
                         /\ pendingAcks = <<>>
      BY <1>4, <2>4 DEF Bridge!TrailingDrain, Bridge!linkVars, Bridge!gateVars
    <3>2. /\ f.type = "ACK" /\ Bridge!Rest = <<>> /\ UpOld(up', rx_last_id)
          /\ UNCHANGED <<down, pendingAcks, rxLastID, nextTxID, waiters, overlap>>
          /\ Bridge!HoldsAcks \/ pendingAcks = <<>>
      BY <2>1, <2>4, <3>1, NextIsAck
    <3>3. pendingAcks = <<>> /\ ~Bridge!Drains(f) /\ pc' = "loop"
      BY <1>4, <3>1, <3>2 DEF Bridge!HoldsAcks, Bridge!Drains, Bridge!DrainOver
    <3>4. Taken = 0
      BY <2>4, LeftNone DEF Taken
    <3>5. CASE pendingFrames' = <<>> /\ UNCHANGED emitted
      <4>1. Taken' = 0 /\ AllUser(pendingFrames') /\ UsersFrom(pendingFrames', Len(emitted'))
        BY <3>5, LeftNone DEF Taken
      <4>2. QED
        BY <1>1, <1>4, <2>1, <2>2, <3>2, <3>3, <3>4, <3>5, <4>1, StillShown
    <3>6. CASE pendingFrames' = <<f>> /\ UNCHANGED emitted
      <4>1. Len(pendingFrames') = 1 /\ pendingFrames'[1].type = "ACK"
        BY <3>2, <3>6
      <4>2. ~AllUser(pendingFrames') /\ UsersFrom(pendingFrames', Len(emitted'))
        BY <4>1 DEF AllUser, UsersFrom
      <4>3. Taken' = 0
        BY <4>2 DEF Taken
      <4>4. QED
        BY <1>1, <1>4, <2>1, <2>2, <3>2, <3>3, <3>4, <3>6, <4>1, <4>2, <4>3, StillShown
    <3>7. Append(Bridge!Rest, f) = <<f>>
      BY <3>2
    <3>8. QED
      BY <2>4, <3>1, <3>3, <3>5, <3>6, <3>7
  <2>5. CASE pendingFrames = <<>> /\ ~\E f : Bridge!NextFrame(f)
    <3>1. /\ Bridge!DrainOver /\ pendingAcks = <<>>
          /\ UNCHANGED <<down, up, pendingFrames, pendingAcks, rxLastID, nextTxID,
                         waiters, overlap, emitted>>
      BY <2>5 DEF Bridge!TrailingDrain, Bridge!linkVars, Bridge!gateVars
    <3>2. pc' = "loop"
      BY <1>4, <3>1 DEF Bridge!DrainOver
    <3>3. /\ AllUser(pendingFrames') /\ UsersFrom(pendingFrames', Len(emitted'))
          /\ Len(emitted') + Taken' = Len(emitted) + Taken /\ UpOld(up', rx_last_id)
      BY <1>2, <2>1, <2>2, <3>1 DEF Taken
    <3>4. QED
      BY <1>1, <1>4, <2>1, <2>2, <3>1, <3>2, <3>3, StillShown
  <2>6. QED
    BY <2>3, <2>4, <2>5
<1>5. QED
  BY <1>1, <1>3, <1>4

\* The loop shows a text, or passes an ACK over.
LEMMA LoopShown ==
    ASSUME TypeInv, PlainInv, Shown, Bridge!Loop, UNCHANGED c64Vars
    PROVE  PlainInv'
<1>1. pc = "loop" /\ UNCHANGED out
  BY DEF Bridge!Loop
<1>2. PICK f : Bridge!NextFrame(f) /\ (Bridge!LoopHandsOver(f) \/ Bridge!LoopTakes(f))
  BY DEF Bridge!Loop
<1>3. UNCHANGED rx_last_id
  BY AgentStays
<1>4. /\ UsersFrom(pendingFrames, Len(emitted)) /\ UpOld(up, rx_last_id) /\ ~Fresh
      /\ \A i \in 1..Len(emitted) : emitted[i] = i
      /\ pendingFrames # <<>> => pendingAcks = <<>>
  BY <1>1 DEF Shown, Still, PlainInv, TextsInv, LinesInv
<1>5. ASSUME f.type \in {"USER", "ACK"}
      PROVE  /\ pendingFrames' = Bridge!Rest
             /\ UNCHANGED <<textOut, texts, basicRunning, waitingTool, completionDrain,
                            promptChunks, prompted>>
             /\ IF f.type = "USER" THEN emitted' = Append(emitted, f.n) /\ pc' = "userDrain"
                ELSE UNCHANGED <<emitted, pc>>
  BY <1>2, <1>5 DEF Bridge!LoopHandsOver, Bridge!LoopTakes, Bridge!IsAck, Bridge!flagVars,
     Bridge!chunkVars
<1>6. CASE pendingFrames # <<>> /\ AllUser(pendingFrames)
  <2>1. /\ f = Head(pendingFrames) /\ Bridge!Rest = Tail(pendingFrames)
        /\ UNCHANGED <<down, up, pendingAcks, rxLastID, nextTxID, waiters, overlap>>
    BY <1>2, <1>6, NextIsLeft
  <2>2. f.type = "USER"
    BY <1>6, <2>1, LeftLess, PlainTypes
  <2>3. QED
    BY <1>1, <1>5, <1>6, <2>1, <2>2, TextIsShown
<1>7. CASE pendingFrames # <<>> /\ ~AllUser(pendingFrames)
  <2>1. Len(pendingFrames) = 1 /\ pendingFrames[1].type = "ACK"
    BY <1>7 DEF Shown
  <2>2. /\ f = Head(pendingFrames) /\ Bridge!Rest = Tail(pendingFrames)
        /\ UNCHANGED <<down, up, pendingAcks, rxLastID, nextTxID, waiters, overlap>>
    BY <1>2, <1>7, NextIsLeft
  <2>3. /\ Head(pendingFrames) = pendingFrames[1] /\ Tail(pendingFrames) \in Seq(UpFrames)
        /\ Len(Tail(pendingFrames)) = Len(pendingFrames) - 1
    BY <1>7, LeftLess, PlainTypes
  <2>4. Tail(pendingFrames) = <<>> /\ f.type = "ACK"
    BY <2>1, <2>2, <2>3, EmptySeq
  <2>5. pendingFrames' = <<>> /\ UNCHANGED <<emitted, pc>>
    BY <1>5, <2>2, <2>4
  <2>6. /\ AllUser(pendingFrames') /\ UsersFrom(pendingFrames', Len(emitted'))
        /\ Taken' = 0 /\ Taken = 0
    BY <1>7, <2>5, LeftNone DEF Taken
  <2>7. UpOld(up', rx_last_id)
    BY <1>4, <2>2
  <2>8. QED
    BY <1>1, <1>4, <1>5, <2>2, <2>4, <2>5, <2>6, <2>7, StillShown
<1>8. CASE pendingFrames = <<>>
  <2>1. /\ f.type = "ACK" /\ Bridge!Rest = <<>> /\ UpOld(up', rx_last_id)
        /\ UNCHANGED <<down, pendingAcks, rxLastID, nextTxID, waiters, overlap>>
    BY <1>2, <1>4, <1>8, NextIsAck
  <2>2. pendingFrames' = <<>> /\ UNCHANGED <<emitted, pc>>
    BY <1>5, <2>1
  <2>3. /\ AllUser(pendingFrames') /\ UsersFrom(pendingFrames', Len(emitted'))
        /\ Taken' = Taken
    BY <1>8, <2>2, LeftNone DEF Taken
  <2>4. QED
    BY <1>1, <1>4, <1>5, <2>1, <2>2, <2>3, StillShown
<1>9. QED
  BY <1>6, <1>7, <1>8

-----------------------------------------------------------------------------
(* The prompt *)

\* What is left of the prompt is no text.
LEMMA PromptLeft ==
    ASSUME NEW S, NEW p \in Seq(S), SystemsFirst(p)
    PROVE  /\ \A i \in 1..Len(p) : p[i].type # "USER"
           /\ (IF AllUser(p) THEN Len(p) ELSE 0) = 0
           /\ \A n : UsersFrom(p, n)
           /\ Systems(p) = 0 => \A i \in 1..Len(p) : p[i].type # "SYSTEM"
<1>1. Len(p) \in Nat
  OBVIOUS
<1>2. ASSUME NEW i \in 1..Len(p)
      PROVE  i \in 1..Systems(p) \/ (i = Len(p) /\ p[i].type = "LLM")
  <2>1. CASE HasLLM(p)
    <3>1. Systems(p) = Len(p) - 1 /\ p[Len(p)].type = "LLM"
      BY <2>1 DEF Systems, HasLLM
    <3>2. QED
      BY <1>1, <3>1
  <2>2. CASE ~HasLLM(p)
    BY <2>2 DEF Systems
  <2>3. QED
    BY <2>1, <2>2
<1>3. \A i \in 1..Len(p) : p[i].type # "USER"
  BY <1>2 DEF SystemsFirst
<1>4. (IF AllUser(p) THEN Len(p) ELSE 0) = 0
  <2> SUFFICES ASSUME AllUser(p), Len(p) # 0 PROVE FALSE
    OBVIOUS
  <2>1. 1 \in 1..Len(p)
    BY <1>1
  <2>2. QED
    BY <1>3, <2>1 DEF AllUser
<1>5. \A n : UsersFrom(p, n)
  BY <1>3 DEF UsersFrom
<1>6. Systems(p) = 0 => \A i \in 1..Len(p) : p[i].type # "SYSTEM"
  BY <1>2
<1>7. QED
  BY <1>3, <1>4, <1>5, <1>6

\* handleSystemFrame: the chunk is the next one; with the last one the prompt is there.
LEMMA ChunkAdded ==
    ASSUME TypeInv, NEW c \in Nat, promptChunks = 0..(c - 1), ~prompted,
           NEW f, f.at = c, f.total = PromptChunks, Bridge!AddPromptChunk(f)
    PROVE  /\ c + 1 = PromptChunks => prompted' /\ promptChunks' = {}
           /\ c + 1 # PromptChunks => ~prompted' /\ promptChunks' = 0..((c + 1) - 1)
<1>1. promptChunks \cup {f.at} = 0..c /\ 0..c = 0..((c + 1) - 1)
  OBVIOUS
<1>2. Bridge!Cardinality(0..c) = c + 1
  <2>1. Cardinality(0..c) = IF 0 > c THEN 0 ELSE c - 0 + 1
    BY FS_Interval
  <2>2. Cardinality(0..c) = c + 1
    BY <2>1
  <2>3. QED
    BY <2>2 DEF Bridge!Cardinality, Cardinality
<1>3. /\ prompted' = (prompted \/ Bridge!Cardinality(0..c) = PromptChunks)
      /\ promptChunks' = IF Bridge!Cardinality(0..c) = PromptChunks THEN {} ELSE 0..c
  BY <1>1 DEF Bridge!AddPromptChunk
<1>4. QED
  BY <1>1, <1>2, <1>3

\* A chunk of the prompt, whether it was left or is new: what the rest of the step is.
LEMMA ChunkPlain ==
    ASSUME TypeInv, PlainInv, Prompting, pc = "loop", pc' = "loop", UNCHANGED c64Vars,
           UNCHANGED <<down, out, delivered, waiters, overlap, nextTxID, textOut, basicRunning,
                       waitingTool, completionDrain, texts, emitted>>,
           ~silent', NoAckIn(up'), LinesInv', LLMComes', pendingFrames' \in Seq(UpFrames),
           NEW f, Bridge!AddPromptChunk(f),
           ~prompted, NEW c \in Nat, promptChunks = 0..(c - 1), f.at = c, f.total = PromptChunks,
           c \in 0..(PromptChunks - 1),
           c + 1 = PromptChunks => prompt_pending = 0 /\ ~FreshOf("SYSTEM")' /\ Systems(pendingFrames') = 0,
           c + 1 # PromptChunks => Chunks(pendingFrames', c + 1),
           IF FreshOf("SYSTEM")'
           THEN /\ send_buf.at = (c + 1) + Systems(pendingFrames') /\ send_buf.total = PromptChunks
                /\ prompt_pending = PromptChunks - ((c + 1) + Systems(pendingFrames') + 1)
           ELSE prompt_pending = PromptChunks - ((c + 1) + Systems(pendingFrames'))
    PROVE  PlainInv'
<1>1. UNCHANGED <<agent_state, basic_running, busy, prompt_sent, prompt_pending,
                  result_pending, state_pending, llm_pending, text_pending, deferred_ack,
                  exec_buf, userq, ack_pending, ack_id, rx_last_id, tx_ack_wait, send_buf,
                  tx_next_id, basic, ready>>
  BY AgentStays
<1>2. SystemsFirst(pendingFrames) /\ SystemsFirst(pendingFrames') /\ prompt_sent
  BY DEF Prompting, LLMComes
<1>3. NoTools'
  BY <1>1 DEF PlainInv, NoTools
<1>4. /\ c + 1 = PromptChunks => prompted' /\ promptChunks' = {}
      /\ c + 1 # PromptChunks => ~prompted' /\ promptChunks' = 0..((c + 1) - 1)
  BY ChunkAdded
<1>5. ~Requested' /\ out.type = "MSG"
  BY DEF Prompting, Requested
<1>6. PromptInv'
  <2>1. CASE c + 1 = PromptChunks
    <3>1. \A i \in 1..Len(pendingFrames') : pendingFrames'[i].type # "SYSTEM"
      BY <1>2, <2>1, PromptLeft
    <3>2. QED
      BY <1>1, <1>2, <1>4, <2>1, <3>1 DEF PromptInv
  <2>2. CASE c + 1 # PromptChunks
    <3>1. c + 1 \in 0..(PromptChunks - 1)
      <4>1. PromptChunks \in Nat
        BY PlainTypes
      <4>2. QED
        BY <2>2, <4>1
    <3>2. PromptComes(c + 1)'
      BY <1>1, <1>4, <2>2 DEF PromptComes
    <3>3. QED
      BY <1>1, <1>2, <1>4, <1>5, <2>2, <3>1, <3>2 DEF PromptInv
  <2>3. QED
    BY <2>1, <2>2
<1>7. TextsInv'
  <2>1. Taken = 0 /\ Taken' = 0 /\ \A n : UsersFrom(pendingFrames', n)
    BY <1>2, PromptLeft, PlainTypes DEF Taken
  <2>2. QED
    BY <2>1 DEF PlainInv, TextsInv, Sent
<1>8. Prompting'
  BY <1>1, <1>5 DEF Prompting, NoAck
<1>9. TurnInv'
  BY <1>8 DEF TurnInv
<1>10. QED
  BY <1>3, <1>6, <1>7, <1>9 DEF PlainInv

\* While the prompt comes the bridge does not have it yet.
LEMMA NotPrompted ==
    ASSUME TypeInv, PlainInv, pc = "loop", Prompting,
           FreshOf("SYSTEM") \/ (pendingFrames # <<>> /\ Head(pendingFrames).type = "SYSTEM")
    PROVE  ~prompted /\ \E c \in 0..(PromptChunks - 1) : PromptComes(c)
<1>1. ~prompted
  <2> SUFFICES ASSUME prompted PROVE FALSE
    OBVIOUS
  <2>1. /\ ~FreshOf("SYSTEM") /\ pendingFrames # <<>> /\ Head(pendingFrames).type = "SYSTEM"
        /\ \A i \in 1..Len(pendingFrames) : pendingFrames[i].type # "SYSTEM"
    BY DEF PlainInv, PromptInv
  <2>2. Head(pendingFrames) = pendingFrames[1] /\ 1 \in 1..Len(pendingFrames)
    BY <2>1, PlainTypes, LeftLess
  <2>3. QED
    BY <2>1, <2>2
<1>2. prompt_sent
  BY DEF Prompting, LLMComes
<1>3. QED
  BY <1>1, <1>2 DEF PlainInv, PromptInv

\* The loop takes a chunk that was left by the wait for the ACK of the message.
LEMMA LeftChunkPlain ==
    ASSUME TypeInv, PlainInv, Prompting, pc = "loop", pc' = "loop", UNCHANGED c64Vars,
           UNCHANGED <<down, up, out, delivered, waiters, overlap, pendingAcks, rxLastID, nextTxID,
                       textOut, basicRunning, waitingTool, completionDrain, texts, emitted>>,
           ~silent', pendingFrames # <<>>, pendingFrames' = Tail(pendingFrames),
           Head(pendingFrames).type = "SYSTEM", Bridge!AddPromptChunk(Head(pendingFrames))
    PROVE  PlainInv'
<1>1. UNCHANGED <<agent_state, basic_running, busy, prompt_sent, prompt_pending,
                  result_pending, state_pending, llm_pending, text_pending, deferred_ack,
                  exec_buf, userq, ack_pending, ack_id, rx_last_id, tx_ack_wait, send_buf,
                  tx_next_id, basic, ready>>
  BY AgentStays
<1>2. PICK f : f = Head(pendingFrames)
  OBVIOUS
<1>3. ~prompted /\ \E c \in 0..(PromptChunks - 1) : PromptComes(c)
  BY NotPrompted
<1>4. PICK c \in 0..(PromptChunks - 1) : PromptComes(c)
  BY <1>3
<1>5. c \in Nat /\ promptChunks = 0..(c - 1) /\ Chunks(pendingFrames, c)
  BY <1>4, PlainTypes DEF PromptComes
<1>6. /\ Systems(Tail(pendingFrames)) = Systems(pendingFrames) - 1
      /\ Systems(pendingFrames) >= 1 /\ Systems(pendingFrames) \in Nat
      /\ HasLLM(Tail(pendingFrames)) = HasLLM(pendingFrames) /\ SystemsFirst(Tail(pendingFrames))
      /\ f.at = c /\ f.total = PromptChunks /\ Chunks(Tail(pendingFrames), c + 1)
      /\ Tail(pendingFrames) \in Seq(UpFrames)
  <2>1. SystemsFirst(pendingFrames) /\ pendingFrames \in Seq(UpFrames)
    BY PlainTypes DEF Prompting, LLMComes
  <2>2. QED
    BY <1>2, <1>5, <2>1, LeftLess
<1>7. Fresh' = Fresh /\ Requested' = Requested /\ FreshOf("SYSTEM")' = FreshOf("SYSTEM")
      /\ FreshOf("LLM")' = FreshOf("LLM")
  BY <1>1 DEF Fresh, Requested, FreshOf
<1>8. LinesInv'
  BY <1>1, <1>7 DEF PlainInv, LinesInv
<1>9. LLMComes'
  <2>1. HasLLM(pendingFrames') = HasLLM(pendingFrames) /\ SystemsFirst(pendingFrames')
    BY <1>6
  <2>2. QED
    BY <1>1, <1>7, <2>1 DEF Prompting, LLMComes
<1>10. IF FreshOf("SYSTEM")
       THEN /\ send_buf.at = c + Systems(pendingFrames) /\ send_buf.total = PromptChunks
            /\ prompt_pending = PromptChunks - (c + Systems(pendingFrames) + 1)
       ELSE prompt_pending = PromptChunks - (c + Systems(pendingFrames))
  BY <1>4 DEF PromptComes
<1>11. IF FreshOf("SYSTEM")'
       THEN /\ send_buf.at = (c + 1) + Systems(pendingFrames') /\ send_buf.total = PromptChunks
            /\ prompt_pending = PromptChunks - ((c + 1) + Systems(pendingFrames') + 1)
       ELSE prompt_pending = PromptChunks - ((c + 1) + Systems(pendingFrames'))
  <2>1. c + Systems(pendingFrames) = (c + 1) + Systems(pendingFrames')
    BY <1>5, <1>6
  <2>2. QED
    BY <1>7, <1>10, <2>1
<1>12. c + 1 = PromptChunks =>
          prompt_pending = 0 /\ ~FreshOf("SYSTEM")' /\ Systems(pendingFrames') = 0
  <2> SUFFICES ASSUME c + 1 = PromptChunks
               PROVE  prompt_pending = 0 /\ ~FreshOf("SYSTEM")' /\ Systems(pendingFrames') = 0
    OBVIOUS
  <2>1. prompt_pending \in Nat /\ Systems(pendingFrames') = Systems(pendingFrames) - 1
    BY <1>6, PlainTypes
  <2>2. CASE FreshOf("SYSTEM")
    BY <1>5, <1>6, <1>10, <2>1, <2>2
  <2>3. CASE ~FreshOf("SYSTEM")
    <3>1. prompt_pending = PromptChunks - (c + Systems(pendingFrames))
      BY <1>10, <2>3
    <3>2. Systems(pendingFrames) = 1 /\ prompt_pending = 0
      BY <1>5, <1>6, <2>1, <3>1
    <3>3. QED
      BY <1>7, <2>1, <2>3, <3>2
  <2>4. QED
    BY <2>2, <2>3
<1>13. NoAckIn(up') /\ Bridge!AddPromptChunk(f) /\ Chunks(pendingFrames', c + 1)
       /\ pendingFrames' \in Seq(UpFrames)
  BY <1>2, <1>6 DEF Prompting, NoAck
<1>14. QED
  BY <1>3, <1>5, <1>6, <1>8, <1>9, <1>11, <1>12, <1>13, ChunkPlain

\* The loop takes a chunk from the line.
LEMMA NewChunkPlain ==
    ASSUME TypeInv, PlainInv, Prompting, pc = "loop", pc' = "loop", UNCHANGED c64Vars,
           UNCHANGED <<out, delivered, textOut, basicRunning, waitingTool, completionDrain,
                       texts, emitted>>,
           ~silent', pendingFrames = <<>>, pendingFrames' = <<>>,
           NEW f, Bridge!Accept(f), f.type = "SYSTEM", Bridge!AddPromptChunk(f)
    PROVE  PlainInv'
<1>1. UNCHANGED <<agent_state, basic_running, busy, prompt_sent, prompt_pending,
                  result_pending, state_pending, llm_pending, text_pending, deferred_ack,
                  exec_buf, userq, ack_pending, ack_id, rx_last_id, tx_ack_wait, send_buf,
                  tx_next_id, basic, ready>>
  BY AgentStays
<1>2. /\ f = send_buf /\ Fresh /\ f \in UpFrames
      /\ pendingAcks' = <<send_buf.id>> /\ rxLastID' = send_buf.id
      /\ down = <<>> /\ pendingAcks = <<>> /\ tx_ack_wait
      /\ UNCHANGED <<down, nextTxID, waiters, overlap>>
      /\ UpOld(up', rx_last_id)
      /\ NoAckIn(up) => NoAckIn(up')
  <2>1. textOut = <<>> /\ pc # "textWait"
    BY DEF PlainInv, TextsInv
  <2>2. QED
    BY <2>1, AcceptPlain
<1>3. ~Fresh' /\ Requested' = Requested /\ ~Requested /\ FreshOf("SYSTEM") /\ ~FreshOf("LLM")
  BY <1>1, <1>2 DEF Fresh, Requested, FreshOf, Prompting
<1>4. ~prompted /\ \E c \in 0..(PromptChunks - 1) : PromptComes(c)
  BY <1>3, NotPrompted
<1>5. PICK c \in 0..(PromptChunks - 1) : PromptComes(c)
  BY <1>4
<1>6. /\ c \in Nat /\ promptChunks = 0..(c - 1)
      /\ f.at = c + 0 /\ f.total = PromptChunks /\ prompt_pending = PromptChunks - (c + 0 + 1)
  BY <1>2, <1>3, <1>5, PlainTypes, LeftNone, SMTT(30) DEF PromptComes
<1>7. /\ ~HasLLM(pendingFrames) /\ ~HasLLM(pendingFrames') /\ SystemsFirst(pendingFrames')
      /\ Systems(pendingFrames') = 0 /\ Chunks(pendingFrames', c + 1)
      /\ pendingFrames' \in Seq(UpFrames)
  BY LeftNone, NoMembers
<1>8. LinesInv'
  BY <1>1, <1>2, <1>3 DEF PlainInv, LinesInv
<1>9. LLMComes'
  <2>1. Len(down') + Len(pendingAcks') = 1
    <3>1. Len(down') = 0 /\ Len(pendingAcks') = 1
      BY <1>2
    <3>2. QED
      BY <3>1
  <2>2. llm_pending = "user"
    BY <1>3, <1>7 DEF Prompting, LLMComes
  <2>3. QED
    BY <1>1, <1>2, <1>3, <1>7, <2>1, <2>2 DEF Prompting, LLMComes, FreshOf
<1>10. ~FreshOf("SYSTEM")' /\ f.at = c
       /\ prompt_pending = PromptChunks - ((c + 1) + Systems(pendingFrames'))
       /\ (c + 1 = PromptChunks => prompt_pending = 0)
  BY <1>3, <1>6, <1>7 DEF FreshOf
<1>11. NoAckIn(up')
  BY <1>2 DEF Prompting, NoAck
<1>12. QED
  BY <1>2, <1>4, <1>6, <1>7, <1>8, <1>9, <1>10, <1>11, ChunkPlain

\* The message comes to the LLM when all of the prompt is there.
LEMMA MessagePlain ==
    ASSUME TypeInv, PlainInv, Prompting, pc = "loop", pc' = "llmBatch", UNCHANGED c64Vars,
           UNCHANGED <<down, out, delivered, waiters, overlap, nextTxID, textOut, basicRunning,
                       waitingTool, completionDrain, promptChunks, prompted, texts, emitted>>,
           ~silent', NoAckIn(up'), UpOld(up', rx_last_id), pendingFrames' = <<>>, ~Fresh',
           pendingAcks' = <<>> \/ pendingAcks' = <<send_buf.id>>,
           rxLastID' = send_buf.id,
           tx_ack_wait => pendingAcks' # <<>> \/ down # <<>>,
           Systems(pendingFrames) = 0, HasLLM(pendingFrames) \/ FreshOf("LLM")
    PROVE  PlainInv'
<1>1. UNCHANGED <<agent_state, basic_running, busy, prompt_sent, prompt_pending,
                  result_pending, state_pending, llm_pending, text_pending, deferred_ack,
                  exec_buf, userq, ack_pending, ack_id, rx_last_id, tx_ack_wait, send_buf,
                  tx_next_id, basic, ready>>
  BY AgentStays
<1>2. llm_pending = "none" /\ prompt_pending = 0 /\ ~text_pending /\ prompt_sent
  BY DEF Prompting, LLMComes
<1>3. ~FreshOf("SYSTEM")
  BY DEF Prompting, LLMComes, FreshOf
<1>4. prompted
  <2> SUFFICES ASSUME ~prompted PROVE FALSE
    OBVIOUS
  <2>1. PICK c \in 0..(PromptChunks - 1) : PromptComes(c)
    BY <1>2 DEF PlainInv, PromptInv
  <2>2. prompt_pending = PromptChunks - (c + 0)
    BY <1>3, <2>1 DEF PromptComes
  <2>3. PromptChunks \in Nat
    BY PlainTypes
  <2>4. QED
    BY <1>2, <2>2, <2>3
<1>5. Requested' = Requested /\ ~Requested /\ ~FreshOf("SYSTEM")'
  BY <1>1 DEF Requested, Prompting, FreshOf
<1>6. NoTools'
  BY <1>1 DEF PlainInv, NoTools
<1>7. LinesInv'
  BY <1>1, <1>5 DEF PlainInv, LinesInv
<1>8. PromptInv'
  BY <1>1, <1>2, <1>4, <1>5 DEF PlainInv, PromptInv
<1>9. TextsInv'
  <2>1. SystemsFirst(pendingFrames)
    BY DEF Prompting, LLMComes
  <2>2. Taken = 0 /\ Taken' = 0 /\ \A n : UsersFrom(pendingFrames', n)
    BY <2>1, PromptLeft, PlainTypes, LeftNone DEF Taken
  <2>3. QED
    BY <2>2 DEF PlainInv, TextsInv, Sent
<1>10. Asking'
  BY <1>1, <1>2, <1>5 DEF Prompting, Asking, Still, NoAck
<1>11. TurnInv'
  BY <1>10 DEF TurnInv
<1>12. QED
  BY <1>6, <1>7, <1>8, <1>9, <1>11 DEF PlainInv

\* The loop takes a chunk of the prompt, or the message.
LEMMA LoopPrompting ==
    ASSUME TypeInv, PlainInv, Prompting, Bridge!Loop, UNCHANGED c64Vars
    PROVE  PlainInv'
<1>1. pc = "loop" /\ ~silent' /\ UNCHANGED <<out, delivered>> /\ ~delivered
  BY DEF Bridge!Loop, Prompting
<1>2. PICK f : Bridge!NextFrame(f) /\ Bridge!LoopTakes(f)
  BY <1>1 DEF Bridge!Loop, Bridge!LoopHandsOver
<1>3. ASSUME f.type = "SYSTEM"
      PROVE  /\ pendingFrames' = Bridge!Rest /\ Bridge!AddPromptChunk(f)
             /\ UNCHANGED <<pc, textOut, texts, basicRunning, waitingTool, completionDrain, emitted>>
  BY <1>2, <1>3 DEF Bridge!LoopTakes, Bridge!IsAck, Bridge!flagVars
<1>4. ASSUME f.type = "LLM"
      PROVE  /\ pendingFrames' = Bridge!Rest /\ pc' = "llmBatch"
             /\ UNCHANGED <<textOut, texts, basicRunning, waitingTool, completionDrain,
                            promptChunks, prompted, emitted>>
  BY <1>2, <1>4 DEF Bridge!LoopTakes, Bridge!IsAck, Bridge!flagVars, Bridge!chunkVars
<1>5. /\ SystemsFirst(pendingFrames) /\ pendingFrames \in Seq(UpFrames) /\ NoAckIn(up)
      /\ textOut = <<>> /\ LLMComes
  BY <1>1, PlainTypes DEF Prompting, LLMComes, NoAck, PlainInv, TextsInv
<1>6. CASE pendingFrames # <<>>
  <2>1. /\ f = Head(pendingFrames) /\ Bridge!Rest = Tail(pendingFrames)
        /\ UNCHANGED <<down, up, pendingAcks, rxLastID, nextTxID, waiters, overlap>>
    BY <1>2, <1>6, NextIsLeft
  <2>2. \/ Head(pendingFrames).type = "SYSTEM"
        \/ /\ Head(pendingFrames).type = "LLM" /\ HasLLM(pendingFrames)
           /\ Systems(pendingFrames) = 0 /\ Tail(pendingFrames) = <<>>
    BY <1>5, <1>6, LeftLess
  <2>3. CASE f.type = "SYSTEM"
    BY <1>1, <1>3, <1>6, <2>1, <2>3, LeftChunkPlain
  <2>4. CASE f.type # "SYSTEM"
    <3>1. /\ f.type = "LLM" /\ HasLLM(pendingFrames) /\ Systems(pendingFrames) = 0
          /\ Tail(pendingFrames) = <<>>
      BY <2>1, <2>2, <2>4
    <3>2. UNCHANGED <<send_buf, tx_ack_wait, rx_last_id>>
      BY AgentStays
    <3>3. ~Fresh /\ ~Fresh' /\ rxLastID' = send_buf.id
      BY <1>5, <2>1, <3>1, <3>2 DEF LLMComes, Fresh
    <3>4. /\ UpOld(up', rx_last_id) /\ NoAckIn(up')
          /\ pendingAcks' = <<>> \/ pendingAcks' = <<send_buf.id>>
          /\ tx_ack_wait => pendingAcks' # <<>> \/ down # <<>>
      BY <1>5, <2>1, <3>3 DEF PlainInv, LinesInv
    <3>5. QED
      BY <1>1, <1>4, <2>1, <3>1, <3>3, <3>4, MessagePlain
  <2>5. QED
    BY <2>3, <2>4
<1>7. CASE pendingFrames = <<>>
  <2>1. Bridge!Accept(f)
    <3> SUFFICES ASSUME ~Bridge!Accept(f) PROVE FALSE
      OBVIOUS
    <3>1. f.type = "ACK" /\ Bridge!TakeFromLine(f)
      BY <1>2, <1>7 DEF Bridge!NextFrame, Bridge!IsAck, Bridge!Receive
    <3>2. QED
      BY <1>5, <3>1, AckTaken
  <2>2. /\ f = send_buf /\ Fresh
        /\ pendingAcks' = <<send_buf.id>> /\ rxLastID' = send_buf.id
        /\ UNCHANGED <<down, nextTxID, waiters, overlap>>
        /\ UpOld(up', rx_last_id) /\ NoAckIn(up')
    BY <1>1, <1>5, <2>1, AcceptPlain
  <2>3. Bridge!Rest = <<>> /\ f.type \in {"SYSTEM", "LLM"}
    BY <1>5, <1>7, <2>2 DEF LLMComes, Bridge!Rest
  <2>4. CASE f.type = "SYSTEM"
    BY <1>1, <1>3, <1>7, <2>1, <2>2, <2>3, <2>4, NewChunkPlain
  <2>5. CASE f.type = "LLM"
    <3>1. ~Fresh' /\ FreshOf("LLM") /\ Systems(pendingFrames) = 0
      <4>1. UNCHANGED send_buf
        BY AgentStays
      <4>2. QED
        BY <1>7, <2>2, <2>5, <4>1, LeftNone DEF Fresh, FreshOf
    <3>2. pendingAcks' # <<>>
      BY <2>2
    <3>3. QED
      BY <1>1, <1>4, <2>2, <2>3, <2>5, <3>1, <3>2, MessagePlain
  <2>6. QED
    BY <2>3, <2>4, <2>5
<1>8. QED
  BY <1>6, <1>7

\* The loop takes a frame.
LEMMA LoopPlain ==
    ASSUME TypeInv, PlainInv, Bridge!Loop, UNCHANGED c64Vars
    PROVE  PlainInv'
<1>1. pc = "loop"
  BY DEF Bridge!Loop
<1>2. ~Ended
  <2> SUFFICES ASSUME Ended PROVE FALSE
    OBVIOUS
  <2>1. ~Fresh /\ pendingFrames = <<>> /\ NoAckIn(up)
    BY DEF Ended, Still, NoAck
  <2>2. PICK f : Bridge!NextFrame(f)
    BY DEF Bridge!Loop
  <2>3. QED
    BY <2>1, <2>2, NextIsAck
<1>3. Prompting \/ Shown
  BY <1>1, <1>2 DEF PlainInv, TurnInv
<1>4. QED
  BY <1>3, LoopPrompting, LoopShown

-----------------------------------------------------------------------------
(* A frame in a wait for a confirmation *)

\* A chunk of the prompt, or the message, comes before the ACK of the message.
LEMMA MessageWaitPlain ==
    ASSUME TypeInv, PlainInv, pc = "msgWait", UNCHANGED c64Vars,
           NEW f, Bridge!Accept(f), pendingFrames' = Append(pendingFrames, f),
           UNCHANGED <<pc, out, delivered, silent, textOut, basicRunning, waitingTool,
                       completionDrain, promptChunks, prompted, texts, emitted>>
    PROVE  PlainInv'
<1>1. UNCHANGED <<agent_state, basic_running, busy, prompt_sent, prompt_pending,
                  result_pending, state_pending, llm_pending, text_pending, deferred_ack,
                  exec_buf, userq, ack_pending, ack_id, rx_last_id, tx_ack_wait, send_buf,
                  tx_next_id, basic, ready>>
  BY AgentStays
<1>2. /\ f = send_buf /\ Fresh /\ f \in UpFrames
      /\ pendingAcks' = <<send_buf.id>> /\ rxLastID' = send_buf.id
      /\ down = <<>> /\ pendingAcks = <<>> /\ tx_ack_wait
      /\ UNCHANGED <<down, nextTxID, waiters, overlap>>
      /\ UpOld(up', rx_last_id)
      /\ \A id : Acked(up, id) => Acked(up', id)
      /\ \A id : NotAcked(up, id) => NotAcked(up', id)
  BY AcceptPlain
<1>3. out.type = "MSG" /\ ~delivered /\ ~silent /\ ~Requested /\ LLMComes /\ AckComes
  BY <1>2 DEF PlainInv, TurnInv, Messaging, Still
<1>4. /\ SystemsFirst(pendingFrames) /\ ~HasLLM(pendingFrames) /\ prompt_sent
      /\ f.type \in {"SYSTEM", "LLM"} /\ pendingFrames \in Seq(UpFrames)
  BY <1>2, <1>3, PlainTypes DEF LLMComes
<1>5. /\ SystemsFirst(pendingFrames') /\ HasLLM(pendingFrames') = (f.type = "LLM")
      /\ Systems(pendingFrames) = Len(pendingFrames) /\ Len(pendingFrames) \in Nat
      /\ Systems(pendingFrames') = IF f.type = "LLM" THEN Len(pendingFrames)
                                   ELSE Len(pendingFrames) + 1
      /\ \A c \in Nat :
            /\ Chunks(pendingFrames, c)
            /\ f.type = "SYSTEM" => f.at = c + Len(pendingFrames) /\ f.total = PromptChunks
            => Chunks(pendingFrames', c)
  BY <1>2, <1>4, LeftMore
<1>6. ~Fresh' /\ ~Requested'
  BY <1>1, <1>2, <1>3 DEF Fresh, Requested
<1>7. NoTools'
  BY <1>1, <1>2 DEF PlainInv, NoTools
<1>8. LinesInv'
  BY <1>1, <1>2, <1>6 DEF PlainInv, LinesInv, Requested
<1>9. PromptInv'
  <2>1. CASE prompted
    <3>1. f.type # "SYSTEM"
      BY <1>2, <2>1 DEF PlainInv, PromptInv, FreshOf
    <3>2. \A i \in 1..Len(pendingFrames') :
              pendingFrames'[i] = IF i <= Len(pendingFrames) THEN pendingFrames[i] ELSE f
      BY <1>2, <1>4
    <3>3. \A i \in 1..Len(pendingFrames') : i \in 1..Len(pendingFrames) \/ ~(i <= Len(pendingFrames))
      BY <1>5, <1>2, <1>4
    <3>4. \A i \in 1..Len(pendingFrames') : pendingFrames'[i].type # "SYSTEM"
      BY <2>1, <3>1, <3>2, <3>3 DEF PlainInv, PromptInv
    <3>5. QED
      BY <1>1, <1>4, <1>6, <2>1, <3>4 DEF PlainInv, PromptInv, FreshOf
  <2>2. CASE ~prompted
    <3>1. PICK c \in 0..(PromptChunks - 1) : PromptComes(c)
      BY <1>4, <2>2 DEF PlainInv, PromptInv
    <3>2. c \in Nat /\ PromptChunks \in Nat /\ promptChunks = 0..(c - 1) /\ Chunks(pendingFrames, c)
      BY <3>1, PlainTypes DEF PromptComes
    <3>3. CASE f.type = "SYSTEM"
      <4>1. FreshOf("SYSTEM")
        BY <1>2, <3>3 DEF FreshOf
      <4>2. /\ f.at = c + Len(pendingFrames) /\ f.total = PromptChunks
            /\ prompt_pending = PromptChunks - (c + Len(pendingFrames) + 1)
        BY <1>2, <1>5, <3>1, <4>1 DEF PromptComes
      <4>3. Chunks(pendingFrames', c) /\ Systems(pendingFrames') = Len(pendingFrames) + 1
        BY <1>5, <3>2, <3>3, <4>2
      <4>4. prompt_pending = PromptChunks - (c + Systems(pendingFrames'))
        BY <1>5, <3>2, <4>2, <4>3
      <4>5. PromptComes(c)'
        BY <1>1, <1>6, <3>2, <4>3, <4>4 DEF PromptComes, FreshOf
      <4>6. QED
        BY <1>1, <1>3, <1>4, <1>6, <2>2, <4>5 DEF PromptInv
    <3>4. CASE f.type = "LLM"
      <4>1. ~FreshOf("SYSTEM")
        BY <1>2, <3>4 DEF FreshOf
      <4>2. prompt_pending = PromptChunks - (c + Systems(pendingFrames))
        BY <3>1, <4>1 DEF PromptComes
      <4>3. Chunks(pendingFrames', c) /\ Systems(pendingFrames') = Systems(pendingFrames)
        BY <1>5, <3>2, <3>4
      <4>4. PromptComes(c)'
        BY <1>1, <1>6, <3>2, <4>2, <4>3 DEF PromptComes, FreshOf
      <4>5. QED
        BY <1>1, <1>3, <1>4, <1>6, <2>2, <4>4 DEF PromptInv
    <3>5. QED
      BY <1>4, <3>3, <3>4
  <2>3. QED
    BY <2>1, <2>2
<1>10. TextsInv'
  <2>1. pendingFrames' \in Seq(UpFrames)
    BY <1>2, <1>4
  <2>2. Taken = 0 /\ Taken' = 0 /\ \A n : UsersFrom(pendingFrames', n)
    BY <1>4, <1>5, <2>1, PromptLeft DEF Taken
  <2>3. QED
    BY <2>2 DEF PlainInv, TextsInv, Sent
<1>11. LLMComes'
  <2>1. Len(down') + Len(pendingAcks') = 1
    <3>1. Len(down') = 0 /\ Len(pendingAcks') = 1
      BY <1>2
    <3>2. QED
      BY <3>1
  <2>2. llm_pending = IF f.type = "LLM" THEN "none" ELSE "user"
    BY <1>2, <1>3, <1>4 DEF LLMComes, FreshOf
  <2>3. llm_pending = "none" => prompt_pending = 0
    BY <1>3 DEF LLMComes
  <2>4. QED
    BY <1>1, <1>2, <1>3, <1>5, <1>6, <2>1, <2>2, <2>3 DEF LLMComes, FreshOf
<1>12. AckComes'
  BY <1>1, <1>2, <1>3 DEF AckComes
<1>13. TurnInv'
  <2>1. Messaging'
    BY <1>3, <1>6, <1>11, <1>12 DEF Messaging
  <2>2. QED
    BY <2>1 DEF TurnInv
<1>14. QED
  BY <1>7, <1>8, <1>9, <1>10, <1>13 DEF PlainInv

\* The ACK of the USER frame of a TEXT goes out twice.
LEMMA TextAcked ==
    ASSUME TypeInv, PlainInv, pc = "textWait", NEW f, Bridge!Accept(f), f.type = "USER"
    PROVE  /\ f = send_buf /\ Fresh /\ f \in UpFrames
           /\ pendingAcks' = <<>> /\ rxLastID' = send_buf.id
           /\ down = <<>> /\ pendingAcks = <<>>
           /\ UNCHANGED <<nextTxID, waiters, overlap>>
           /\ UpOld(up', rx_last_id)
           /\ DownTrue(down', send_buf.id, out) /\ ~Asked(down') /\ down' # <<>>
<1>1. Bridge!TakeFromLine(f) /\ f.type # "ACK"
  BY DEF Bridge!Accept, Bridge!Receive, Bridge!IsData, Bridge!IsAck
<1>2. f = send_buf /\ Fresh /\ f \in UpFrames /\ UpOld(up', rx_last_id)
  BY <1>1, DataTaken
<1>3. down = <<>> /\ pendingAcks = <<>>
  BY <1>2 DEF PlainInv, LinesInv
<1>4. /\ UNCHANGED <<nextTxID, waiters, overlap>> /\ rxLastID' = f.id /\ pendingAcks' = <<>>
      /\ down' = down \o Bridge!AckFrames(Append(pendingAcks, f.id)) \o <<AckOf(f.id)>>
  <2>1. Bridge!AckedAtOnce(f)
    BY DEF Bridge!AckedAtOnce
  <2>2. QED
    BY <2>1 DEF Bridge!Accept, Bridge!Acknowledge, Bridge!gateVars, Bridge!AckFrame, AckOf
<1>5. /\ Bridge!AckFrames(<<send_buf.id>>) = <<AckOf(send_buf.id)>>
      /\ AckOf(send_buf.id) \in DownFrames /\ out.type # "ACK"
  BY OwedAcks, PlainTypes DEF PlainInv, NoTools, LinesInv
<1>6. Append(pendingAcks, f.id) = <<send_buf.id>>
  BY <1>2, <1>3
<1>7. down' = down \o <<AckOf(send_buf.id)>> \o <<AckOf(send_buf.id)>>
  BY <1>2, <1>4, <1>5, <1>6
<1> DEFINE d == down \o <<AckOf(send_buf.id)>>
<1>8. down \in Seq(DownFrames) /\ DownTrue(down, send_buf.id, out) /\ ~Asked(down)
  BY <1>3, PlainTypes, DownNone
<1>9. DownTrue(d, send_buf.id, out) /\ ~Asked(d) /\ d \in Seq(DownFrames)
  BY <1>5, <1>8, DownAck
<1> HIDE DEF d
<1>10. /\ DownTrue(d \o <<AckOf(send_buf.id)>>, send_buf.id, out)
       /\ ~Asked(d \o <<AckOf(send_buf.id)>>) /\ d \o <<AckOf(send_buf.id)>> # <<>>
  BY <1>5, <1>9, DownAck
<1>11. down' = d \o <<AckOf(send_buf.id)>>
  BY <1>7 DEF d
<1>12. QED
  BY <1>2, <1>3, <1>4, <1>10, <1>11

\* The USER frame of a TEXT comes back.
LEMMA TextWaitPlain ==
    ASSUME TypeInv, PlainInv, pc = "textWait", UNCHANGED c64Vars,
           NEW f, Bridge!Accept(f), pendingFrames' = Append(pendingFrames, f),
           f.type = "USER" => pc' = Bridge!TextNext /\ waitingTool' = waitingTool,
           UNCHANGED <<out, delivered, silent, textOut, basicRunning,
                       completionDrain, promptChunks, prompted, texts, emitted>>
    PROVE  PlainInv'
<1>1. UNCHANGED <<agent_state, basic_running, busy, prompt_sent, prompt_pending,
                  result_pending, state_pending, llm_pending, text_pending, deferred_ack,
                  exec_buf, userq, ack_pending, ack_id, rx_last_id, tx_ack_wait, send_buf,
                  tx_next_id, basic, ready>>
  BY AgentStays
<1>2. f = send_buf /\ Fresh
  <2>1. Bridge!TakeFromLine(f) /\ f.type # "ACK"
    BY DEF Bridge!Accept, Bridge!Receive, Bridge!IsData, Bridge!IsAck
  <2>2. QED
    BY <2>1, DataTaken
<1>3. /\ out.type = "TEXT" /\ ~ack_pending /\ AllUser(pendingFrames)
      /\ ~Requested /\ TextComes
  BY <1>2 DEF PlainInv, TurnInv, Showing, Still
<1>4. /\ f.type = "USER" /\ f.n = out.n /\ ~busy /\ ~text_pending
      /\ prompt_pending = 0 /\ llm_pending = "none"
  BY <1>2, <1>3 DEF TextComes, FreshOf
<1>5. /\ f \in UpFrames /\ pendingAcks' = <<>> /\ rxLastID' = send_buf.id
      /\ UNCHANGED <<nextTxID, waiters, overlap>>
      /\ UpOld(up', rx_last_id)
      /\ DownTrue(down', send_buf.id, out) /\ ~Asked(down') /\ down' # <<>>
  BY <1>4, TextAcked
<1>6. /\ pc' = IF textOut = <<>> THEN "loop" ELSE "textDrain"
      /\ waitingTool' = waitingTool
  BY <1>4 DEF Bridge!TextNext, PlainInv, NoTools
<1>7. ~Fresh' /\ ~Requested'
  BY <1>1, <1>5 DEF Fresh, Requested
<1>8. NoTools'
  BY <1>1, <1>5, <1>6 DEF PlainInv, NoTools
<1>9. LinesInv'
  BY <1>1, <1>3, <1>5, <1>7 DEF PlainInv, LinesInv
<1>10. prompted
  BY <1>3 DEF PlainInv, PromptInv
<1>11. /\ Len(emitted) \in Nat /\ Len(pendingFrames) \in Nat /\ pendingFrames \in Seq(UpFrames)
       /\ Len(textOut) \in Nat
  BY PlainTypes
<1>12. Taken = Len(pendingFrames) /\ f.n = Len(emitted) + Len(pendingFrames) + 1
  BY <1>3, <1>4 DEF Taken, PlainInv, TextsInv
<1>13. /\ Len(pendingFrames') = Len(pendingFrames) + 1 /\ AllUser(pendingFrames')
       /\ UsersFrom(pendingFrames', Len(emitted))
  <2>1. UsersFrom(pendingFrames, Len(emitted))
    BY DEF PlainInv, TextsInv
  <2>2. QED
    BY <1>3, <1>4, <1>5, <1>11, <1>12, <2>1, LeftMore
<1>14. \A i \in 1..Len(pendingFrames') : pendingFrames'[i].type # "SYSTEM"
  BY <1>13 DEF AllUser
<1>15. PromptInv'
  BY <1>1, <1>6, <1>7, <1>10, <1>14 DEF PlainInv, PromptInv, FreshOf
<1>16. TextsInv'
  <2>1. Sent = 1 /\ Sent' = 0 /\ Taken' = Len(pendingFrames) + 1
    BY <1>6, <1>13 DEF Sent, Taken
  <2>2. /\ \A i \in 1..Len(textOut) : textOut[i] = Len(emitted) + Len(pendingFrames) + 1 + i
        /\ texts = Len(emitted) + Len(pendingFrames) + 1 + Len(textOut)
    BY <1>12, <2>1 DEF PlainInv, TextsInv
  <2>3. /\ \A i \in 1..Len(textOut) : textOut[i] = Len(emitted) + (Len(pendingFrames) + 1) + 0 + i
        /\ texts = Len(emitted) + (Len(pendingFrames) + 1) + 0 + Len(textOut)
    BY <1>11, <2>2
  <2>4. QED
    BY <1>6, <1>13, <2>1, <2>3 DEF PlainInv, TextsInv
<1>17. Still'
  BY <1>1, <1>4, <1>7 DEF Still
<1>18. TurnInv'
  <2>1. CASE textOut = <<>>
    <3>1. Shown'
      BY <1>1, <1>3, <1>4, <1>7, <1>13, <1>17 DEF Shown
    <3>2. QED
      BY <1>6, <2>1, <3>1 DEF TurnInv
  <2>2. CASE textOut # <<>>
    <3>1. Draining'
      BY <1>1, <1>3, <1>7, <1>13, <1>17 DEF Draining
    <3>2. QED
      BY <1>6, <2>2, <3>1 DEF TurnInv
  <2>3. QED
    BY <2>1, <2>2
<1>19. QED
  BY <1>8, <1>9, <1>15, <1>16, <1>18 DEF PlainInv

\* The wait for a confirmation leaves a frame to the loop.
LEMMA WaitReceivesPlain ==
    ASSUME TypeInv, PlainInv, Bridge!WaitReceives, UNCHANGED c64Vars
    PROVE  PlainInv'
<1>1. PICK f : /\ Bridge!Accept(f) /\ pendingFrames' = Append(pendingFrames, f)
               /\ IF Bridge!Confirms(f)
                  THEN /\ pc' = IF pc = "textWait" THEN Bridge!TextNext ELSE "loop"
                       /\ waitingTool' = (waitingTool \/ pc # "textWait")
                  ELSE UNCHANGED <<pc, waitingTool>>
  BY DEF Bridge!WaitReceives
<1>2. /\ UNCHANGED <<out, delivered, silent, textOut, basicRunning, completionDrain,
                     promptChunks, prompted, texts, emitted>>
      /\ pc \in {"msgWait", "doneWait", "textWait"}
  BY DEF Bridge!WaitReceives, Bridge!chunkVars, Bridge!llmVars, Bridge!userVars,
     Bridge!Confirmed, PlainInv, NoTools
<1>3. CASE pc = "msgWait"
  <2>1. UNCHANGED <<pc, waitingTool>>
    BY <1>1, <1>3 DEF Bridge!Confirms
  <2>2. QED
    BY <1>1, <1>2, <1>3, <2>1, MessageWaitPlain
<1>4. CASE pc = "doneWait"
  <2>1. ~Fresh
    BY <1>4 DEF PlainInv, TurnInv, Ending, Still
  <2>2. Bridge!TakeFromLine(f) /\ f.type # "ACK"
    BY <1>1 DEF Bridge!Accept, Bridge!Receive, Bridge!IsData, Bridge!IsAck
  <2>3. QED
    BY <2>1, <2>2, DataTaken
<1>5. CASE pc = "textWait"
  <2>1. f.type = "USER" => pc' = Bridge!TextNext /\ waitingTool' = waitingTool
    <3>1. ~waitingTool /\ waitingTool \in BOOLEAN
      BY DEF PlainInv, NoTools, TypeInv, LoopInv, LoopModes
    <3>2. f.type = "USER" => Bridge!Confirms(f)
      BY <1>5 DEF Bridge!Confirms
    <3>3. QED
      BY <1>1, <1>5, <3>1, <3>2
  <2>2. QED
    BY <1>1, <1>2, <1>5, <2>1, TextWaitPlain
<1>6. QED
  BY <1>2, <1>3, <1>4, <1>5

-----------------------------------------------------------------------------
(* The invariant, and what it says *)

\* At the start nothing is on its way.
LEMMA InitPlain == Init => PlainInv
<1> SUFFICES ASSUME Init PROVE PlainInv
  OBVIOUS
<1> USE DEF Init, C64!Init, Bridge!Init, C64!Nothing, Bridge!None
<1>1. ~Requested /\ ~Fresh
  BY DownNone DEF Requested, Fresh
<1>2. NoTools
  <2>1. Len(waiters) = 0
    OBVIOUS
  <2>2. QED
    BY <2>1 DEF NoTools
<1>3. LinesInv
  <2>1. Len(up) = 0
    OBVIOUS
  <2>2. DownTrue(down, send_buf.id, out) /\ UpOld(up, rx_last_id)
    BY <2>1, DownNone DEF UpOld
  <2>3. QED
    BY <1>1, <2>2 DEF LinesInv
<1>4. Between
  BY <1>1 DEF Between, Still
<1>5. TurnInv
  BY <1>4 DEF TurnInv
<1>6. PromptInv
  BY DEF PromptInv
<1>7. TextsInv
  <2>1. Len(emitted) = 0 /\ Len(textOut) = 0 /\ Len(pendingFrames) = 0
    OBVIOUS
  <2>2. Taken = 0 /\ Sent = 0 /\ UsersFrom(pendingFrames, 0)
    BY <2>1 DEF Taken, Sent, UsersFrom
  <2>3. QED
    BY <2>1, <2>2 DEF TextsInv
<1>8. QED
  BY <1>2, <1>3, <1>5, <1>6, <1>7 DEF PlainInv

\* Every step of the C64, of the bridge and of the user keeps the invariant.
LEMMA StepPlain ==
    ASSUME Plain, BridgeInv, PlainInv, [Next]_vars
    PROVE  PlainInv'
<1>1. TypeInv
  BY DEF BridgeInv
<1>2. CASE C64Work
  <2>1. UNCHANGED bridgeVars
    BY <1>2 DEF C64Work
  <2>2. C64!Service \/ C64!Dispatch
    BY <1>2, NothingForBasic DEF C64Work, C64!Work
  <2>3. QED
    BY <1>1, <2>1, <2>2, ServicePlain, DispatchPlain
<1>3. CASE ProgramEnds \/ ProgramTakesLong
  BY <1>3, NothingForBasic DEF ProgramEnds, ProgramTakesLong
<1>4. CASE Heartbeat
  <2>1. heartbeats < Heartbeats /\ Heartbeats = 0 /\ heartbeats \in 0..Heartbeats
    BY <1>1, <1>4 DEF Heartbeat, Plain, TypeInv
  <2>2. QED
    BY <2>1
<1>5. CASE BridgeWork
  <2>1. UNCHANGED c64Vars
    BY <1>5 DEF BridgeWork
  <2>2. \/ Bridge!FlushAcks \/ Bridge!HandOff \/ Bridge!StrayAck \/ Bridge!AckArrives
        \/ Bridge!WaitReceives \/ Bridge!DrainEnds \/ Bridge!Loop \/ Bridge!GraceEnds
        \/ Bridge!TrailingDrain \/ Bridge!Complete
    BY <1>1, <1>5, NothingUnexpected DEF BridgeWork, Bridge!Work
  <2>3. CASE Bridge!FlushAcks \/ Bridge!HandOff \/ Bridge!StrayAck \/ Bridge!AckArrives
    BY <1>1, <2>1, <2>3, FlushAcksPlain, HandOffPlain, StrayAckPlain, AckArrivesPlain
  <2>4. CASE Bridge!WaitReceives \/ Bridge!DrainEnds \/ Bridge!Loop
    BY <1>1, <2>1, <2>4, WaitReceivesPlain, DrainEndsPlain, LoopPlain
  <2>5. CASE Bridge!GraceEnds \/ Bridge!TrailingDrain \/ Bridge!Complete
    BY <1>1, <2>1, <2>5, GraceEndsPlain, TrailingDrainPlain, CompletePlain
  <2>6. QED
    BY <2>2, <2>3, <2>4, <2>5
<1>6. CASE UserWrites
  <2>1. Bridge!Arrive /\ UNCHANGED c64Vars
    BY <1>1, <1>6, NothingUnexpected DEF UserWrites
  <2>2. QED
    BY <1>1, <2>1, ArrivePlain
<1>7. CASE BridgeTimers \/ C64Timer
  BY <1>1, <1>7, NoTimeout, NothingRepeated DEF Plain
<1>8. CASE UNCHANGED vars
  <2>1. UNCHANGED c64Vars
        /\ UNCHANGED <<down, up, pc, out, delivered, silent, overlap, pendingFrames,
                       pendingAcks, rxLastID, nextTxID, textOut, basicRunning, waitingTool,
                       completionDrain, promptChunks, prompted, texts, emitted, waiters>>
    BY <1>8 DEF vars, bridgeVars
  <2>2. (\A i \in 1..Len(waiters') : ~waiters'[i].sent) /\ (pc = "idle" => waiters' = <<>>)
    BY <2>1 DEF PlainInv, NoTools
  <2>3. QED
    BY <2>1, <2>2, SameElsewhere
<1>9. QED
  BY <1>2, <1>3, <1>4, <1>5, <1>6, <1>7, <1>8 DEF Next

\* Between two calls nothing is left anywhere.
LEMMA PlainShown == TypeInv /\ PlainInv => AnswersShown
<1> SUFFICES ASSUME TypeInv, PlainInv, pc = "idle" PROVE emitted = [i \in 1..texts |-> i]
  BY DEF AnswersShown, Bridge!AnswersShown
<1>1. textOut = <<>> /\ pendingFrames = <<>>
  BY DEF PlainInv, TextsInv, TurnInv, Between
<1>2. Taken = 0 /\ Sent = 0 /\ Len(textOut) = 0
  <2>1. Len(pendingFrames) = 0 /\ Len(textOut) = 0
    BY <1>1
  <2>2. QED
    BY <2>1 DEF Taken, Sent
<1>3. texts = Len(emitted) + 0 + 0 + 0
  BY <1>2 DEF PlainInv, TextsInv
<1>4. emitted \in Seq(0..texts) /\ Len(emitted) = texts
  BY <1>3, PlainTypes
<1>5. emitted = [i \in 1..Len(emitted) |-> emitted[i]]
  BY <1>4
<1>6. QED
  BY <1>4, <1>5 DEF PlainInv, TextsInv

\* Between two calls the C64 has none either.
LEMMA PlainIdle == PlainInv => SidesIdleTogether
  BY DEF SidesIdleTogether, PlainInv, NoTools, TurnInv, Between, Still

\* When no call is active the user has seen every text of the LLM, each once and in
\* order, for any number of messages, in a conversation without tools in which every
\* answer comes in time: the call does not return (relay.go, HandleMessageStream)
\* before the last USER frame is shown.
THEOREM AllTextsShown ==
    ASSUME Plain
    PROVE  Spec => []AnswersShown
<1>1. Init => BridgeInv /\ PlainInv
  BY InitBridgeInv, InitPlain
<1>2. (BridgeInv /\ PlainInv) /\ [Next]_vars => (BridgeInv /\ PlainInv)'
  BY StepBridgeInv, StepPlain
<1>3. BridgeInv /\ PlainInv => AnswersShown
  BY PlainShown DEF BridgeInv
<1>4. QED
  BY <1>1, <1>2, <1>3, PTL DEF Spec

\* The bridge has no owner of its gate only when the C64 has ended the call as well
\* (agent.asm, AGENT_BUSY) and keeps no message back, in the same conversations:
\* then the next message of the user starts a call at once.
THEOREM IdleTogether ==
    ASSUME Plain
    PROVE  Spec => []SidesIdleTogether
<1>1. Init => BridgeInv /\ PlainInv
  BY InitBridgeInv, InitPlain
<1>2. (BridgeInv /\ PlainInv) /\ [Next]_vars => (BridgeInv /\ PlainInv)'
  BY StepBridgeInv, StepPlain
<1>3. BridgeInv /\ PlainInv => SidesIdleTogether
  BY PlainIdle
<1>4. QED
  BY <1>1, <1>2, <1>3, PTL DEF Spec
=============================================================================
