----------------------------- MODULE SignalChat -----------------------------
(***************************************************************************)
(* The Signal front end (src/bridge/chat/signal.go) and the typing         *)
(* indicator around a message (src/cmd/claw64-bridge/main.go).  One        *)
(* goroutine runs the loop of Start and, in it, the handler of a message;  *)
(* one reads what signal-cli writes, its answers to our calls and new      *)
(* messages in one stream; each message has a third one that refreshes the *)
(* typing indicator.                                                       *)
(***************************************************************************)
EXTENDS Naturals, Sequences, SequencesExt

CONSTANTS
    EventSlots,   \* capacity of the events channel: 32 in the code
    Messages,     \* bound: messages to the target, 1..Messages
    Others,       \* bound: messages of other chats and without the trigger
    Replies,      \* bound: texts emitted for one message
    Ticks         \* bound: refreshes of the typing indicators

VARIABLES
    written,      \* messages to the target that signal-cli has written so far
    others,       \* and messages of other chats
    signalCli,    \* the process signal-cli: "up", "down"
    stdout,       \* lines it has written and the reader has not read
    requests,     \* calls on its stdin that it has not carried out
    reader,       \* "scan", "post", "wait", "close", "clear", "done"
    held,         \* the message the reader is about to post
    events,       \* the events channel
    rpc,          \* s.rpc is set: calls go to the running signal-cli
    pending,      \* calls that wait for an answer, each known by its caller
    loop,         \* the Start loop: "select", "on", "work", "off", "send", "error", "ended"
    next,         \* where the handler goes after it stopped the indicator
    message,      \* the message it handles
    handled,      \* messages given to the handler, in order
    replies,      \* texts emitted for this message
    offs,         \* messages whose indicator was stopped, once per stop
    tickers,      \* messages whose refresher still runs
    ticks,        \* refreshes so far
    call,         \* per goroutine: "idle", "begin", "wait", "answered"
    canceled      \* the context of the process is done

signalVars == <<written, others, signalCli, stdout, requests, reader, held, events, rpc, pending,
                loop, next, message, handled, replies, offs, tickers, ticks, call,
                canceled>>
cliVars == <<written, others, signalCli, stdout, requests>>
readerVars == <<reader, held, events, rpc>>
callVars == <<pending, call>>
loopVars == <<loop, next, message, handled, replies, offs, tickers, ticks>>

Msg == 1..Messages
Callers == {0} \union Msg         \* 0 is the Start loop, m the refresher of message m
Event(m) == [event |-> m]
Answer(id) == [answer |-> id]
IsAnswer(line) == "answer" \in DOMAIN line

Init ==
    /\ written = 0 /\ others = 0 /\ signalCli = "up" /\ stdout = <<>> /\ requests = {}
    /\ reader = "scan" /\ held = 0 /\ events = <<>> /\ rpc = TRUE
    /\ pending = {}
    /\ loop = "select" /\ next = "select" /\ message = 0 /\ handled = <<>>
    /\ replies = 0 /\ offs = <<>> /\ tickers = {} /\ ticks = 0
    /\ call = [c \in Callers |-> "idle"]
    /\ canceled = FALSE

-----------------------------------------------------------------------------
(* signal-cli and the user *)

\* A message is written that parseSignalLine accepts: of the target's chat or not.
Writes(m) ==
    /\ signalCli = "up" /\ ~canceled
    /\ IF m = 0
       THEN others < Others /\ others' = others + 1 /\ UNCHANGED written
       ELSE m = written + 1 /\ written' = m /\ UNCHANGED others
    /\ stdout' = Append(stdout, Event(m))
    /\ UNCHANGED <<signalCli, requests, readerVars, callVars, loopVars, canceled>>

\* A call is carried out and answered, with a result or with an error.
Serves ==
    /\ signalCli = "up"
    /\ \E c \in requests :
        requests' = requests \ {c} /\ stdout' = Append(stdout, Answer(c))
    /\ UNCHANGED <<written, others, signalCli, readerVars, callVars, loopVars, canceled>>

\* It stops by itself, or is killed when the context is done (CommandContext).
CliEnds ==
    /\ signalCli = "up" /\ signalCli' = "down" /\ requests' = {}
    /\ UNCHANGED <<written, others, stdout, readerVars, callVars, loopVars, canceled>>

Interrupt ==
    /\ ~canceled /\ canceled' = TRUE
    /\ UNCHANGED <<cliVars, readerVars, callVars, loopVars>>

-----------------------------------------------------------------------------
(* The reader: runJSONRPC, dispatchResponse, closePending *)

\* Mutant: a message that finds the channel full is dropped.
PostOrDrop == events' = IF Len(events) < EventSlots THEN Append(events, held) ELSE events

\* The reader waits for room in the channel.
Post == Len(events) < EventSlots /\ events' = Append(events, held)

\* An answer leaves the table before it is put in the caller's channel, which has
\* room for it.
DispatchResponse(c) ==
    /\ pending' = pending \ {c}
    /\ call' = [call EXCEPT ![c] = IF c \in pending THEN "answered" ELSE @]

ReadLine ==
    /\ reader = "scan" /\ stdout # <<>>
    /\ stdout' = Tail(stdout)
    /\ LET line == Head(stdout)
       IN  IF IsAnswer(line)
           THEN DispatchResponse(line.answer) /\ UNCHANGED <<reader, held>>
           ELSE reader' = "post" /\ held' = line.event /\ UNCHANGED <<pending, call>>
    /\ UNCHANGED <<written, others, signalCli, requests, events, rpc, loopVars, canceled>>

PostEvent ==
    /\ reader = "post"
    /\ \/ Post /\ reader' = "scan"
       \/ canceled /\ reader' = "wait" /\ UNCHANGED events
    /\ held' = 0
    /\ UNCHANGED <<cliVars, rpc, callVars, loopVars, canceled>>

\* The end of the stream.  (A line of more than a megabyte would end the scan as well,
\* with signal-cli still there: no such line is written here.)
ScanEnds ==
    /\ reader = "scan" /\ signalCli = "down" /\ stdout = <<>>
    /\ reader' = "wait"
    /\ UNCHANGED <<cliVars, held, events, rpc, callVars, loopVars, canceled>>

\* cmd.Wait returns when signal-cli is gone.
CliReaped ==
    /\ reader = "wait" /\ signalCli = "down"
    /\ reader' = "close"
    /\ UNCHANGED <<cliVars, held, events, rpc, callVars, loopVars, canceled>>

\* Mutant: the table is emptied, the callers are not told.
ForgetPending == pending' = {} /\ UNCHANGED call

\* The deferred calls: every pending call gets an error, then s.rpc is cleared.
ClosePending ==
    /\ pending' = {}
    /\ call' = [c \in Callers |-> IF c \in pending THEN "answered" ELSE call[c]]

CloseReader ==
    /\ \/ reader = "close" /\ reader' = "clear" /\ ClosePending /\ UNCHANGED rpc
       \/ reader = "clear" /\ reader' = "done" /\ rpc' = FALSE /\ UNCHANGED <<pending, call>>
    /\ UNCHANGED <<cliVars, held, events, loopVars, canceled>>

Reader == ReadLine \/ PostEvent \/ ScanEnds \/ CliReaped \/ CloseReader

-----------------------------------------------------------------------------
(* A call of a goroutine *)

\* Send and Typing: over the running signal-cli, or with a process of their own,
\* which is a single step here.
StartsCall(c) == call' = [call EXCEPT ![c] = IF rpc THEN "begin" ELSE "answered"]

\* Under the lock: the caller enters the table and the request is written.
Register(c) == pending' = pending \union {c} /\ requests' = requests \union {c}

\* The write fails when signal-cli is gone: the caller leaves the table again.
WriteRequest(c) ==
    /\ call[c] = "begin"
    /\ \/ /\ signalCli = "up"
          /\ Register(c)
          /\ call' = [call EXCEPT ![c] = "wait"]
       \/ /\ signalCli = "down"
          /\ call' = [call EXCEPT ![c] = "answered"]
          /\ UNCHANGED <<pending, requests>>
    /\ UNCHANGED <<written, others, signalCli, stdout, readerVars, loopVars, canceled>>

\* The context of the call is done: that of the process or, for the indicator, a
\* timeout of five seconds and the end of the message.
Impatient(c) == canceled \/ c # 0 \/ loop \in {"on", "off"}

\* The caller leaves the table.  What signal-cli still does for it, and the answer
\* that the reader would drop, are not kept.
GivesUp(c) ==
    /\ call[c] = "wait" /\ Impatient(c)
    /\ pending' = pending \ {c} /\ requests' = requests \ {c}
    /\ IF Contains(stdout, Answer(c))
       THEN \E i \in 1..Len(stdout) : stdout[i] = Answer(c) /\ stdout' = RemoveAt(stdout, i)
       ELSE UNCHANGED stdout
    /\ call' = [call EXCEPT ![c] = "answered"]
    /\ UNCHANGED <<written, others, signalCli, readerVars, loopVars, canceled>>

Call(c) == WriteRequest(c) \/ GivesUp(c)

Returned(c) == call[c] = "answered" /\ call' = [call EXCEPT ![c] = "idle"]

-----------------------------------------------------------------------------
(* startTypingIndicator *)

\* The select takes a tick even when the context of the message is done as well.
Tick(m) ==
    /\ m \in tickers /\ call[m] = "idle" /\ ticks < Ticks
    /\ ticks' = ticks + 1
    /\ StartsCall(m)
    /\ UNCHANGED <<loop, next, message, handled, replies, offs, tickers>>

Refreshed(m) == m \in tickers /\ Returned(m) /\ UNCHANGED loopVars

\* The context of the message is done.
TickerEnds(m) ==
    /\ m \in tickers /\ call[m] = "idle" /\ (Contains(offs, m) \/ canceled)
    /\ tickers' = tickers \ {m}
    /\ UNCHANGED <<loop, next, message, handled, replies, offs, ticks, call>>

Refresher(m) ==
    /\ Tick(m) \/ Refreshed(m) \/ TickerEnds(m)
    /\ UNCHANGED <<cliVars, readerVars, pending, canceled>>

-----------------------------------------------------------------------------
(* The loop of Start and the handler of runChatBridge *)

\* Mutant: every emitted text stops the indicator again.
AlwaysStopped(m) == FALSE

\* typingSession.Stop runs once.
Stopped(m) == Contains(offs, m)

\* The indicator is stopped: its refresher is canceled, then Typing(false) is sent.
StopTyping(then) ==
    /\ IF Stopped(message)
       THEN /\ loop' = then /\ UNCHANGED <<next, offs>>
            /\ IF then = "select" THEN UNCHANGED call ELSE StartsCall(0)
       ELSE loop' = "off" /\ next' = then /\ offs' = Append(offs, message) /\ StartsCall(0)

\* A message of another chat, or without the trigger, is passed over.
TakeEvent ==
    /\ loop = "select" /\ events # <<>>
    /\ events' = Tail(events)
    /\ IF Head(events) = 0
       THEN UNCHANGED <<loop, message, handled, replies, call>>
       ELSE /\ message' = Head(events) /\ handled' = Append(handled, Head(events))
            /\ replies' = 0
            /\ loop' = "on" /\ StartsCall(0)
    /\ UNCHANGED <<reader, held, rpc, next, offs, tickers, ticks>>

TypingShown ==
    /\ loop = "on" /\ Returned(0)
    /\ loop' = "work" /\ tickers' = tickers \union {message}
    /\ UNCHANGED <<readerVars, next, message, handled, replies, offs, ticks>>

\* HandleMessageStream emits a text, returns, or returns an error that is sent.
Emit ==
    /\ loop = "work" /\ replies < Replies
    /\ replies' = replies + 1
    /\ StopTyping("send")
    /\ UNCHANGED <<readerVars, message, handled, tickers, ticks>>

HandlerReturns ==
    /\ loop = "work"
    /\ \E then \in {"select", "error"} : StopTyping(then)
    /\ UNCHANGED <<readerVars, message, handled, replies, tickers, ticks>>

TypingStopped ==
    /\ loop = "off"
    /\ loop' = next /\ next' = "select"
    /\ call[0] = "answered"
    /\ IF next = "select" THEN call' = [call EXCEPT ![0] = "idle"] ELSE StartsCall(0)
    /\ UNCHANGED <<readerVars, message, handled, replies, offs, tickers, ticks>>

Sent ==
    /\ loop \in {"send", "error"} /\ Returned(0)
    /\ loop' = IF loop = "send" THEN "work" ELSE "select"
    /\ UNCHANGED <<readerVars, next, message, handled, replies, offs, tickers, ticks>>

\* The context is done or runJSONRPC has returned; the select may choose so although
\* there are events.
LoopEnds ==
    /\ loop = "select" /\ (canceled \/ reader = "done")
    /\ loop' = "ended"
    /\ UNCHANGED <<readerVars, next, message, handled, replies, offs, tickers, ticks, call>>

Loop ==
    /\ \/ TakeEvent \/ TypingShown \/ Emit \/ HandlerReturns \/ TypingStopped \/ Sent
       \/ LoopEnds
    /\ UNCHANGED <<cliVars, pending, canceled>>

Next ==
    \/ Serves \/ CliEnds \/ Interrupt \/ Reader \/ Loop
    \/ \E m \in Callers : Writes(m)
    \/ \E c \in Callers : Call(c)
    \/ \E m \in Msg : Refresher(m)

Spec == Init /\ [][Next]_signalVars

\* signal-cli answers while it runs; the goroutines are scheduled.
Fairness ==
    /\ WF_signalVars(canceled /\ CliEnds)
    /\ WF_signalVars(Serves) /\ WF_signalVars(Reader) /\ WF_signalVars(Loop)
    /\ \A c \in Callers : WF_signalVars(Call(c))
    /\ \A m \in Msg : WF_signalVars(Refresher(m))

FairSpec == Spec /\ Fairness

-----------------------------------------------------------------------------
(* Properties *)

TypeOK ==
    /\ signalCli \in {"up", "down"} /\ rpc \in BOOLEAN /\ canceled \in BOOLEAN
    /\ reader \in {"scan", "post", "wait", "close", "clear", "done"}
    /\ held \in 0..Messages /\ message \in 0..Messages /\ Len(events) <= EventSlots
    /\ loop \in {"select", "on", "work", "off", "send", "error", "ended"}
    /\ next \in {"select", "send", "error"} /\ replies \in 0..Replies
    /\ call \in [Callers -> {"idle", "begin", "wait", "answered"}]
    /\ pending \subseteq Callers /\ requests \subseteq pending /\ tickers \subseteq Msg

\* What is on its way to the handler, in order; 0 for what the handler never sees.
Heard(line) == IF IsAnswer(line) THEN 0 ELSE line.event
Said == [i \in 1..Len(stdout) |-> Heard(stdout[i])]
Underway == events \o <<held>> \o Said

Heeded(s) == {s[i] : i \in 1..Len(s)} \ {0}
Increasing(s) == \A i, j \in 1..Len(s) : i < j /\ s[i] # 0 /\ s[j] # 0 => s[i] < s[j]

\* The messages to the bridge reach the handler once and in the order signal-cli
\* wrote them.  While the loop runs, what was not handled yet is on its way to it, once
\* and in that order, unless the process is told to stop.  A loop that has ended leaves
\* what it has not handled: its select may take the end of signal-cli before the
\* messages that are still in the channel (Start, runJSONRPC).
NoMessageLost ==
    ~canceled =>
        /\ \A i \in 1..Len(handled) : handled[i] = i
        /\ loop # "ended" =>
              Increasing(Underway) /\ Heeded(Underway) = Len(handled) + 1..written

\* The indicator of a message is stopped once, and before its first text is sent.
OffOnceBeforeReply ==
    /\ \A i, j \in 1..Len(offs) : offs[i] = offs[j] => i = j
    /\ loop \in {"send", "error"} => Contains(offs, message)

\* The loop waits for an answer that stands behind a message the reader cannot post.
Stuck == call[0] = "wait" /\ reader = "post" /\ Len(events) = EventSlots

\* A call of the loop ends, unless the messages that came in meanwhile have filled
\* the events channel, which only the loop empties.
CallsEnd == (call[0] = "wait") ~> (call[0] # "wait" \/ Stuck)

-----------------------------------------------------------------------------
(* Why they hold *)

StdoutLines ==
    {Event(m) : m \in 0..Messages} \union {Answer(c) : c \in Callers}

\* The types of the sequences, and what the loop works on.
Queues ==
    /\ stdout \in Seq(StdoutLines) /\ events \in Seq(0..Messages)
    /\ handled \in Seq(0..Messages) /\ offs \in Seq(0..Messages)
    /\ written \in 0..Messages /\ held \in 0..Messages /\ message \in 0..Messages
    /\ loop \notin {"select", "ended"} => message \in Msg

\* A call that waits is asked or answered once; the table is closed when signal-cli
\* is gone.
CallInv ==
    /\ signalCli = "down" => requests = {}
    /\ reader \in {"close", "clear", "done"} => signalCli = "down"
    /\ \A c \in pending : call[c] = "wait"
    /\ \A i \in 1..Len(stdout), c \in Callers : stdout[i] = Answer(c) =>
            /\ c \notin requests
            /\ c \in pending \/ signalCli = "down"
            /\ \A j \in 1..Len(stdout) : stdout[j] = Answer(c) => i = j

\* The loop has no call of its own where it waits for an event or the handler works.
LoopInv == loop \in {"select", "work", "ended"} => call[0] = "idle"

\* The indicator of the message in work is stopped where its text goes out.
OffInv ==
    /\ \A i, j \in 1..Len(offs) : offs[i] = offs[j] => i = j
    /\ loop \in {"off", "send", "error"} => Contains(offs, message)

\* Underway, by its parts.
Follows(S, T) == \A m \in S, n \in T : m < n

StreamInv ==
    /\ reader # "post" => held = 0
    /\ ~canceled =>
        /\ \A i \in 1..Len(handled) : handled[i] = i
        /\ Increasing(events) /\ Increasing(Said)
        /\ Follows(Heeded(events), {held} \ {0}) /\ Follows(Heeded(events), Heeded(Said))
        /\ Follows({held} \ {0}, Heeded(Said))
        /\ Heeded(events) \union ({held} \ {0}) \union Heeded(Said) = Len(handled) + 1..written
        /\ Len(handled) <= written
=============================================================================
