# TLA+ specifications of claw64

claw64 turns a Commodore 64 into the front of an LLM agent.  A 6502 program on the
C64 (`c64/agent.asm`) holds the conversation state; a Go bridge (`bridge/`,
`cmd/claw64-bridge`) carries user messages in, calls the LLM, and passes tool calls
and texts over a 2400-baud serial line.  This directory holds TLA+ models of the
parts whose correctness depends on the order of events, the TLC configurations that
check them, and TLAPS proofs.

## 1. Inventory

| Component | State | Operations | What is hard | What makes it correct |
|---|---|---|---|---|
| Message gate (`relay.go` 194-310, 489-630) | gate owner flag and list of waiting channels, overlap slot, overflow lane, flags written by the event loop | HandleMessageStream up to and after the event loop | one goroutine per entered line; decisions on flags read without a common lock; context cancellation during a hand-off | one event loop at a time; ownership never lost or doubled; at most two messages at the C64 beside those of failed calls; arrival order; every call returns |
| Reliable transport, bridge side (`relay.go` 1248-1340, 1456-1732, 1877-1935) | id counter, newest C64 id, owed ACKs, ACK and frame channels, ACK waiters | send, retransmit, wait for an ACK, accept or drop a frame, flush ACKs | two senders, ACKs that outlive their exchange, wrap-around of ids | at most once, in order, confirmed only when applied |
| Reliable transport, C64 side (`agent.asm` 880-1092, 1313-1364, 1849-1938) | newest id, one owed ACK, one send buffer, retry counter | dispatch, re-ACK, build, send, retransmit, give up | ACKs cut into frames; a request is taken as the ACK of an event | the same, and events are repeated until they are confirmed |
| C64 agent (`agent.asm`) | agent state, BASIC running flags, stop request, pending flags of every outbound kind, receive buffer, EXEC/TEXT buffer | frame dispatch, key injection, READY detection, BASIC hooks, outbound priorities | IRQ, BASIC hooks and editor loop share everything; single slots; screen READY as the only sign of completion | a tool call gets an answer; texts and messages are not overwritten |
| C64 user queue (`guarded_queue.asm` 1-106) | three pages, head, tail, count | enqueue, load head | separate updates of three counters, full ring, an interrupt inside a load, self-modifying stores | the counters agree; a message taken off is announced |
| Event loop (`relay.go` 632-1246) | pending frames, text queue, tool wait, BASIC flags, result and prompt chunks | one branch per frame type, LLM call and dispatch, text chunks, drains | held texts, frames that arrive inside waits, grace windows | every tool call of the LLM is answered once, the user text is delivered, the loop returns |
| Result and prompt assembly (`relay.go` 313-365) | chunk maps | add a chunk | repeated and missing chunks, a result that replaces an unfinished one | the text is the concatenation of one result's chunks |
| Frame codec (`serial/frame.go`, `serial.go` Send and Recv, `agent.asm` frame_rx_byte, `serial/ascii.go`) | parser state, checksum, payload so far | encode, decode, resynchronise, convert a text | bit-7 noise, a lost byte shifts every later field, bytes that look like SYNC inside a frame | noise costs nothing; nothing is handed up that was not sent; a repeated frame gets through |
| Serial link and start (`serial/serial.go`, `main.go` 230-260, 400-547, 638-704) | VICE process, temporary loader, listener, connections, timer and watcher, probes | find the loader, listen, spawn, wait for `!`, prime, kill, clean up | a timer and a process watcher close the listener under the handshake; several connections; failed attempts are repeated | one VICE; the link has an agent; the right reason for a failure; nothing left behind; the start ends |
| Signal front end (`chat/signal.go`, `main.go` 265-333) | table of calls, events channel, typing refreshers | read a line of signal-cli, call, handle a message, type, end | the reader serves both the loop and the answers the loop waits for | messages handled once and in order; a call ends |
| Terminal front end (`chat/stdin.go`) | early lines, view, scrollback, pending commands | log, settle, flush, print, quit | commands run in goroutines of the UI library and overlap | each line is printed once |
| Other chat front ends (`chat/slack.go`, `chat/whatsapp.go`) | connection | start, receive, reply | - | - |
| Logins (`llm/anthropic.go`, `llm/openai.go`, `llm/openai_codex.go`, `llm/auth.go`) | cached key, two stores of a Codex login | find a key, refresh, retry after a refusal | rotation of refresh tokens, a crash or a lost answer in between, a second program with the same login | a working login stays working; one retry with another token |
| History and requests (`relay/history.go`, `llm/*.go`) | messages per user | put an answer together, append, build a request | an answer in parts and as a whole, ids that are joined and split | the model gets its own words and paired ids back |
| Burn-in test (`burnin.go`) | script step, seven scenarios, queued messages, drain | answer a prompt, check a result, send, finish | results are recognised by their text, programs end early or late | a pass means that the programs ran; a failure has a cause |
| Stall dumps (`relay/stalldump.go`), terminal style, screen scraping, loader, cold start, soul | - | - | - | - |

## 2. How the parts interact

```
 chat front end --HandleMessageStream--> gate --> event loop <--> LLM
   (one goroutine per line)              |  ^        |   ^
                                   MSG   v  | ack    v   | frames
                                  +--------- serial line ---------+
                                                |   ^
                              frame_dispatch  <-+   +-- service_outbound
                                     |                     ^
                       user queue, exec_buf, flags --------+
                                     |
                   BASIC: injected keys, READY., RUN/STOP and BSOUT hooks
```

A message of the user enters a gate (a FIFO lock).  Its owner sends MSG and runs the
event loop; the C64 answers with an LLM frame, the bridge calls the LLM, and what the
LLM wants is sent to the C64: TEXT (which comes back as USER and is then shown), EXEC,
STOP, SCREENSHOT, STATUS or DONE.  While a BASIC program runs, one more message may be
sent past the gate.  All frames except ACK and the STATUS query are reliable: numbered
1..127, repeated until acknowledged, dropped when they are not newer than the last one.

What is hard to test is the order of these events.  `PROJECT.json` lists the hazards at
their lines with the properties that watch them, or with the reason why none does yet.

## 3. Plan

The order of the work, and what composes what.

1. `MessageGate` (with two instances of `FifoLock`), then its proof: who may run the
   event loop at all.
2. `UserQueue`: the ring, with the interrupt inside the load routine, its invariant
   proved.
3. `TransportIds` (arithmetic, proved) and `Transport`, with the abstract specification
   `AtMostOnce`: both ends of the reliable protocol over a line that loses frames.
4. `OutboundGuard`: the transmit path of the C64 below the level of a frame.
5. `C64Agent` and `EventLoop`, the two machines above the transport, composed by
   `Session`; proofs in `SessionProofs` and, about conversations without tools,
   `SessionTurnProofs`.
6. `FrameCodec`, the bytes of a frame; `C64Parts` checks it with `UserQueue` and
   `OutboundGuard`.
7. `BridgeStart`, `SignalChat`, `TerminalUI`, `Credentials`, `Conversation` and `Burnin`,
   the parts of the bridge process beside the relay; `BridgeProcess` checks them,
   `BridgeStartProofs` and `BridgeProcessProofs` prove the invariants of the first four.
8. To do: chunks of a prompt or a result that are lost or mixed, which needs `Session`
   over the line of `Transport`; a bridge that restarts beside a running C64 (first id,
   `PrimeTransport`, half of a prompt); the interrupt between two instructions of the
   C64's parser.
9. To prove: the types of the parts of `BridgeProcess` but `SignalChat` and
   `Conversation`, which are what `ProcessTypeOK` still lacks.

Items 1 to 7 are in this directory.

## 4. Modules and the code

| Module | Models | State and actions |
|---|---|---|
| `FifoLock` | `messageGate` (relay.go 194-310): `busy`, `waiters`, the channels closed for a waiter | the critical sections of `tryEnter`, `enter` and `leave`, one action each; used for the gate and for the overflow lane |
| `MessageGate` | `HandleMessageStream` (relay.go 489-630) | `pc[c]` is the place of each call; every lock, channel, poll and unlocked read of a flag is an action.  The event loop is `EventLoop`: it sets the flags in any way, and `LoopReturn` or `LoopFails` ends it.  `atC64` and `leftBehind` count the messages that the C64 may hold and the calls that have left one there |
| `UserQueue` | the ring of guarded_queue.asm 7-106 | head, tail, count, pages, and which of them have EVENT_MSG in the first byte; `Enqueue`, in the interrupt, is one action, the load routine in the foreground one per instruction that touches what both use (`load` is the place) |
| `TransportIds` | `allocID`, `transportIDAhead`, the comparison in frame_dispatch | the arithmetic of ids, in the form of the Go code and in that of the 6502 code |
| `Transport`, `AtMostOnce` | sending, ACKs, retransmission and duplicate suppression on both sides (relay.go 1248-1340, 1456-1732, 1877-1935; agent.asm 880-1092, 1313-1364, 1849-1938) | per sender of the bridge its frame and attempt; the channels `ackCh` and `recvCh`; the C64's single buffer, single owed ACK and newest id |
| `OutboundGuard` | `service_outbound`, `drain_ack_outbound` and the BSOUT hook (agent.asm 840-1092, guarded_queue.asm 108-170) | the hook is one action per instruction that matters, the interrupt and the foreground are atomic |
| `C64Agent` | frame_dispatch and its handlers, key injection, READY., the hooks, the outbound order, the heartbeat (agent.asm, guarded_queue.asm) | the agent's variables under their names; `basic` is what BASIC does, `ready` the READY. on the screen, `tick_overwritten` whether a queued message has spoiled the code of the idle timer |
| `EventLoop` | the event loop, its waits and drains, `callAndDispatch`, the overlapping sender (relay.go 632-1246, 1248-1900) | `pc` is the place where the owner of the gate waits; a wait takes a frame or ends by its timeout, which may run out at any moment |
| `Session` | the two at the two ends of one line | the variables of both are the variables of Session, `C64 == INSTANCE C64Agent`, `Bridge == INSTANCE EventLoop`; `BridgeTimers` and `C64Timer` count the timers that run out early |
| `FrameCodec` | `Encode`, `Decode`, `Link.Send` and `Recv`, `ToASCII` and `ToC64Text`, the C64's parser | one decoder per behaviour (`receiver`), `at` is its place; one action per state of the parser, on the byte that arrives |
| `C64Parts` | `UserQueue`, `OutboundGuard` and `FrameCodec`, one per behaviour | `part` says which |
| `BridgeStart` | `startSerialLink`, `startSpawnedSerialLink`, `ListenAndStartUntilTimeout`, `waitForHandshake`, `OpenDeviceContext`, `stopVICE`, `loaderPRGPath`, `PrimeTransport` | `step` is the place of the main goroutine; the watcher of VICE, the timer and the readers of the connections are actions of their own, as are VICE, the agent and the user |
| `SignalChat` | `runJSONRPC`, `call`, `dispatchResponse`, `closePending`, the `Start` loop, `startTypingIndicator` and the handler of `runChatBridge` | the lines of signal-cli, the reader (`reader`), the loop (`loop`), a refresher per message (`tickers`), a call per goroutine |
| `TerminalUI` | `StdinChannel` and `tuiModel` | the messages of the UI library are the set `commands`: they run in any order |
| `Credentials` | `AnthropicClient.token`, `OpenAIClient.Complete`, the Codex login | `phase` is the place in `completeCodex`; refresh tokens are numbers, `usable` are those the server takes |
| `Conversation` | `parseOpenAICodexSSE`, `codexResponseToMessage`, `fromAnthResponse`, the history, `buildOpenAICodexBody`, `toAnthMessages` | words and ids are numbers; the requests are operators on the history |
| `Burnin` | `scriptedBurnin`, `runOverlapBurnin`, `runBurninScenario` | the script as a set of rules, one per branch of a `complete...` function; a small C64 in `agent` that runs programs and reports when it likes |
| `BridgeProcess` | the six above, one per behaviour | `part` says which |

`BridgeProcess` and `C64Parts` put parts together that share no variable.  A behaviour is
about one of them: the others stand still in an initial state.  That a property of one
part holds in such a behaviour says as much as a run of the part alone, and no more: it
says nothing about two parts together, and there is nothing to say, as they meet only in
the relay.  Liveness is stated as `part = "x" /\ fairness of x => property of x`.

`MC*` modules are what TLC runs where a model has more than one instance.  The names of variables and actions follow
the code; `PROJECT.json` maps each definition to its lines.

### Abstractions

* *Frames are whole.*  A frame whose bytes were spoiled fails its checksum and is lost
  (`Transport!Lose`).  `OutboundGuard` and `FrameCodec` have bytes.
* *Session numbers without end.*  `Session` uses unbounded ids on a line that loses
  nothing; wrap-around and loss are the subject of `Transport`.
* *Timeouts in Session.*  The code's timers have fixed lengths and know nothing of the
  other side.  A timer is *in time* if its answer does not come by itself: for the bridge
  when the line is empty and the C64 has nothing to send, for the C64 when it has read
  the line and the bridge is away.  Such timeouts are not bounded; `EarlyTimeouts` bounds
  the others, those that run out although the answer is on its way.
* *The first byte of a page.*  The byte that the queue's load routine tests is whatever
  RAM held at power on.  `UserQueue` has both cases; the agent of `Session` and the small
  C64 of the burn-in have RAM without EVENT_MSG there.  With it the message would be sent
  on with 204 bytes, the byte at $9201 being its length, which runs over the 128 bytes of
  AGENT_RXBUF; what that overwrites is not modelled.
* *The gate in Session.*  `EventLoop` keeps the list of waiting calls and at most one
  overlapping sender; `MessageGate` has the details of both.
* *The screen is one flag.*  `ready` says that READY. stands below the line where the
  agent looks (`scan_start`).  A program that prints READY. itself, or an old READY.
  below the cursor, is not modelled; with `ScreenClears` a program ends above the line
  and its READY. is never seen.
* *Idle time has no length.*  A heartbeat comes when nobody has anything to do, as two
  minutes of silence are longer than every exchange; the C64's service of its outbound
  frames may be arbitrarily late.
* *The LLM* answers with a text of one or more frames, with nothing, with one tool call,
  or with an error; it is asked without a prompt only as the code asks it, and that is
  an error too.
* *Texts.*  In `FrameCodec` a text is one character, in `Conversation` a number per
  utterance, in `Burnin` one of the patterns that the script looks for.
* *The C64 of the burn-in* is not `C64Agent`: it runs a command, reports RUNNING after any
  time, answers a query and keeps messages while it is busy; that is what the scripts can
  tell apart.
* *Tokens have three ages:* fresh, within the margin in which they are renewed ahead of
  time, and over.
* *Left out:* ERROR frames (the C64 has no code that sends one), malformed tool
  arguments, errors of the front end's `emit`, cancellation inside the event loop,
  colours, the busy animation, logging.

## 5. The runs

Each passing run takes less than three minutes on two cores; the largest has 3.1 million
distinct states.

| Run | What it shows |
|---|---|
| `message_gate` | Three callers, two of which may be cancelled in any wait, and one slot, so that the overflow lane is in use.  The event loop has one owner (`GateExclusive`); the gate is never doubled, and lost only where a wait was cancelled (`GateConserved`); the messages that the C64 may hold unanswered are at most two more than the calls that ended with an error (`OverlapBounded`: without errors the three pages of the user queue suffice, with them they need not); a message queued on the gate is passed by overlapping messages only (`GateOrder`); every call returns (`EveryCallReturns`) unless a cancellation has swallowed a hand-off. |
| `transport` | Two senders, a lost frame, premature timeouts on both sides, ids at the wrap-around: nobody applies a frame twice or out of order (`InOrder`). |
| `transport_live` | One sender: the requests are delivered as `AtMostOnce` says (`RequestsReliable`), and are all confirmed (`EveryRequestConfirmed`). |
| `transport_overlap` | *Violation.*  With two senders a request may be confirmed that was never applied (`ConfirmedApplied`). |
| `c64_parts` | A ring of three pages and seven messages: the counters agree wherever the interrupt falls into a load (`RingInv`).  Foreground, interrupt and BSOUT hook: no frame starts inside an ACK of the hook (`FrameOutsideAck`), and an owed ACK is sent or has been taken over by the hook (`AckSentOrHooked`).  Both decoders: every frame gets through bit-7 noise, no frame of a known type comes out that was not sent (`FramesIntact`), and after a lost byte a repeated frame gets through (`BackInStep`). |
| `session` | Two messages, any tool, LLM errors, two early timeouts: a text is shown at most once (`ShownOnce`). |
| `session_tools` | One message, two tool calls, a heartbeat, an early timeout: BASIC never executes a command that the agent neither waits for nor has reported (`BasicOwned`), and a text is shown at most once (`ShownOnce`). |
| `session_live` | Three messages answered by texts or silence, with answers in time: every call returns after its message has come to the LLM (`EveryTurnEnds`), the user has seen all texts in order (`AnswersShown`), and when the bridge is idle the C64 is too (`SidesIdleTogether`). |
| `session_early` | *Violation.*  One message and one early timeout: a call that has completed silently does not return (`EveryCallReturns`). |
| `session_tool` | *Violation.*  The LLM is asked again while its tool call has no answer (`OneToolAtATime`). |
| `session_heartbeat` | *Violation.*  A message that meets a heartbeat may never come to the LLM (`EveryMessageForwarded`). |
| `bridge_process` | The start: one emulator (`OneVICE`), a link on which the agent has spoken (`LinkHasAgent`), the right reason for a failure (`FailureExplained`), nothing left behind (`Tidy`), and an end (`EveryStartEnds`).  Signal: messages are handled once and in order, and none is lost while the loop runs (`NoMessageLost`), the typing indicator goes off once and before the reply (`OffOnceBeforeReply`), a call ends unless the events channel is full (`CallsEnd`).  The terminal: each line is in one place (`EveryLineOnce`) and gets out (`LinesGetOut`).  Logins: a rotation does not lose one (`LoginKept`), a retry has another token (`RetryRenewed`), a new key is found (`KeyPickedUp`).  The model gets its words back, with paired ids (`HistoryTrue`).  A burn-in that passes has run its programs, unless a late output was taken for the next run's (`PassedRan`), one that fails or hangs met a race or a repeated frame (`FailsOnlyOnRace`). |

### Bounds

* `message_gate`: an overlap needs an owner and a second caller, an overtaking and the
  order of two waiters a third.  `Slots` is `c64UserQueueSlots`, 3 in the code, the number
  of calls in front of which a further one goes to the overflow lane; 1 lets three callers
  reach it, and those that have passed the test before can still meet at the gate.  The
  invariants are proved for every number of callers and slots; `EveryCallReturns` is not.
* `c64_parts`, queue: the code's three slots and seven messages, so that a full ring wraps
  twice, once before and once inside a load.
* `transport`: the arithmetic of ids is proved for every window, so `MaxId` = 7 with
  `Window` = 3 keeps the code's 127 and 63 in small; `FirstIds` = {7} puts the wrap
  between the first two requests.  The numbers of requests, events and losses are the
  smallest with which a frame is repeated, overtaken and lost.  In `transport_live`
  `Attempts` = 5 is the code's number and exceeds what the line can destroy, the two
  `Losses` and an ACK that cuts into each of the at most `Events * (1 + Retries)`
  transmissions of events.  `Patient` says that no timer ends while its exchange still
  goes on; `transport` is checked without it.
* `c64_parts`, transmit path: an ACK of three bytes, a frame of three and bursts of two, in
  registers of six values in the place of 5, up to 256, 16 and 256: a first, a middle
  and a last byte, a frame that needs two bursts, and an index that wraps.  Two ACKs and
  a frame make one owed while another is being sent.
* `c64_parts`, frames: ids 1, 9 and 50, as the complement of 1 in an ACK looks like SYNC,
  9 as a length reaches into the repetition and 50 over several of them; a letter, a
  character that looks like SYNC and one that is not ASCII; one lost byte, which shifts
  every field of the parser once.  With a second one the checksum can be met by chance.
* `bridge_process`, start: two attempts in the place of 8 and two probes in that of 5, a
  first, a last and one that fails between; two connections, the probe at boot and the
  agent's.  `Rounds` = 1 leaves the rounds of a burn-in gate to the proof.
* `bridge_process`, Signal: `EventSlots` = 1 in the place of 32, so that two messages fill
  the channel; one event of another kind, one reply, one tick of a refresher.
* `bridge_process`, terminal: three lines, one early, one in the view, one behind it, so
  that two flushes overlap.
* `bridge_process`, logins: three tokens, the given one and two rotations, and two calls, a
  retry inside a call and a call after it.
* `bridge_process`, conversation: five entries of the history, that is a prompt, a call, its
  answer and another call.
* `bridge_process`, burn-in: the scripts as they are, with three checks of a status and four
  runs, the smallest number with a first, a middle and a last repetition.
* `session*`: one or two messages, as a message in hand and one that meets it; one or
  two tool calls, as the second one meets the program of the first; a text of two
  frames; one heartbeat in `session_tools`; a queue of one page where two messages are
  there, so that it is full; one repetition of the C64 and, in `session_tools`, two
  transmissions of the bridge, so that "repeated" and "given up" both occur; in `session`
  one, so that a timer of the bridge ends the call and the frame is still on its way.
  Of the timers that run out early, two in `session` are one on each side, or a frame
  that is twice on its way; `session_live` has none, and says nothing about them:
  `session_early` shows that one is too many for it.

Deadlock is not checked where a system may come to rest: all messages handled, or the
bounds used up.

### Fairness

Every fair specification asks for weak fairness of what a scheduler, an interrupt or a
timer brings about, and never of the user, of loss, of a program that prints, of an
event of the C64 or of a cancellation.

* `MessageGate!FairSpec`: goroutines run, a send ends after its attempts, and the event
  loop returns.  That it does return is `EveryTurnEnds` of `Session`.
* `Transport!FairSpec`: the two programs run and their timers end.  The line delivers
  what it has not lost because its head is taken by a fair action of the receiver.
* `OutboundGuard!Fairness`: interrupt and foreground run, programs end and are noticed.
  The hook's write is strongly fair: it waits for room in the transmit ring, which the
  interrupt empties again and again.
* `FrameCodec!Fairness`: bytes keep coming.
* `BridgeStart!Fairness`: the goroutines run, the timer ends, a killed process exits (a
  VICE that is not killed may live for ever).
* `SignalChat!Fairness`: the reader, the loop, the callers and the refreshers run, and
  signal-cli answers requests and ends when it is killed; nobody has to send a message.
* `TerminalUI!Fairness`: the program starts, learns its window's size, commits a stream
  on the next tick and runs each command of a flush; no line has to be logged, and nobody
  has to leave.
* `Session!Fairness`: both processors run (`C64Work`, `BridgeWork`, which contains the
  answer of the LLM), BASIC programs end, and timers run out.

## 6. What the code does not keep

Four violations are runs, with the property stated as the documentation states it.

* `session_early`: a DONE that is repeated because its ACK is late is acknowledged twice.
  The second ACK comes in the grace window, is dropped, and has by then cleared
  `completedWithoutText` (relay.go 653): the call waits without a deadline.  The run has
  no heartbeat; in the code the next one, after two minutes, would end the wait, if the
  idle timer still runs.  PROTOCOL.md 243 calls retries and duplicates safe, and 157-158
  calls DONE the reliable boundary of a silent completion.
* `transport_overlap`: the event loop's request and the overlapping MSG are two reliable
  frames in flight, but the C64 remembers one number, the newest.  If the older frame is
  lost, its repetition is not newer than the other and is acknowledged as a duplicate
  (agent.asm 1910), so the bridge takes it for done.  PROTOCOL.md 138-141 has an ACK
  mean that the effects are there.
* `session_tool`: `drainC64OutboundBeforeText` (relay.go 1176) waits for the C64 to fall
  silent before an EXEC.  If the LLM frame of an overlapping message comes then, it
  returns an error: the call ends with the tool call in the history and no answer, and
  the next owner asks the LLM with that history, against relay.go 1018-1019.
* `session_heartbeat`: the stores of `guard_userq_enqueue_from_rxbuf` are patched with the
  page of the slot, but not the one of the event type (guarded_queue.asm 18-23), which goes
  to $9200.  `guard_userq_load_head_to_rxbuf` tests the first byte of the page (54-56),
  which nobody writes, and drops the message (83-86).  So a message that comes while the
  C64 is busy is acknowledged and never announced to the LLM, unless RAM had the value of
  EVENT_MSG there at power on; its length is then read from the wrong page (58).  In the
  run a heartbeat makes the C64 busy without the bridge: the user's next message starts a
  call, is queued and dropped, and the call takes the answer to the heartbeat for its own
  and returns without an error, against CLAW_DESIGN.md 141-148.

Six definitions state what a document or a comment says and the code does not do; they
are not part of a run; TLC refutes each of them.

* `MessageGate!MessageOrder` (SPEC.md 212-214, messages are handled in order): an
  overlapping message is sent while others wait for the gate (relay.go 555), and a caller
  in the overflow lane looks for room every 100 ms only (relay.go 572), so a later one
  finds it first.  `GateOrder` is what holds.
* `UserQueue!QueuedAnnounced` (guarded_queue.asm 4-5, SPEC.md 127-128, CLAW_DESIGN.md 147):
  the queue drops what it held, see `session_heartbeat`.
* `C64Agent!IdleTimerRuns` (SPEC.md 138 and README.md 319, a heartbeat after two idle
  minutes): $9200 lies in the code of `guard_idle_llm_tick`, in the operand of its first
  load.  Once a message has been queued it reads $CC01 in the place of `busy`, a byte of
  code that is not 0, and resets the idle counter for good.
* `Transport!EventsKept` (PROTOCOL.md 187-191, an event is kept until it is
  acknowledged): any new request clears `tx_ack_wait` (agent.asm 1922), also one that
  the bridge sent before the lost event could reach it.
* `OutboundGuard!AcksWhole` (agent.asm 864-866, the ACK buffer has one user at a time):
  the BSOUT hook does not test the guard before the first byte of an ACK
  (guarded_queue.asm 125) and claims it some instructions after it has read the index;
  an interrupt in between sends the same ACK.
* `OutboundGuard!AckSent` (agent.asm 734, control traffic is kept alive): the hook keeps
  the guard from one printed character to the next (guarded_queue.asm 128); if BASIC
  stops printing in the middle of an ACK, nobody may send until it prints again.

Further behaviour of the code that the models have and no property asks about, found
while they were written:

* AGENT_RXBUF holds the message until its LLM frame is built and also the payload of
  every frame received meanwhile.  The ACK of the last SYSTEM frame overwrites the number
  and first character of the first message (agent.asm 1810, guarded_queue.asm 249);
  `rxbuf.whole` records it.  A MSG, TEXT or EXEC replaces the message as a whole, so that
  one message is forwarded twice and another not at all.
* There is one `ack_id` for all frames: the deferred ACK of a TEXT replaces the ACK that
  a MSG is still owed, and the other way round.  If an overlapping MSG is owed its ACK when
  a TEXT comes (agent.asm 1995, 2113), the ACK of the TEXT goes out with it, before the text
  has been sent back.  The bridge takes the TEXT for done and may send an EXEC next, whose
  command overwrites the text in `exec_buf` while `text_pending` still holds (agent.asm
  2086): the C64 then sends the command back as USER, and the user sees a BASIC line in
  place of the answer.  `ShownOnce` counts such a line as 0, no text, as it may be the
  second of its kind.
* With tools, `AnswersShown` and `EveryTurnEnds` do not hold, for several reasons.  A TEXT
  held during `completionDrain` waits for another pass through `callAndDispatch` and is
  replaced by the next answer (relay.go 1119).  A TEXT refused as BUSY is acknowledged
  as a duplicate when it is repeated (agent.asm 2023, 1910).  The drains return frames to
  the end of `pendingFrames` (relay.go 894, 925), so texts may be shown in another order
  than they were written, while PROTOCOL.md 338-339 promises an order.  A duplicate
  STATUS or RESULT after a silent completion resets `completedWithoutText` (relay.go 653),
  like the ACK in `session_early`.  READY. noticed by the interrupt after
  RUNNING was reported sends no RESULT (agent.asm 1148), and the bridge keeps
  `basicRunning`.  An unknown tool goes back to the loop without asking the LLM
  (relay.go 1032).  This is why `session_live` has no tools and no heartbeat.
* Without tools they need answers in time.  With one early timeout a call may hang
  (`session_early`).  `AnswersShown` fails because the ACK of a TEXT can go out before the
  text is out (the item on `ack_id`; a repeated MSG is owed a second ACK then, too), or
  because a call fails and leaves its text behind;
  `SidesIdleTogether` fails with two early timeouts and three messages.  What
  `session_live` and `SessionTurnProofs` show is that a plain conversation is live and its
  two sides agree while the line and both processors are faster than the timers.
* An error of the LLM ends the call, and nobody tells the C64 (relay.go 994).  It stays
  busy, so the next message is queued there and dropped, and its call waits for ever.
* A RESULT does not name its command: a late one confirms the next EXEC (relay.go 1797).
* A cancelled waiter of the gate may drop the ownership it was handed in the same moment
  (relay.go 205); from then on every call waits.  `EveryCallReturns` names this case in
  its statement.

* *Frames* (`FrameCodec`).  The C64 takes a frame of any type below RESULT, known or not,
  as a reliable one (agent.asm 1884): if the type byte of a frame is lost, the frame and
  its repetition can make one of an unknown type whose seven-bit checksum is right, and
  its second byte becomes `rx_last_id`; `FramesIntact` is about the known types.  With two
  lost bytes even a frame of a known type can pass by chance.  `ToASCII` keeps `|`, `}` and
  `~`, which the bridge's decoder takes for SYNC; a text that ends with one can hold the
  decoder at the wrong SYNC across repetitions.  That a lost byte in the ACK of id 1 is
  noticed rests on the complement alone.
* *The start* (`BridgeStart`).  `startSpawnedSerialLink` takes no notice of its context and
  `serial.Listen` cannot be interrupted, so Ctrl-C waits for the timer.  A `log.Fatalf`
  after the start skips the deferred calls and leaves VICE and the temporary loader;
  `Tidy` is about the other ends, this one is the place `fatal`.
* *Signal* (`SignalChat`).  A call has no timeout.  If more messages arrive during one than
  the channel holds, the reader cannot reach the answer and everything stops (`Stuck`, the
  exception in `CallsEnd`).  A refresher that has passed its test sends "typing" after the
  handler has sent "off".  The loop's select may take the end of signal-cli before the
  messages that are still in the channel (signal.go 49-58), which are lost then;
  `NoMessageLost` accounts for messages while the loop runs.  A line of more than a megabyte ends the reader.
* *The terminal* (`TerminalUI`).  Two flushes may print in either order, and two lines may
  be handled in another order than they were entered; "bye." may not be printed.  Text
  that is streamed before there is a program is dropped (stdin.go 58, 66) and never
  becomes a line; logged lines are kept (`early`).
* *Logins* (`Credentials`).  `CanPromptForOpenAICodexAuth` asks for a standard input that
  is not descriptor 0, so the login prompt is never shown.  A saved login hides a newer
  one of the Codex CLI.  Any error text with "401" in it counts as a refusal.  An error of
  saving a rotated token is ignored.
* *The conversation* (`Conversation`).  If an answer has several tool calls the further ones
  stay in the history without an answer; a RESULT after a STATUS RUNNING answers the
  same call a second time.
* *The burn-in* (`Burnin`).  All runs print the same, so an overlap burn-in can pass
  although a report was taken from the screen of an earlier run, with a run less than it
  counts: the exception in `PassedRan`, for a program whose output comes after it was
  reported as RUNNING.

## 7. The proofs

`tlapm` checks all of them, for every value of the constants that the named assumptions
allow.

* `MessageGateProofs`: `TypeCorrect` (`Spec => []TypeOK`) and `GateExclusion`
  (`Spec => []GateExclusive`), for any set of callers, cancelled or not, and any number of
  slots.  `GateExclusive` alone is not inductive, as a hand-off makes a parked caller the
  owner before it runs.  `GateInv` therefore counts it as a holder from the moment its
  channel is closed: closed channels belong to parked callers, which are no longer in the
  list, nobody is listed twice, there is one holder, and for a holder the gate is busy.
  The lemmas `Moves`, `Takes`, `Queues`, `Wakes`, `Abandons` and `Leaves` treat the six
  ways in which an action of a caller touches the lock, `StepGateInv` reduces every
  action to one of them.  Three more rest on it.  `GateConservation` (`GateConserved`):
  by `GateHeld` a busy gate has a holder, unless a call was dropped; a call that was stays
  so (`DroppedStays`), and who leaves the list without the gate is (`CancelDrops`).
  `OverlapBound` (`OverlapBounded`): by
  `CountInv` the messages that the C64 may hold unanswered are one for each call that is
  under way with its message admitted, and one for each that was left behind; by
  `OverlapInv` the former hold the gate or the overlap slot, and the slot has one holder,
  as no caller is of the overlapping kind before it takes the slot.  `GateInOrder` (`GateOrder`): `QueueInv` has every parked
  caller in the list or handed the gate, and by `OrderInv` each caller that another one
  found parked is through, or holds the gate, or stands before it in the list.
* `UserQueueProofs`: `RingCorrect` (`TypeOK` and `RingInv`), for every number of slots and
  messages, wherever the interrupt falls into the load routine and whatever RAM held at
  power on.  The argument is the arithmetic of the places modulo the size (`AtFacts`).  The
  invariant reads the ring from the instruction reached: between the advance of the head
  and the decrement of the count there is one message less than the count says (`First`,
  `Live`).  A full ring that moves the head while the load routine is resetting it to 0
  loses one of the two moves; `slipped` names that window of two instructions, and
  nothing is claimed after it.
* `SessionProofs`, for any number of messages, tool calls, texts and repetitions.
  * `BasicIsOwned` (`BasicOwned`).  `BasicInv` adds why the agent
    cannot miss its own command: READY. is on the screen only at the prompt, no program
    runs while keys are typed, and a line being stored is the agent's.  It uses no
    assumption on the constants and nothing about the bridge: whatever frames arrive, in
    any order, the refusals of frame_dispatch keep it.
  * `SessionTypeCorrect` (`TypeOK`).  `TypeInv` gives every frame on the line and in a
    buffer the fields of its kind, with a message or a text that exists in it, and each
    place of the bridge that sends a frame again the frame; `CallsInv` is why no more calls
    return than were made: each is the owner, a waiter, overlapping or ended.
    `AcceptedInv` has the frames left for the loop be accepted ones.
  * `TextShownOnce` (`ShownOnce`).  A TEXT is repeated until its USER frame is back, the
    USER frame until it is acknowledged, and neither side remembers texts.  `TextsInOrder`:
    the number of a text grows with the id of its frame, and what is still to be sent is
    newer.  `NewerToCome`: so a TEXT that the C64 has not taken is newer than all it has
    taken, and the one in `exec_buf` newer than all that were sent back.  `OneFrame`: a text
    therefore comes back under one id, and is nowhere else until the bridge accepts that
    id.  `OnePlace`: an accepted text waits in one frame or has been shown; the drains, which
    put frames back at either end, move it and do not copy it (`Held`).
* `SessionTurnProofs`, for any number of messages, of chunks of the prompt, of texts and
  of repetitions: `AllTextsShown` (`AnswersShown`) and `IdleTogether` (`SidesIdleTogether`).
  Both assume `Plain`: no tools, no error of the LLM, no heartbeat, and no timer that runs
  out while its answer is coming, as in `session_live`.  The last is an assumption on
  timing: the code's timers have fixed lengths, `relay.go` 1266 and 1754 wait so long
  whatever is on its way.  With one command, one heartbeat or one early timeout TLC finds
  `AnswersShown` or `SidesIdleTogether` violated (section 6).  After an error of the LLM the call
  returns and nobody tells the C64, which stays busy, so `SidesIdleTogether` fails; TLC
  finds no such trace for `AnswersShown`, but the proof does not cover that case.
  * The properties speak of the idle bridge, and whether it is idle with nothing left
    depends on the whole turn before.  `PlainInv` therefore goes through the turn: for each
    place where the owner of the gate waits, `TurnInv` says what the C64 has to send, what
    is on the line and what is left for the loop (`Messaging`, `Prompting`, `Asking`,
    `Draining`, `Showing`, `Shown`, `Ending`, `Ended`, `Between`).
  * `LinesInv` holds at every place: each side has at most one reliable frame that the
    other has not taken, all else on the line are ACKs of older ones, and an ACK that the
    bridge owes is owed once.  With it no other timer is left to run out: while the bridge
    waits its answer is on the line or at the C64 (`NoTimeout`), and the C64 waits for an
    ACK only while it is on its way (`NothingRepeated`).  Hence a frame is never old (`NothingUnexpected`).
  * `PromptInv`: the chunks of the prompt come in order, between those that the bridge has
    and those that the C64 has still to send; the LLM frame stands behind them, so the LLM
    is never asked without the prompt.  `TextsInv`: texts 1 to n are those shown, those in
    USER frames left for the loop, the one in flight and those in `textOutQueue`, in this
    order.  When the owner has left the last three are empty.
  * `Takeable` compares the frames before a frame by position and not with `SelectSeq`, so
    that the prover can work with it.

* `BridgeStartProofs`: `OneEmulator` (`OneVICE`), `LinkSpoken` (`LinkHasAgent`) and
  `NothingLeft` (`Tidy`), for any number of attempts, connections and rounds.  None of
  the three is inductive.  `ViceInv` adds that the only VICE alive is the one the main
  goroutine knows of, and that none is left where the next is started: that is what the
  wait after a kill is for.  `LoaderInv` has a loader removed only at places without a
  VICE, and `LinkInv` has a hello in a connection, or one that a reader has taken from
  it, come from a connection on which the agent has spoken in this attempt.
  `EnvironmentInv` and `GoroutinesInv` show that neither VICE, the agent and the user nor
  the watchers and readers can disturb it, one lemma per group of steps of the main
  goroutine does the rest.  `ReasonKnown` (`FailureExplained`) rests on `CloserInv`: whoever
  closes the listener, the timer or the watcher, has set its own mark before, so that the
  branch for an unexplained error of Accept is never taken.

* `TransportProofs`, for any number of requests, events, losses, attempts and
  repetitions, and any `MaxId` and `Window` that `TransportIds` allows.  `Shape` says
  which frames may be where and with which numbers.
  * `SidesAgree`, the Go and the 6502 comparison accept the same frames; `AheadTotal`, of
    two different ids exactly one is ahead; `NextAhead`, the next id is always ahead,
    across the wrap.
  * `LinkTypeCorrect` (`TypeOK`).
  * `EventsInOrder`: the bridge handles each event of the C64 once and in order.  By
    `UpInOrder` the events on the line, in the channel and handled are one sequence that
    never decreases and repeats only the event that the C64 holds in its buffer, so that
    the comparison of seven-bit ids only ever meets the last event or the next.
  * `OrderOfOneSender` (`InOrder` with `Senders = {Loop}`): the same for requests with
    `DownInOrder`.  A single sender has one request under way.
  * `OrderInWindow` (`Spec /\ []InWindow => []InOrder`, any senders).  With two senders a
    frame that is being repeated can be overtaken by others.  If more than `Window` new
    ids overtake it, it looks newer than they, and the C64 acts on it.  `InWindow` excludes
    that and nothing else; the code does so only by the length of its timeouts.
    `IdsTrue` then relates every id on the line to the number of its request.
  * `OrderOfFew` (`InOrder` if `Requests <= Window + 1`) shows that the hypothesis is met
    without further conditions by runs of up to a window of requests.
  * `RequestsRefine` (`Senders = {Loop}` and `[]IdsFresh`: `Spec` implies the refinement
    `RequestsReliable` of `AtMostOnce`) and `RequestsOnce` (the same for
    `Requests <= Window + 1`, without `IdsFresh`).  That an ACK means an applied request
    needs more than the order does: after more than `Window` requests were given up in a
    row, the C64 takes the next one for old and acknowledges it, and an ACK that has
    stayed in the channel for `MaxId` requests confirms another one.  `IdsFresh` excludes
    both, `AcksTrue` says that all other ACKs are of requests that were applied.
* `C64PartsProofs`: `GuardTypeCorrect` and `FrameOutside` (`FrameOutsideAck`), for all
  lengths of ACKs, frames and bursts below the size of a register.  `Guard!GuardInv` says
  for each instruction of the BSOUT hook what it has read and whether it holds
  `tx_service_busy`; `Whole` is the state of an ACK that nobody has begun.  The hook may
  claim the guard with an index it read before an interrupt sent the ACK; the invariant
  has this case, it sends the ACK again and still no frame comes between.
  `FramesIntactWithoutLoss` (`FramesIntact` while `lost = 0`), for any ids, characters and
  losses: by `InStep` the decoder is at the place of the sender and has its payload and
  checksum so far, which rests on the bytes of a frame (`FrameBytes`) and on no type and
  no length looking like SYNC under bit 7 (`MaskByte`).  `PartsTypeCorrect` (`PartsTypeOK`)
  adds what any byte in any state does to a decoder (`TakeTypes`).
* `BridgeProcessProofs`, for any number of messages, lines, tokens and calls.
  * `LoginKeeps` (`LoginKept`), `RetryRenews` (`RetryRenewed`) and `KeyPicked`
    (`KeyPickedUp`).  `TokenInv` says which token is usable and how old the others may be,
    `LoginInv` in which of the two places it stands at each place of `completeCodex`,
    `RetryInv` that the second request of a call is sent with a token issued after the
    first, and `KeyInv` when a refused key is still in the cache.
  * `SignalTypeCorrect` (`Signal!TypeOK`), `IndicatorOff` (`OffOnceBeforeReply`) and
    `MessagesKept` (`NoMessageLost`).  `CallInv` and `LoopInv` tie the table of calls to
    the requests at signal-cli, `Queues` types the channels, `OffInv` says for each
    message whether its indicator is still due.  `StreamInv` is about the stream as
    signal-cli wrote it: the messages in it, from the loop back to the pipe, are the
    successors of those handled, in order.  Answers leave the stream in its middle, when
    a caller gives up, which is why it is stated about the messages only (`Heeded`).
  * `LinesOnce` (`EveryLineOnce`).  `LineInv` replaces the sum by six disjoint sets of
    lines whose union is all lines so far, no place having a line twice, and no two
    commands carrying the same; each action moves a line from one set to another
    (`LineComes`, `LineMoves`).
  * `TrueHistory` (`HistoryTrue`) and `DialogueTypeCorrect` (`Dialogue!TypeOK`).
    `DialogueInv` says that the messages of the assistant are the utterances, in order, and
    that each answer of a tool, and the call that the bridge would answer next, has a call
    before it (`Coherent`).  What the clients select from an answer (`Chosen`) is defined
    by rank and not by a fold, so that the theorem needs no induction; the requests are a
    function on the messages.  `CallNumbers` bounds the calls by the messages.

The named assumptions of the constants say that bounds and lengths are positive or
natural numbers, that ids fit their window, and that ACKs and frames are shorter than
the register that counts their bytes.

Some properties were restated on the way.  `OverlapBounded` counts the messages that the
C64 may hold and not the callers: a call that ends with an error leaves its message
there, so that the bound is two more than such calls, and not two.  `ShownOnce` used to
count a command that is shown in place of a text as a text (section 6).  `NoMessageLost` accounts for messages
while the loop runs: what is in the channel when the loop ends is lost.  `EveryLineOnce`
says what it said, in terms that the prover can take apart.

Only model-checked: everything temporal but the refinement of
`Transport`; `FramesIntact` after a lost byte, where seven bits of checksum decide and it
depends on the ids and lengths; `PassedRan` and `FailsOnlyOnRace`, which are about one script each, and
`ProcessTypeOK`, of which the parts `Signal!TypeOK` and `Dialogue!TypeOK` are proved.
Liveness under fairness is outside of what the prover does.

## 8. Not modelled

* The contents of screens and results: how `agent.asm` reads a range of the screen while
  a program may be writing it.
* A lost or mixed chunk of a prompt or a result, and a bridge that restarts beside a
  running C64: both need the line of `Transport` under `Session`, which is too large to
  check; each of the two has only its half of the behaviour.
* The interrupt between two instructions of the C64's parser; `FrameCodec` has the
  parser as one context.
* Slack and WhatsApp, HTTP, the device login, the device files of serial ports, and the
  mode that starts a signal-cli for each call.
* The loader, the cold start, the soul, colours and animation, the dumps of a stalled
  VICE, and the test programs.

`PROJECT.json` gives the reason per component.

## 9. Running

    tlc -workers 2 -config Session.cfg Session.tla
    tlapm SessionProofs.tla

with the community modules on the path of the tools.
