---------------------------- MODULE BridgeProcess ----------------------------
(***************************************************************************)
(* The parts of the bridge process beside the relay, which meet only in    *)
(* main: its start, the two front ends with goroutines of their own, the   *)
(* logins of the model clients, what they and the history make of a        *)
(* conversation, and the burn-in test.  They share no variable, so a       *)
(* behaviour is about one of them and the others stand still.              *)
(***************************************************************************)
EXTENDS BridgeStart, Sequences, FiniteSets

CONSTANTS
    EventSlots, Messages, Others, Replies, Ticks,    \* SignalChat
    Lines,                                           \* TerminalUI
    Tokens, Calls, Backends,                         \* Credentials
    Turns, Providers,                                \* Conversation
    Scenarios, Checks, Runs, KeptSlots               \* Burnin

Bounds == {Attempts, Probes, Conns, Rounds, EventSlots, Messages, Others, Replies, Ticks,
           Lines, Tokens, Calls, Turns, Checks, Runs, KeptSlots}

\* The bounds are positive.
ASSUME BoundsAssumption == Bounds \subseteq Nat \ {0}
\* What a part may choose from, with the choice of a part that stands still.
ASSUME ChoicesAssumption ==
    /\ Commands \subseteq {"chat", "burnin"} /\ "chat" \in Commands
    /\ Backends \subseteq {"anthropic", "openai"} /\ "anthropic" \in Backends
    /\ Providers \subseteq {"anthropic", "codex"} /\ "anthropic" \in Providers
    /\ Scenarios \subseteq {"stop-screen", "screen-repeat", "direct-exec", "slow-exec",
                            "silent-completion", "wraparound", "overlap"}
    /\ "overlap" \in Scenarios

VARIABLES
    part,    \* the part that this behaviour is about
    written, others, signalCli, stdout, requests, reader, held, events, rpc,
    pending, loop, next, message, handled, replies, offs, tickers, ticks, call,
    canceled,
    program, lines, early, sized, commands, streaming, settled, scrollback, printed,
    handlers, sigCount, leaving,
    client, phase, calls, apiKey, offered, bad, refusals, issued, usable, age,
    saved, cli, codex, answer, sent, mishap,
    provider, history, lastToolCallID, due, uttered,
    scenario, scriptStep, sentInputs, returned, lastTool, lastUser, bridgeDrains,
    agent, line, request, programs, retried, verdict, causes

Signal == INSTANCE SignalChat
Terminal == INSTANCE TerminalUI
Credential == INSTANCE Credentials
Dialogue == INSTANCE Conversation
Test == INSTANCE Burnin

signalVars == <<written, others, signalCli, stdout, requests, reader, held, events, rpc,
                pending, loop, next, message, handled, replies, offs, tickers, ticks, call,
                canceled>>
tuiVars == <<program, lines, early, sized, commands, streaming, settled, scrollback,
             printed, handlers, sigCount, leaving>>
credVars == <<client, phase, calls, apiKey, offered, bad, refusals, issued, usable, age,
              saved, cli, codex, answer, sent, mishap>>
convVars == <<provider, history, lastToolCallID, due, uttered>>
burninVars == <<scenario, scriptStep, sentInputs, returned, lastTool, lastUser,
                bridgeDrains, agent, line, request, programs, retried, verdict, causes>>
processVars == <<part, startVars, signalVars, tuiVars, credVars, convVars, burninVars>>

Parts == {"start", "signal", "terminal", "credentials", "conversation", "burnin"}

\* A part that stands still does so in one of its initial states.
ProcessInit ==
    /\ part \in Parts
    /\ Init /\ (part # "start" => command = "chat" /\ mode = "device")
    /\ Signal!Init
    /\ Terminal!Init
    /\ Credential!Init /\ (part # "credentials" => client = "anthropic" /\ offered = {})
    /\ Dialogue!Init /\ (part # "conversation" => provider = "anthropic")
    /\ Test!Init /\ (part # "burnin" => scenario = "overlap")

StartStep ==
    /\ part = "start" /\ Next
    /\ UNCHANGED <<part, signalVars, tuiVars, credVars, convVars, burninVars>>

SignalStep ==
    /\ part = "signal" /\ Signal!Next
    /\ UNCHANGED <<part, startVars, tuiVars, credVars, convVars, burninVars>>

TerminalStep ==
    /\ part = "terminal" /\ Terminal!Next
    /\ UNCHANGED <<part, startVars, signalVars, credVars, convVars, burninVars>>

CredentialStep ==
    /\ part = "credentials" /\ Credential!Next
    /\ UNCHANGED <<part, startVars, signalVars, tuiVars, convVars, burninVars>>

DialogueStep ==
    /\ part = "conversation" /\ Dialogue!Next
    /\ UNCHANGED <<part, startVars, signalVars, tuiVars, credVars, burninVars>>

TestStep ==
    /\ part = "burnin" /\ Test!Next
    /\ UNCHANGED <<part, startVars, signalVars, tuiVars, credVars, convVars>>

ProcessNext ==
    \/ StartStep \/ SignalStep \/ TerminalStep \/ CredentialStep \/ DialogueStep \/ TestStep

ProcessSpec == ProcessInit /\ [][ProcessNext]_processVars

-----------------------------------------------------------------------------
(* Properties: those of the parts, under their names there; OneVICE,      *)
(* LinkHasAgent, FailureExplained and Tidy are BridgeStart's own          *)

\* Every variable of every part keeps its type.
ProcessTypeOK ==
    /\ TypeOK /\ Signal!TypeOK /\ Terminal!TypeOK
    /\ Credential!TypeOK /\ Dialogue!TypeOK /\ Test!TypeOK

\* A start with an emulator ends, one that waits for a device ends with the context.
EveryStartEnds == part = "start" /\ Fairness => StartEnds

\* Signal messages are handled once and in order (runJSONRPC).
NoMessageLost == Signal!NoMessageLost

\* The typing indicator is off once, before the reply (startTypingIndicator).
OffOnceBeforeReply == Signal!OffOnceBeforeReply

\* A call of the Start loop ends unless unhandled messages fill the channel.
CallsEnd == part = "signal" /\ Signal!Fairness => Signal!CallsEnd

\* A line of output is in one place on its way to the terminal (flushScrollback).
EveryLineOnce == Terminal!EveryLineOnce

\* Early and settled lines get out while the program runs (Update).
LinesGetOut == part = "terminal" /\ Terminal!Fairness => Terminal!LinesGetOut

\* A login that works is not lost with a rotated token (loadOpenAICodexCreds).
LoginKept == Credential!LoginKept

\* The one retry of a call uses a token of its own (completeCodex).
RetryRenewed == Credential!RetryRenewed

\* A key saved while the bridge runs is used after one refusal (anthropicClient.token).
KeyPickedUp == Credential!KeyPickedUp

\* The model gets back what it said, in order, and each answer to a tool call with
\* the id of an earlier call (parseOpenAICodexSSE, buildOpenAICodexBody).
HistoryTrue == Dialogue!HistoryTrue

\* A burn-in that passes has run its programs (scriptedBurnin, runOverlapBurnin).
PassedRan == Test!PassedRan

\* A burn-in fails or hangs only on a retry or on a race of the C64 with the script.
FailsOnlyOnRace == Test!FailsOnlyOnRace
=============================================================================
