-------------------------------- MODULE Burnin --------------------------------
(***************************************************************************)
(* The burn-in test (src/cmd/claw64-bridge/burnin.go): a script in place   *)
(* of the language model, the inputs it is driven with, and what it takes  *)
(* for a pass, against a C64 that answers as the agent does.  The C64 and  *)
(* the line are reduced to what a script can tell apart; Session has them  *)
(* in full.                                                                *)
(***************************************************************************)
EXTENDS Naturals, Sequences

CONSTANTS
    Scenarios,    \* scenarios to run; "overlap" stands for all that overlap
    Checks,       \* lines that "wraparound" stores: 20 in the code
    Runs,         \* totalRuns of the overlap scenario: 2 to 24 in the code
    KeptSlots     \* messages that the C64 keeps while it is busy: 3

VARIABLES
    scenario, scriptStep,
    sentInputs,     \* inputs sent to the C64, from the front of Inputs
    returned,       \* calls of HandleMessageStream that returned
    lastTool,       \* content of the last tool message in the history
    lastUser,       \* and of the last user message
    bridgeDrains,   \* the bridge knows that BASIC runs
    agent,          \* the C64
    line,           \* frames on their way to the bridge
    request,        \* what the bridge has on its way to the C64, "none" for nothing
    programs,       \* RUNs that have ended
    retried,        \* the first frame that was delivered at a second attempt
    verdict,        \* "running", "draining", "passed", "failed"
    causes          \* what a failure can be put down to: "late", "overtaken"

burninVars == <<scenario, scriptStep, sentInputs, returned, lastTool, lastUser,
                bridgeDrains, agent, line, request, programs, retried, verdict, causes>>
runVars == <<scenario, sentInputs>>
scriptVars == <<scriptStep, lastTool, lastUser, bridgeDrains>>

-----------------------------------------------------------------------------
(* The scripts *)

\* burninInputs, and the messages of runOverlapBurnin.
Inputs ==
    CASE scenario = "silent-completion" -> <<"silent">>
      [] scenario = "direct-exec" -> <<"warmup", "program", "run">>
      [] scenario = "slow-exec" -> <<"warmup", "slow">>
      [] scenario = "wraparound" -> <<"warmup", "wrap">>
      [] scenario = "overlap" -> <<"warmup", "program">> \o [i \in 1..Runs - 1 |-> "run"]
      [] OTHER -> <<"warmup">>

\* A rule: at a step, with what a message has to be, the answer and the next step.
Rule(at, on, say, to) == [at |-> at, on |-> on, say |-> say, to |-> to]
Started == {"start"}                 \* no message is looked at
Screens == {"output", "screenshot"}

\* Program lines at steps from..to, each after the one before is stored.
Stores(from, to) == {Rule(i, {"STORED"}, "line", i + 1) : i \in from..to}

\* After RUNNING the status is asked for until READY, then the screen.
Drained(step, late, done) ==
    {Rule(step, {"RUNNING", "STOP REQUESTED"}, "status", step),
     Rule(step, {"READY"}, "screen", step + 1),
     Rule(step, late, "text", step), Rule(step + 1, Screens, "text", done)}

StopScreen ==
    {Rule(0, Started, "line", 1), Rule(3, {"STORED"}, "run", 4),
     Rule(4, {"RUNNING"}, "stop", 5), Rule(5, {"STOP REQUESTED"}, "status", 6)}
    \union Stores(1, 2) \union Drained(6, {}, 7)

ScreenRepeat ==
    {Rule(0, Started, "line", 1), Rule(2, {"STORED"}, "print", 3),
     Rule(3, {"output"}, "screen", 4), Rule(4, {"screenshot"}, "screen", 5),
     Rule(5, {"screenshot"}, "text", 5)}
    \union Stores(1, 1)

DirectExec ==
    {Rule(0, Started, "print", 1), Rule(1, {"output"}, "print", 2),
     Rule(2, {"output"}, "text", 3), Rule(3, {"program"}, "line", 4),
     Rule(10, {"STORED"}, "print", 11), Rule(11, {"output"}, "text", 12),
     Rule(12, {"run"}, "run", 13), Rule(13, {"output"}, "text", 13),
     Rule(13, {"RUNNING"}, "status", 14)}
    \union Stores(4, 9) \union Drained(14, {}, 15)

\* Mutant: a result that comes while the status is asked for is an error.
LateSlowResultsNot == {}

\* slowExecResultLooksDone at any time.
LateSlowResults == Screens

SlowExec ==
    {Rule(0, Started, "text", 1), Rule(1, {"slow"}, "slow", 2),
     Rule(2, {"output"}, "text", 2), Rule(2, {"RUNNING"}, "status", 3)}
    \union Drained(3, LateSlowResults, 4)

SilentCompletion == {Rule(0, {"silent"}, "silent", 1)}

Wraparound ==
    {Rule(0, Started, "text", 1), Rule(1, {"wrap"}, "line", 2),
     Rule(Checks + 1, {"STORED"}, "text", Checks + 1)}
    \union Stores(2, Checks)

\* Mutant: the next run starts a step late.
NextRunLate(run, step) == IF run < Runs THEN 10 + (run - 1) * 4 ELSE step

\* completeOverlapRun: the first step of the run after this one, if there is one.
NextRun(run, step) == IF run < Runs THEN 9 + (run - 1) * 4 ELSE step

\* completeOverlapRunStep: run 2 to Runs have four steps each from step 9 on.
OverlapRun(run) ==
    LET base == 9 + (run - 2) * 4
    IN  {Rule(base, {"run"}, "run", base + 1),
         Rule(base + 1, {"output"}, "text", NextRun(run, base + 1)),
         Rule(base + 1, {"RUNNING"}, "status", base + 2)}
        \union Drained(base + 2, {}, NextRun(run, base + 3))

OverlapQueue ==
    {Rule(0, {"warmup"}, "text", 0), Rule(0, {"program"}, "line", 1),
     Rule(7, {"STORED"}, "print", 8), Rule(8, {"output"}, "text", 9)}
    \union Stores(1, 6) \union UNION {OverlapRun(run) : run \in 2..Runs}

Script ==
    CASE scenario = "stop-screen" -> StopScreen
      [] scenario = "screen-repeat" -> ScreenRepeat
      [] scenario = "direct-exec" -> DirectExec
      [] scenario = "slow-exec" -> SlowExec
      [] scenario = "silent-completion" -> SilentCompletion
      [] scenario = "wraparound" -> Wraparound
      [] OTHER -> OverlapQueue

\* scriptedBurnin.Complete: what the history has last decides.
Applies(rule) ==
    rule.at = scriptStep /\ (rule.on = Started \/ {lastTool', lastUser'} \intersect rule.on # {})

\* The number of the run whose completion a text reports.
RunOfStep == IF scriptStep < 9 THEN IF scriptStep = 8 THEN 1 ELSE 0
             ELSE ((scriptStep - 9) \div 4) + 2

\* waitOne: a text has to report the run of the call that gets it.
RightText == scenario = "overlap" /\ returned > 0 => RunOfStep = returned

Init ==
    /\ scenario \in Scenarios /\ scriptStep = 0
    /\ sentInputs = 0 /\ returned = 0
    /\ lastTool = "none" /\ lastUser = "none" /\ bridgeDrains = FALSE
    /\ agent = [basic |-> "ready", busy |-> FALSE, kept |-> <<>>, status |-> "none",
                result |-> "none", event |-> "none"]
    /\ line = <<>> /\ request = "none"
    /\ programs = 0 /\ retried = "none" /\ verdict = "running" /\ causes = {}

-----------------------------------------------------------------------------
(* The C64: see C64Agent *)

Idle == agent.basic = "ready"

\* A command of the scripts ends soon, a program ends, that of stop-screen when it
\* is stopped.  The output is sent, unless RUNNING was reported and the end noticed
\* by the interrupt.
BasicEnds ==
    /\ agent.basic \in {"command", "program", "detached", "stopping"}
    /\ scenario = "stop-screen" => agent.basic \in {"command", "stopping"}
    /\ programs' = IF agent.basic = "command" THEN programs ELSE programs + 1
    /\ \E output \in {"output", agent.result}, busy \in {agent.busy, FALSE} :
        /\ output = "output" \/ agent.basic \in {"detached", "stopping"}
        /\ agent' = [agent EXCEPT !.basic = "ready", !.result = output, !.busy = busy]
        /\ causes' = causes \union
                        IF agent.basic \in {"detached", "stopping"} /\ output = "output"
                        THEN {"late"} ELSE {}
    /\ UNCHANGED <<runVars, returned, scriptVars, line, request, retried, verdict>>

\* The agent reports a program that takes long, and takes messages again.
ReportRunning ==
    /\ agent.basic = "program"
    /\ agent' = [agent EXCEPT !.basic = "detached", !.status = "RUNNING", !.busy = FALSE]
    /\ UNCHANGED <<runVars, returned, scriptVars, line, request, programs, retried, verdict,
                   causes>>

\* A message is forwarded, or kept while the agent is busy; the oldest makes room.
TakeMsg(kind) ==
    agent' = IF ~agent.busy THEN [agent EXCEPT !.event = kind, !.busy = TRUE]
             ELSE [agent EXCEPT !.kept =
                    Append(IF Len(@) = KeptSlots THEN Tail(@) ELSE @, kind)]

\* EXEC: a program line is stored at once here, a command and a program start.
Execute ==
    agent' = IF ~Idle THEN [agent EXCEPT !.status = "BUSY"]
             ELSE CASE request = "line"  -> [agent EXCEPT !.status = "STORED", !.busy = FALSE]
                    [] request = "print" -> [agent EXCEPT !.basic = "command"]
                    [] OTHER             -> [agent EXCEPT !.basic = "program"]

\* STOP, SCREENSHOT and STATUSREQ.
Probe ==
    agent' = CASE request = "stop" -> [agent EXCEPT !.status = "STOP REQUESTED",
                                        !.basic = IF Idle THEN @ ELSE "stopping"]
               [] request = "screen" /\ Idle -> [agent EXCEPT !.result = "screenshot"]
               [] OTHER -> [agent EXCEPT !.status = IF Idle THEN "READY" ELSE "RUNNING"]

\* TEXT and DONE take a message that was kept from the queue, and drop it
\* (UserQueue): its call gets no answer.
EndTurn ==
    agent' = [agent EXCEPT !.busy = FALSE, !.kept = IF @ = <<>> THEN @ ELSE Tail(@)]

\* The order of the agent.
Frames == <<"status", "result", "event">>

SendFrame ==
    /\ Len(line) < 2
    /\ \E i \in 1..3 :
        /\ agent[Frames[i]] # "none" /\ \A j \in 1..i - 1 : agent[Frames[j]] = "none"
        /\ line' = Append(line, [type |-> Frames[i], text |-> agent[Frames[i]]])
        /\ agent' = [agent EXCEPT ![Frames[i]] = "none"]
    /\ UNCHANGED <<runVars, returned, scriptVars, request, programs, retried, verdict, causes>>

-----------------------------------------------------------------------------
(* The bridge: HandleMessageStream with the script in place of the model *)

\* runBurninScenario sends an input when the call before has returned.  Those of
\* runOverlapBurnin wait for the gate, or overlap while the bridge knows of a
\* running program.
SendInput ==
    /\ verdict = "running" /\ sentInputs < Len(Inputs)
    /\ \/ sentInputs = returned
       \/ scenario = "overlap" /\ bridgeDrains /\ sentInputs = returned + 1
    /\ sentInputs' = sentInputs + 1
    /\ TakeMsg(Inputs[sentInputs + 1])
    /\ UNCHANGED <<scenario, returned, scriptVars, line, request, programs, retried, verdict,
                   causes>>

\* A frame leads to a call of Complete; an error of the script is fatal.
TakeFrame ==
    /\ verdict = "running" /\ returned < sentInputs /\ request = "none" /\ line # <<>>
    /\ line' = Tail(line)
    /\ LET frame == Head(line)
       IN  /\ lastTool' = IF frame.type = "event" THEN lastTool ELSE frame.text
           /\ lastUser' = IF frame.type = "event" THEN frame.text ELSE lastUser
           /\ bridgeDrains' = CASE frame.type = "event" -> bridgeDrains
                                [] frame.type = "result" -> FALSE
                                [] OTHER -> frame.text \in {"RUNNING", "STOP REQUESTED"}
           /\ causes' = causes \union
                IF frame.type = "event" /\ sentInputs > returned + 1 THEN {"overtaken"} ELSE {}
    /\ \/ \E rule \in Script :
            Applies(rule) /\ request' = rule.say /\ scriptStep' = rule.to
            /\ verdict' = IF rule.say # "text" \/ RightText THEN verdict ELSE "failed"
       \/ /\ ~\E rule \in Script : Applies(rule)
          /\ verdict' = "failed"
          /\ UNCHANGED <<scriptStep, request>>
    /\ UNCHANGED <<runVars, returned, agent, programs, retried>>

\* The command comes to the C64; a text is shown and ends the call, and so does
\* an answer without one.
Deliver ==
    /\ verdict = "running" /\ request # "none" /\ request' = "none"
    /\ \/ request \in {"text", "silent"} /\ EndTurn /\ returned' = returned + 1
       \/ request \in {"line", "print", "run", "slow"} /\ Execute /\ UNCHANGED returned
       \/ request \in {"status", "screen", "stop"} /\ Probe /\ UNCHANGED returned
    /\ UNCHANGED <<runVars, scriptVars, line, programs, retried, verdict, causes>>

\* DeliveryRetry: a frame was not confirmed in time and is sent again.
Retry(name) ==
    /\ verdict = "running" /\ retried = "none" /\ sentInputs > 0
    /\ retried' = name
    /\ UNCHANGED <<runVars, returned, scriptVars, agent, line, request, programs, verdict, causes>>

\* failOnUnexpectedDeliveryRetries.
Tolerable(name) == name \in {"none", "STATUS", "TEXT"}

Finish ==
    /\ verdict = "running" /\ returned = Len(Inputs)
    /\ verdict' = IF Tolerable(retried) THEN "draining" ELSE "failed"
    /\ UNCHANGED <<runVars, returned, scriptVars, agent, line, request, programs, retried,
                   causes>>

Silent == \A i \in 1..3 : agent[Frames[i]] = "none"

\* DrainTransport drops frames until none comes for a while.
Drain ==
    /\ verdict = "draining"
    /\ IF line = <<>>
       THEN Silent /\ verdict' = "passed" /\ UNCHANGED line
       ELSE line' = Tail(line) /\ UNCHANGED verdict
    /\ UNCHANGED <<runVars, returned, scriptVars, agent, request, programs, retried, causes>>

Next ==
    \/ BasicEnds \/ ReportRunning \/ SendFrame \/ SendInput \/ TakeFrame \/ Deliver
    \/ Finish \/ Drain
    \/ \E name \in {"STATUS", "TEXT", "EXEC"} : Retry(name)

Spec == Init /\ [][Next]_burninVars

-----------------------------------------------------------------------------
(* Properties *)

Programs ==
    CASE scenario = "overlap" -> Runs - 1
      [] scenario \in {"stop-screen", "direct-exec", "slow-exec"} -> 1
      [] OTHER -> 0

TypeOK ==
    /\ scenario \in Scenarios /\ scriptStep \in 0..9 + 4 * Runs + Checks
    /\ returned \in 0..sentInputs /\ sentInputs \in 0..Len(Inputs)
    /\ agent.basic \in {"ready", "command", "program", "detached", "stopping"}
    /\ Len(agent.kept) <= KeptSlots /\ agent.result \in Screens \union {"none"}
    /\ {agent.busy, bridgeDrains} \subseteq BOOLEAN
    /\ causes \subseteq {"late", "overtaken"}
    /\ programs \in 0..Programs
    /\ verdict \in {"running", "draining", "passed", "failed"}

\* A scenario that passes has run its programs to their end, and nothing but a STATUS
\* or a TEXT was delivered twice.  One way is known in which a run is missing: in an
\* overlap scenario a program sends its output although it was reported as RUNNING,
\* and that is taken for the output of the run after it, which looks the same.
PassedRan ==
    verdict \in {"draining", "passed"} =>
        /\ programs = Programs \/ (scenario = "overlap" /\ "late" \in causes)
        /\ retried \in {"none", "STATUS", "TEXT"}

\* Nothing is on its way that the scenario waits for.
Hangs ==
    /\ verdict = "running" /\ Idle /\ returned < sentInputs
    /\ Silent /\ line = <<>> /\ request = "none"
    /\ ~(scenario = "overlap" /\ bridgeDrains /\ sentInputs = returned + 1)

\* A scenario fails or hangs only if a frame was delivered twice, a program sent its
\* output after RUNNING to a script that does not wait for it, or the message of the
\* next call came to the script before it had answered that of the call before.
FailsOnlyOnRace ==
    verdict = "failed" \/ Hangs =>
        \/ retried # "none" \/ "overtaken" \in causes
        \/ "late" \in causes /\ scenario # "slow-exec"
=============================================================================
