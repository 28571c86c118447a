---------------------------- MODULE BridgeStart ----------------------------
(***************************************************************************)
(* The bridge process from the command line to the running session and to  *)
(* its end: the emulator (VICE) it spawns, the serial link it waits for,   *)
(* the retries of the two, the probe of the fresh link, and what an exit   *)
(* leaves behind (src/cmd/claw64-bridge/main.go, src/bridge/serial).       *)
(***************************************************************************)
EXTENDS Naturals

CONSTANTS
    Attempts,    \* starts of VICE before the bridge gives up: 8 in the code
    Probes,      \* STATUSREQs that prime the link: 5 in the code
    Conns,       \* bound: TCP connections that one VICE makes
    Rounds,      \* bound: scenarios of a burn-in gate, each with a VICE of its own
    Commands     \* subset of {"chat", "burnin"}: what main may run

VARIABLES
    command,     \* what main runs
    mode,        \* where the C64 is: "spawn" a VICE, "listen" for one, "device"
    step,        \* where the main goroutine is
    round, attempt,
    loader,      \* the PRG: "none" yet, "given" by path, "temp" file, "removed"
    viceCmd,     \* the VICE the main goroutine knows of, 0 for none
    link,        \* connection of the returned Link, 0 for none
    err,         \* why the attempt failed
    probes,      \* STATUSREQs sent
    spawned,     \* VICE processes started so far; each is known by its number
    alive,       \* those that have not exited
    killed,      \* those that were sent a kill signal
    ln,          \* the listener of this attempt: "none", "open", "closed"
    watcher,     \* goroutine that turns the exit of VICE into a closed listener
    timer,       \* the same for the time of an attempt
    conn,        \* connections of this attempt: "none", "backlog", "reading", "ended"
    wire,        \* the byte on each that is not read yet: "none", "noise", "hello"
    spoke,       \* connections on which the agent has written its '!'
    readyConn,   \* channel of capacity 1: the connection that said hello, 0 if empty
    answers,     \* STATUSREQs that the C64 has answered
    interrupted  \* the context is done: SIGINT or SIGTERM

mainVars == <<command, mode, step, round, attempt, loader, viceCmd, link, err, probes>>
viceVars == <<spawned, alive, killed>>
closers == <<ln, watcher, timer>>
connVars == <<conn, wire, spoke, readyConn>>
startVars == <<mainVars, viceVars, closers, connVars, answers, interrupted>>

Vices == 1..Rounds * Attempts
Conn == 1..Conns
Ended == {"exited", "fatal", "gaveup"}

FreshConns ==
    /\ conn' = [c \in Conn |-> "none"] /\ wire' = [c \in Conn |-> "none"]
    /\ spoke' = {} /\ readyConn' = 0

Init ==
    /\ command \in Commands /\ mode \in {"spawn", "listen", "device"}
    /\ step = "loader" /\ round = 1 /\ attempt = 1
    /\ loader = "none" /\ viceCmd = 0 /\ link = 0 /\ err = "none" /\ probes = 0
    /\ spawned = 0 /\ alive = {} /\ killed = {}
    /\ ln = "none" /\ watcher = "off" /\ timer = "off"
    /\ conn = [c \in Conn |-> "none"] /\ wire = [c \in Conn |-> "none"]
    /\ spoke = {} /\ readyConn = 0 /\ answers = 0 /\ interrupted = FALSE

-----------------------------------------------------------------------------
(* VICE, the agent in it and the user: they move at any time *)

\* A VICE exits when it was killed; it may crash or be closed before.
Exits(v) ==
    /\ v \in alive
    /\ alive' = alive \ {v}
    /\ UNCHANGED <<spawned, killed, connVars, answers, interrupted>>

\* VICE connects when the C64 opens its RS232 device: first a probe at boot.
\* A VICE that the user started himself does the same.  What comes after the
\* handshake belongs to the relay.
Connects(c) ==
    /\ link = 0 /\ ln = "open" /\ conn[c] = "none"
    /\ \A b \in Conn : b < c => conn[b] # "none"
    /\ mode = "spawn" => viceCmd \in alive
    /\ conn' = [conn EXCEPT ![c] = "backlog"]
    /\ UNCHANGED <<viceVars, wire, spoke, readyConn, answers, interrupted>>

\* The line carries garbage, or the '!' of an agent that has opened the device.
Speaks(c, byte) ==
    /\ link = 0 /\ conn[c] = "reading" /\ wire[c] = "none" /\ c \notin spoke
    /\ mode = "spawn" => viceCmd \in alive
    /\ wire' = [wire EXCEPT ![c] = byte]
    /\ spoke' = IF byte = "hello" THEN spoke \union {c} ELSE spoke
    /\ UNCHANGED <<viceVars, conn, readyConn, answers, interrupted>>

\* The C64 answers a STATUSREQ that reached it, soon or late.
Answers ==
    /\ step = "prime" /\ answers < probes
    /\ answers' = answers + 1
    /\ UNCHANGED <<viceVars, connVars, interrupted>>

\* Nothing but the wait for a device looks at the context before the session.
Interrupt ==
    /\ command = "chat" /\ mode = "device" /\ ~interrupted /\ step \notin Ended
    /\ interrupted' = TRUE
    /\ UNCHANGED <<viceVars, connVars, answers>>

Environment ==
    /\ \/ \E v \in Vices : Exits(v)
       \/ \E c \in Conn : Connects(c) \/ Speaks(c, "noise") \/ Speaks(c, "hello")
       \/ Answers
       \/ Interrupt
    /\ UNCHANGED <<mainVars, closers>>

-----------------------------------------------------------------------------
(* The goroutines of an attempt *)

Closed(listener) == IF listener = "open" THEN "closed" ELSE listener

\* Mutant: Accept fails before the reason is there to be read.
WatchExitLate ==
    /\ \/ watcher = "armed" /\ viceCmd \notin alive
          /\ watcher' = "closing" /\ ln' = Closed(ln)
       \/ watcher = "closing" /\ watcher' = "told" /\ UNCHANGED ln
    /\ UNCHANGED timer

\* The exit of VICE is reported, then the listener is closed.
WatchExit ==
    /\ \/ watcher = "armed" /\ viceCmd \notin alive
          /\ watcher' = "told" /\ UNCHANGED ln
       \/ watcher = "told" /\ watcher' = "closed" /\ ln' = Closed(ln)
    /\ UNCHANGED timer

\* Mutant: the listener stays open.
TimeRunsOutUnheard ==
    /\ \/ timer = "armed" /\ timer' = "told"
       \/ timer = "told" /\ timer' = "closed"
    /\ UNCHANGED <<ln, watcher>>

\* The timer marks the time as over, then closes the listener.
TimeRunsOut ==
    /\ \/ timer = "armed" /\ timer' = "told" /\ UNCHANGED ln
       \/ timer = "told" /\ timer' = "closed" /\ ln' = Closed(ln)
    /\ UNCHANGED watcher

\* Mutant: the byte is not looked at.
IsHelloAny(byte) == byte # "none"

IsHello(byte) == byte = "hello"

\* A connection is read until it says hello: the first one that does is kept.
ReadByte(c) ==
    /\ conn[c] = "reading" /\ wire[c] # "none"
    /\ wire' = [wire EXCEPT ![c] = "none"]
    /\ IF IsHello(wire[c])
       THEN /\ conn' = [conn EXCEPT ![c] = "ended"]
            /\ readyConn' = IF readyConn = 0 THEN c ELSE readyConn
       ELSE UNCHANGED <<conn, readyConn>>
    /\ UNCHANGED spoke

\* VICE drops a connection, or exits.
ReadEOF(c) ==
    /\ conn[c] = "reading" /\ wire[c] = "none"
    /\ conn' = [conn EXCEPT ![c] = "ended"]
    /\ UNCHANGED <<wire, spoke, readyConn>>

elsewhere == <<mainVars, viceVars, answers, interrupted>>
Watcher == WatchExit /\ UNCHANGED <<connVars, elsewhere>>
Timer == TimeRunsOut /\ UNCHANGED <<connVars, elsewhere>>
Reader(c) == (ReadByte(c) \/ ReadEOF(c)) /\ UNCHANGED <<closers, elsewhere>>

Goroutines == Watcher \/ Timer \/ \E c \in Conn : Reader(c)

-----------------------------------------------------------------------------
(* The main goroutine: startSerialLink, startSpawnedSerialLink *)

\* loaderPRGPath: a file of the user or of the repository, or a temporary copy.
FindLoader ==
    /\ step = "loader"
    /\ IF mode = "spawn" THEN loader' \in {"given", "temp"} ELSE UNCHANGED loader
    /\ step' = IF mode = "device" THEN "open" ELSE "listen"
    /\ UNCHANGED <<command, mode, round, attempt, viceCmd, link, err, probes,
                   viceVars, closers, connVars>>

Fail(reason) ==
    /\ err' = reason
    /\ step' = IF mode = "spawn" THEN "kill" ELSE "gaveup"

\* The port may be taken.
Listen ==
    /\ step = "listen"
    /\ viceCmd' = 0
    /\ \/ /\ ln' = "open" /\ watcher' = "off" /\ timer' = "off" /\ FreshConns
          /\ step' = IF mode = "spawn" THEN "spawn" ELSE "select"
          /\ UNCHANGED err
       \/ Fail("listen") /\ UNCHANGED <<closers, connVars>>
    /\ UNCHANGED <<command, mode, round, attempt, loader, link, probes, viceVars>>

\* spawnVICE; the watcher and the timer of the attempt start.
Spawn ==
    /\ step = "spawn"
    /\ \/ /\ spawned' = spawned + 1 /\ viceCmd' = spawned + 1
          /\ alive' = alive \union {spawned + 1}
          /\ watcher' = "armed" /\ timer' = "armed"
          /\ step' = "select"
          /\ UNCHANGED <<killed, err, ln>>
       \/ Fail("spawn") /\ ln' = "closed" /\ UNCHANGED <<viceVars, viceCmd, watcher, timer>>
    /\ UNCHANGED <<command, mode, round, attempt, loader, link, probes, connVars>>

\* waitForHandshake: a look at the channel, then up to 500 ms in Accept.
SelectReady ==
    /\ step = "select"
    /\ IF readyConn # 0
       THEN /\ link' = readyConn /\ step' = "prime" /\ probes' = 0
            /\ timer' = IF timer = "armed" THEN "off" ELSE timer
       ELSE step' = "accept" /\ UNCHANGED <<link, probes, timer>>
    /\ UNCHANGED <<command, mode, round, attempt, loader, viceCmd, err, viceVars, ln,
                   watcher, connVars>>

\* A closed listener fails, a new connection gets a reader of its own and the
\* time may be over.  A connection is never closed: VICE would stop its device.
Accept ==
    /\ step = "accept"
    /\ IF ln = "closed"
       THEN step' = "classify" /\ UNCHANGED conn
       ELSE /\ step' = "select"
            /\ \/ \E c \in Conn :
                    conn[c] = "backlog" /\ conn' = [conn EXCEPT ![c] = "reading"]
               \/ UNCHANGED conn
    /\ UNCHANGED <<command, mode, round, attempt, loader, viceCmd, link, err, probes,
                   viceVars, closers, wire, spoke, readyConn>>

\* ListenAndStartUntilTimeout: the reason for the closed listener.
Classify ==
    /\ step = "classify"
    /\ Fail(IF timer \in {"told", "closed"} THEN "timeout"
            ELSE IF watcher \in {"told", "closed"} THEN "exit" ELSE "accept")
    /\ UNCHANGED <<command, mode, round, attempt, loader, viceCmd, link, probes,
                   viceVars, closers, connVars>>

\* stopVICE kills; with no VICE it does nothing.
Kill ==
    /\ step = "kill"
    /\ killed' = killed \union (alive \intersect {viceCmd})
    /\ step' = "wait"
    /\ UNCHANGED <<command, mode, round, attempt, loader, viceCmd, link, err, probes,
                   spawned, alive, closers, connVars>>

\* Mutant: the killed process is not waited for.
VICEGoneAnyway == TRUE

\* stopVICE waits for the process it killed.
VICEGone == viceCmd \notin alive

\* Mutant: the temporary loader is forgotten.
CleanUpNothing == UNCHANGED loader

\* The link is closed and the temporary loader removed.
CleanUp == loader' = IF loader = "temp" THEN "removed" ELSE loader

\* After a failed attempt the next one follows, or the last one gives up; after a
\* session the process ends, or a burn-in goes on with its next scenario.
Stopped ==
    /\ step = "wait" /\ VICEGone
    /\ IF link = 0
       THEN IF attempt < Attempts
            THEN step' = "listen" /\ attempt' = attempt + 1 /\ UNCHANGED <<loader, round>>
            ELSE step' = "gaveup" /\ CleanUp /\ UNCHANGED <<attempt, round>>
       ELSE /\ CleanUp
            /\ IF command = "burnin" /\ round < Rounds
               THEN step' = "loader" /\ round' = round + 1 /\ attempt' = 1
               ELSE step' = "exited" /\ UNCHANGED <<round, attempt>>
    /\ link' = 0
    /\ ln' = IF link = 0 THEN ln ELSE Closed(ln)
    /\ UNCHANGED <<command, mode, viceCmd, err, probes, viceVars, watcher, timer, connVars>>

-----------------------------------------------------------------------------
(* OpenDeviceContext: a real C64 at a serial device *)

OpenDevice ==
    /\ step = "open"
    /\ IF interrupted
       THEN Fail("canceled") /\ UNCHANGED connVars
       ELSE \/ /\ conn' = [c \in Conn |-> IF c = 1 THEN "reading" ELSE "none"]
               /\ wire' = [c \in Conn |-> "none"] /\ spoke' = {} /\ readyConn' = 0
               /\ step' = "device" /\ UNCHANGED err
            \/ /\ IF err = "none" THEN Fail("open") ELSE UNCHANGED <<step, err>>
               /\ UNCHANGED connVars
    /\ UNCHANGED <<command, mode, round, attempt, loader, viceCmd, link, probes,
                   viceVars, closers>>

\* waitForHandshakeFile polls every 50 ms; a device that fails is opened again.
PollDevice ==
    /\ step = "device"
    /\ \/ interrupted /\ Fail("canceled") /\ UNCHANGED <<link, probes>>
       \/ readyConn = 1 /\ step' = "prime" /\ link' = 1 /\ probes' = 0 /\ UNCHANGED err
       \/ conn[1] = "ended" /\ readyConn = 0 /\ step' = "open" /\ err' = "device"
          /\ UNCHANGED <<link, probes>>
    /\ UNCHANGED <<command, mode, round, attempt, loader, viceCmd, viceVars, closers, connVars>>

-----------------------------------------------------------------------------
(* runChatBridge, runBurninScenarios *)

\* Mutant: one attempt too many.
ProbesLeftOneMore == probes <= Probes

ProbesLeft == probes < Probes

\* PrimeTransport repeats the request until an answer comes in time.
Prime ==
    /\ step = "prime" /\ ProbesLeft
    /\ probes' = probes + 1
    /\ UNCHANGED <<command, mode, step, round, attempt, loader, viceCmd, link, err,
                   viceVars, closers, connVars>>

\* A link that does not answer ends a burn-in; a chat starts all the same.
Primed ==
    /\ step = "prime" /\ probes > 0
    /\ \/ answers > 0 /\ step' = "run"
       \/ answers = 0 /\ probes = Probes /\ step' = IF command = "chat" THEN "run" ELSE "fatal"
    /\ UNCHANGED <<command, mode, round, attempt, loader, viceCmd, link, err, probes,
                   viceVars, closers, connVars>>

\* The front end or the scenario ends.  log.Fatalf runs no deferred call.
Run ==
    /\ step = "run"
    /\ step' \in {"kill", "fatal"}
    /\ UNCHANGED <<command, mode, round, attempt, loader, viceCmd, link, err, probes,
                   viceVars, closers, connVars>>

Main ==
    /\ \/ FindLoader \/ Listen \/ Spawn \/ SelectReady \/ Accept \/ Classify
       \/ Kill \/ Stopped \/ OpenDevice \/ PollDevice \/ Prime \/ Primed \/ Run
    /\ answers' = IF step' = "prime" THEN answers ELSE 0
    /\ UNCHANGED interrupted

Next == Environment \/ Goroutines \/ Main

Spec == Init /\ [][Next]_startVars

\* The scheduler runs every goroutine, timers run out, a killed process exits.
Fairness ==
    /\ WF_startVars(Main) /\ WF_startVars(Watcher) /\ WF_startVars(Timer)
    /\ \A c \in Conn : WF_startVars(Reader(c))
    /\ \A v \in Vices : WF_startVars(v \in killed /\ Exits(v) /\ UNCHANGED <<mainVars, closers>>)

FairSpec == Spec /\ Fairness

-----------------------------------------------------------------------------
(* Properties *)

TypeOK ==
    /\ command \in {"chat", "burnin"} /\ mode \in {"spawn", "listen", "device"}
    /\ step \in Ended \union {"loader", "listen", "spawn", "select", "accept", "classify",
                              "kill", "wait", "open", "device", "prime", "run"}
    /\ round \in 1..Rounds /\ attempt \in 1..Attempts
    /\ loader \in {"none", "given", "temp", "removed"}
    /\ spawned \in 0..Rounds * Attempts /\ viceCmd \in 0..spawned
    /\ alive \subseteq 1..spawned /\ killed \subseteq 1..spawned
    /\ err \in {"none", "listen", "spawn", "timeout", "exit", "accept", "canceled", "open",
                "device"}
    /\ ln \in {"none", "open", "closed"}
    /\ watcher \in {"off", "armed", "told", "closed"}
    /\ timer \in {"off", "armed", "told", "closed"}
    /\ conn \in [Conn -> {"none", "backlog", "reading", "ended"}]
    /\ wire \in [Conn -> {"none", "noise", "hello"}]
    /\ spoke \subseteq Conn /\ readyConn \in 0..Conns /\ link \in 0..Conns
    /\ probes \in 0..Probes /\ answers \in 0..Probes /\ interrupted \in BOOLEAN

\* The emulators of two attempts or two scenarios never run side by side: they
\* would share the serial and the monitor port (stopVICE).
OneVICE == \A v, w \in alive : v = w

\* The link that is handed to the relay is one on which the agent has said hello
\* in this attempt (waitForTCPHandshakeByte).
LinkHasAgent == link # 0 => link \in spoke

\* A failed start is blamed on the time or on the exit of VICE, never on the
\* listener that was closed for it (ListenAndStartUntilTimeout).
FailureExplained == err # "accept"

\* The temporary loader is there as long as a VICE may still read it, and an end
\* other than log.Fatal in the session leaves neither it nor a VICE behind.
Tidy ==
    /\ loader = "removed" => alive = {}
    /\ step \in {"exited", "gaveup"} => alive = {} /\ loader # "temp"

\* A start with a VICE of its own ends whatever VICE and the C64 do; one that
\* waits for a device ends with the context (startSpawnedSerialLink).
StartEnds ==
    /\ (step = "loader" /\ mode = "spawn") ~> (step \in Ended \union {"prime"})
    /\ (interrupted /\ mode = "device") ~> (step \in Ended \union {"prime", "run"})
=============================================================================
