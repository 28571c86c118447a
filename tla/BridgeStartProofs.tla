------------------------- MODULE BridgeStartProofs -------------------------
(***************************************************************************)
(* Proofs about BridgeStart, for any number of attempts, connections and   *)
(* rounds: the emulator, the temporary loader and the link are the main    *)
(* goroutine's, although VICE, the agent and the goroutines of an attempt  *)
(* move at any time.                                                       *)
(***************************************************************************)
EXTENDS BridgeStart, TLAPS

Starting == {"loader", "listen", "spawn", "select", "accept", "classify", "open", "device"}

Types ==
    /\ mode \in {"spawn", "listen", "device"}
    /\ spawned \in Nat
    /\ wire \in [Conn -> {"none", "noise", "hello"}]

\* At most the VICE that the main goroutine knows of is alive, and none where
\* the next one is started or the process has ended.
ViceInv ==
    /\ alive \subseteq {viceCmd} \ {0}
    /\ step \in {"loader", "listen", "spawn", "exited", "gaveup"} => alive = {}
    /\ mode # "spawn" => alive = {}
    /\ step = "spawn" => mode = "spawn"

\* A loader is only removed where no VICE is left.
LoaderInv ==
    /\ mode # "spawn" => loader = "none"
    /\ loader = "removed" => step \in {"loader", "exited", "gaveup"}
    /\ step \in {"exited", "gaveup"} => loader # "temp"

\* A hello on its way to the link was written by the agent in this attempt.
LinkInv ==
    /\ step \in Starting => link = 0
    /\ link # 0 => link \in spoke
    /\ readyConn # 0 => readyConn \in spoke
    /\ \A c \in Conn : wire[c] = "hello" => c \in spoke

\* While an attempt goes on, only its watcher or its timer closes the listener, and
\* whoever did so has given its reason before.
CloserInv ==
    /\ step = "spawn" => ln = "open" /\ watcher = "off" /\ timer = "off"
    /\ step \in {"select", "accept"} /\ ln = "closed" => "closed" \in {watcher, timer}
    /\ step = "classify" => "closed" \in {watcher, timer}
    /\ err # "accept"

IInv == Types /\ ViceInv /\ LoaderInv /\ LinkInv

\* The start of the process.
LEMMA InitInv == Init => IInv
  BY DEF Init, IInv, Types, ViceInv, LoaderInv, LinkInv, Starting, Conn

\* VICE, the agent and the user: an exit only makes alive smaller, a hello is
\* written by a connection that has spoken from then on.
LEMMA EnvironmentInv == IInv /\ Environment => IInv'
<1> SUFFICES ASSUME IInv, Environment PROVE IInv'
  OBVIOUS
<1> USE DEF IInv, Types, ViceInv, LoaderInv, LinkInv, mainVars, closers
<1>1. ASSUME NEW v \in Vices, Exits(v) PROVE IInv'
  BY <1>1 DEF Environment, Exits, connVars
<1>2. ASSUME NEW c \in Conn, Connects(c) PROVE IInv'
  BY <1>2 DEF Environment, Connects, viceVars
<1>3. ASSUME NEW c \in Conn, NEW byte \in {"noise", "hello"}, Speaks(c, byte) PROVE IInv'
  <2>1. /\ wire' = [wire EXCEPT ![c] = byte]
        /\ spoke \subseteq spoke'
        /\ byte = "hello" => c \in spoke'
        /\ readyConn' = readyConn
    BY <1>3 DEF Speaks
  <2>2. wire' \in [Conn -> {"none", "noise", "hello"}]
    BY <2>1
  <2>3. \A d \in Conn : wire'[d] = "hello" => d \in spoke'
    BY <2>1
  <2> QED
    BY <1>3, <2>1, <2>2, <2>3 DEF Environment, Speaks, viceVars
<1>4. CASE Answers
  BY <1>4 DEF Environment, Answers, viceVars, connVars
<1>5. CASE Interrupt
  BY <1>5 DEF Environment, Interrupt, viceVars, connVars
<1> QED
  BY <1>1, <1>2, <1>3, <1>4, <1>5 DEF Environment

\* The goroutines of an attempt: the watchers touch the listener only, and a
\* reader puts a connection into the channel after it has read its hello.
LEMMA GoroutinesInv == IInv /\ Goroutines => IInv'
<1> SUFFICES ASSUME IInv, Goroutines PROVE IInv'
  OBVIOUS
<1> USE DEF IInv, Types, ViceInv, LoaderInv, LinkInv, elsewhere, mainVars, viceVars
<1>1. CASE Watcher \/ Timer
  BY <1>1 DEF Watcher, Timer, connVars
<1>2. ASSUME NEW c \in Conn, Reader(c) PROVE IInv'
  <2>1. UNCHANGED <<mode, step, loader, viceCmd, link, spawned, alive, spoke>>
    BY <1>2 DEF Reader, ReadByte, ReadEOF
  <2>2. /\ wire' \in [Conn -> {"none", "noise", "hello"}]
        /\ \A d \in Conn : wire'[d] = "hello" => wire[d] = "hello"
    BY <1>2 DEF Reader, ReadByte, ReadEOF
  <2>3. readyConn' # 0 => readyConn' \in spoke
    BY <1>2 DEF Reader, ReadByte, ReadEOF, IsHello
  <2> QED
    BY <2>1, <2>2, <2>3
<1> QED
  BY <1>1, <1>2 DEF Goroutines

\* The main goroutine.
LEMMA MainInv == IInv /\ Main => IInv'
<1> SUFFICES ASSUME IInv, Main PROVE IInv'
  OBVIOUS
<1> USE DEF IInv, Types, ViceInv, LoaderInv, LinkInv, Starting, viceVars, connVars
<1>1. CASE FindLoader
  BY <1>1 DEF FindLoader
<1>2. CASE Listen
  BY <1>2 DEF Listen, Fail, FreshConns
<1>3. CASE Spawn
  <2>1. mode = "spawn" /\ alive = {} /\ link = 0 /\ step = "spawn" /\ loader # "removed"
    BY <1>3 DEF Spawn
  <2>2. CASE alive' = alive
    BY <1>3, <2>1, <2>2 DEF Spawn, Fail
  <2>3. CASE spawned' = spawned + 1 /\ viceCmd' = spawned + 1 /\ step' = "select"
             /\ alive' = alive \union {spawned + 1}
    BY <1>3, <2>1, <2>3 DEF Spawn
  <2> QED
    BY <1>3, <2>2, <2>3 DEF Spawn
<1>4. CASE SelectReady
  BY <1>4 DEF SelectReady
<1>5. CASE Accept
  BY <1>5 DEF Accept
<1>6. CASE Classify
  BY <1>6 DEF Classify, Fail
<1>7. CASE Kill
  BY <1>7 DEF Kill
<1>8. CASE Stopped
  BY <1>8 DEF Stopped, VICEGone, CleanUp
<1>9. CASE OpenDevice
  BY <1>9 DEF OpenDevice, Fail
<1>10. CASE PollDevice
  BY <1>10 DEF PollDevice, Fail
<1>11. CASE Prime \/ Primed \/ Run
  BY <1>11 DEF Prime, Primed, Run
<1> QED
  BY <1>1, <1>2, <1>3, <1>4, <1>5, <1>6, <1>7, <1>8, <1>9, <1>10, <1>11 DEF Main

\* The invariant is inductive.
LEMMA StartInv == Spec => []IInv
<1>1. IInv /\ UNCHANGED startVars => IInv'
  BY DEF IInv, Types, ViceInv, LoaderInv, LinkInv, startVars, mainVars, viceVars, connVars
<1>2. IInv /\ [Next]_startVars => IInv'
  BY <1>1, EnvironmentInv, GoroutinesInv, MainInv DEF Next
<1> QED
  BY InitInv, <1>2, PTL DEF Spec

\* Two emulators never run side by side, however many attempts and scenarios
\* (stopVICE waits for the process that it killed).
THEOREM OneEmulator == Spec => []OneVICE
<1>1. IInv => OneVICE
  BY DEF IInv, ViceInv, OneVICE
<1> QED
  BY StartInv, <1>1, PTL

\* The relay gets a connection on which the agent has said hello in this attempt,
\* whatever the other connections carry (waitForTCPHandshakeByte).
THEOREM LinkSpoken == Spec => []LinkHasAgent
<1>1. IInv => LinkHasAgent
  BY DEF IInv, LinkInv, LinkHasAgent
<1> QED
  BY StartInv, <1>1, PTL

\* No VICE loses its loader, and an ended process leaves neither a VICE nor a
\* temporary loader behind (startSpawnedSerialLink, loaderPRGPath).
THEOREM NothingLeft == Spec => []Tidy
<1>1. IInv => Tidy
  BY DEF IInv, ViceInv, LoaderInv, Tidy
<1> QED
  BY StartInv, <1>1, PTL

-----------------------------------------------------------------------------
(* Why an attempt failed *)

LEMMA StepCloserInv == CloserInv /\ [Next]_startVars => CloserInv'
<1> SUFFICES ASSUME CloserInv, [Next]_startVars PROVE CloserInv'
  OBVIOUS
<1>1. CASE Environment \/ UNCHANGED startVars
  BY <1>1 DEF CloserInv, Environment, startVars, mainVars, closers
<1>2. CASE Watcher
  BY <1>2 DEF CloserInv, Watcher, WatchExit, Closed, elsewhere, mainVars
<1>3. CASE Timer
  BY <1>3 DEF CloserInv, Timer, TimeRunsOut, Closed, elsewhere, mainVars
<1>4. CASE \E c \in Conn : Reader(c)
  BY <1>4 DEF CloserInv, Reader, elsewhere, mainVars, closers
<1>5. CASE Listen
  BY <1>5 DEF CloserInv, Listen, Fail, closers
<1>6. CASE Spawn
  BY <1>6 DEF CloserInv, Spawn, Fail
<1>7. CASE FindLoader \/ SelectReady \/ Accept
  BY <1>7 DEF CloserInv, FindLoader, SelectReady, Accept, closers
<1>8. CASE Classify
  BY <1>8 DEF CloserInv, Classify, Fail, closers
<1>9. CASE Kill \/ Stopped
  BY <1>9 DEF CloserInv, Kill, Stopped, closers
<1>10. CASE OpenDevice \/ PollDevice
  BY <1>10 DEF CloserInv, OpenDevice, PollDevice, Fail, closers
<1>11. CASE Prime \/ Primed \/ Run
  BY <1>11 DEF CloserInv, Prime, Primed, Run, closers
<1>12. QED
  BY <1>1, <1>2, <1>3, <1>4, <1>5, <1>6, <1>7, <1>8, <1>9, <1>10, <1>11
     DEF Next, Goroutines, Main

\* A closed listener is always found to be the work of the timer or of the exit of
\* VICE: the reason is there before Accept can fail (ListenAndStartUntilTimeout).
THEOREM ReasonKnown == Spec => []FailureExplained
<1>1. Init => CloserInv
  BY DEF Init, CloserInv
<1>2. CloserInv => FailureExplained
  BY DEF CloserInv, FailureExplained
<1>3. QED
  BY <1>1, <1>2, StepCloserInv, PTL DEF Spec
=============================================================================
