----------------------------- MODULE TerminalUI -----------------------------
(***************************************************************************)
(* The terminal front end (src/bridge/chat/stdin.go): a Bubble Tea program *)
(* whose event loop is the only one to run Update, and the commands that   *)
(* Update returns, each in a goroutine of its own that sends one message   *)
(* back.  A line of output goes through such a command to the last line of *)
(* the view, from there to the list of lines that leave the view, and from *)
(* there, one at a time, to the scrollback of the terminal.                *)
(***************************************************************************)
EXTENDS Naturals, Sequences, FiniteSets, SequencesExt

CONSTANT Lines    \* bound: lines of output of all kinds

VARIABLES
    program,      \* "none", "running", "quit"
    lines,        \* lines of output so far; each is known by its number
    early,        \* lines logged before there was a program
    sized,        \* the first window size has come (ready)
    commands,     \* goroutines that have a message for the event loop
    streaming,    \* the live line, 0 when there is none
    settled,      \* the last line of the view, 0 when there is none
    scrollback,   \* lines that leave the view
    printed,      \* how often each line is in the terminal's scrollback
    handlers,     \* entered lines whose handler runs
    sigCount,     \* recent Ctrl-C's
    leaving

tuiVars == <<program, lines, early, sized, commands, streaming, settled, scrollback,
             printed, handlers, sigCount, leaving>>
viewVars == <<settled, scrollback, printed>>
inputVars == <<sigCount, leaving>>

Line == 1..Lines

\* The commands: deliver lines, start a flush, print a line and go on flushing, quit.
Settle(ls) == [do |-> "settle", lines |-> ls]
FlushOf(n) == [do |-> "flush", by |-> n]
PrintOf(line) == [do |-> "print", line |-> line]
AgainOf(line) == [do |-> "again", line |-> line]
QuitOf == [do |-> "quit"]

Init ==
    /\ program = "none" /\ lines = 0 /\ early = <<>> /\ sized = FALSE
    /\ commands = {} /\ streaming = 0 /\ settled = 0 /\ scrollback = <<>>
    /\ printed = [l \in Line |-> 0]
    /\ handlers = {}
    /\ sigCount = 0 /\ leaving = FALSE

\* A new line goes to the event loop, whose command delivers it.
NewLine ==
    /\ lines < Lines /\ lines' = lines + 1
    /\ commands' = commands \union {Settle(<<lines + 1>>)}

-----------------------------------------------------------------------------
(* sendLine, sendStream, commitStream, Start *)

\* Kept until there is a program.
KeepEarly == early' = Append(early, lines + 1)

EarlyLog ==
    /\ program = "none" /\ lines < Lines
    /\ lines' = lines + 1 /\ KeepEarly
    /\ UNCHANGED <<program, sized, commands, streaming, viewVars, inputVars,
                   handlers>>

Start ==
    /\ program = "none" /\ program' = "running"
    /\ UNCHANGED <<lines, early, sized, commands, streaming, viewVars,
                   inputVars, handlers>>

\* Send gives the event loop the line and waits until it is taken.
LogLine ==
    /\ NewLine
    /\ UNCHANGED <<early, sized, streaming, viewVars, inputVars, handlers>>

\* printStream appends to the live line, or starts one.  Streamed text is only sent
\* to a program: before there is one, sendStream drops it without a trace, so that it
\* never becomes a line.
Stream ==
    /\ streaming = 0 /\ lines < Lines
    /\ lines' = lines + 1 /\ streaming' = lines + 1
    /\ UNCHANGED <<early, sized, commands, viewVars, inputVars, handlers>>

CommitStream ==
    /\ streaming # 0 /\ streaming' = 0
    /\ commands' = commands \union {Settle(<<streaming>>)}
    /\ UNCHANGED <<lines, early, sized, viewVars, inputVars, handlers>>

-----------------------------------------------------------------------------
(* Update: messages of the window and of the commands *)

\* The first window size lets the early lines out.
WindowSize ==
    /\ ~sized /\ sized' = TRUE
    /\ commands' = IF early = <<>> THEN commands ELSE commands \union {Settle(early)}
    /\ early' = <<>>
    /\ UNCHANGED <<lines, streaming, viewVars, inputVars, handlers>>

\* Mutant: the line in the view is overwritten.
ShowOver(ls) ==
    /\ scrollback' = scrollback \o Front(ls)
    /\ settled' = Last(ls)

\* applySettled: the line in the view makes room for the last of the new ones.
Show(ls) ==
    /\ scrollback' = scrollback \o (IF settled = 0 THEN <<>> ELSE <<settled>>) \o Front(ls)
    /\ settled' = Last(ls)

ApplySettled(c) ==
    /\ c.do = "settle"
    /\ Show(c.lines)
    /\ commands' = (commands \ {c}) \union {FlushOf(Last(c.lines))}
    /\ UNCHANGED printed

\* flushScrollback takes the oldest line; a sequence of two commands prints it and
\* then looks, outside the event loop, whether there are more.
FlushScrollback(c) ==
    /\ c.do = "flush"
    /\ IF scrollback = <<>>
       THEN commands' = commands \ {c} /\ UNCHANGED scrollback
       ELSE /\ commands' = (commands \ {c}) \union {PrintOf(Head(scrollback))}
            /\ scrollback' = Tail(scrollback)
    /\ UNCHANGED <<settled, printed>>

Println(c) ==
    /\ c.do = "print"
    /\ printed' = [printed EXCEPT ![c.line] = @ + 1]
    /\ commands' = (commands \ {c}) \union {AgainOf(c.line)}
    /\ UNCHANGED <<settled, scrollback>>

\* Mutant: one line per flush.
FlushMoreNever == FALSE

FlushMore == scrollback # <<>>

LookAgain(c) ==
    /\ c.do = "again"
    /\ commands' = (commands \ {c}) \union (IF FlushMore THEN {FlushOf(Lines + c.line)} ELSE {})
    /\ UNCHANGED viewVars

Command(c) ==
    /\ ApplySettled(c) \/ FlushScrollback(c) \/ Println(c) \/ LookAgain(c)
    /\ UNCHANGED <<program, lines, early, sized, streaming, inputVars, handlers>>

\* tea.Quit ends the event loop; what the other goroutines bring then is lost.
Quit ==
    /\ QuitOf \in commands /\ program' = "quit"
    /\ commands' = commands \ {QuitOf}
    /\ UNCHANGED <<lines, early, sized, streaming, viewVars, inputVars, handlers>>

-----------------------------------------------------------------------------
(* Update: the keyboard; the handlers of entered lines *)

\* handleEnter: the echo and the handler are commands of their own; a handler does
\* not wait for that of the line before (busy is never read).
Enter ==
    /\ NewLine
    /\ handlers' = handlers \union {lines'}
    /\ sigCount' = 0
    /\ UNCHANGED <<early, sized, streaming, viewVars, leaving>>

\* c64ReplyMsg.
Reply ==
    /\ handlers # {} /\ NewLine
    /\ UNCHANGED <<early, sized, streaming, viewVars, inputVars, handlers>>

\* handlerDoneMsg: an error is shown.
HandlerDone(e) ==
    /\ handlers' = handlers \ {e}
    /\ NewLine \/ UNCHANGED <<lines, commands>>
    /\ UNCHANGED <<early, sized, streaming, viewVars, inputVars>>

\* handleCtrlC: the second one within a second ends the program.
CtrlC ==
    /\ ~leaving
    /\ \E count \in {1, sigCount + 1} :
        /\ sigCount' = count
        /\ IF count < 2
           THEN UNCHANGED <<leaving, lines, commands>>
           ELSE /\ lines < Lines
                /\ leaving' = TRUE /\ lines' = lines + 1
                /\ commands' = commands \union {Settle(<<lines + 1>>), QuitOf}
    /\ UNCHANGED <<early, sized, streaming, viewVars, handlers>>

Update ==
    /\ program = "running" /\ program' = "running"
    /\ \/ LogLine \/ Stream \/ CommitStream \/ WindowSize \/ Enter \/ CtrlC
       \/ Reply
       \/ \E e \in handlers : HandlerDone(e)

Next ==
    \/ EarlyLog \/ Start \/ Update
    \/ program = "running" /\ (Quit \/ \E c \in commands \ {QuitOf} : Command(c))

Spec == Init /\ [][Next]_tuiVars

\* The goroutines of the commands run, the terminal reports its size, the live
\* line is committed (the progress output ends each line).

Fairness ==
    /\ WF_tuiVars(Start) /\ WF_tuiVars(program = "running" /\ program' = "running" /\ WindowSize)
    /\ WF_tuiVars(program = "running" /\ program' = "running" /\ CommitStream)
    /\ WF_tuiVars(program = "running" /\ \E c \in commands \ {QuitOf} : Command(c))

FairSpec == Spec /\ Fairness

-----------------------------------------------------------------------------
(* Properties *)

TypeOK ==
    /\ program \in {"none", "running", "quit"} /\ lines \in 0..Lines
    /\ sized \in BOOLEAN /\ streaming \in 0..lines /\ settled \in 0..lines
    /\ \A i \in 1..Len(scrollback) : scrollback[i] \in 1..lines
    /\ \A c \in commands : c.do \in {"settle", "flush", "print", "again", "quit"}
    /\ handlers \subseteq 1..lines /\ sigCount \in 0..2 /\ leaving \in BOOLEAN

\* The lines that a command brings.
Carried(c) ==
    IF c.do = "settle" THEN ToSet(c.lines) ELSE IF c.do = "print" THEN {c.line} ELSE {}

Times(line, s) == Cardinality({i \in 1..Len(s) : s[i] = line})
Whereabouts(line) ==
    Times(line, early) + Times(line, scrollback) + printed[line]
    + (IF streaming = line THEN 1 ELSE 0) + (IF settled = line THEN 1 ELSE 0)
    + Cardinality({c \in commands : line \in Carried(c)})

\* Every line of output is in exactly one place on its way to the terminal, so it
\* is neither lost nor printed twice, whatever order the goroutines and the two
\* or more flushes at a time run in (applySettled, flushScrollback).
EveryLineOnce == \A line \in 1..lines : Whereabouts(line) = 1

\* What was logged before the program ran is let out and what leaves the view is
\* printed, as long as the program runs.
LinesGetOut ==
    (program = "running") ~>
        (program = "quit" \/ (early = <<>> /\ streaming = 0 /\ scrollback = <<>>))

-----------------------------------------------------------------------------
(* Why a line is in one place *)

Distinct(s) == \A i, j \in 1..Len(s) : s[i] = s[j] => i = j

Printed == {l \in Line : printed[l] # 0}
OnTheWay == UNION {Carried(c) : c \in commands}

\* The lines so far are divided among the six places.
Divided ==
    /\ ToSet(early) \union ToSet(scrollback) \union Printed \union ({streaming} \ {0})
         \union ({settled} \ {0}) \union OnTheWay = 1..lines
    /\ ToSet(early) \intersect (ToSet(scrollback) \union Printed \union {streaming}
         \union {settled} \union OnTheWay) = {}
    /\ ToSet(scrollback) \intersect (Printed \union {streaming} \union {settled}
         \union OnTheWay) = {}
    /\ Printed \intersect ({streaming} \union {settled} \union OnTheWay) = {}
    /\ OnTheWay \intersect {streaming, settled} = {}
    /\ streaming = settled => streaming = 0

\* And each is there once.
Single ==
    /\ early \in Seq(Line) /\ Distinct(early)
    /\ scrollback \in Seq(Line) /\ Distinct(scrollback)
    /\ printed \in [Line -> {0, 1}]
    /\ \A c, d \in commands : c # d => Carried(c) \intersect Carried(d) = {}
    /\ \A c \in commands : c.do = "settle" =>
            c.lines \in Seq(Line) /\ c.lines # <<>> /\ Distinct(c.lines)
    /\ \A c \in commands : c.do = "print" => c.line \in Line

LineInv ==
    /\ lines \in 0..Lines /\ streaming \in 0..Lines /\ settled \in 0..Lines
    /\ Single /\ Divided
=============================================================================
