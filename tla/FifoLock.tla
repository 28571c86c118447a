------------------------------ MODULE FifoLock ------------------------------
(***************************************************************************)
(* The hand-off lock the relay uses twice: for the message gate            *)
(* (acquireMessageGate / releaseMessageGate) and for the overflow lane     *)
(* (acquireOverflowLane / releaseOverflowLane).  A mutex protects a busy   *)
(* flag and a list of channels; a release does not clear the flag while    *)
(* somebody waits but closes the first channel, which passes the ownership *)
(* on.  Each operator below is one critical section of that mutex.         *)
(***************************************************************************)
EXTENDS Naturals, SequencesExt

CONSTANT Callers     \* the goroutines that call HandleMessageStream

VARIABLES
    busy,            \* msgGateBusy / overflowBusy
    waiters,         \* msgGateWaiters / overflowWaiters, one channel per caller
    closed           \* the callers whose channel has been closed and not yet read

lockVars == <<busy, waiters, closed>>

LockInit ==
    /\ busy = FALSE
    /\ waiters = <<>>
    /\ closed = {}

\* The caller finds the lock free and owns it.
Take ==
    /\ ~busy
    /\ busy' = TRUE
    /\ UNCHANGED <<waiters, closed>>

\* The caller finds the lock busy and queues its channel.
Enqueue(c) ==
    /\ busy
    /\ waiters' = Append(waiters, c)
    /\ UNCHANGED <<busy, closed>>

\* The select of a waiter takes the branch of its closed channel.
Wake(c) ==
    /\ c \in closed
    /\ closed' = closed \ {c}
    /\ UNCHANGED <<busy, waiters>>

\* Mutant: a waiter that gives up frees the lock it does not own.
AbandonFrees(c) ==
    /\ closed' = closed \ {c}
    /\ waiters' = SelectSeq(waiters, LAMBDA w : w # c)
    /\ busy' = FALSE

\* The select of a waiter takes ctx.Done: the channel leaves the list if it is
\* still there.  If a release has already closed it nothing else happens, and
\* the ownership that came with it is dropped.
Abandon(c) ==
    /\ closed' = closed \ {c}
    /\ \/ \E i \in 1..Len(waiters) :
             /\ waiters[i] = c
             /\ waiters' = RemoveAt(waiters, i)
       \/ /\ \A i \in 1..Len(waiters) : waiters[i] # c
          /\ UNCHANGED waiters
    /\ UNCHANGED busy

\* Mutant: the flag is cleared although the ownership is handed on.
ReleaseClearsBusy ==
    /\ busy' = FALSE
    /\ IF waiters = <<>>
       THEN UNCHANGED <<waiters, closed>>
       ELSE waiters' = Tail(waiters) /\ closed' = closed \union {Head(waiters)}

\* Mutant: the newest waiter is served first.
ReleaseLIFO ==
    IF waiters = <<>>
    THEN busy' = FALSE /\ UNCHANGED <<waiters, closed>>
    ELSE /\ waiters' = Front(waiters)
         /\ closed' = closed \union {Last(waiters)}
         /\ UNCHANGED busy

\* Mutant: the waiter leaves the list but its channel is never closed.
ReleaseForgetsClose ==
    /\ IF waiters = <<>> THEN busy' = FALSE /\ UNCHANGED waiters
       ELSE waiters' = Tail(waiters) /\ UNCHANGED busy
    /\ UNCHANGED closed

\* The owner leaves: the first waiter becomes the owner, or the lock is free.
Release ==
    \/ /\ waiters # <<>>
       /\ waiters' = Tail(waiters)
       /\ closed' = closed \union {Head(waiters)}
       /\ UNCHANGED busy
    \/ /\ waiters = <<>>
       /\ busy' = FALSE
       /\ UNCHANGED <<waiters, closed>>

LockTypeOK ==
    /\ busy \in BOOLEAN
    /\ waiters \in Seq(Callers)
    /\ closed \in SUBSET Callers
=============================================================================
