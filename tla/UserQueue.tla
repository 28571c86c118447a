----------------------------- MODULE UserQueue -----------------------------
(***************************************************************************)
(* The guarded user-message queue of the C64 (guarded_queue.asm): a ring   *)
(* of Slots pages in protected RAM with a head, a tail and a count.  MSG   *)
(* frames that arrive while the agent is busy are copied from the receive  *)
(* buffer to the tail page; the end of an LLM turn takes the head page     *)
(* off.  Every caller of the load routine has tested the count.            *)
(*                                                                         *)
(* service_outbound calls the load routine in the foreground.  There the   *)
(* interrupt, which stores the messages, may come between any two of its   *)
(* instructions; those that touch what both use are actions of their own.  *)
(*                                                                         *)
(* The load routine expects EVENT_MSG in the first byte of a page.  The    *)
(* enqueue routine writes that byte to $9200 instead, into the code of     *)
(* guard_idle_llm_tick (see C64Agent): the operand of its store is the one *)
(* that is not patched.  A page has the first byte that RAM had at power   *)
(* on.  The length of a page is also read from there, from $9201.          *)
(***************************************************************************)
EXTENDS Naturals

CONSTANTS
    Slots,      \* USERQ_SLOTS
    Stored      \* bound: messages that are stored, 1..Stored

ASSUME SlotsAssumption == Slots \in Nat \ {0}
ASSUME StoredAssumption == Stored \in Nat

VARIABLES
    page,       \* page[i]: the message stored last in slot i, 0 before the first
    marked,     \* the slots whose first byte is EVENT_MSG
    head,       \* USERQ_HEAD_PTR
    tail,       \* USERQ_TAIL_PTR
    count,      \* USERQ_COUNT_PTR
    load,       \* the next instruction of the load routine, "idle" outside
    slot,       \* X: the slot being loaded
    body,       \* the message in AGENT_RXBUF+1, 0 before the first
    stored,     \* messages stored so far
    outcome,    \* of the message taken off last: sent on with the byte at $9201
                \* as its length, or discarded
    slipped     \* a full ring moved its head while that was being reset to 0

vars == <<page, marked, head, tail, count, load, slot, body, stored, outcome, slipped>>

Indices == 0..(Slots - 1)

Init ==
    /\ page = [i \in Indices |-> 0]
    /\ marked \in SUBSET Indices
    /\ head = 0 /\ tail = 0 /\ count = 0
    /\ load = "idle" /\ slot = 0 /\ body = 0
    /\ stored = 0 /\ outcome = "none" /\ slipped = FALSE

-----------------------------------------------------------------------------
(* The interrupt *)

\* guard_userq_advance_head and guard_userq_advance_tail.
Advance(i) == IF i + 1 < Slots THEN i + 1 ELSE 0

\* The head is at Slots, or is going to be reset from there.
Resetting == load = "reset" \/ (load = "compare" /\ head = Slots)

\* Mutant: a full ring is overwritten without moving the head on.
EnqueueKeepsHead ==
    /\ stored < Stored
    /\ stored' = stored + 1
    /\ count' = IF count >= Slots THEN count ELSE count + 1
    /\ page' = [page EXCEPT ![tail] = stored']
    /\ tail' = Advance(tail)
    /\ UNCHANGED <<marked, head, load, slot, body, outcome, slipped>>

\* guard_userq_enqueue_from_rxbuf: a full ring first loses its oldest page.
Enqueue ==
    LET full == count >= Slots IN
    /\ stored < Stored
    /\ stored' = stored + 1
    /\ head' = IF full THEN Advance(head) ELSE head
    /\ count' = (IF full THEN count - 1 ELSE count) + 1
    /\ page' = [page EXCEPT ![tail] = stored']
    /\ tail' = Advance(tail)
    /\ slipped' = (slipped \/ (full /\ Resetting))
    /\ UNCHANGED <<marked, load, slot, body, outcome>>

-----------------------------------------------------------------------------
(* The load routine *)

\* ldx USERQ_HEAD_PTR, and the test of the page's first byte; the length follows.
LoadBegins ==
    /\ load = "idle" /\ count # 0
    /\ slot' = head
    /\ load' = IF head \in marked THEN "copy" ELSE "advance"
    /\ outcome' = IF head \in marked THEN "overlong" ELSE "discarded"
    /\ UNCHANGED <<page, marked, head, tail, count, body, stored, slipped>>

\* guq_load_loop
LoadCopies ==
    /\ load = "copy"
    /\ body' = page[slot]
    /\ load' = "advance"
    /\ UNCHANGED <<page, marked, head, tail, count, slot, stored, outcome, slipped>>

\* inc USERQ_HEAD_PTR in guard_userq_advance_head.
LoadAdvances ==
    /\ load = "advance"
    /\ head' = head + 1
    /\ load' = "compare"
    /\ UNCHANGED <<page, marked, tail, count, slot, body, stored, outcome, slipped>>

\* lda USERQ_HEAD_PTR, cmp #USERQ_SLOTS
LoadCompares ==
    /\ load = "compare"
    /\ load' = IF head < Slots THEN "count" ELSE "reset"
    /\ UNCHANGED <<page, marked, head, tail, count, slot, body, stored, outcome, slipped>>

\* sta USERQ_HEAD_PTR
LoadResets ==
    /\ load = "reset"
    /\ head' = 0
    /\ load' = "count"
    /\ UNCHANGED <<page, marked, tail, count, slot, body, stored, outcome, slipped>>

\* Mutant: the count is not taken down.
LoadKeepsCount ==
    /\ load = "count"
    /\ load' = "idle"
    /\ UNCHANGED <<page, marked, head, tail, count, slot, body, stored, outcome, slipped>>

\* dec USERQ_COUNT_PTR
LoadCounts ==
    /\ load = "count"
    /\ count' = count - 1
    /\ load' = "idle"
    /\ UNCHANGED <<page, marked, head, tail, slot, body, stored, outcome, slipped>>

Next ==
    \/ Enqueue
    \/ LoadBegins \/ LoadCopies \/ LoadAdvances \/ LoadCompares \/ LoadResets \/ LoadCounts

Spec == Init /\ [][Next]_vars

-----------------------------------------------------------------------------
(* Properties *)

\* Every counter stays within its range: the head leaves it for two instructions.
TypeOK ==
    /\ page \in [Indices -> 0..Stored]
    /\ marked \subseteq Indices
    /\ head \in Indices \/ (head = Slots /\ Resetting)
    /\ tail \in Indices /\ slot \in Indices
    /\ count \in 0..Slots /\ (load # "idle" => count # 0)
    /\ load \in {"idle", "copy", "advance", "compare", "reset", "count"}
    /\ {body, stored} \subseteq 0..Stored
    /\ outcome \in {"none", "overlong", "discarded"}
    /\ slipped \in BOOLEAN

\* The slot that is k places behind slot h.
At(h, k) == IF h + k < Slots THEN h + k ELSE h + k - Slots

\* The oldest slot, and the number of messages, as of the instruction reached.
First == IF head = Slots THEN 0 ELSE head
Live == IF load \in {"compare", "reset", "count"} THEN count - 1 ELSE count

\* The three counters agree, although the interrupt stores messages, and drops the
\* oldest of a full ring, between any two instructions of the load routine that
\* changes them: the pages from the head on hold the newest messages in the order
\* in which they came.  The exception is a full ring whose head the load routine is
\* resetting to 0: the interrupt moves it too, and one of the two moves is lost.
RingInv ==
    ~slipped =>
        /\ load = "reset" => head = Slots
        /\ tail = At(First, Live)
        /\ \A k \in 0..(Live - 1) : page[At(First, k)] = stored - Live + 1 + k

\* A message that leaves the queue at the end of a turn becomes the next LLM event.
\* The code does not keep it: README, section 6.
QueuedAnnounced == outcome # "discarded"
=============================================================================
