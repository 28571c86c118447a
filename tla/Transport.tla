----------------------------- MODULE Transport -----------------------------
(***************************************************************************)
(* Reliable frames on the serial link between the bridge (relay.go) and    *)
(* the C64 (agent.asm), in both directions.  A frame that is garbled on    *)
(* the line fails its checksum and is lost; nothing overtakes on the line. *)
(*                                                                         *)
(* On the bridge the goroutine that runs the event loop sends requests,    *)
(* one at a time, and is the only one that reads frames; while a BASIC     *)
(* program runs a second goroutine may send a message, whose ACK the       *)
(* receive loop hands to it through a channel of its own.                  *)
(*                                                                         *)
(* The C64 has one buffer for its reliable frame, one slot for the ACK it  *)
(* owes and remembers the newest id it accepted.                           *)
(***************************************************************************)
EXTENDS TransportIds, Sequences, SequencesExt, FiniteSets

CONSTANTS
    Loop,           \* the goroutine that runs the event loop
    Senders,        \* Loop, and the overlapping senders
    FirstIds,       \* the seeds of nextTxID (SetNextTransportID)
    Attempts,       \* len(reliableRetryDelays), 5
    Retries,        \* retransmissions by the C64, 3
    Patient,        \* no timeout ends while the exchange it watches is going on
    Requests,       \* bound: requests issued by the bridge
    Events,         \* bound: events raised by the C64
    Losses,         \* bound: frames lost on the line
    LineSize        \* bound: frames in one direction on the line

ASSUME SendersAssumption == Loop \in Senders
ASSUME FirstIdsAssumption == FirstIds \subseteq Ids
ASSUME BoundsAssumption ==
    /\ Attempts \in Nat \ {0} /\ Retries \in Nat
    /\ Requests \in Nat /\ Events \in Nat /\ Losses \in Nat

VARIABLES
    \* bridge, sending
    nextTxID,
    issued,         \* requests issued so far
    out,            \* per sender: where it is, its frame and the attempt
    waiter,         \* per sender: its ACK channel, a set of at most one id
    confirmed,      \* requests whose sender was told they arrived
    \* bridge, receiving
    ackCh, recvCh, pendingAcks, rxLastID, rxLastType,
    handled,        \* events accepted, in order
    \* the line
    down, up, lost,
    \* C64, receiving
    rx_last_id, ack_pending, ack_id,
    applied,        \* requests applied, in order
    \* C64, sending
    tx_next_id,
    raised,         \* events built so far
    tx,             \* send_buf: the event and how much of it is on the line
    tx_ack_wait, tx_retries,
    released        \* events no longer waited for although not given up

sendVars == <<nextTxID, issued, out, confirmed>>
recvVars == <<pendingAcks, rxLastID, rxLastType, handled>>
rxVars   == <<rx_last_id, ack_pending, ack_id, applied>>
txVars   == <<tx_next_id, raised, tx, tx_ack_wait, tx_retries, released>>
vars == <<sendVars, waiter, ackCh, recvVars, recvCh, down, up, lost, rxVars, txVars>>

Types == {"STATUS", "OTHER"}    \* ACKs never cut into a STATUS frame

Data(id, n, t) == [kind |-> "data", id |-> id, n |-> n, type |-> t]
Ack(id) == [kind |-> "ack", id |-> id]
Acks(ids) == [i \in 1..Len(ids) |-> Ack(ids[i])]

Idle == [pc |-> "idle", id |-> 0, n |-> 0, attempt |-> 0]

Init ==
    /\ nextTxID \in FirstIds
    /\ issued = 0
    /\ out = [s \in Senders |-> Idle]
    /\ waiter = [s \in Senders |-> {}]
    /\ confirmed = {}
    /\ ackCh = <<>> /\ recvCh = <<>> /\ pendingAcks = <<>>
    /\ rxLastID = 0 /\ rxLastType = "OTHER"
    /\ handled = <<>>
    /\ down = <<>> /\ up = <<>> /\ lost = 0
    /\ rx_last_id = 0 /\ ack_pending = FALSE /\ ack_id = 0
    /\ applied = <<>>
    /\ tx_next_id = 1
    /\ raised = 0
    /\ tx = [phase |-> "sent", id |-> 0, n |-> 0, type |-> "OTHER"]
    /\ tx_ack_wait = FALSE
    /\ tx_retries = 0
    /\ released = {}

-----------------------------------------------------------------------------
(* Bridge: requests *)

\* settlePendingAcksLocked, then Link.Send: the owed ACKs go first.
SendDown(frame) ==
    /\ Len(down) + Len(pendingAcks) < LineSize
    /\ down' = down \o Acks(pendingAcks) \o <<frame>>
    /\ pendingAcks' = <<>>

\* sendNewReliableBridgeFrame; the event loop then waits, an overlapping sender
\* has yet to register its ACK channel.
SendNew(s) ==
    /\ out[s].pc = "idle"
    /\ issued < Requests
    /\ issued' = issued + 1
    /\ nextTxID' = NextId(nextTxID)
    /\ SendDown(Data(nextTxID, issued', "OTHER"))
    /\ out' = [out EXCEPT ![s] =
                 [pc |-> IF s = Loop THEN "wait" ELSE "sent",
                  id |-> nextTxID, n |-> issued', attempt |-> 1]]
    /\ UNCHANGED <<confirmed, waiter, ackCh, recvCh, rxLastID, rxLastType, handled,
                   up, lost, rxVars, txVars>>

\* registerAckWaiter
Register(s) ==
    /\ out[s].pc = "sent"
    /\ out' = [out EXCEPT ![s].pc = "wait"]
    /\ waiter' = [waiter EXCEPT ![s] = {}]
    /\ UNCHANGED <<nextTxID, issued, confirmed, ackCh, recvVars, recvCh, down, up, lost,
                   rxVars, txVars>>

\* The exchange of request n is still going on somewhere.
InProgress(id, n) ==
    \/ \E i \in 1..Len(down) : down[i].kind = "data" /\ down[i].n = n
    \/ ack_pending /\ ack_id = id
    \/ \E i \in 1..Len(up) : up[i].kind = "ack" /\ up[i].id = id
    \/ \E i \in 1..Len(ackCh) : ackCh[i] = id
    \/ \E s \in Senders : id \in waiter[s]

\* No ACK in time: the sender sleeps, or gives up after the last attempt.
AckTimeout(s) ==
    /\ out[s].pc = "wait"
    /\ Patient => tx.phase = "sent" /\ ~InProgress(out[s].id, out[s].n)
    /\ out' = [out EXCEPT ![s] = IF out[s].attempt < Attempts
                                 THEN [out[s] EXCEPT !.pc = "sleep"]
                                 ELSE Idle]
    /\ UNCHANGED <<nextTxID, issued, confirmed, waiter, ackCh, recvVars, recvCh,
                   down, up, lost, rxVars, txVars>>

\* resendReliableBridgeFrame: the same frame with the same id.
Resend(s) ==
    /\ out[s].pc = "sleep"
    /\ SendDown(Data(out[s].id, out[s].n, "OTHER"))
    /\ out' = [out EXCEPT ![s].pc = "wait", ![s].attempt = @ + 1]
    /\ UNCHANGED <<nextTxID, issued, confirmed, waiter, ackCh, recvCh, rxLastID,
                   rxLastType, handled, up, lost, rxVars, txVars>>

Confirm(s) ==
    /\ confirmed' = confirmed \union {out[s].n}
    /\ out' = [out EXCEPT ![s] = Idle]

\* waitForAckID, and the event loop outside of it, where ACKs are dropped.
TakeAck ==
    /\ out[Loop].pc # "sleep"
    /\ ackCh # <<>>
    /\ ackCh' = Tail(ackCh)
    /\ IF out[Loop].pc = "wait" /\ Head(ackCh) = out[Loop].id
       THEN Confirm(Loop)
       ELSE UNCHANGED <<confirmed, out>>
    /\ UNCHANGED <<nextTxID, issued, waiter, recvVars, recvCh, down, up, lost, rxVars, txVars>>

\* waitForAckWaiter
TakeWaiterAck(s) ==
    /\ s # Loop
    /\ out[s].pc = "wait"
    /\ out[s].id \in waiter[s]
    /\ Confirm(s)
    /\ waiter' = [waiter EXCEPT ![s] = {}]
    /\ UNCHANGED <<nextTxID, issued, ackCh, recvVars, recvCh, down, up, lost, rxVars, txVars>>

-----------------------------------------------------------------------------
(* Bridge: the receive loop and the frames of the C64 *)

Registered(s) == s # Loop /\ out[s].pc \in {"wait", "sleep"}

\* ensureRecvLoop: an ACK goes to the sender registered for its id, or to ackCh;
\* other frames go to recvCh, which holds one.
ReceiveLoop ==
    /\ up # <<>>
    /\ up' = Tail(up)
    /\ LET f == Head(up) IN
       \/ /\ f.kind = "data"
          /\ recvCh = <<>>
          /\ recvCh' = <<f>>
          /\ UNCHANGED <<ackCh, waiter>>
       \/ /\ f.kind = "ack"
          /\ UNCHANGED recvCh
          /\ IF \E s \in Senders : Registered(s) /\ out[s].id = f.id
             THEN /\ waiter' = [s \in Senders |->
                        IF Registered(s) /\ out[s].id = f.id THEN {f.id} ELSE waiter[s]]
                  /\ UNCHANGED ackCh
             ELSE ackCh' = Append(ackCh, f.id) /\ UNCHANGED waiter
    /\ UNCHANGED <<sendVars, recvVars, down, lost, rxVars, txVars>>

\* Mutant: every frame is taken for a new one.
StaleUpNever(f) == FALSE

\* The two tests of acceptC64FrameWith.
StaleUp(f) ==
    \/ f.id = rxLastID /\ f.type = rxLastType
    \/ rxLastID # 0 /\ ~TransportIDAhead(f.id, rxLastID)

\* acceptC64FrameWith: the ACK is owed for duplicates too.
TakeData ==
    /\ out[Loop].pc # "sleep"
    /\ recvCh # <<>>
    /\ recvCh' = <<>>
    /\ LET f == Head(recvCh) IN
       /\ pendingAcks' = Append(pendingAcks, f.id)
       /\ IF StaleUp(f)
          THEN UNCHANGED <<rxLastID, rxLastType, handled>>
          ELSE /\ rxLastID' = f.id
               /\ rxLastType' = f.type
               /\ handled' = Append(handled, f.n)
    /\ UNCHANGED <<sendVars, waiter, ackCh, down, up, lost, rxVars, txVars>>

\* flushPendingAcks, on the way into a receive; twice while BASIC runs.
FlushAcks ==
    /\ out[Loop].pc # "sleep"
    /\ pendingAcks # <<>>
    /\ \E copies \in {Acks(pendingAcks), Acks(pendingAcks) \o Acks(pendingAcks)} :
          /\ Len(down) + Len(copies) <= LineSize
          /\ down' = down \o copies
    /\ pendingAcks' = <<>>
    /\ UNCHANGED <<sendVars, waiter, ackCh, recvCh, rxLastID, rxLastType, handled,
                   up, lost, rxVars, txVars>>

-----------------------------------------------------------------------------
(* The line *)

Lose ==
    /\ lost < Losses
    /\ lost' = lost + 1
    /\ \/ down # <<>> /\ down' = Tail(down) /\ UNCHANGED up
       \/ up # <<>> /\ up' = Tail(up) /\ UNCHANGED down
    /\ UNCHANGED <<sendVars, waiter, ackCh, recvVars, recvCh, rxVars, txVars>>

-----------------------------------------------------------------------------
(* C64: frame_dispatch *)

\* The branch for FRAME_ACK_IN.
AckIn ==
    /\ down # <<>>
    /\ Head(down).kind = "ack"
    /\ down' = Tail(down)
    /\ IF tx_ack_wait /\ Head(down).id = tx.id
       THEN tx_ack_wait' = FALSE /\ released' = released \union {tx.n}
       ELSE UNCHANGED <<tx_ack_wait, released>>
    /\ UNCHANGED <<sendVars, waiter, ackCh, recvVars, recvCh, up, lost, rxVars,
                   tx_next_id, raised, tx, tx_retries>>

\* queue_ack_current: one slot for the ACK that is owed.
QueueAck(id) == ack_pending' = TRUE /\ ack_id' = id

\* Mutant: retransmissions are applied again.
IsNewAlways(id) == TRUE

IsNew(id) == rx_last_id = 0 \/ FrameIsNew(id, rx_last_id)

\* Mutant: a repeated request is dropped without a new ACK.
RequestStaleSilent ==
    /\ down # <<>>
    /\ Head(down).kind = "data"
    /\ ~IsNew(Head(down).id)
    /\ down' = Tail(down)
    /\ UNCHANGED <<sendVars, waiter, ackCh, recvVars, recvCh, up, lost, rxVars, txVars>>

\* fd_stale: acknowledged again, not applied again.
RequestStale ==
    /\ down # <<>>
    /\ Head(down).kind = "data"
    /\ ~IsNew(Head(down).id)
    /\ down' = Tail(down)
    /\ QueueAck(Head(down).id)
    /\ UNCHANGED <<sendVars, waiter, ackCh, recvVars, recvCh, up, lost,
                   rx_last_id, applied, txVars>>

\* fd_accept: a new request also ends the wait for the ACK of an event that has
\* been sent completely.
RequestNew ==
    /\ down # <<>>
    /\ Head(down).kind = "data"
    /\ IsNew(Head(down).id)
    /\ down' = Tail(down)
    /\ rx_last_id' = Head(down).id
    /\ QueueAck(Head(down).id)
    /\ applied' = Append(applied, Head(down).n)
    /\ IF tx_ack_wait /\ tx.phase = "sent"
       THEN tx_ack_wait' = FALSE /\ released' = released \union {tx.n}
       ELSE UNCHANGED <<tx_ack_wait, released>>
    /\ UNCHANGED <<sendVars, waiter, ackCh, recvVars, recvCh, up, lost,
                   tx_next_id, raised, tx, tx_retries>>

-----------------------------------------------------------------------------
(* C64: service_outbound_inner *)

\* A frame is built when the previous one is acknowledged or given up.
BuildEvent(t) ==
    /\ tx.phase = "sent"
    /\ ~tx_ack_wait
    /\ raised < Events
    /\ raised' = raised + 1
    /\ tx' = [phase |-> "sending", id |-> tx_next_id, n |-> raised', type |-> t]
    /\ tx_next_id' = NextId(tx_next_id)
    /\ tx_ack_wait' = TRUE
    /\ tx_retries' = 0
    /\ UNCHANGED <<sendVars, waiter, ackCh, recvVars, recvCh, down, up, lost, rxVars, released>>

\* The last byte goes out; a frame an ACK has cut into fails its checksum.
EventSent ==
    /\ tx.phase \in {"sending", "garbled"}
    /\ Len(up) < LineSize
    /\ up' = IF tx.phase = "sending" THEN Append(up, Data(tx.id, tx.n, tx.type)) ELSE up
    /\ tx' = [tx EXCEPT !.phase = "sent"]
    /\ UNCHANGED <<sendVars, waiter, ackCh, recvVars, recvCh, down, lost, rxVars,
                   tx_next_id, raised, tx_ack_wait, tx_retries, released>>

\* tx_ack_timer runs out: the same frame again, or on to the next one.
AckWaitTimeout ==
    /\ tx.phase = "sent"
    /\ tx_ack_wait
    /\ Patient => /\ \A i \in 1..Len(up) : up[i].kind = "ack"
                  /\ recvCh = <<>> /\ pendingAcks = <<>>
                  /\ \A i \in 1..Len(down) : down[i].kind = "data"
    /\ IF tx_retries < Retries
       THEN /\ tx' = [tx EXCEPT !.phase = "sending"]
            /\ tx_retries' = tx_retries + 1
            /\ UNCHANGED tx_ack_wait
       ELSE /\ tx_ack_wait' = FALSE
            /\ UNCHANGED <<tx, tx_retries>>
    /\ UNCHANGED <<sendVars, waiter, ackCh, recvVars, recvCh, down, up, lost, rxVars,
                   tx_next_id, raised, released>>

\* drain_ack_outbound between two frames, or between the bytes of a frame that
\* is not STATUS: the bridge then reads neither.
DrainAck ==
    /\ ack_pending
    /\ ack_pending' = FALSE
    /\ \/ /\ tx.phase # "garbled"
          /\ Len(up) < LineSize
          /\ up' = Append(up, Ack(ack_id))
          /\ UNCHANGED tx
       \/ /\ tx.phase # "sent" /\ tx.type # "STATUS"
          /\ tx' = [tx EXCEPT !.phase = "garbled"]
          /\ UNCHANGED up
    /\ UNCHANGED <<sendVars, waiter, ackCh, recvVars, recvCh, down, lost,
                   rx_last_id, ack_id, applied, tx_next_id, raised, tx_ack_wait,
                   tx_retries, released>>

-----------------------------------------------------------------------------

Bridge ==
    \/ \E s \in Senders : \/ SendNew(s) \/ Register(s) \/ AckTimeout(s)
                          \/ Resend(s) \/ TakeWaiterAck(s)
    \/ TakeAck \/ TakeData \/ FlushAcks \/ ReceiveLoop

C64 ==
    \/ AckIn \/ RequestStale \/ RequestNew
    \/ \E t \in Types : BuildEvent(t)
    \/ EventSent \/ AckWaitTimeout \/ DrainAck

Next == Bridge \/ Lose \/ C64

Spec == Init /\ [][Next]_vars

\* Both programs run, the line delivers what it does not lose, timers expire.
\* Nothing makes the bridge issue requests, the C64 raise events or the line
\* lose frames.
FairSpec ==
    /\ Spec
    /\ \A s \in Senders : /\ WF_vars(Register(s)) /\ WF_vars(Resend(s))
                          /\ WF_vars(AckTimeout(s)) /\ WF_vars(TakeWaiterAck(s))
    /\ WF_vars(TakeAck) /\ WF_vars(TakeData) /\ WF_vars(FlushAcks)
    /\ WF_vars(ReceiveLoop)
    /\ WF_vars(AckIn) /\ WF_vars(RequestStale) /\ WF_vars(RequestNew)
    /\ WF_vars(EventSent) /\ WF_vars(AckWaitTimeout) /\ WF_vars(DrainAck)

-----------------------------------------------------------------------------
(* Properties *)

DataFrame == [kind : {"data"}, id : Ids, n : Nat, type : Types]
Frame == DataFrame \union [kind : {"ack"}, id : Ids]

\* Ids on the line are never 0, and the counters stay in the 7-bit range.
TypeOK ==
    /\ nextTxID \in Ids /\ tx_next_id \in Ids
    /\ issued \in 0..Requests /\ raised \in 0..Events
    /\ out \in [Senders -> [pc : {"idle", "sent", "wait", "sleep"},
                            id : Ids \union {0}, n : 0..Requests, attempt : 0..Attempts]]
    /\ waiter \in [Senders -> SUBSET Ids]
    /\ confirmed \subseteq 1..Requests
    /\ ackCh \in Seq(Ids) /\ recvCh \in Seq(DataFrame) /\ pendingAcks \in Seq(Ids)
    /\ rxLastID \in Ids \union {0} /\ rxLastType \in Types
    /\ handled \in Seq(1..Events)
    /\ down \in Seq(Frame) /\ up \in Seq(Frame)
    /\ lost \in 0..Losses
    /\ rx_last_id \in Ids \union {0}
    /\ ack_pending \in BOOLEAN /\ ack_id \in Ids \union {0}
    /\ applied \in Seq(1..Requests)
    /\ tx \in [phase : {"sending", "garbled", "sent"}, id : Ids \union {0},
               n : 0..Events, type : Types]
    /\ tx_ack_wait \in BOOLEAN /\ tx_retries \in 0..Retries
    /\ released \subseteq 1..Events

Increasing(s) == \A i, j \in 1..Len(s) : i < j => s[i] < s[j]

\* Retransmissions, repeated ACKs and losses never make either side act twice
\* on a frame, or on an older frame after a newer one.
InOrder == Increasing(applied) /\ Increasing(handled)

\* Who waits for an ACK waits for that of a request it has issued, the C64 for that
\* of the event it has built last, and what is on the line has been sent by one of
\* them.  With TypeOK it is inductive.
Shape ==
    /\ \A s \in Senders : /\ out[s].pc # "idle" => out[s].id # 0 /\ out[s].n \in 1..issued
                          /\ out[s].pc = "sleep" => out[s].attempt < Attempts
    /\ \A i \in 1..Len(down) : down[i].kind = "data" => down[i].n \in 1..issued
    /\ \A i \in 1..Len(up) : up[i].kind = "data" => up[i].n \in 1..raised
    /\ \A i \in 1..Len(recvCh) : recvCh[i].n \in 1..raised
    /\ Len(recvCh) <= 1
    /\ tx.n = raised
    /\ tx.phase # "sent" \/ tx_ack_wait => tx.id # 0 /\ tx.n # 0
    /\ ack_pending => ack_id # 0
    /\ \A i \in 1..Len(applied) : applied[i] <= issued
    /\ rx_last_id = 0 <=> applied = <<>>
    /\ rxLastID = 0 <=> handled = <<>>

LastOf(s) == s[Len(s)]

\* Events travel in the order in which they were built: the inductive strengthening
\* of the second half of InOrder.
UpInOrder ==
    /\ Increasing(handled)
    /\ \A i \in 1..Len(up) : up[i].kind = "data" =>
          /\ up[i].n = tx.n => up[i].id = tx.id
          /\ \A j \in 1..Len(up) : up[j].kind = "data" =>
                /\ i <= j => up[i].n <= up[j].n
                /\ up[i].n = up[j].n => up[i].id = up[j].id
          /\ \A j \in 1..Len(recvCh) :
                /\ recvCh[j].n <= up[i].n
                /\ recvCh[j].n = up[i].n => recvCh[j].id = up[i].id
          /\ handled # <<>> => /\ LastOf(handled) <= up[i].n
                               /\ LastOf(handled) = up[i].n => rxLastID = up[i].id
    /\ \A i \in 1..Len(recvCh) :
          /\ recvCh[i].n = tx.n => recvCh[i].id = tx.id
          /\ handled # <<>> => /\ LastOf(handled) <= recvCh[i].n
                               /\ LastOf(handled) = recvCh[i].n => rxLastID = recvCh[i].id
    /\ handled # <<>> => /\ LastOf(handled) <= tx.n
                         /\ LastOf(handled) = tx.n => rxLastID = tx.id

\* The same for the requests, as long as one goroutine sends them.
DownInOrder ==
    /\ Increasing(applied)
    /\ out[Loop].pc # "idle" => out[Loop].n = issued
    /\ \A i \in 1..Len(down) : down[i].kind = "data" =>
          /\ out[Loop].pc # "idle" /\ down[i].n = issued => down[i].id = out[Loop].id
          /\ \A j \in 1..Len(down) : down[j].kind = "data" =>
                /\ i <= j => down[i].n <= down[j].n
                /\ down[i].n = down[j].n => down[i].id = down[j].id
          /\ applied # <<>> => /\ LastOf(applied) <= down[i].n
                               /\ LastOf(applied) = down[i].n => rx_last_id = down[i].id
    /\ applied # <<>> /\ out[Loop].pc # "idle" /\ LastOf(applied) = issued
          => rx_last_id = out[Loop].id

\* The id of request n, counted back from the id of the next one.
IdOf(n) == LET id == nextTxID - (issued + 1 - n) IN IF id >= 1 THEN id ELSE id + MaxId

\* No more than Window requests overtake one that is still being sent.
InWindow ==
    /\ \A s \in Senders : out[s].pc # "idle" => issued - out[s].n <= Window
    /\ \A i \in 1..Len(down) : down[i].kind = "data" => issued - down[i].n <= Window

\* As long as nothing is that late the ids of what is on its way are those of the
\* requests: the inductive strengthening of the first half of InOrder.
IdsTrue ==
    /\ Increasing(applied)
    /\ \A s \in Senders : out[s].pc # "idle" => out[s].id = IdOf(out[s].n)
    /\ \A i \in 1..Len(down) : down[i].kind = "data" => down[i].id = IdOf(down[i].n)
    /\ applied # <<>> /\ issued - LastOf(applied) <= Window
          => rx_last_id = IdOf(LastOf(applied))

\* ACKs on their way to the sender of a request.
AckUnderway(id) ==
    \/ ack_pending /\ ack_id = id
    \/ \E i \in 1..Len(up) : up[i].kind = "ack" /\ up[i].id = id
    \/ \E i \in 1..Len(ackCh) : ackCh[i] = id

\* Nothing on the link, and nothing the C64 has applied last, is older than the ids
\* can tell: the hypothesis under which the requests are reliable.
IdsFresh ==
    /\ InWindow
    /\ applied # <<>> => issued - LastOf(applied) <= Window
    /\ ~AckUnderway(nextTxID)

\* An ACK that the event loop would take for that of its request is one.
AcksTrue ==
    /\ out[Loop].pc # "idle" => out[Loop].n = issued
    /\ out[Loop].pc # "idle" /\ AckUnderway(out[Loop].id)
          => \E i \in 1..Len(applied) : applied[i] = issued

\* Every ACK on its way is for a request that was issued.
AcksIssued ==
    \A id \in Ids : AckUnderway(id) => \E n \in 1..issued : id = IdOf(n)

\* One request at a time: what the C64 does with the requests is an at most
\* once delivery, and a request is confirmed only after it has been applied.
Requesting == INSTANCE AtMostOnce
RequestsReliable == Requesting!Spec

\* A sender that was told its request arrived is right (PROTOCOL.md: an ACK
\* means the side effects are committed into receiver-owned state).
ConfirmedApplied == \A n \in confirmed : \E i \in DOMAIN applied : applied[i] = n

OnTheWay(n) == \E i \in DOMAIN (up \o recvCh) :
                   (up \o recvCh)[i].kind = "data" /\ (up \o recvCh)[i].n = n

\* The C64 stops waiting for the ACK of an event only if the event reaches the
\* bridge or all retransmissions are used up (PROTOCOL.md:187).  The code does not
\* keep it: README, section 6.
EventsKept ==
    \A n \in released : OnTheWay(n) \/ \E i \in DOMAIN handled : handled[i] = n

\* While the attempts outnumber the frames the line may lose and the ACKs that
\* may cut into a frame, every request is confirmed: the bridge does not give up.
EveryRequestConfirmed ==
    \A n \in 1..Requests : issued >= n ~> n \in confirmed
=============================================================================
