-------------------------- MODULE TransportProofs --------------------------
(***************************************************************************)
(* Proofs about Transport, for every width of the ids, every number of     *)
(* requests, events, attempts and losses, and a line of any length.        *)
(***************************************************************************)
EXTENDS Transport, SequenceTheorems, TLAPS

-----------------------------------------------------------------------------
(* The ids, for every width of the window that fits in one byte *)

\* The Go test of the bridge and the byte arithmetic of the C64 never disagree
\* about which frames are new.
THEOREM SidesAgree ==
    \A id, last \in Ids : TransportIDAhead(id, last) <=> FrameIsNew(id, last)
BY WindowAssumption DEF TransportIDAhead, FrameIsNew, Ids

\* Of two different ids exactly one is ahead of the other: a retransmission can
\* never be new to the side that accepted its successor.
THEOREM AheadTotal ==
    \A i, j \in Ids : i # j => (TransportIDAhead(i, j) <=> ~TransportIDAhead(j, i))
BY WindowAssumption DEF TransportIDAhead, Ids

\* The next id is an id, it is ahead, and numbering never uses 0.
THEOREM NextAhead ==
    \A id \in Ids : NextId(id) \in Ids /\ TransportIDAhead(NextId(id), id)
BY WindowAssumption DEF TransportIDAhead, NextId, Ids

-----------------------------------------------------------------------------
(* The sequences of the link *)

\* What is left after the head has been taken.
LEMMA TailFacts ==
    ASSUME NEW S, NEW s \in Seq(S), s # <<>>
    PROVE  /\ Len(s) \in Nat /\ 1 \in 1..Len(s) /\ Head(s) = s[1] /\ Head(s) \in S
           /\ Tail(s) \in Seq(S) /\ Len(Tail(s)) = Len(s) - 1
           /\ \A i \in 1..Len(Tail(s)) : i + 1 \in 1..Len(s) /\ Tail(s)[i] = s[i + 1]
<1>1. Len(s) \in Nat \ {0}
  BY EmptySeq
<1>2. /\ Head(s) \in S /\ Tail(s) \in Seq(S) /\ Len(Tail(s)) = Len(s) - 1
      /\ \A i \in 1..Len(Tail(s)) : Tail(s)[i] = s[i + 1]
  BY HeadTailProperties
<1>3. Head(s) = s[1]
  OBVIOUS
<1>4. QED
  BY <1>1, <1>2, <1>3

\* What a sequence holds after something has been appended.
LEMMA AppendFacts ==
    ASSUME NEW S, NEW s \in Seq(S), NEW e \in S
    PROVE  /\ Append(s, e) \in Seq(S) /\ Len(s) \in Nat /\ Len(Append(s, e)) = Len(s) + 1
           /\ Append(s, e)[Len(s) + 1] = e
           /\ \A i \in 1..(Len(s) + 1) :
                 \/ i \in 1..Len(s) /\ Append(s, e)[i] = s[i]
                 \/ i = Len(s) + 1
<1>1. /\ Append(s, e) \in Seq(S) /\ Len(Append(s, e)) = Len(s) + 1
      /\ \A i \in 1..Len(s) : Append(s, e)[i] = s[i]
      /\ Append(s, e)[Len(s) + 1] = e
  BY AppendProperties
<1>2. Len(s) \in Nat
  BY LenProperties
<1>3. QED
  BY <1>1, <1>2

\* The ACKs that are owed are frames of their own, no data.
LEMMA AckFrames ==
    ASSUME NEW ids \in Seq(Ids)
    PROVE  /\ Acks(ids) \in Seq(Frame) /\ Len(Acks(ids)) = Len(ids)
           /\ \A i \in 1..Len(ids) : Acks(ids)[i].kind = "ack"
<1>1. Len(ids) \in Nat /\ \A i \in 1..Len(ids) : ids[i] \in Ids
  BY LenProperties, ElementOfSeq
<1>2. \A i \in 1..Len(ids) : Ack(ids[i]) \in Frame /\ Ack(ids[i]).kind = "ack"
  BY <1>1 DEF Ack, Frame
<1>3. Acks(ids) \in [1..Len(ids) -> Frame]
  BY <1>2 DEF Acks
<1>4. Acks(ids) \in Seq(Frame) /\ Len(Acks(ids)) = Len(ids)
  BY <1>1, <1>3
<1>5. QED
  BY <1>2, <1>4 DEF Acks

\* After a sequence of ACKs the data of the line is what it was.
LEMMA AcksAppended ==
    ASSUME NEW s \in Seq(Frame), NEW a \in Seq(Frame),
           \A i \in 1..Len(a) : a[i].kind = "ack"
    PROVE  /\ s \o a \in Seq(Frame) /\ Len(s \o a) \in Nat /\ Len(s) \in Nat
           /\ Len(s) <= Len(s \o a)
           /\ \A i \in 1..Len(s \o a) :
                 \/ i \in 1..Len(s) /\ (s \o a)[i] = s[i]
                 \/ i > Len(s) /\ (s \o a)[i].kind = "ack"
<1>1. /\ Len(s) \in Nat /\ Len(a) \in Nat
      /\ s \o a \in Seq(Frame) /\ Len(s \o a) = Len(s) + Len(a)
      /\ \A i \in 1..Len(s) + Len(a) :
            (s \o a)[i] = IF i <= Len(s) THEN s[i] ELSE a[i - Len(s)]
  BY ConcatProperties, LenProperties
<1>2. ASSUME NEW i \in 1..Len(s \o a)
      PROVE  \/ i \in 1..Len(s) /\ (s \o a)[i] = s[i]
             \/ i > Len(s) /\ (s \o a)[i].kind = "ack"
  <2>1. CASE i <= Len(s)
    BY <1>1, <2>1
  <2>2. CASE i > Len(s)
    <3>1. i - Len(s) \in 1..Len(a)
      BY <1>1, <2>2
    <3>2. a[i - Len(s)].kind = "ack"
      BY <3>1
    <3>3. (s \o a)[i] = a[i - Len(s)]
      BY <1>1, <2>2
    <3>4. QED
      BY <2>2, <3>2, <3>3
  <2>3. QED
    BY <1>1, <2>1, <2>2
<1>3. QED
  BY <1>1, <1>2

\* A data frame goes behind the ACKs that are owed.
LEMMA SentDown ==
    ASSUME TypeOK, NEW f \in DataFrame, SendDown(f)
    PROVE  /\ down' \in Seq(Frame) /\ Len(down) \in Nat /\ Len(down') \in Nat
           /\ pendingAcks' = <<>> /\ pendingAcks' \in Seq(Ids)
           /\ Len(down) < Len(down') /\ down'[Len(down')] = f
           /\ \A i \in 1..Len(down') : down'[i].kind = "data" =>
                 \/ i \in 1..Len(down) /\ down'[i] = down[i]
                 \/ i = Len(down')
<1> DEFINE acked == down \o Acks(pendingAcks)
<1>1. acked \in Seq(Frame) /\ Len(acked) \in Nat /\ Len(down) \in Nat
      /\ Len(down) <= Len(acked)
      /\ \A i \in 1..Len(acked) :
            \/ i \in 1..Len(down) /\ acked[i] = down[i]
            \/ i > Len(down) /\ acked[i].kind = "ack"
  BY AckFrames, AcksAppended DEF TypeOK
<1>2. f \in Frame
  BY DEF Frame
<1> HIDE DEF acked
<1>3. <<f>> \in Seq(Frame) /\ Len(<<f>>) = 1 /\ <<f>>[1] = f
  BY <1>2
<1>4. /\ acked \o <<f>> \in Seq(Frame) /\ Len(acked \o <<f>>) = Len(acked) + 1
      /\ \A i \in 1..Len(acked) + 1 :
            (acked \o <<f>>)[i] = IF i <= Len(acked) THEN acked[i] ELSE <<f>>[i - Len(acked)]
  BY <1>1, <1>3, ConcatProperties
<1>5. down' = acked \o <<f>> /\ pendingAcks' = <<>>
  <2>1. down \o Acks(pendingAcks) \o <<f>> = acked \o <<f>>
    BY DEF acked
  <2>2. QED
    BY <2>1 DEF SendDown
<1>6. \A i \in 1..Len(down') : i \in 1..Len(acked) \/ i = Len(acked) + 1
  BY <1>1, <1>4, <1>5
<1>7. down'[Len(acked) + 1] = f
  BY <1>1, <1>3, <1>4, <1>5
<1>8. \A i \in 1..Len(acked) : down'[i] = acked[i]
  BY <1>1, <1>4, <1>5
<1>9. QED
  BY <1>1, <1>4, <1>5, <1>6, <1>7, <1>8, EmptySeq

\* Flushing the owed ACKs adds no data.
LEMMA FlushedDown ==
    ASSUME TypeOK, FlushAcks
    PROVE  /\ down' \in Seq(Frame) /\ Len(down) \in Nat /\ Len(down') \in Nat
           /\ pendingAcks' = <<>> /\ pendingAcks' \in Seq(Ids)
           /\ \A i \in 1..Len(down') : down'[i].kind = "data" =>
                 i \in 1..Len(down) /\ down'[i] = down[i]
<1> DEFINE once == Acks(pendingAcks)
<1>1. once \in Seq(Frame) /\ Len(once) \in Nat /\ \A i \in 1..Len(once) : once[i].kind = "ack"
  BY AckFrames, LenProperties DEF TypeOK
<1> HIDE DEF once
<1>2. once \o once \in Seq(Frame) /\ \A i \in 1..Len(once \o once) : (once \o once)[i].kind = "ack"
  BY <1>1, AcksAppended
<1>3. PICK a \in {once, once \o once} : down' = down \o a
  BY DEF FlushAcks, once
<1>4. a \in Seq(Frame) /\ \A i \in 1..Len(a) : a[i].kind = "ack"
  BY <1>1, <1>2, <1>3
<1>5. /\ down \o a \in Seq(Frame) /\ Len(down \o a) \in Nat /\ Len(down) \in Nat
      /\ \A i \in 1..Len(down \o a) :
            \/ i \in 1..Len(down) /\ (down \o a)[i] = down[i]
            \/ i > Len(down) /\ (down \o a)[i].kind = "ack"
  BY <1>4, AcksAppended DEF TypeOK
<1>6. pendingAcks' = <<>> /\ pendingAcks' \in Seq(Ids)
  BY EmptySeq DEF FlushAcks
<1>7. QED
  BY <1>3, <1>5, <1>6

-----------------------------------------------------------------------------
(* Type correctness *)

\* One is an id; no sum or difference of numbers of requests leaves the integers.
LEMMA IdsFacts ==
    /\ Ids \subseteq Nat \ {0} /\ 1 \in Ids /\ 0 \notin Ids
    /\ \A id \in Ids : NextId(id) \in Ids
<1>1. MaxId \in Nat /\ MaxId >= 1
  BY WindowAssumption
<1>2. QED
  BY <1>1, NextAhead DEF Ids

LEMMA InitTypeOK == Init => TypeOK /\ Shape
<1> SUFFICES ASSUME Init PROVE TypeOK /\ Shape
  OBVIOUS
<1> USE DEF Init
<1>1. /\ <<>> \in Seq(Ids) /\ <<>> \in Seq(DataFrame) /\ <<>> \in Seq(Frame)
      /\ <<>> \in Seq(1..Events) /\ <<>> \in Seq(1..Requests) /\ Len(<<>>) = 0
  BY EmptySeq
<1>2. Idle \in [pc : {"idle", "sent", "wait", "sleep"},
                id : Ids \union {0}, n : 0..Requests, attempt : 0..Attempts]
  BY BoundsAssumption DEF Idle
<1>3. TypeOK
  <2>1. nextTxID \in Ids /\ tx_next_id \in Ids
    BY IdsFacts, FirstIdsAssumption
  <2>2. out \in [Senders -> [pc : {"idle", "sent", "wait", "sleep"},
                             id : Ids \union {0}, n : 0..Requests, attempt : 0..Attempts]]
    BY <1>2
  <2>3. tx \in [phase : {"sending", "garbled", "sent"}, id : Ids \union {0},
                n : 0..Events, type : Types]
    BY BoundsAssumption DEF Types
  <2>4. /\ issued \in 0..Requests /\ raised \in 0..Events /\ lost \in 0..Losses
        /\ tx_retries \in 0..Retries
    BY BoundsAssumption
  <2>5. QED
    BY <1>1, <2>1, <2>2, <2>3, <2>4 DEF TypeOK, Types
<1>4. Shape
  BY <1>1 DEF Shape, Idle
<1>5. QED
  BY <1>3, <1>4

\* The bridge's sending side keeps the types.
LEMMA BridgeSendTypeOK ==
    ASSUME TypeOK, Shape, NEW s \in Senders,
           \/ SendNew(s) \/ Register(s) \/ AckTimeout(s) \/ Resend(s)
           \/ TakeWaiterAck(s) \/ TakeAck
    PROVE  TypeOK'
<1> USE DEF TypeOK
<1>1. ASSUME NEW t \in Senders
      PROVE  /\ out[t] \in [pc : {"idle", "sent", "wait", "sleep"},
                            id : Ids \union {0}, n : 0..Requests, attempt : 0..Attempts]
             /\ out[t].pc # "idle" => out[t].id \in Ids /\ out[t].n \in 1..Requests
             /\ out[t].pc = "sleep" => out[t].attempt < Attempts
  BY DEF Shape
<1>2. Idle \in [pc : {"idle", "sent", "wait", "sleep"},
                id : Ids \union {0}, n : 0..Requests, attempt : 0..Attempts]
  BY BoundsAssumption DEF Idle
<1>3. CASE SendNew(s)
  <2>1. /\ issued' \in 0..Requests /\ issued' # 0
        /\ nextTxID' \in Ids
    BY <1>3, IdsFacts, BoundsAssumption DEF SendNew
  <2>2. Data(nextTxID, issued', "OTHER") \in DataFrame
    BY <2>1 DEF Data, DataFrame, Types
  <2>3. down' \in Seq(Frame) /\ pendingAcks' \in Seq(Ids)
    BY <1>3, <2>2, SentDown DEF SendNew
  <2>4. [pc |-> IF s = Loop THEN "wait" ELSE "sent", id |-> nextTxID, n |-> issued', attempt |-> 1]
          \in [pc : {"idle", "sent", "wait", "sleep"},
               id : Ids \union {0}, n : 0..Requests, attempt : 0..Attempts]
    BY <2>1, BoundsAssumption
  <2>5. out' \in [Senders -> [pc : {"idle", "sent", "wait", "sleep"},
                              id : Ids \union {0}, n : 0..Requests, attempt : 0..Attempts]]
    BY <1>3, <2>4 DEF SendNew
  <2>6. QED
    BY <1>3, <2>1, <2>3, <2>5 DEF SendNew, rxVars, txVars
<1>4. CASE Register(s) \/ AckTimeout(s)
  <2>1. PICK r \in [pc : {"idle", "sent", "wait", "sleep"},
                    id : Ids \union {0}, n : 0..Requests, attempt : 0..Attempts] :
           out' = [out EXCEPT ![s] = r]
    <3>1. [out[s] EXCEPT !.pc = "sleep"] \in [pc : {"idle", "sent", "wait", "sleep"},
                    id : Ids \union {0}, n : 0..Requests, attempt : 0..Attempts]
      BY <1>1
    <3>2. [out[s] EXCEPT !.pc = "wait"] \in [pc : {"idle", "sent", "wait", "sleep"},
                    id : Ids \union {0}, n : 0..Requests, attempt : 0..Attempts]
      BY <1>1
    <3>3. QED
      BY <1>2, <1>4, <3>1, <3>2 DEF Register, AckTimeout
  <2>2. waiter' \in [Senders -> SUBSET Ids]
    BY <1>4 DEF Register, AckTimeout
  <2>3. QED
    BY <1>4, <2>1, <2>2 DEF Register, AckTimeout, recvVars, rxVars, txVars
<1>5. CASE Resend(s)
  <2>1. Data(out[s].id, out[s].n, "OTHER") \in DataFrame
    BY <1>1, <1>5 DEF Resend, Data, DataFrame, Types
  <2>2. down' \in Seq(Frame) /\ pendingAcks' \in Seq(Ids)
    BY <1>5, <2>1, SentDown DEF Resend
  <2>3. out[s].attempt + 1 \in 0..Attempts
    <3>1. out[s].attempt \in 0..Attempts /\ out[s].attempt < Attempts
      BY <1>1, <1>5 DEF Resend
    <3>2. QED
      BY <3>1, BoundsAssumption
  <2>4. out' \in [Senders -> [pc : {"idle", "sent", "wait", "sleep"},
                              id : Ids \union {0}, n : 0..Requests, attempt : 0..Attempts]]
    BY <1>1, <1>5, <2>3 DEF Resend
  <2>5. QED
    BY <1>5, <2>2, <2>4 DEF Resend, rxVars, txVars
<1>6. ASSUME NEW t \in Senders, out[t].pc # "idle", Confirm(t)
      PROVE  /\ confirmed' \subseteq 1..Requests
             /\ out' \in [Senders -> [pc : {"idle", "sent", "wait", "sleep"},
                              id : Ids \union {0}, n : 0..Requests, attempt : 0..Attempts]]
  <2>1. out[t].n \in 1..Requests
    BY <1>1, <1>6
  <2>2. QED
    BY <1>2, <1>6, <2>1 DEF Confirm
<1>7. CASE TakeWaiterAck(s)
  <2>1. out[s].pc # "idle" /\ Confirm(s)
    BY <1>7 DEF TakeWaiterAck
  <2>2. waiter' \in [Senders -> SUBSET Ids]
    BY <1>7 DEF TakeWaiterAck
  <2>3. QED
    BY <1>6, <1>7, <2>1, <2>2 DEF TakeWaiterAck, recvVars, rxVars, txVars
<1>8. CASE TakeAck
  <2>1. ackCh' \in Seq(Ids)
    BY <1>8, TailFacts DEF TakeAck
  <2>2. /\ confirmed' \subseteq 1..Requests
        /\ out' \in [Senders -> [pc : {"idle", "sent", "wait", "sleep"},
                              id : Ids \union {0}, n : 0..Requests, attempt : 0..Attempts]]
    BY <1>6, <1>8, SendersAssumption DEF TakeAck
  <2>3. QED
    BY <1>8, <2>1, <2>2 DEF TakeAck, recvVars, rxVars, txVars
<1>9. QED
  BY <1>3, <1>4, <1>5, <1>7, <1>8

\* So does its receiving side, and the line.
LEMMA BridgeReceiveTypeOK ==
    ASSUME TypeOK, Shape, TakeData \/ FlushAcks \/ ReceiveLoop \/ Lose
    PROVE  TypeOK'
<1> USE DEF TypeOK
<1>1. CASE TakeData
  <2>1. recvCh[1] \in DataFrame /\ Head(recvCh) = recvCh[1] /\ 1 \in 1..Len(recvCh)
    BY <1>1, TailFacts DEF TakeData
  <2>2. recvCh[1].id \in Ids /\ recvCh[1].type \in Types /\ recvCh[1].n \in 1..Events
    BY <2>1, BoundsAssumption DEF DataFrame, Shape
  <2>3. Append(pendingAcks, recvCh[1].id) \in Seq(Ids) /\ Append(handled, recvCh[1].n) \in Seq(1..Events)
    BY <2>2
  <2>4. recvCh' \in Seq(DataFrame)
    BY <1>1, EmptySeq DEF TakeData
  <2>5. /\ pendingAcks' \in Seq(Ids) /\ rxLastID' \in Ids \union {0}
        /\ rxLastType' \in Types /\ handled' \in Seq(1..Events)
    BY <1>1, <2>1, <2>2, <2>3 DEF TakeData
  <2>6. QED
    BY <1>1, <2>4, <2>5 DEF TakeData, sendVars, rxVars, txVars
<1>2. CASE FlushAcks
  <2>1. down' \in Seq(Frame) /\ pendingAcks' \in Seq(Ids)
    BY <1>2, FlushedDown
  <2>2. QED
    BY <1>2, <2>1 DEF FlushAcks, sendVars, rxVars, txVars
<1>3. CASE ReceiveLoop
  <2>1. up' \in Seq(Frame) /\ Head(up) \in Frame
    BY <1>3, TailFacts DEF ReceiveLoop
  <2>2. CASE Head(up).kind = "data"
    <3>1. Head(up) \in DataFrame
      BY <2>1, <2>2 DEF Frame, DataFrame
    <3>2. recvCh' = <<Head(up)>> /\ UNCHANGED <<ackCh, waiter>>
      BY <1>3, <2>2 DEF ReceiveLoop
    <3>3. QED
      BY <1>3, <2>1, <3>1, <3>2 DEF ReceiveLoop, sendVars, recvVars, rxVars, txVars
  <2>3. CASE Head(up).kind # "data"
    <3>1. Head(up).id \in Ids
      BY <2>1 DEF Frame, DataFrame
    <3> DEFINE to == {t \in Senders : Registered(t) /\ out[t].id = Head(up).id}
    <3>2. /\ recvCh' = recvCh
          /\ \/ /\ waiter' = [t \in Senders |-> IF t \in to THEN {Head(up).id} ELSE waiter[t]]
                /\ ackCh' = ackCh
             \/ ackCh' = Append(ackCh, Head(up).id) /\ waiter' = waiter
      BY <1>3, <2>3 DEF ReceiveLoop
    <3> HIDE DEF to
    <3>3. waiter' \in [Senders -> SUBSET Ids]
      <4>1. waiter \in [Senders -> SUBSET Ids]
        OBVIOUS
      <4>2. [t \in Senders |-> IF t \in to THEN {Head(up).id} ELSE waiter[t]]
               \in [Senders -> SUBSET Ids]
        BY <3>1, <4>1
      <4>3. QED
        BY <3>2, <4>1, <4>2
    <3>4. ackCh' \in Seq(Ids)
      <4>1. ackCh \in Seq(Ids)
        OBVIOUS
      <4>2. Append(ackCh, Head(up).id) \in Seq(Ids)
        BY <3>1, <4>1, AppendFacts, Zenon
      <4>3. QED
        BY <3>2, <4>1, <4>2
    <3>5. QED
      BY <1>3, <2>1, <3>2, <3>3, <3>4 DEF ReceiveLoop, sendVars, recvVars, rxVars, txVars
  <2>4. QED
    BY <2>2, <2>3
<1>4. CASE Lose
  <2>1. down' \in Seq(Frame) /\ up' \in Seq(Frame)
    <3>1. \/ down # <<>> /\ down' = Tail(down) /\ up' = up
          \/ up # <<>> /\ up' = Tail(up) /\ down' = down
      BY <1>4 DEF Lose
    <3>2. down # <<>> => Tail(down) \in Seq(Frame)
      BY TailFacts
    <3>3. up # <<>> => Tail(up) \in Seq(Frame)
      BY TailFacts
    <3>4. QED
      BY <3>1, <3>2, <3>3
  <2>2. lost' \in 0..Losses
    BY <1>4, BoundsAssumption DEF Lose
  <2>3. QED
    BY <1>4, <2>1, <2>2 DEF Lose, sendVars, recvVars, rxVars, txVars
<1>5. QED
  BY <1>1, <1>2, <1>3, <1>4

\* And the C64.
LEMMA C64TypeOK ==
    ASSUME TypeOK, Shape, C64
    PROVE  TypeOK'
<1> USE DEF TypeOK
<1>1. tx \in [phase : {"sending", "garbled", "sent"}, id : Ids \union {0}, n : 0..Events, type : Types]
  OBVIOUS
<1>2. CASE AckIn \/ RequestStale \/ RequestNew
  <2>1. down # <<>> /\ down' = Tail(down)
    BY <1>2 DEF AckIn, RequestStale, RequestNew
  <2>2. /\ Head(down) \in Frame /\ down' \in Seq(Frame)
        /\ Head(down) = down[1] /\ 1 \in 1..Len(down)
    <3>1. down \in Seq(Frame)
      OBVIOUS
    <3>2. QED
      BY <2>1, <3>1, TailFacts
  <2>3. Head(down).id \in Ids
    BY <2>2 DEF Frame, DataFrame
  <2>4. Head(down).kind = "data" => Head(down).n \in 1..Requests
    <3>1. issued \in 0..Requests /\ Head(down).kind = "data" => Head(down).n \in 1..issued
      BY <2>2 DEF Shape
    <3>2. issued \in 0..Requests
      OBVIOUS
    <3>3. QED
      BY <3>1, <3>2, BoundsAssumption
  <2>5. tx_ack_wait => tx.n \in 1..Events
    BY <1>1, BoundsAssumption DEF Shape
  <2>6. CASE AckIn
    BY <2>2, <2>5, <2>6 DEF AckIn, sendVars, recvVars, rxVars
  <2>7. CASE RequestStale
    BY <2>2, <2>3, <2>7 DEF RequestStale, QueueAck, sendVars, recvVars, txVars
  <2>8. CASE RequestNew
    <3>1. applied' \in Seq(1..Requests)
      BY <2>4, <2>8 DEF RequestNew
    <3>2. QED
      BY <2>2, <2>3, <2>5, <2>8, <3>1 DEF RequestNew, QueueAck, sendVars, recvVars
  <2>9. QED
    BY <1>2, <2>6, <2>7, <2>8
<1>3. ASSUME NEW t \in Types, BuildEvent(t)
      PROVE  TypeOK'
  <2>1. raised' \in 0..Events /\ tx_next_id' \in Ids
    BY <1>3, IdsFacts, BoundsAssumption DEF BuildEvent
  <2>2. tx' \in [phase : {"sending", "garbled", "sent"}, id : Ids \union {0}, n : 0..Events, type : Types]
    BY <1>3, <2>1 DEF BuildEvent
  <2>3. QED
    BY <1>3, <2>1, <2>2, BoundsAssumption DEF BuildEvent, sendVars, recvVars, rxVars
<1>4. CASE EventSent
  <2>1. Data(tx.id, tx.n, tx.type) \in Frame
    BY <1>1, <1>4, BoundsAssumption DEF EventSent, Data, Frame, DataFrame, Shape
  <2>2. up' \in Seq(Frame)
    BY <1>4, <2>1 DEF EventSent
  <2>3. tx' \in [phase : {"sending", "garbled", "sent"}, id : Ids \union {0}, n : 0..Events, type : Types]
    BY <1>1, <1>4 DEF EventSent
  <2>4. QED
    BY <1>4, <2>2, <2>3 DEF EventSent, sendVars, recvVars, rxVars
<1>5. CASE AckWaitTimeout
  <2>1. tx' \in [phase : {"sending", "garbled", "sent"}, id : Ids \union {0}, n : 0..Events, type : Types]
    BY <1>1, <1>5 DEF AckWaitTimeout
  <2>2. tx_retries' \in 0..Retries /\ tx_ack_wait' \in BOOLEAN
    <3>1. tx_retries \in 0..Retries
      OBVIOUS
    <3>2. tx_retries < Retries => tx_retries + 1 \in 0..Retries
      BY <3>1, BoundsAssumption
    <3>3. QED
      BY <1>5, <3>2 DEF AckWaitTimeout
  <2>3. QED
    BY <1>5, <2>1, <2>2 DEF AckWaitTimeout, sendVars, recvVars, rxVars
<1>6. CASE DrainAck
  <2>1. Ack(ack_id) \in Frame
    BY <1>6 DEF DrainAck, Ack, Frame, Shape
  <2>2. up' \in Seq(Frame)
    <3>1. up \in Seq(Frame) /\ (up' = up \/ up' = Append(up, Ack(ack_id)))
      BY <1>6 DEF DrainAck
    <3>2. Append(up, Ack(ack_id)) \in Seq(Frame)
      BY <2>1, <3>1, AppendFacts, Zenon
    <3>3. QED
      BY <3>1, <3>2
  <2>3. tx' \in [phase : {"sending", "garbled", "sent"}, id : Ids \union {0}, n : 0..Events, type : Types]
    BY <1>1, <1>6 DEF DrainAck
  <2>4. QED
    BY <1>6, <2>2, <2>3 DEF DrainAck, sendVars, recvVars, rxVars
<1>7. QED
  BY <1>2, <1>3, <1>4, <1>5, <1>6 DEF C64

LEMMA StepTypeOK == TypeOK /\ Shape /\ [Next]_vars => TypeOK'
<1> SUFFICES ASSUME TypeOK, Shape, [Next]_vars PROVE TypeOK'
  OBVIOUS
<1>1. CASE Next
  BY <1>1, BridgeSendTypeOK, BridgeReceiveTypeOK, C64TypeOK, SendersAssumption DEF Next, Bridge
<1>2. CASE UNCHANGED vars
  BY <1>2 DEF TypeOK, vars, sendVars, recvVars, rxVars, txVars
<1>3. QED
  BY <1>1, <1>2

-----------------------------------------------------------------------------
(* What a step does to the frames on the line *)

\* The data of t is that of s, of which the first k frames are gone.
Kept(s, t, k) ==
    /\ Len(s) \in Nat /\ Len(t) \in Nat
    /\ \A i \in 1..Len(t) : t[i].kind = "data" => i + k \in 1..Len(s) /\ t[i] = s[i + k]

\* The data of t is that of s and the frame f behind it.
Sent(s, t, f) ==
    /\ Len(s) \in Nat /\ Len(t) \in Nat /\ Len(s) < Len(t) /\ t[Len(t)] = f
    /\ \A i \in 1..Len(t) : t[i].kind = "data" =>
          \/ i \in 1..Len(s) /\ t[i] = s[i]
          \/ i = Len(t)

LEMMA KeptSame == ASSUME NEW S, NEW s \in Seq(S) PROVE Kept(s, s, 0)
  BY LenProperties DEF Kept

LEMMA KeptTail == ASSUME NEW S, NEW s \in Seq(S), s # <<>> PROVE Kept(s, Tail(s), 1)
<1>1. /\ Len(s) \in Nat /\ Len(Tail(s)) = Len(s) - 1 /\ 1 \in 1..Len(s)
      /\ \A i \in 1..Len(Tail(s)) : i + 1 \in 1..Len(s) /\ Tail(s)[i] = s[i + 1]
  BY TailFacts
<1>2. Len(Tail(s)) \in Nat
  BY <1>1
<1>3. QED
  BY <1>1, <1>2 DEF Kept

LEMMA SentAppend ==
    ASSUME NEW S, NEW s \in Seq(S), NEW e \in S
    PROVE  Sent(s, Append(s, e), e)
<1>1. /\ Len(s) \in Nat /\ Len(Append(s, e)) = Len(s) + 1
      /\ Append(s, e)[Len(s) + 1] = e
      /\ \A i \in 1..(Len(s) + 1) :
            \/ i \in 1..Len(s) /\ Append(s, e)[i] = s[i]
            \/ i = Len(s) + 1
  BY AppendFacts
<1>2. QED
  BY <1>1 DEF Sent

\* Whatever is appended, if it is no data, the data is kept.
LEMMA KeptAck ==
    ASSUME NEW S, NEW s \in Seq(S), NEW e \in S, e.kind # "data"
    PROVE  Kept(s, Append(s, e), 0)
<1>1. /\ Len(s) \in Nat /\ Len(Append(s, e)) = Len(s) + 1
      /\ Append(s, e)[Len(s) + 1] = e
      /\ \A i \in 1..(Len(s) + 1) :
            \/ i \in 1..Len(s) /\ Append(s, e)[i] = s[i]
            \/ i = Len(s) + 1
  BY AppendFacts
<1>2. QED
  BY <1>1 DEF Kept

\* Only a sender puts a request on the line.
LEMMA DownMoves ==
    ASSUME TypeOK, Shape, [Next]_vars
    PROVE  \/ \E k \in {0, 1} : Kept(down, down', k)
           \/ \E s \in Senders : \/ SendNew(s) /\ Sent(down, down', Data(nextTxID, issued', "OTHER"))
                                 \/ Resend(s) /\ Sent(down, down', Data(out[s].id, out[s].n, "OTHER"))
<1>1. down \in Seq(Frame)
  BY DEF TypeOK
<1>2. CASE down' = down
  BY <1>1, <1>2, KeptSame
<1>3. CASE down # <<>> /\ down' = Tail(down)
  BY <1>1, <1>3, KeptTail
<1>4. ASSUME NEW s \in Senders, SendNew(s)
      PROVE  Sent(down, down', Data(nextTxID, issued', "OTHER"))
  <2>1. issued' = issued + 1 /\ nextTxID \in Ids /\ issued \in 0..Requests
    BY <1>4 DEF SendNew, TypeOK
  <2>2. Data(nextTxID, issued', "OTHER") \in DataFrame
    BY <2>1, BoundsAssumption DEF Data, DataFrame, Types
  <2>3. SendDown(Data(nextTxID, issued', "OTHER"))
    BY <1>4 DEF SendNew
  <2>4. QED
    BY <2>2, <2>3, SentDown DEF Sent
<1>5. ASSUME NEW s \in Senders, Resend(s)
      PROVE  Sent(down, down', Data(out[s].id, out[s].n, "OTHER"))
  <2>1. out[s].id \in Ids /\ out[s].n \in Nat
    <3>1. out[s] \in [pc : {"idle", "sent", "wait", "sleep"},
                      id : Ids \union {0}, n : 0..Requests, attempt : 0..Attempts]
      BY DEF TypeOK
    <3>2. out[s].pc = "sleep"
      BY <1>5 DEF Resend
    <3>3. QED
      BY <3>1, <3>2, BoundsAssumption DEF Shape
  <2>2. Data(out[s].id, out[s].n, "OTHER") \in DataFrame
    BY <2>1 DEF Data, DataFrame, Types
  <2>3. SendDown(Data(out[s].id, out[s].n, "OTHER"))
    BY <1>5 DEF Resend
  <2>4. QED
    BY <2>2, <2>3, SentDown DEF Sent
<1>6. CASE FlushAcks
  <2>1. /\ Len(down) \in Nat /\ Len(down') \in Nat
        /\ \A i \in 1..Len(down') : down'[i].kind = "data" =>
              i \in 1..Len(down) /\ down'[i] = down[i]
    BY <1>6, FlushedDown
  <2>2. Kept(down, down', 0)
    BY <2>1 DEF Kept
  <2>3. QED
    BY <2>2
<1>7. CASE \E s \in Senders : Register(s) \/ AckTimeout(s) \/ TakeWaiterAck(s)
  BY <1>2, <1>7 DEF Register, AckTimeout, TakeWaiterAck
<1>8. CASE TakeAck \/ TakeData \/ ReceiveLoop
  BY <1>2, <1>8 DEF TakeAck, TakeData, ReceiveLoop
<1>9. CASE Lose
  BY <1>2, <1>3, <1>9 DEF Lose
<1>10. CASE AckIn \/ RequestStale \/ RequestNew
  BY <1>3, <1>10 DEF AckIn, RequestStale, RequestNew
<1>11. CASE (\E t \in Types : BuildEvent(t)) \/ EventSent \/ AckWaitTimeout \/ DrainAck
  BY <1>2, <1>11 DEF BuildEvent, EventSent, AckWaitTimeout, DrainAck
<1>12. CASE UNCHANGED vars
  BY <1>2, <1>12 DEF vars
<1>13. QED
  BY <1>4, <1>5, <1>6, <1>7, <1>8, <1>9, <1>10, <1>11, <1>12 DEF Next, Bridge, C64

\* Only the C64 puts an event on the line, the one it has built last.
LEMMA UpMoves ==
    ASSUME TypeOK, Shape, [Next]_vars
    PROVE  \/ Kept(up, up', 0)
           \/ up # <<>> /\ up' = Tail(up) /\ Kept(up, up', 1)
           \/ EventSent /\ Sent(up, up', Data(tx.id, tx.n, tx.type))
<1>1. up \in Seq(Frame)
  BY DEF TypeOK
<1>2. CASE up' = up
  BY <1>1, <1>2, KeptSame
<1>3. CASE up # <<>> /\ up' = Tail(up)
  BY <1>1, <1>3, KeptTail
<1>4. CASE EventSent
  <2>1. CASE tx.phase = "sending"
    <3>1. tx \in [phase : {"sending", "garbled", "sent"}, id : Ids \union {0}, n : 0..Events, type : Types]
      BY DEF TypeOK
    <3>2. Data(tx.id, tx.n, tx.type) \in Frame
      BY <2>1, <3>1, BoundsAssumption DEF Data, Frame, DataFrame, Shape
    <3>3. up' = Append(up, Data(tx.id, tx.n, tx.type))
      BY <1>4, <2>1 DEF EventSent
    <3>4. QED
      BY <1>1, <1>4, <3>2, <3>3, SentAppend
  <2>2. CASE tx.phase # "sending"
    BY <1>2, <1>4, <2>2 DEF EventSent
  <2>3. QED
    BY <2>1, <2>2
<1>5. CASE DrainAck
  <2>1. Ack(ack_id) \in Frame /\ Ack(ack_id).kind # "data"
    <3>1. ack_id \in Ids
      BY <1>5 DEF DrainAck, TypeOK, Shape
    <3>2. QED
      BY <3>1 DEF Ack, Frame
  <2>2. up' = up \/ up' = Append(up, Ack(ack_id))
    BY <1>5 DEF DrainAck
  <2>3. QED
    BY <1>1, <1>2, <2>1, <2>2, KeptAck
<1>6. CASE \E s \in Senders : \/ SendNew(s) \/ Register(s) \/ AckTimeout(s)
                              \/ Resend(s) \/ TakeWaiterAck(s)
  BY <1>2, <1>6 DEF SendNew, Register, AckTimeout, Resend, TakeWaiterAck
<1>7. CASE TakeAck \/ TakeData \/ FlushAcks
  BY <1>2, <1>7 DEF TakeAck, TakeData, FlushAcks
<1>8. CASE ReceiveLoop \/ Lose
  BY <1>2, <1>3, <1>8 DEF ReceiveLoop, Lose
<1>9. CASE AckIn \/ RequestStale \/ RequestNew
  BY <1>2, <1>9 DEF AckIn, RequestStale, RequestNew
<1>10. CASE (\E t \in Types : BuildEvent(t)) \/ AckWaitTimeout
  BY <1>2, <1>10 DEF BuildEvent, AckWaitTimeout
<1>11. CASE UNCHANGED vars
  BY <1>2, <1>11 DEF vars
<1>12. QED
  BY <1>4, <1>5, <1>6, <1>7, <1>8, <1>9, <1>10, <1>11 DEF Next, Bridge, C64

-----------------------------------------------------------------------------
(* The shape of the state *)

\* The counters only grow.
LEMMA Counting ==
    ASSUME TypeOK, [Next]_vars
    PROVE  /\ issued \in Nat /\ raised \in Nat
           /\ issued' = issued \/ issued' = issued + 1
           /\ raised' = raised \/ raised' = raised + 1
<1>1. issued \in Nat /\ raised \in Nat
  BY BoundsAssumption DEF TypeOK
<1>2. CASE \E s \in Senders : \/ SendNew(s) \/ Register(s) \/ AckTimeout(s)
                              \/ Resend(s) \/ TakeWaiterAck(s)
  BY <1>1, <1>2 DEF SendNew, Register, AckTimeout, Resend, TakeWaiterAck, txVars
<1>3. CASE TakeAck \/ TakeData \/ FlushAcks \/ ReceiveLoop \/ Lose
  BY <1>1, <1>3 DEF TakeAck, TakeData, FlushAcks, ReceiveLoop, Lose, sendVars, txVars
<1>4. CASE C64
  BY <1>1, <1>4 DEF C64, AckIn, RequestStale, RequestNew, BuildEvent, EventSent,
     AckWaitTimeout, DrainAck, sendVars, txVars
<1>5. CASE UNCHANGED vars
  BY <1>1, <1>5 DEF vars, sendVars, txVars
<1>6. QED
  BY <1>2, <1>3, <1>4, <1>5 DEF Next, Bridge

\* What Shape says of a sender.
SenderShape(s) ==
    /\ out[s].pc # "idle" => out[s].id # 0 /\ out[s].n \in 1..issued
    /\ out[s].pc = "sleep" => out[s].attempt < Attempts

\* Steps that leave a sender where it was, or idle.
LEMMA SenderStays ==
    ASSUME TypeOK, [Next]_vars, NEW s \in Senders, SenderShape(s),
           out'[s] = out[s] \/ out'[s] = Idle
    PROVE  SenderShape(s)'
  BY Counting DEF SenderShape, Idle

LEMMA StepSenders ==
    ASSUME TypeOK, Shape, [Next]_vars, NEW t \in Senders
    PROVE  SenderShape(t)'
<1>1. SenderShape(t)
  BY DEF Shape, SenderShape
<1>2. DOMAIN out = Senders /\ issued \in 0..Requests /\ nextTxID # 0
  BY IdsFacts DEF TypeOK
<1>3. ASSUME NEW s \in Senders, SendNew(s) PROVE SenderShape(t)'
  <2>1. CASE s = t
    <3>1. out'[t] = [pc |-> IF s = Loop THEN "wait" ELSE "sent",
                     id |-> nextTxID, n |-> issued', attempt |-> 1]
      BY <1>2, <1>3, <2>1 DEF SendNew
    <3>2. issued' = issued + 1
      BY <1>3 DEF SendNew
    <3>3. out'[t].pc # "sleep" /\ out'[t].id = nextTxID /\ out'[t].n = issued'
      BY <3>1
    <3>4. QED
      BY <1>2, <3>2, <3>3, BoundsAssumption DEF SenderShape
  <2>2. CASE s # t
    BY <1>1, <1>2, <1>3, <2>2, SenderStays DEF SendNew
  <2>3. QED
    BY <2>1, <2>2
<1>4. ASSUME NEW s \in Senders, Register(s) \/ AckTimeout(s) \/ Resend(s) PROVE SenderShape(t)'
  <2>1. issued' = issued
    BY <1>4 DEF Register, AckTimeout, Resend
  <2>2. CASE s = t
    <3>1. \/ /\ out'[t].id = out[t].id /\ out'[t].n = out[t].n
             /\ out[t].pc # "idle" /\ out'[t].pc = "wait"
          \/ /\ out'[t].id = out[t].id /\ out'[t].n = out[t].n
             /\ out'[t].attempt = out[t].attempt
             /\ out[t].pc # "idle" /\ out[t].attempt < Attempts
          \/ out'[t] = Idle
      <4>1. out[t] \in [pc : {"idle", "sent", "wait", "sleep"},
                        id : Ids \union {0}, n : 0..Requests, attempt : 0..Attempts]
        BY DEF TypeOK
      <4>2. CASE Register(s)
        BY <1>2, <2>2, <4>1, <4>2 DEF Register
      <4>3. CASE AckTimeout(s)
        BY <1>2, <2>2, <4>1, <4>3 DEF AckTimeout
      <4>4. CASE Resend(s)
        BY <1>2, <2>2, <4>1, <4>4 DEF Resend
      <4>5. QED
        BY <1>4, <4>2, <4>3, <4>4
    <3>2. QED
      BY <1>1, <2>1, <3>1 DEF SenderShape, Idle
  <2>3. CASE s # t
    BY <1>1, <1>2, <1>4, <2>3, SenderStays DEF Register, AckTimeout, Resend
  <2>4. QED
    BY <2>2, <2>3
<1>5. ASSUME NEW s \in Senders, TakeWaiterAck(s) PROVE SenderShape(t)'
  BY <1>1, <1>2, <1>5, SenderStays DEF TakeWaiterAck, Confirm
<1>6. CASE TakeAck
  BY <1>1, <1>2, <1>6, SenderStays DEF TakeAck, Confirm
<1>7. CASE out' = out
  BY <1>1, <1>7, SenderStays
<1>8. CASE TakeData \/ FlushAcks \/ ReceiveLoop \/ Lose
  BY <1>7, <1>8 DEF TakeData, FlushAcks, ReceiveLoop, Lose, sendVars
<1>9. CASE C64
  BY <1>7, <1>9 DEF C64, AckIn, RequestStale, RequestNew, BuildEvent, EventSent,
     AckWaitTimeout, DrainAck, sendVars
<1>10. CASE UNCHANGED vars
  BY <1>7, <1>10 DEF vars, sendVars
<1>11. QED
  BY <1>3, <1>4, <1>5, <1>6, <1>8, <1>9, <1>10 DEF Next, Bridge

\* What Shape says of the line.
LineShape ==
    /\ \A i \in 1..Len(down) : down[i].kind = "data" => down[i].n \in 1..issued
    /\ \A i \in 1..Len(up) : up[i].kind = "data" => up[i].n \in 1..raised
    /\ \A i \in 1..Len(recvCh) : recvCh[i].n \in 1..raised
    /\ Len(recvCh) <= 1

LEMMA StepLine ==
    ASSUME TypeOK, Shape, [Next]_vars
    PROVE  LineShape'
<1>1. /\ issued \in Nat /\ raised \in Nat /\ issued' \in Nat /\ raised' \in Nat
      /\ issued <= issued' /\ raised <= raised'
  BY Counting
<1>2. \A i \in 1..Len(down') : down'[i].kind = "data" => down'[i].n \in 1..issued'
  <2>1. \A i \in 1..Len(down) : down[i].kind = "data" => down[i].n \in 1..issued
    BY DEF Shape
  <2>2. CASE \E k \in {0, 1} : Kept(down, down', k)
    BY <1>1, <2>1, <2>2 DEF Kept
  <2>3. ASSUME NEW s \in Senders, SendNew(s),
               Sent(down, down', Data(nextTxID, issued', "OTHER"))
        PROVE  \A i \in 1..Len(down') : down'[i].kind = "data" => down'[i].n \in 1..issued'
    <3>1. issued' = issued + 1 /\ Data(nextTxID, issued', "OTHER").n = issued'
      BY <2>3 DEF SendNew, Data
    <3>2. QED
      BY <1>1, <2>1, <2>3, <3>1 DEF Sent
  <2>4. ASSUME NEW s \in Senders, Resend(s),
               Sent(down, down', Data(out[s].id, out[s].n, "OTHER"))
        PROVE  \A i \in 1..Len(down') : down'[i].kind = "data" => down'[i].n \in 1..issued'
    <3>1. out[s].n \in 1..issued /\ Data(out[s].id, out[s].n, "OTHER").n = out[s].n
      BY <2>4 DEF Resend, Data, Shape
    <3>2. QED
      BY <1>1, <2>1, <2>4, <3>1 DEF Sent
  <2>5. QED
    BY <2>2, <2>3, <2>4, DownMoves
<1>3. \A i \in 1..Len(up') : up'[i].kind = "data" => up'[i].n \in 1..raised'
  <2>1. \A i \in 1..Len(up) : up[i].kind = "data" => up[i].n \in 1..raised
    BY DEF Shape
  <2>2. CASE \E k \in {0, 1} : Kept(up, up', k)
    BY <1>1, <2>1, <2>2 DEF Kept
  <2>3. CASE EventSent /\ Sent(up, up', Data(tx.id, tx.n, tx.type))
    <3>1. tx.n \in 1..raised /\ Data(tx.id, tx.n, tx.type).n = tx.n
      BY <1>1, <2>3 DEF EventSent, Data, Shape
    <3>2. QED
      BY <1>1, <2>1, <2>3, <3>1 DEF Sent
  <2>4. QED
    BY <2>2, <2>3, UpMoves
<1>4. (\A i \in 1..Len(recvCh') : recvCh'[i].n \in 1..raised') /\ Len(recvCh') <= 1
  <2>1. (\A i \in 1..Len(recvCh) : recvCh[i].n \in 1..raised) /\ Len(recvCh) <= 1
    BY DEF Shape
  <2>2. CASE recvCh' = recvCh
    BY <1>1, <2>1, <2>2
  <2>3. CASE TakeData
    <3>1. recvCh' = <<>> /\ Len(<<>>) = 0
      BY <2>3, EmptySeq DEF TakeData
    <3>2. QED
      BY <3>1
  <2>4. CASE ReceiveLoop /\ Head(up).kind = "data"
    <3>1. recvCh' = <<Head(up)>>
      BY <2>4 DEF ReceiveLoop
    <3>2. Head(up) = up[1] /\ 1 \in 1..Len(up)
      BY <2>4, TailFacts DEF ReceiveLoop, TypeOK
    <3>3. Head(up).n \in 1..raised
      BY <2>4, <3>2 DEF Shape
    <3>4. QED
      BY <1>1, <3>1, <3>3
  <2>5. CASE ReceiveLoop /\ Head(up).kind # "data"
    BY <2>2, <2>5 DEF ReceiveLoop
  <2>6. CASE \E s \in Senders : \/ SendNew(s) \/ Register(s) \/ AckTimeout(s)
                                \/ Resend(s) \/ TakeWaiterAck(s)
    BY <2>2, <2>6 DEF SendNew, Register, AckTimeout, Resend, TakeWaiterAck
  <2>7. CASE TakeAck \/ FlushAcks \/ Lose
    BY <2>2, <2>7 DEF TakeAck, FlushAcks, Lose
  <2>8. CASE C64
    BY <2>2, <2>8 DEF C64, AckIn, RequestStale, RequestNew, BuildEvent, EventSent,
       AckWaitTimeout, DrainAck
  <2>9. CASE UNCHANGED vars
    BY <2>2, <2>9 DEF vars
  <2>10. QED
    BY <2>3, <2>4, <2>5, <2>6, <2>7, <2>8, <2>9 DEF Next, Bridge
<1>5. QED
  BY <1>2, <1>3, <1>4 DEF LineShape

\* What Shape says of the two receivers and of the event that is being sent.
EndShape ==
    /\ tx.n = raised
    /\ tx.phase # "sent" \/ tx_ack_wait => tx.id # 0 /\ tx.n # 0
    /\ ack_pending => ack_id # 0
    /\ \A i \in 1..Len(applied) : applied[i] <= issued
    /\ rx_last_id = 0 <=> applied = <<>>
    /\ rxLastID = 0 <=> handled = <<>>

LEMMA StepEnds ==
    ASSUME TypeOK, Shape, [Next]_vars
    PROVE  EndShape'
<1>1. /\ issued \in Nat /\ raised \in Nat /\ issued' \in Nat /\ raised' \in Nat
      /\ issued <= issued' /\ raised <= raised'
  BY Counting
<1>2. EndShape
  BY DEF Shape, EndShape
<1>3. applied \in Seq(1..Requests) /\ handled \in Seq(1..Events) /\ Len(applied) \in Nat
  BY LenProperties DEF TypeOK
<1>4. \A i \in 1..Len(applied) : applied[i] \in 1..Requests
  BY <1>3, ElementOfSeq
<1>5. CASE UNCHANGED <<rxVars, txVars, rxLastID, handled>>
  BY <1>1, <1>2, <1>4, <1>5 DEF EndShape, rxVars, txVars
<1>6. CASE \E s \in Senders : \/ SendNew(s) \/ Register(s) \/ AckTimeout(s)
                              \/ Resend(s) \/ TakeWaiterAck(s)
  BY <1>5, <1>6 DEF SendNew, Register, AckTimeout, Resend, TakeWaiterAck, recvVars
<1>7. CASE TakeAck \/ FlushAcks \/ ReceiveLoop \/ Lose \/ UNCHANGED vars
  BY <1>5, <1>7 DEF TakeAck, FlushAcks, ReceiveLoop, Lose, vars, recvVars
<1>8. CASE TakeData
  <2>1. Head(recvCh) \in DataFrame
    BY <1>8, TailFacts DEF TakeData, TypeOK
  <2>2. Head(recvCh).id # 0 /\ Head(recvCh).n \in Nat
    BY <2>1, IdsFacts DEF DataFrame
  <2>3. UNCHANGED <<rxVars, txVars, issued>>
    BY <1>8 DEF TakeData, sendVars
  <2>4. \/ UNCHANGED <<rxLastID, handled>>
        \/ rxLastID' # 0 /\ handled' # <<>>
    <3>1. Append(handled, Head(recvCh).n) # <<>>
      BY <1>3
    <3>2. QED
      BY <1>8, <2>2, <3>1 DEF TakeData
  <2>5. QED
    BY <1>2, <2>3, <2>4 DEF EndShape, rxVars, txVars
<1>9. CASE AckIn \/ RequestStale \/ RequestNew
  <2>1. Head(down) \in Frame /\ Head(down) = down[1] /\ 1 \in 1..Len(down)
    BY <1>9, TailFacts DEF AckIn, RequestStale, RequestNew, TypeOK
  <2>2. Head(down).id # 0
    BY <2>1, IdsFacts DEF Frame, DataFrame
  <2>3. UNCHANGED <<issued, rxLastID, handled, tx, raised>>
    BY <1>9 DEF AckIn, RequestStale, RequestNew, sendVars, recvVars, txVars
  <2>4. tx_ack_wait' => tx_ack_wait
    BY <1>9 DEF AckIn, RequestStale, RequestNew, txVars
  <2>5. ack_pending' => ack_id' # 0
    BY <1>2, <1>9, <2>2 DEF AckIn, RequestStale, RequestNew, QueueAck, rxVars, EndShape
  <2>6. CASE UNCHANGED <<rx_last_id, applied>>
    BY <1>2, <2>3, <2>4, <2>5, <2>6 DEF EndShape
  <2>7. CASE RequestNew
    <3>1. Head(down).n \in 1..issued
      BY <2>1, <2>7 DEF RequestNew, Shape
    <3>2. /\ applied' = Append(applied, Head(down).n) /\ rx_last_id' # 0
      BY <2>2, <2>7 DEF RequestNew
    <3>3. \A i \in 1..Len(applied') : applied'[i] <= issued
      <4>1. /\ Len(applied') = Len(applied) + 1
            /\ applied'[Len(applied) + 1] = Head(down).n
            /\ \A i \in 1..Len(applied) : applied'[i] = applied[i]
        BY <1>3, <3>2
      <4>2. QED
        BY <1>1, <1>2, <1>3, <3>1, <4>1 DEF EndShape
    <3>4. applied' # <<>>
      BY <1>3, <3>2
    <3>5. QED
      BY <1>2, <2>3, <2>4, <2>5, <3>2, <3>3, <3>4 DEF EndShape
  <2>8. QED
    BY <1>9, <2>6, <2>7 DEF AckIn, RequestStale, rxVars
<1>10. ASSUME NEW t \in Types, BuildEvent(t) PROVE EndShape'
  <2>1. tx'.n = raised' /\ raised' # 0 /\ tx'.id # 0
    BY <1>1, <1>10, IdsFacts DEF BuildEvent, TypeOK
  <2>2. UNCHANGED <<issued, rxVars, rxLastID, handled>>
    BY <1>10 DEF BuildEvent, sendVars, recvVars
  <2>3. QED
    BY <1>2, <2>1, <2>2 DEF EndShape, rxVars
<1>11. CASE EventSent \/ AckWaitTimeout \/ DrainAck
  <2>1. tx \in [phase : {"sending", "garbled", "sent"}, id : Ids \union {0}, n : 0..Events, type : Types]
    BY DEF TypeOK
  <2>2. UNCHANGED <<issued, raised, rx_last_id, applied, rxLastID, handled, ack_id>>
    BY <1>11 DEF EventSent, AckWaitTimeout, DrainAck, sendVars, recvVars, rxVars
  <2>3. ack_pending' => ack_pending
    BY <1>11 DEF EventSent, AckWaitTimeout, DrainAck, rxVars
  <2>4. tx'.id = tx.id /\ tx'.n = tx.n
    BY <1>11, <2>1 DEF EventSent, AckWaitTimeout, DrainAck
  <2>5. tx'.phase # "sent" \/ tx_ack_wait' => tx.phase # "sent" \/ tx_ack_wait
    BY <1>11, <2>1 DEF EventSent, AckWaitTimeout, DrainAck
  <2>6. QED
    BY <1>2, <2>2, <2>3, <2>4, <2>5 DEF EndShape
<1>12. QED
  BY <1>6, <1>7, <1>8, <1>9, <1>10, <1>11 DEF Next, Bridge, C64

LEMMA StepShape == TypeOK /\ Shape /\ [Next]_vars => Shape'
<1> SUFFICES ASSUME TypeOK, Shape, [Next]_vars PROVE Shape'
  OBVIOUS
<1>1. (\A s \in Senders : SenderShape(s)') /\ LineShape' /\ EndShape'
  BY StepSenders, StepLine, StepEnds
<1>2. QED
  BY <1>1 DEF Shape, SenderShape, LineShape, EndShape

\* Every variable of the link has its type, in particular no id is 0 or leaves the
\* seven bits and no counter exceeds its bound.
THEOREM LinkTypeCorrect == Spec => []TypeOK
  BY InitTypeOK, StepTypeOK, StepShape, PTL DEF Spec

\* And so the state keeps its shape.
LEMMA ShapeKept == Spec => []Shape
  BY InitTypeOK, StepTypeOK, StepShape, PTL DEF Spec

-----------------------------------------------------------------------------
(* The events arrive in the order in which they were built *)

\* A sequence grows in order when what is appended exceeds its last element.
LEMMA IncreasingAppend ==
    ASSUME NEW s \in Seq(Nat), NEW e \in Nat, Increasing(s), s # <<>> => LastOf(s) < e
    PROVE  Increasing(Append(s, e)) /\ LastOf(Append(s, e)) = e /\ Append(s, e) # <<>>
<1>1. /\ Len(s) \in Nat /\ Len(Append(s, e)) = Len(s) + 1
      /\ Append(s, e)[Len(s) + 1] = e
      /\ \A i \in 1..(Len(s) + 1) :
            \/ i \in 1..Len(s) /\ Append(s, e)[i] = s[i]
            \/ i = Len(s) + 1
  BY AppendFacts
<1>2. \A i \in 1..Len(s) : s[i] \in Nat
  BY ElementOfSeq
<1>3. \A i \in 1..Len(s) : s[i] < e
  <2>1. ASSUME NEW i \in 1..Len(s) PROVE s[i] < e
    <3>1. s # <<>> /\ Len(s) \in 1..Len(s)
      BY <1>1, EmptySeq
    <3>2. s[Len(s)] < e /\ (i < Len(s) => s[i] < s[Len(s)])
      BY <3>1 DEF LastOf, Increasing
    <3>3. QED
      BY <1>1, <1>2, <3>1, <3>2
  <2>2. QED
    BY <2>1
<1>4. ASSUME NEW i \in 1..Len(Append(s, e)), NEW j \in 1..Len(Append(s, e)), i < j
      PROVE  Append(s, e)[i] < Append(s, e)[j]
  <2>1. i \in 1..Len(s) /\ Append(s, e)[i] = s[i]
    BY <1>1, <1>4
  <2>2. CASE j \in 1..Len(s) /\ Append(s, e)[j] = s[j]
    BY <1>4, <2>1, <2>2 DEF Increasing
  <2>3. CASE j = Len(s) + 1
    BY <1>1, <1>3, <2>1, <2>3
  <2>4. QED
    BY <1>1, <2>2, <2>3
<1>5. Increasing(Append(s, e))
  BY <1>4 DEF Increasing
<1>6. Append(s, e) # <<>>
  BY <1>1, EmptySeq
<1>7. QED
  BY <1>1, <1>5, <1>6 DEF LastOf

\* The receiver takes an event of the same number for a duplicate.
LEMMA SameIdStale ==
    ASSUME NEW f, NEW id \in Ids, f.id = id, rxLastID = id
    PROVE  StaleUp(f)
<1>1. ~TransportIDAhead(id, id)
  BY WindowAssumption DEF TransportIDAhead, Ids
<1>2. QED
  BY <1>1, IdsFacts DEF StaleUp

LEMMA StepUpInOrder ==
    ASSUME TypeOK, Shape, UpInOrder, [Next]_vars
    PROVE  UpInOrder'
<1>1. /\ raised \in Nat /\ tx.n = raised /\ Len(recvCh) <= 1
      /\ \A i \in 1..Len(up) : up[i].kind = "data" => up[i].n \in 1..raised
      /\ \A i \in 1..Len(recvCh) : recvCh[i].n \in 1..raised
  BY Counting DEF Shape
<1>2. /\ handled \in Seq(Nat) /\ up \in Seq(Frame) /\ recvCh \in Seq(DataFrame)
      /\ handled # <<>> => LastOf(handled) \in Nat
  <2>1. handled \in Seq(1..Events) /\ up \in Seq(Frame) /\ recvCh \in Seq(DataFrame)
    BY DEF TypeOK
  <2>2. handled \in Seq(Nat)
    BY <2>1, BoundsAssumption, SeqMonotonic
  <2>3. handled # <<>> => Len(handled) \in 1..Len(handled)
    BY <2>2, EmptySeq
  <2>4. QED
    BY <2>1, <2>2, <2>3, ElementOfSeq DEF LastOf
<1>3. ASSUME UNCHANGED <<recvCh, handled, rxLastID>>, tx'.n = tx.n, tx'.id = tx.id,
             \E k \in {0, 1} : Kept(up, up', k)
      PROVE  UpInOrder'
  <2>1. PICK k \in {0, 1} : Kept(up, up', k)
    BY <1>3
  <2>2. \A i \in 1..Len(up') : up'[i].kind = "data" =>
           i + k \in 1..Len(up) /\ up'[i] = up[i + k] /\ up[i + k].kind = "data"
    BY <2>1 DEF Kept
  <2>3. \A i, j \in 1..Len(up') : i <= j => i + k <= j + k
    OBVIOUS
  <2>4. ASSUME NEW i \in 1..Len(up'), up'[i].kind = "data"
        PROVE  /\ up'[i].n = tx.n => up'[i].id = tx.id
               /\ \A j \in 1..Len(recvCh) :
                     /\ recvCh[j].n <= up'[i].n
                     /\ recvCh[j].n = up'[i].n => recvCh[j].id = up'[i].id
               /\ handled # <<>> => /\ LastOf(handled) <= up'[i].n
                                    /\ LastOf(handled) = up'[i].n => rxLastID = up'[i].id
    BY <2>2, <2>4 DEF UpInOrder
  <2>5. ASSUME NEW i \in 1..Len(up'), NEW j \in 1..Len(up'),
               up'[i].kind = "data", up'[j].kind = "data"
        PROVE  /\ i <= j => up'[i].n <= up'[j].n
               /\ up'[i].n = up'[j].n => up'[i].id = up'[j].id
    <3>1. \A a, b \in 1..Len(up) : up[a].kind = "data" /\ up[b].kind = "data" =>
             /\ a <= b => up[a].n <= up[b].n
             /\ up[a].n = up[b].n => up[a].id = up[b].id
      BY DEF UpInOrder
    <3>2. /\ i + k \in 1..Len(up) /\ up'[i] = up[i + k] /\ up[i + k].kind = "data"
          /\ j + k \in 1..Len(up) /\ up'[j] = up[j + k] /\ up[j + k].kind = "data"
      BY <2>2, <2>5
    <3>3. i <= j => i + k <= j + k
      BY <2>3
    <3>4. QED
      BY <3>1, <3>2, <3>3
  <2>6. recvCh' = recvCh /\ handled' = handled /\ rxLastID' = rxLastID
        /\ tx'.n = tx.n /\ tx'.id = tx.id
    BY <1>3
  <2>7. /\ Increasing(handled')
        /\ \A i \in 1..Len(recvCh') :
              /\ recvCh'[i].n = tx'.n => recvCh'[i].id = tx'.id
              /\ handled' # <<>> => /\ LastOf(handled') <= recvCh'[i].n
                                    /\ LastOf(handled') = recvCh'[i].n => rxLastID' = recvCh'[i].id
        /\ handled' # <<>> => /\ LastOf(handled') <= tx'.n
                              /\ LastOf(handled') = tx'.n => rxLastID' = tx'.id
    BY <2>6 DEF UpInOrder
  <2>8. \A i \in 1..Len(up') : up'[i].kind = "data" =>
           /\ up'[i].n = tx'.n => up'[i].id = tx'.id
           /\ \A j \in 1..Len(recvCh') :
                 /\ recvCh'[j].n <= up'[i].n
                 /\ recvCh'[j].n = up'[i].n => recvCh'[j].id = up'[i].id
           /\ handled' # <<>> => /\ LastOf(handled') <= up'[i].n
                                 /\ LastOf(handled') = up'[i].n => rxLastID' = up'[i].id
    BY <2>4, <2>6
  <2>9. QED
    BY <2>5, <2>7, <2>8 DEF UpInOrder
<1>4. CASE EventSent /\ Sent(up, up', Data(tx.id, tx.n, tx.type))
  <2>1. UNCHANGED <<recvCh, handled, rxLastID>> /\ tx'.n = tx.n /\ tx'.id = tx.id
    BY <1>4 DEF EventSent, recvVars, TypeOK
  <2> DEFINE f == Data(tx.id, tx.n, tx.type)
  <2>2. f.id = tx.id /\ f.n = tx.n /\ f.kind = "data"
    BY DEF Data
  <2> HIDE DEF f
  <2>3. /\ Len(up) \in Nat /\ Len(up') \in Nat /\ Len(up) < Len(up') /\ up'[Len(up')] = f
        /\ \A i \in 1..Len(up') : up'[i].kind = "data" =>
              \/ i \in 1..Len(up) /\ up'[i] = up[i]
              \/ i = Len(up')
    BY <1>4 DEF Sent, f
  <2>4. ASSUME NEW i \in 1..Len(up'), up'[i].kind = "data"
        PROVE  /\ up'[i].n = tx.n => up'[i].id = tx.id
               /\ up'[i].n <= tx.n
               /\ \A j \in 1..Len(recvCh) :
                     /\ recvCh[j].n <= up'[i].n
                     /\ recvCh[j].n = up'[i].n => recvCh[j].id = up'[i].id
               /\ handled # <<>> => /\ LastOf(handled) <= up'[i].n
                                    /\ LastOf(handled) = up'[i].n => rxLastID = up'[i].id
    <3>1. CASE i \in 1..Len(up) /\ up'[i] = up[i]
      BY <1>1, <2>4, <3>1 DEF UpInOrder
    <3>2. CASE i = Len(up')
      BY <1>1, <2>2, <2>3, <3>2 DEF UpInOrder
    <3>3. QED
      BY <2>3, <2>4, <3>1, <3>2
  <2>5. ASSUME NEW i \in 1..Len(up'), NEW j \in 1..Len(up'),
               up'[i].kind = "data", up'[j].kind = "data"
        PROVE  /\ i <= j => up'[i].n <= up'[j].n
               /\ up'[i].n = up'[j].n => up'[i].id = up'[j].id
    <3>1. CASE i = Len(up') \/ j = Len(up')
      <4>1. CASE j = Len(up')
        BY <2>2, <2>3, <2>4, <2>5, <4>1
      <4>2. CASE i = Len(up') /\ j # Len(up')
        BY <2>2, <2>3, <2>4, <2>5, <4>2
      <4>3. QED
        BY <3>1, <4>1, <4>2
    <3>2. CASE i # Len(up') /\ j # Len(up')
      BY <2>3, <2>5, <3>2 DEF UpInOrder
    <3>3. QED
      BY <3>1, <3>2
  <2>6. QED
    BY <2>1, <2>4, <2>5 DEF UpInOrder
<1>5. ASSUME NEW t \in Types, BuildEvent(t) PROVE UpInOrder'
  <2>1. UNCHANGED <<up, recvCh, handled, rxLastID>> /\ tx'.n = raised + 1
    BY <1>5 DEF BuildEvent, recvVars
  <2>2. handled # <<>> => LastOf(handled) <= raised
    BY <1>1 DEF UpInOrder
  <2>3. QED
    BY <1>1, <1>2, <2>1, <2>2 DEF UpInOrder
<1>6. CASE ReceiveLoop /\ Head(up).kind = "data"
  <2>1. /\ UNCHANGED <<handled, rxLastID, tx>> /\ recvCh' = <<Head(up)>>
        /\ up # <<>> /\ up' = Tail(up)
    BY <1>6 DEF ReceiveLoop, recvVars, txVars
  <2>2. /\ Len(up) \in Nat /\ 1 \in 1..Len(up) /\ Head(up) = up[1] /\ Len(up') = Len(up) - 1
        /\ \A i \in 1..Len(up') : i + 1 \in 1..Len(up) /\ up'[i] = up[i + 1]
    BY <1>2, <2>1, TailFacts
  <2>3. /\ \A i \in 1..Len(recvCh') : recvCh'[i] = up[1]
        /\ up[1].kind = "data"
    BY <1>6, <2>1, <2>2
  <2>4. \A i, j \in 1..Len(up') : i <= j => i + 1 <= j + 1
    BY <2>2
  <2>5. \A i \in 1..Len(up') : 1 <= i + 1
    BY <2>2
  <2>6. QED
    BY <2>1, <2>2, <2>3, <2>4, <2>5 DEF UpInOrder
<1>7. CASE TakeData
  <2>1. /\ UNCHANGED <<up, tx>> /\ recvCh' = <<>> /\ Len(<<>>) = 0
        /\ Head(recvCh) = recvCh[1] /\ 1 \in 1..Len(recvCh) /\ recvCh[1] \in DataFrame
    BY <1>2, <1>7, TailFacts, EmptySeq DEF TakeData, txVars
  <2>2. recvCh[1].n \in Nat /\ recvCh[1].id \in Ids
    BY <2>1 DEF DataFrame
  <2>3. CASE StaleUp(Head(recvCh))
    <3>1. UNCHANGED <<rxLastID, handled>>
      BY <1>7, <2>3 DEF TakeData
    <3>2. QED
      BY <2>1, <3>1 DEF UpInOrder
  <2>4. CASE ~StaleUp(Head(recvCh))
    <3>1. rxLastID' = recvCh[1].id /\ handled' = Append(handled, recvCh[1].n)
      BY <1>7, <2>1, <2>4 DEF TakeData
    <3>2. handled # <<>> => LastOf(handled) < recvCh[1].n
      <4>1. handled # <<>> => LastOf(handled) # recvCh[1].n
        BY <2>1, <2>2, <2>4, SameIdStale DEF UpInOrder
      <4>2. handled # <<>> => LastOf(handled) <= recvCh[1].n
        BY <2>1 DEF UpInOrder
      <4>3. QED
        BY <1>2, <2>2, <4>1, <4>2
    <3>3. Increasing(handled') /\ LastOf(handled') = recvCh[1].n
      BY <1>2, <2>2, <3>1, <3>2, IncreasingAppend DEF UpInOrder
    <3>4. recvCh[1].n <= tx.n
      BY <1>1, <2>1
    <3>5. QED
      BY <2>1, <3>1, <3>3, <3>4 DEF UpInOrder
  <2>5. QED
    BY <2>3, <2>4
<1>8. CASE UNCHANGED <<recvCh, handled, rxLastID>> /\ tx'.n = tx.n /\ tx'.id = tx.id
  BY <1>3, <1>4, <1>8, UpMoves
<1>9. CASE \E s \in Senders : \/ SendNew(s) \/ Register(s) \/ AckTimeout(s)
                              \/ Resend(s) \/ TakeWaiterAck(s)
  BY <1>8, <1>9 DEF SendNew, Register, AckTimeout, Resend, TakeWaiterAck, recvVars, txVars
<1>10. CASE TakeAck \/ FlushAcks \/ Lose \/ UNCHANGED vars
  BY <1>8, <1>10 DEF TakeAck, FlushAcks, Lose, vars, recvVars, txVars
<1>11. CASE ReceiveLoop /\ Head(up).kind # "data"
  BY <1>8, <1>11 DEF ReceiveLoop, recvVars, txVars
<1>12. CASE AckIn \/ RequestStale \/ RequestNew
  BY <1>8, <1>12 DEF AckIn, RequestStale, RequestNew, recvVars, txVars
<1>13. CASE EventSent \/ AckWaitTimeout \/ DrainAck
  <2>1. tx \in [phase : {"sending", "garbled", "sent"}, id : Ids \union {0}, n : 0..Events, type : Types]
    BY DEF TypeOK
  <2>2. QED
    BY <1>8, <1>13, <2>1 DEF EventSent, AckWaitTimeout, DrainAck, recvVars
<1>14. QED
  BY <1>5, <1>6, <1>7, <1>9, <1>10, <1>11, <1>12, <1>13 DEF Next, Bridge, C64

LEMMA InitUpInOrder == Init => UpInOrder
<1> SUFFICES ASSUME Init PROVE UpInOrder
  OBVIOUS
<1>1. Len(<<>>) = 0
  BY EmptySeq
<1>2. QED
  BY <1>1 DEF Init, UpInOrder, Increasing

\* Whatever is lost, cut into or sent again: the bridge handles each event of the C64
\* at most once and never an older one after a newer one.
THEOREM EventsInOrder == Spec => []Increasing(handled)
<1>1. UpInOrder => Increasing(handled)
  BY DEF UpInOrder
<1>2. TypeOK /\ Shape /\ UpInOrder /\ [Next]_vars => UpInOrder'
  BY StepUpInOrder
<1>3. QED
  BY <1>1, <1>2, InitUpInOrder, LinkTypeCorrect, ShapeKept, PTL DEF Spec

-----------------------------------------------------------------------------
(* One goroutine sends: the requests arrive in the order in which they were issued *)

\* What the request at the head of the line is.
LEMMA HeadRequest ==
    ASSUME TypeOK, Shape, RequestNew \/ RequestStale
    PROVE  /\ down # <<>> /\ down' = Tail(down)
           /\ 1 \in 1..Len(down) /\ Head(down) = down[1] /\ down[1].kind = "data"
           /\ down[1].id \in Ids /\ down[1].n \in 1..issued /\ down[1].n \in Nat
           /\ issued \in Nat
<1>1. down # <<>> /\ down' = Tail(down) /\ Head(down).kind = "data"
  BY DEF RequestNew, RequestStale
<1>2. Head(down) = down[1] /\ 1 \in 1..Len(down) /\ Head(down) \in Frame
  BY <1>1, TailFacts DEF TypeOK
<1>3. down[1].id \in Ids
  BY <1>2 DEF Frame, DataFrame
<1>4. down[1].n \in 1..issued
  BY <1>1, <1>2 DEF Shape
<1>5. issued \in Nat
  BY BoundsAssumption DEF TypeOK
<1>6. QED
  BY <1>1, <1>2, <1>3, <1>4, <1>5

\* What the requests applied so far are.
LEMMA AppliedFacts ==
    ASSUME TypeOK, Shape
    PROVE  /\ applied \in Seq(Nat)
           /\ applied # <<>> => LastOf(applied) \in 1..issued /\ LastOf(applied) \in Nat
<1>1. applied \in Seq(1..Requests)
  BY DEF TypeOK
<1>2. applied \in Seq(Nat)
  BY <1>1, BoundsAssumption, SeqMonotonic
<1>3. applied # <<>> => Len(applied) \in 1..Len(applied)
  BY <1>2, EmptySeq
<1>4. applied # <<>> => LastOf(applied) \in 1..Requests /\ LastOf(applied) <= issued
  BY <1>1, <1>3, ElementOfSeq DEF LastOf, Shape
<1>5. issued \in Nat
  BY BoundsAssumption DEF TypeOK
<1>6. QED
  BY <1>2, <1>4, <1>5, BoundsAssumption

\* A sender takes up a request, keeps the one it has, or is done with it.
LEMMA SenderMoves ==
    ASSUME TypeOK, [Next]_vars, NEW s \in Senders
    PROVE  \/ /\ SendNew(s) /\ out'[s].id = nextTxID /\ out'[s].n = issued'
              /\ out'[s].pc # "idle"
           \/ /\ out[s].pc # "idle" /\ out'[s].pc # "idle"
              /\ out'[s].id = out[s].id /\ out'[s].n = out[s].n
           \/ out'[s].pc = "idle"
<1>1. DOMAIN out = Senders /\ DOMAIN out[s] = {"pc", "id", "n", "attempt"}
  BY DEF TypeOK
<1>2. CASE out'[s] = out[s]
  BY <1>2
<1>3. ASSUME NEW t \in Senders, SendNew(t) PROVE s # t => out'[s] = out[s]
  BY <1>1, <1>3 DEF SendNew
<1>4. CASE SendNew(s)
  <2>1. out'[s] = [pc |-> IF s = Loop THEN "wait" ELSE "sent",
                   id |-> nextTxID, n |-> issued', attempt |-> 1]
    BY <1>1, <1>4 DEF SendNew
  <2>2. QED
    BY <1>4, <2>1
<1>5. ASSUME NEW t \in Senders, Register(t) \/ AckTimeout(t) \/ Resend(t) \/ TakeWaiterAck(t)
      PROVE  s # t => out'[s] = out[s]
  BY <1>1, <1>5 DEF Register, AckTimeout, Resend, TakeWaiterAck, Confirm
<1>6. CASE Register(s) \/ AckTimeout(s) \/ Resend(s) \/ TakeWaiterAck(s)
  <2>1. CASE out'[s] = Idle
    BY <2>1 DEF Idle
  <2>2. CASE Register(s)
    BY <1>1, <2>2 DEF Register
  <2>3. CASE AckTimeout(s)
    BY <1>1, <2>1, <2>3 DEF AckTimeout
  <2>4. CASE Resend(s)
    BY <1>1, <2>4 DEF Resend
  <2>5. CASE TakeWaiterAck(s)
    BY <1>1, <2>1, <2>5 DEF TakeWaiterAck, Confirm
  <2>6. QED
    BY <1>6, <2>2, <2>3, <2>4, <2>5
<1>7. CASE TakeAck
  <2>1. out'[s] = out[s] \/ out'[s] = Idle
    BY <1>1, <1>7, SendersAssumption DEF TakeAck, Confirm
  <2>2. QED
    BY <1>2, <2>1 DEF Idle
<1>8. CASE TakeData \/ FlushAcks \/ ReceiveLoop \/ Lose \/ UNCHANGED vars
  BY <1>2, <1>8 DEF TakeData, FlushAcks, ReceiveLoop, Lose, vars, sendVars
<1>9. CASE C64
  BY <1>2, <1>9 DEF C64, AckIn, RequestStale, RequestNew, BuildEvent, EventSent,
     AckWaitTimeout, DrainAck, sendVars
<1>10. QED
  BY <1>2, <1>3, <1>4, <1>5, <1>6, <1>7, <1>8, <1>9 DEF Next, Bridge

\* Requests are numbered by SendNew and applied by RequestNew.
LEMMA NumbersMove ==
    ASSUME [Next]_vars
    PROVE  /\ (\A s \in Senders : ~SendNew(s)) => UNCHANGED <<issued, nextTxID>>
           /\ ~RequestNew => UNCHANGED <<applied, rx_last_id>>
           /\ (\E s \in Senders : SendNew(s)) =>
                 /\ issued' = issued + 1 /\ nextTxID' = NextId(nextTxID)
                 /\ UNCHANGED <<applied, rx_last_id>>
           /\ RequestNew => UNCHANGED <<issued, nextTxID, out>>
<1>1. CASE \E s \in Senders : \/ SendNew(s) \/ Register(s) \/ AckTimeout(s)
                              \/ Resend(s) \/ TakeWaiterAck(s)
  <2>1. UNCHANGED <<applied, rx_last_id>>
    BY <1>1 DEF SendNew, Register, AckTimeout, Resend, TakeWaiterAck, rxVars
  <2>2. (\A s \in Senders : ~SendNew(s)) => UNCHANGED <<issued, nextTxID>>
    BY <1>1 DEF Register, AckTimeout, Resend, TakeWaiterAck
  <2>3. (\E s \in Senders : SendNew(s)) => issued' = issued + 1 /\ nextTxID' = NextId(nextTxID)
    BY DEF SendNew
  <2>4. RequestNew => UNCHANGED <<issued, nextTxID, out>>
    BY DEF RequestNew, sendVars
  <2>5. QED
    BY <2>1, <2>2, <2>3, <2>4
<1>2. CASE \A s \in Senders : ~SendNew(s)
  <2>1. CASE TakeAck \/ TakeData \/ FlushAcks \/ ReceiveLoop \/ Lose \/ UNCHANGED vars
    BY <1>2, <2>1 DEF TakeAck, TakeData, FlushAcks, ReceiveLoop, Lose, vars, sendVars, rxVars,
       RequestNew
  <2>2. CASE RequestNew
    BY <1>2, <2>2 DEF RequestNew, sendVars
  <2>3. CASE C64 /\ ~RequestNew
    BY <1>2, <2>3 DEF C64, AckIn, RequestStale, BuildEvent, EventSent, AckWaitTimeout,
       DrainAck, sendVars, rxVars
  <2>4. QED
    BY <1>1, <2>1, <2>2, <2>3 DEF Next, Bridge
<1>3. QED
  BY <1>1, <1>2

\* What DownInOrder says of a sequence of frames: they are in order, and one number
\* goes with one id.
Ordered(s) ==
    \A i, j \in 1..Len(s) : s[i].kind = "data" /\ s[j].kind = "data" =>
       /\ i <= j => s[i].n <= s[j].n
       /\ s[i].n = s[j].n => s[i].id = s[j].id

LEMMA OrderedKept ==
    ASSUME NEW s, NEW t, NEW k \in {0, 1}, Kept(s, t, k), Ordered(s)
    PROVE  Ordered(t)
<1>1. ASSUME NEW i \in 1..Len(t), NEW j \in 1..Len(t), t[i].kind = "data", t[j].kind = "data"
      PROVE  /\ i <= j => t[i].n <= t[j].n
             /\ t[i].n = t[j].n => t[i].id = t[j].id
  <2>1. /\ i + k \in 1..Len(s) /\ t[i] = s[i + k]
        /\ j + k \in 1..Len(s) /\ t[j] = s[j + k]
    BY <1>1 DEF Kept
  <2>2. i <= j => i + k <= j + k
    OBVIOUS
  <2>3. QED
    BY <1>1, <2>1, <2>2 DEF Ordered
<1>2. QED
  BY <1>1 DEF Ordered

LEMMA OrderedSent ==
    ASSUME NEW s, NEW t, NEW f, Sent(s, t, f), Ordered(s), f.n \in Nat,
           \A i \in 1..Len(s) : s[i].kind = "data" =>
              /\ s[i].n \in Nat /\ s[i].n <= f.n
              /\ s[i].n = f.n => s[i].id = f.id
    PROVE  Ordered(t)
<1>1. ASSUME NEW i \in 1..Len(t), NEW j \in 1..Len(t), t[i].kind = "data", t[j].kind = "data"
      PROVE  /\ i <= j => t[i].n <= t[j].n
             /\ t[i].n = t[j].n => t[i].id = t[j].id
  <2>1. /\ Len(s) \in Nat /\ Len(t) \in Nat /\ Len(s) < Len(t)
        /\ (i \in 1..Len(s) /\ t[i] = s[i]) \/ (i = Len(t) /\ t[i] = f)
        /\ (j \in 1..Len(s) /\ t[j] = s[j]) \/ (j = Len(t) /\ t[j] = f)
    BY <1>1 DEF Sent
  <2>2. CASE i \in 1..Len(s) /\ t[i] = s[i] /\ j \in 1..Len(s) /\ t[j] = s[j]
    BY <1>1, <2>2 DEF Ordered
  <2>3. CASE j = Len(t) /\ t[j] = f
    BY <1>1, <2>1, <2>3
  <2>4. CASE i = Len(t) /\ t[i] = f /\ j \in 1..Len(s) /\ t[j] = s[j]
    BY <1>1, <2>1, <2>4
  <2>5. QED
    BY <2>1, <2>2, <2>3, <2>4
<1>2. QED
  BY <1>1 DEF Ordered

\* What it says of the frames and of the sender, beyond what has been applied.
Behind ==
    /\ \A i \in 1..Len(down) : down[i].kind = "data" /\ applied # <<>> =>
          /\ LastOf(applied) <= down[i].n
          /\ LastOf(applied) = down[i].n => rx_last_id = down[i].id
    /\ applied # <<>> /\ out[Loop].pc # "idle" /\ LastOf(applied) = issued
          => rx_last_id = out[Loop].id

Resendable ==
    out[Loop].pc # "idle" =>
       /\ out[Loop].n = issued
       /\ \A i \in 1..Len(down) : down[i].kind = "data" /\ down[i].n = issued =>
             down[i].id = out[Loop].id

LEMMA DownParts == DownInOrder <=> Increasing(applied) /\ Ordered(down) /\ Behind /\ Resendable
  BY DEF DownInOrder, Ordered, Behind, Resendable

LEMMA StepDownInOrder ==
    ASSUME Senders = {Loop}, TypeOK, Shape, DownInOrder, [Next]_vars
    PROVE  DownInOrder'
<1>1. Increasing(applied) /\ Ordered(down) /\ Behind /\ Resendable
  BY DownParts
<1>2. /\ issued \in Nat
      /\ \A i \in 1..Len(down) : down[i].kind = "data" => down[i].n \in 1..issued
      /\ out[Loop].pc # "idle" => out[Loop].n \in 1..issued
      /\ applied \in Seq(Nat)
      /\ applied # <<>> => LastOf(applied) \in 1..issued /\ LastOf(applied) \in Nat
  BY Counting, AppliedFacts, SendersAssumption DEF Shape
<1>3. CASE RequestNew
  <2>1. /\ down # <<>> /\ down' = Tail(down)
        /\ 1 \in 1..Len(down) /\ Head(down) = down[1] /\ down[1].kind = "data"
        /\ down[1].id \in Ids /\ down[1].n \in 1..issued /\ down[1].n \in Nat
    BY <1>3, HeadRequest
  <2>2. /\ UNCHANGED <<issued, out>>
        /\ applied' = Append(applied, down[1].n) /\ rx_last_id' = down[1].id
    BY <1>3, <2>1 DEF RequestNew, sendVars
  <2>3. applied # <<>> => LastOf(applied) # down[1].n
    <3>1. applied # <<>> => rx_last_id # down[1].id
      BY <1>3, <2>1 DEF RequestNew, IsNew, FrameIsNew, Shape
    <3>2. QED
      BY <1>1, <2>1, <3>1 DEF Behind
  <2>4. Increasing(applied') /\ LastOf(applied') = down[1].n
    <3>1. applied # <<>> => LastOf(applied) < down[1].n
      BY <1>1, <1>2, <2>1, <2>3 DEF Behind
    <3>2. QED
      BY <1>1, <1>2, <2>1, <2>2, <3>1, IncreasingAppend
  <2>5. Kept(down, down', 1)
    BY <2>1, KeptTail DEF TypeOK
  <2>6. Ordered(down')
    BY <1>1, <2>5, OrderedKept
  <2>7. \A i \in 1..Len(down') : down'[i].kind = "data" =>
           /\ i + 1 \in 1..Len(down) /\ 1 <= i + 1
           /\ down'[i] = down[i + 1] /\ down[i + 1].kind = "data"
    BY <2>5 DEF Kept
  <2>8. Behind'
    <3>1. ASSUME NEW i \in 1..Len(down'), down'[i].kind = "data"
          PROVE  down[1].n <= down'[i].n /\ (down[1].n = down'[i].n => down[1].id = down'[i].id)
      BY <1>1, <2>1, <2>7, <3>1 DEF Ordered
    <3>2. out[Loop].pc # "idle" /\ down[1].n = issued => down[1].id = out[Loop].id
      BY <1>1, <2>1 DEF Resendable
    <3>3. QED
      BY <2>2, <2>4, <3>1, <3>2 DEF Behind
  <2>9. Resendable'
    BY <1>1, <2>2, <2>7 DEF Resendable
  <2>10. QED
    <3>1. Increasing(applied)' /\ Ordered(down)' /\ Behind' /\ Resendable'
      BY <2>4, <2>6, <2>8, <2>9
    <3>2. QED
      BY <3>1 DEF DownInOrder, Ordered, Behind, Resendable
<1>4. CASE ~RequestNew
  <2>1. UNCHANGED <<applied, rx_last_id>>
    BY <1>4, NumbersMove
  <2>2. CASE SendNew(Loop)
    <3>1. issued' = issued + 1 /\ out'[Loop].id = nextTxID /\ out'[Loop].n = issued'
      <4>1. issued' = issued + 1
        BY <2>2 DEF SendNew
      <4>2. out'[Loop] = [pc |-> "wait", id |-> nextTxID, n |-> issued', attempt |-> 1]
        BY <2>2, SendersAssumption DEF SendNew, TypeOK
      <4>3. QED
        BY <4>1, <4>2
    <3> DEFINE f == Data(nextTxID, issued', "OTHER")
    <3>2. f.n = issued' /\ f.id = nextTxID
      BY DEF Data
    <3> HIDE DEF f
    <3>3. Sent(down, down', f)
      <4>1. nextTxID \in Ids
        BY DEF TypeOK
      <4>2. f \in DataFrame
        BY <1>2, <3>1, <4>1 DEF f, Data, DataFrame, Types
      <4>3. SendDown(f)
        BY <2>2 DEF SendNew, f
      <4>4. QED
        BY <4>2, <4>3, SentDown DEF Sent
    <3>4. Ordered(down')
      BY <1>1, <1>2, <3>1, <3>2, <3>3, OrderedSent
    <3>5. \A i \in 1..Len(down') : down'[i].kind = "data" =>
             \/ i \in 1..Len(down) /\ down'[i] = down[i]
             \/ down'[i].n = issued' /\ down'[i].id = nextTxID
      BY <3>2, <3>3 DEF Sent
    <3>6. Behind'
      BY <1>1, <1>2, <2>1, <3>1, <3>5 DEF Behind
    <3>7. Resendable'
      BY <1>2, <3>1, <3>5 DEF Resendable
    <3>8. QED
      <4>1. Increasing(applied)' /\ Ordered(down)' /\ Behind' /\ Resendable'
        BY <1>1, <2>1, <3>4, <3>6, <3>7
      <4>2. QED
        BY <4>1 DEF DownInOrder, Ordered, Behind, Resendable
  <2>3. CASE ~SendNew(Loop)
    <3>1. issued' = issued
      BY <2>3, NumbersMove
    <3>2. \/ /\ out[Loop].pc # "idle" /\ out'[Loop].pc # "idle"
             /\ out'[Loop].id = out[Loop].id /\ out'[Loop].n = out[Loop].n
          \/ out'[Loop].pc = "idle"
      BY <2>3, SenderMoves, SendersAssumption
    <3>3. CASE \E k \in {0, 1} : Kept(down, down', k)
      <4>1. PICK k \in {0, 1} : Kept(down, down', k)
        BY <3>3
      <4>2. Ordered(down')
        BY <1>1, <4>1, OrderedKept
      <4>3. \A i \in 1..Len(down') : down'[i].kind = "data" =>
               \E j \in 1..Len(down) : down'[i] = down[j]
        BY <4>1 DEF Kept
      <4>4. Behind' /\ Resendable'
        BY <1>1, <2>1, <3>1, <3>2, <4>3 DEF Behind, Resendable
      <4>5. QED
        <5>1. Increasing(applied)' /\ Ordered(down)' /\ Behind' /\ Resendable'
          BY <1>1, <2>1, <4>2, <4>4
        <5>2. QED
          BY <5>1 DEF DownInOrder, Ordered, Behind, Resendable
    <3>4. CASE Resend(Loop) /\ Sent(down, down', Data(out[Loop].id, out[Loop].n, "OTHER"))
      <4> DEFINE f == Data(out[Loop].id, out[Loop].n, "OTHER")
      <4>1. f.n = out[Loop].n /\ f.id = out[Loop].id
        BY DEF Data
      <4> HIDE DEF f
      <4>2. Sent(down, down', f)
        BY <3>4 DEF f
      <4>3. out[Loop].pc # "idle" /\ out[Loop].n = issued
        BY <1>1, <3>4 DEF Resend, Resendable
      <4>4. Ordered(down')
        BY <1>1, <1>2, <4>1, <4>2, <4>3, OrderedSent DEF Resendable
      <4>5. \A i \in 1..Len(down') : down'[i].kind = "data" =>
               \/ i \in 1..Len(down) /\ down'[i] = down[i]
               \/ down'[i].n = issued /\ down'[i].id = out[Loop].id
        <5>1. \A i \in 1..Len(down') : down'[i].kind = "data" =>
                 (i \in 1..Len(down) /\ down'[i] = down[i]) \/ down'[i] = f
          BY <4>2 DEF Sent
        <5>2. QED
          BY <4>1, <4>3, <5>1
      <4>6. Behind'
        <5>1. applied # <<>> => /\ LastOf(applied) \in Nat /\ LastOf(applied) <= issued
                                /\ LastOf(applied) = issued => rx_last_id = out[Loop].id
          BY <1>1, <1>2, <4>3 DEF Behind
        <5>2. \A i \in 1..Len(down') : down'[i].kind = "data" /\ applied # <<>> =>
                 /\ LastOf(applied) <= down'[i].n
                 /\ LastOf(applied) = down'[i].n => rx_last_id = down'[i].id
          BY <1>1, <4>5, <5>1 DEF Behind
        <5>3. QED
          BY <2>1, <3>1, <3>2, <5>1, <5>2 DEF Behind
      <4>7. Resendable'
        BY <1>1, <3>1, <3>2, <4>3, <4>5 DEF Resendable
      <4>8. QED
        <5>1. Increasing(applied)' /\ Ordered(down)' /\ Behind' /\ Resendable'
          BY <1>1, <2>1, <4>4, <4>6, <4>7
        <5>2. QED
          BY <5>1 DEF DownInOrder, Ordered, Behind, Resendable
    <3>5. QED
      BY <2>3, <3>3, <3>4, DownMoves
  <2>4. QED
    BY <2>2, <2>3
<1>5. QED
  BY <1>3, <1>4

LEMMA InitDownInOrder == Init => DownInOrder
<1> SUFFICES ASSUME Init PROVE DownInOrder
  OBVIOUS
<1>1. Len(<<>>) = 0
  BY EmptySeq
<1>2. out[Loop].pc = "idle"
  BY SendersAssumption DEF Init, Idle
<1>3. QED
  BY <1>1, <1>2 DEF Init, DownInOrder, Increasing

\* With one goroutine that sends, for any number of requests, losses and attempts:
\* neither side acts twice on a frame, or on an older one after a newer one.
THEOREM OrderOfOneSender == ASSUME Senders = {Loop} PROVE Spec => []InOrder
<1>1. DownInOrder /\ UpInOrder => InOrder
  BY DEF DownInOrder, UpInOrder, InOrder
<1>2. TypeOK /\ Shape /\ DownInOrder /\ [Next]_vars => DownInOrder'
  BY StepDownInOrder
<1>3. TypeOK /\ Shape /\ UpInOrder /\ [Next]_vars => UpInOrder'
  BY StepUpInOrder
<1>4. QED
  BY <1>1, <1>2, <1>3, InitUpInOrder, InitDownInOrder, LinkTypeCorrect, ShapeKept, PTL DEF Spec

-----------------------------------------------------------------------------
(* Several goroutines send: the ids tell old from new within the window *)

\* The id that comes k before x in the cycle of ids.
Back(x, k) == IF x - k >= 1 THEN x - k ELSE x - k + MaxId

LEMMA IdOfBack == \A n : IdOf(n) = Back(nextTxID, issued + 1 - n)
  BY DEF IdOf, Back

LEMMA BackFacts ==
    ASSUME NEW x \in Ids, NEW k \in 1..(Window + 1)
    PROVE  /\ Back(x, k) \in Ids /\ Back(x, k) # x
           /\ Back(NextId(x), 1) = x
           /\ Back(NextId(x), k + 1) = Back(x, k)
<1>1. Window \in Nat /\ MaxId = 2 * Window + 1 /\ x \in Nat /\ k \in Nat /\ 1 <= k
      /\ k <= Window + 1 /\ 1 <= x /\ x <= MaxId /\ MaxId \in Nat /\ Window >= 1
  BY WindowAssumption DEF Ids
<1>2. Back(x, k) \in Int /\ 1 <= Back(x, k) /\ Back(x, k) <= MaxId /\ Back(x, k) # x
  <2>1. k < MaxId
    BY <1>1
  <2>2. CASE x - k >= 1
    BY <1>1, <2>2 DEF Back
  <2>3. CASE ~(x - k >= 1)
    BY <1>1, <2>1, <2>3 DEF Back
  <2>4. QED
    BY <2>2, <2>3
<1>3. CASE x + 1 > MaxId
  <2>1. NextId(x) = 1 /\ x = MaxId
    BY <1>1, <1>3 DEF NextId
  <2>2. QED
    BY <1>1, <1>2, <2>1 DEF Back, Ids
<1>4. CASE ~(x + 1 > MaxId)
  BY <1>1, <1>2, <1>4 DEF NextId, Back, Ids
<1>5. QED
  BY <1>3, <1>4

\* Of two of them the one that is further back is behind the other.
LEMMA BackOrder ==
    ASSUME NEW x \in Ids, NEW k \in 1..(Window + 1), NEW j \in 1..k, j # k
    PROVE  TransportIDAhead(Back(x, j), Back(x, k)) /\ Back(x, k) # Back(x, j)
<1>1. Window \in Nat /\ MaxId = 2 * Window + 1 /\ x \in Nat /\ k \in Nat /\ j \in Nat
      /\ 1 <= j /\ j < k /\ k <= Window + 1 /\ 1 <= x /\ x <= MaxId /\ MaxId \in Nat
  BY WindowAssumption DEF Ids
<1>2. CASE x - k >= 1
  <2>1. Back(x, k) = x - k /\ Back(x, j) = x - j
    BY <1>1, <1>2 DEF Back
  <2>2. QED
    BY <1>1, <2>1 DEF TransportIDAhead
<1>3. CASE ~(x - k >= 1) /\ x - j >= 1
  <2>1. Back(x, k) = x - k + MaxId /\ Back(x, j) = x - j
    BY <1>1, <1>3 DEF Back
  <2>2. QED
    BY <1>1, <2>1 DEF TransportIDAhead
<1>4. CASE ~(x - j >= 1)
  <2>1. Back(x, k) = x - k + MaxId /\ Back(x, j) = x - j + MaxId
    BY <1>1, <1>4 DEF Back
  <2>2. QED
    BY <1>1, <2>1 DEF TransportIDAhead
<1>5. QED
  BY <1>2, <1>3, <1>4

\* The ids of the newest requests are ids, and none of them is the next one.
LEMMA IdOfType ==
    ASSUME nextTxID \in Ids, issued \in Nat, NEW n \in Nat, n <= issued, issued - n <= Window
    PROVE  IdOf(n) \in Ids /\ IdOf(n) # nextTxID
<1>1. issued + 1 - n \in 1..(Window + 1)
  BY WindowAssumption
<1>2. QED
  BY <1>1, IdOfBack, BackFacts

\* Of two of them the older one is not new to who has accepted the other.
LEMMA IdOfOrder ==
    ASSUME nextTxID \in Ids, issued \in Nat, NEW n \in Nat, NEW m \in Nat,
           n <= m, m <= issued, issued - n <= Window
    PROVE  /\ ~FrameIsNew(IdOf(n), IdOf(m))
           /\ n # m => IdOf(n) # IdOf(m) /\ FrameIsNew(IdOf(m), IdOf(n))
<1>1. IdOf(n) \in Ids /\ IdOf(m) \in Ids
  BY IdOfType, WindowAssumption
<1>2. CASE n = m
  BY <1>2 DEF FrameIsNew
<1>3. CASE n # m
  <2>1. /\ issued + 1 - n \in 1..(Window + 1) /\ issued + 1 - m \in 1..(issued + 1 - n)
        /\ issued + 1 - m # issued + 1 - n
    BY <1>3, WindowAssumption
  <2>2. TransportIDAhead(IdOf(m), IdOf(n)) /\ IdOf(n) # IdOf(m)
    BY <2>1, IdOfBack, BackOrder
  <2>3. FrameIsNew(IdOf(m), IdOf(n)) /\ ~FrameIsNew(IdOf(n), IdOf(m))
    BY <1>1, <2>2, AheadTotal, SidesAgree
  <2>4. QED
    BY <2>2, <2>3
<1>4. QED
  BY <1>2, <1>3

\* The id of a request does not depend on when one looks at it.
LEMMA IdOfNext ==
    ASSUME nextTxID \in Ids, issued \in Nat, nextTxID' = NextId(nextTxID), issued' = issued + 1
    PROVE  /\ \A n \in Nat : n = issued' => IdOf(n)' = nextTxID
           /\ \A n \in Nat : n <= issued /\ issued - n <= Window => IdOf(n)' = IdOf(n)
<1>1. \A n : IdOf(n)' = Back(nextTxID', issued' + 1 - n)
  BY DEF IdOf, Back
<1>2. 1 \in 1..(Window + 1) /\ Back(NextId(nextTxID), 1) = nextTxID
  <2>1. 1 \in 1..(Window + 1)
    BY WindowAssumption
  <2>2. QED
    BY <2>1, BackFacts
<1>3. ASSUME NEW n \in Nat, n = issued'
      PROVE  IdOf(n)' = nextTxID
  <2>1. issued' + 1 - n = 1
    BY <1>3
  <2>2. QED
    BY <1>1, <1>2, <2>1
<1>4. ASSUME NEW n \in Nat, n <= issued, issued - n <= Window
      PROVE  IdOf(n)' = IdOf(n)
  <2>1. issued + 1 - n \in 1..(Window + 1) /\ issued' + 1 - n = (issued + 1 - n) + 1
    BY <1>4, WindowAssumption
  <2>2. Back(NextId(nextTxID), (issued + 1 - n) + 1) = Back(nextTxID, issued + 1 - n)
    BY <2>1, BackFacts
  <2>3. QED
    BY <1>1, <2>1, <2>2, IdOfBack
<1>5. QED
  BY <1>3, <1>4

\* As long as no request is overtaken by more than a window the ids stay true.
LEMMA StepIdsTrue ==
    ASSUME TypeOK, Shape, IdsTrue, InWindow, [Next]_vars
    PROVE  IdsTrue'
<1>1. /\ issued \in Nat /\ nextTxID \in Ids /\ Window \in Nat
      /\ applied \in Seq(Nat)
      /\ applied # <<>> => LastOf(applied) \in 1..issued /\ LastOf(applied) \in Nat
  BY Counting, AppliedFacts, WindowAssumption DEF TypeOK
<1>2. /\ \A i \in 1..Len(down) : down[i].kind = "data" =>
            down[i].n \in 1..issued /\ issued - down[i].n <= Window
      /\ \A s \in Senders : out[s].pc # "idle" =>
            out[s].n \in 1..issued /\ issued - out[s].n <= Window
  BY DEF Shape, InWindow
<1>3. CASE RequestNew
  <2>1. /\ down # <<>> /\ down' = Tail(down)
        /\ 1 \in 1..Len(down) /\ Head(down) = down[1] /\ down[1].kind = "data"
        /\ down[1].id \in Ids /\ down[1].n \in 1..issued /\ down[1].n \in Nat
    BY <1>3, HeadRequest
  <2>2. /\ UNCHANGED <<issued, nextTxID, out>>
        /\ applied' = Append(applied, down[1].n) /\ rx_last_id' = down[1].id
    BY <1>3, <2>1 DEF RequestNew, sendVars
  <2>3. \A n : IdOf(n)' = IdOf(n)
    BY <2>2 DEF IdOf
  <2>4. down[1].id = IdOf(down[1].n) /\ issued - down[1].n <= Window
    BY <1>2, <2>1 DEF IdsTrue
  <2>5. applied # <<>> => LastOf(applied) < down[1].n
    <3>1. SUFFICES ASSUME applied # <<>>, down[1].n <= LastOf(applied) PROVE FALSE
      BY <1>1, <2>1
    <3>2. LastOf(applied) <= issued /\ issued - LastOf(applied) <= Window
      BY <1>1, <2>1, <2>4, <3>1
    <3>3. rx_last_id = IdOf(LastOf(applied))
      BY <3>1, <3>2 DEF IdsTrue
    <3>4. ~FrameIsNew(down[1].id, rx_last_id)
      BY <1>1, <2>1, <2>4, <3>1, <3>2, <3>3, IdOfOrder
    <3>5. rx_last_id # 0
      BY <3>1 DEF Shape
    <3>6. QED
      BY <1>3, <2>1, <3>4, <3>5 DEF RequestNew, IsNew
  <2>6. Increasing(applied') /\ LastOf(applied') = down[1].n
    BY <1>1, <2>1, <2>2, <2>5, IncreasingAppend DEF IdsTrue
  <2>7. \A i \in 1..Len(down') : down'[i].kind = "data" =>
           \E j \in 1..Len(down) : down'[i] = down[j]
    <3>1. Kept(down, down', 1)
      BY <2>1, KeptTail DEF TypeOK
    <3>2. QED
      BY <3>1 DEF Kept
  <2>8. QED
    BY <2>2, <2>3, <2>4, <2>6, <2>7 DEF IdsTrue
<1>4. CASE ~RequestNew
  <2>1. UNCHANGED <<applied, rx_last_id>>
    BY <1>4, NumbersMove
  <2>2. /\ \A n \in Nat : n <= issued /\ issued - n <= Window => IdOf(n)' = IdOf(n)
        /\ issued <= issued'
        /\ \A s \in Senders : SendNew(s) => \A n \in Nat : n = issued' => IdOf(n)' = nextTxID
    <3>1. CASE \E s \in Senders : SendNew(s)
      <4>1. issued' = issued + 1 /\ nextTxID' = NextId(nextTxID)
        BY <3>1, NumbersMove
      <4>2. QED
        BY <1>1, <4>1, IdOfNext
    <3>2. CASE ~\E s \in Senders : SendNew(s)
      BY <1>1, <3>2, NumbersMove DEF IdOf
    <3>3. QED
      BY <3>1, <3>2
  <2>3. issued' \in Nat
    BY Counting
  <2>4. ASSUME NEW i \in 1..Len(down), down[i].kind = "data", NEW n, n = down[i].n
        PROVE  down[i].id = IdOf(n)'
    BY <1>1, <1>2, <2>2, <2>4 DEF IdsTrue
  <2>5. ASSUME NEW s \in Senders, out[s].pc # "idle", NEW n, n = out[s].n
        PROVE  out[s].id = IdOf(n)'
    BY <1>1, <1>2, <2>2, <2>5 DEF IdsTrue
  <2>6. ASSUME NEW i \in 1..Len(down'), down'[i].kind = "data", NEW n, n = down'[i].n
        PROVE  down'[i].id = IdOf(n)'
    <3>1. CASE \E k \in {0, 1} : Kept(down, down', k)
      <4>1. PICK j \in 1..Len(down) : down'[i] = down[j]
        BY <2>6, <3>1 DEF Kept
      <4>2. QED
        BY <2>4, <2>6, <4>1
    <3>2. ASSUME NEW s \in Senders, SendNew(s),
                 Sent(down, down', Data(nextTxID, issued', "OTHER"))
          PROVE  down'[i].id = IdOf(n)'
      <4>1. CASE i \in 1..Len(down) /\ down'[i] = down[i]
        BY <2>4, <2>6, <4>1
      <4>2. CASE down'[i] = Data(nextTxID, issued', "OTHER")
        BY <2>2, <2>3, <2>6, <3>2, <4>2 DEF Data
      <4>3. QED
        BY <2>6, <3>2, <4>1, <4>2 DEF Sent
    <3>3. ASSUME NEW s \in Senders, Resend(s),
                 Sent(down, down', Data(out[s].id, out[s].n, "OTHER"))
          PROVE  down'[i].id = IdOf(n)'
      <4>1. CASE i \in 1..Len(down) /\ down'[i] = down[i]
        BY <2>4, <2>6, <4>1
      <4>2. CASE down'[i] = Data(out[s].id, out[s].n, "OTHER")
        BY <2>5, <2>6, <3>3, <4>2 DEF Data, Resend
      <4>3. QED
        BY <2>6, <3>3, <4>1, <4>2 DEF Sent
    <3>4. QED
      BY <3>1, <3>2, <3>3, DownMoves
  <2>7. ASSUME NEW s \in Senders, out'[s].pc # "idle", NEW n, n = out'[s].n
        PROVE  out'[s].id = IdOf(n)'
    <3>1. CASE SendNew(s) /\ out'[s].id = nextTxID /\ out'[s].n = issued'
      BY <2>2, <2>3, <2>7, <3>1
    <3>2. CASE out[s].pc # "idle" /\ out'[s].id = out[s].id /\ out'[s].n = out[s].n
      BY <2>5, <2>7, <3>2
    <3>3. QED
      BY <2>7, <3>1, <3>2, SenderMoves
  <2>8. ASSUME applied' # <<>>, NEW n, n = LastOf(applied'), issued' - n <= Window
        PROVE  rx_last_id' = IdOf(n)'
    <3>1. applied # <<>> /\ n = LastOf(applied) /\ n \in Nat /\ n <= issued
      BY <1>1, <2>1, <2>8
    <3>2. issued - n <= Window
      BY <1>1, <2>2, <2>3, <2>8, <3>1
    <3>3. rx_last_id = IdOf(n)
      BY <3>1, <3>2 DEF IdsTrue
    <3>4. QED
      BY <2>1, <2>2, <3>1, <3>2, <3>3
  <2>9. Increasing(applied')
    BY <2>1 DEF IdsTrue
  <2>10. QED
    BY <2>6, <2>7, <2>8, <2>9 DEF IdsTrue
<1>5. QED
  BY <1>3, <1>4

LEMMA InitIdsTrue == Init => IdsTrue
<1> SUFFICES ASSUME Init PROVE IdsTrue
  OBVIOUS
<1>1. Len(<<>>) = 0
  BY EmptySeq
<1>2. \A s \in Senders : out[s].pc = "idle"
  BY DEF Init, Idle
<1>3. QED
  BY <1>1, <1>2 DEF Init, IdsTrue, Increasing

\* Any number of goroutines, requests and losses: the frames are acted on once and
\* in order, if no more than a window of requests overtakes one that is still being
\* sent.
THEOREM OrderInWindow == Spec /\ []InWindow => []InOrder
<1>1. IdsTrue /\ UpInOrder => InOrder
  BY DEF IdsTrue, UpInOrder, InOrder
<1>2. TypeOK /\ Shape /\ IdsTrue /\ InWindow /\ [Next]_vars => IdsTrue'
  BY StepIdsTrue
<1>3. TypeOK /\ Shape /\ UpInOrder /\ [Next]_vars => UpInOrder'
  BY StepUpInOrder
<1>4. QED
  BY <1>1, <1>2, <1>3, InitUpInOrder, InitIdsTrue, LinkTypeCorrect, ShapeKept, PTL DEF Spec

\* The first Window + 1 requests are always in the window.
LEMMA FewInWindow ==
    ASSUME Requests <= Window + 1, TypeOK, Shape
    PROVE  InWindow
<1>1. Requests \in Nat /\ Window \in Nat /\ issued \in 0..Requests
  BY BoundsAssumption, WindowAssumption DEF TypeOK
<1>2. \A n \in 1..issued : issued - n <= Window
  BY <1>1
<1>3. QED
  BY <1>2 DEF InWindow, Shape

\* So for them the order holds whoever sends them.
THEOREM OrderOfFew == ASSUME Requests <= Window + 1 PROVE Spec => []InOrder
<1>1. TypeOK /\ Shape => InWindow
  BY FewInWindow
<1>2. QED
  BY <1>1, OrderInWindow, LinkTypeCorrect, ShapeKept, PTL

-----------------------------------------------------------------------------
(* One goroutine sends: delivery at most once, and confirmed when it is done *)

\* An ACK comes into being when the C64 takes a request, and only travels after that.
LEMMA AckMoves ==
    ASSUME TypeOK, Shape, [Next]_vars, NEW id, AckUnderway(id)'
    PROVE  AckUnderway(id) \/ ((RequestNew \/ RequestStale) /\ id = down[1].id)
<1>1. up \in Seq(Frame) /\ ackCh \in Seq(Ids)
  BY DEF TypeOK
<1>2. CASE UNCHANGED <<ack_pending, ack_id, up, ackCh>>
  BY <1>2 DEF AckUnderway
<1>3. CASE RequestNew \/ RequestStale
  <2>1. ack_id' = down[1].id /\ UNCHANGED <<up, ackCh>>
    BY <1>3, HeadRequest DEF RequestNew, RequestStale, QueueAck
  <2>2. QED
    BY <1>3, <2>1 DEF AckUnderway
<1>4. ASSUME up # <<>>, up' = Tail(up)
      PROVE  /\ Head(up) = up[1] /\ 1 \in 1..Len(up)
             /\ \A i \in 1..Len(up') : \E j \in 1..Len(up) : up'[i] = up[j]
  <2>1. /\ Head(up) = up[1] /\ 1 \in 1..Len(up)
        /\ \A i \in 1..Len(Tail(up)) : i + 1 \in 1..Len(up) /\ Tail(up)[i] = up[i + 1]
    BY <1>1, <1>4, TailFacts
  <2>2. QED
    BY <1>4, <2>1
<1>5. CASE ReceiveLoop
  <2>1. UNCHANGED <<ack_pending, ack_id>> /\ up # <<>> /\ up' = Tail(up)
    BY <1>5 DEF ReceiveLoop, rxVars
  <2>2. \/ ackCh' = ackCh
        \/ Head(up).kind = "ack" /\ ackCh' = Append(ackCh, Head(up).id)
    BY <1>5 DEF ReceiveLoop
  <2>3. CASE ackCh' = ackCh
    BY <1>4, <2>1, <2>3 DEF AckUnderway
  <2>4. CASE Head(up).kind = "ack" /\ ackCh' = Append(ackCh, Head(up).id)
    <3>1. Head(up).id \in Ids
      <4>1. Head(up) \in Frame
        BY <1>1, <2>1, TailFacts
      <4>2. QED
        BY <4>1 DEF Frame, DataFrame
    <3>2. \A i \in 1..Len(ackCh') :
             (\E j \in 1..Len(ackCh) : ackCh'[i] = ackCh[j]) \/ ackCh'[i] = Head(up).id
      <4>1. /\ Len(ackCh') = Len(ackCh) + 1 /\ ackCh'[Len(ackCh) + 1] = Head(up).id
            /\ \A i \in 1..(Len(ackCh) + 1) :
                  (i \in 1..Len(ackCh) /\ ackCh'[i] = ackCh[i]) \/ i = Len(ackCh) + 1
        BY <1>1, <2>4, <3>1, AppendFacts
      <4>2. QED
        BY <4>1
    <3>3. QED
      BY <1>4, <2>1, <2>4, <3>2 DEF AckUnderway
  <2>5. QED
    BY <2>2, <2>3, <2>4
<1>6. CASE TakeAck
  <2>1. UNCHANGED <<ack_pending, ack_id, up>> /\ ackCh # <<>> /\ ackCh' = Tail(ackCh)
    BY <1>6 DEF TakeAck, rxVars
  <2>2. \A i \in 1..Len(ackCh') : i + 1 \in 1..Len(ackCh) /\ ackCh'[i] = ackCh[i + 1]
    BY <1>1, <2>1, TailFacts
  <2>3. QED
    BY <2>1, <2>2 DEF AckUnderway
<1>7. CASE Lose
  <2>1. UNCHANGED <<ack_pending, ack_id, ackCh>>
    BY <1>7 DEF Lose, rxVars
  <2>2. CASE up' = up
    BY <2>1, <2>2 DEF AckUnderway
  <2>3. CASE up # <<>> /\ up' = Tail(up)
    BY <1>4, <2>1, <2>3 DEF AckUnderway
  <2>4. QED
    BY <1>7, <2>2, <2>3 DEF Lose
<1>8. CASE EventSent
  <2>1. UNCHANGED <<ack_pending, ack_id, ackCh>>
    BY <1>8 DEF EventSent, rxVars
  <2>2. \A i \in 1..Len(up') : up'[i].kind = "ack" => \E j \in 1..Len(up) : up'[i] = up[j]
    <3>1. CASE up' = up
      BY <3>1
    <3>2. CASE tx.phase = "sending" /\ up' = Append(up, Data(tx.id, tx.n, tx.type))
      <4>1. tx \in [phase : {"sending", "garbled", "sent"}, id : Ids \union {0}, n : 0..Events, type : Types]
        BY DEF TypeOK
      <4>2. Data(tx.id, tx.n, tx.type) \in Frame /\ Data(tx.id, tx.n, tx.type).kind = "data"
        BY <3>2, <4>1, BoundsAssumption DEF Data, Frame, DataFrame, Shape
      <4>3. /\ Len(up') = Len(up) + 1
            /\ up'[Len(up) + 1].kind = "data"
            /\ \A i \in 1..(Len(up) + 1) :
                  (i \in 1..Len(up) /\ up'[i] = up[i]) \/ i = Len(up) + 1
        BY <1>1, <3>2, <4>2, AppendFacts
      <4>4. QED
        BY <4>3
    <3>3. QED
      BY <1>8, <3>1, <3>2 DEF EventSent
  <2>3. QED
    BY <2>1, <2>2 DEF AckUnderway
<1>9. CASE DrainAck
  <2>1. ack_pending /\ ~ack_pending' /\ UNCHANGED <<ack_id, ackCh>>
    BY <1>9 DEF DrainAck
  <2>2. \A i \in 1..Len(up') : (\E j \in 1..Len(up) : up'[i] = up[j]) \/ up'[i] = Ack(ack_id)
    <3>1. CASE up' = up
      BY <3>1
    <3>2. CASE up' = Append(up, Ack(ack_id))
      <4>1. Ack(ack_id) \in Frame
        BY <2>1 DEF Ack, Frame, TypeOK, Shape
      <4>2. /\ Len(up') = Len(up) + 1
            /\ up'[Len(up) + 1] = Ack(ack_id)
            /\ \A i \in 1..(Len(up) + 1) :
                  (i \in 1..Len(up) /\ up'[i] = up[i]) \/ i = Len(up) + 1
        BY <1>1, <3>2, <4>1, AppendFacts
      <4>3. QED
        BY <4>2
    <3>3. QED
      BY <1>9, <3>1, <3>2 DEF DrainAck
  <2>3. Ack(ack_id).id = ack_id
    BY DEF Ack
  <2>4. QED
    BY <2>1, <2>2, <2>3 DEF AckUnderway
<1>10. CASE \E s \in Senders : \/ SendNew(s) \/ Register(s) \/ AckTimeout(s)
                               \/ Resend(s) \/ TakeWaiterAck(s)
  BY <1>2, <1>10 DEF SendNew, Register, AckTimeout, Resend, TakeWaiterAck, rxVars
<1>11. CASE TakeData \/ FlushAcks \/ UNCHANGED vars
  BY <1>2, <1>11 DEF TakeData, FlushAcks, vars, rxVars
<1>12. CASE AckIn \/ (\E t \in Types : BuildEvent(t)) \/ AckWaitTimeout
  BY <1>2, <1>12 DEF AckIn, BuildEvent, AckWaitTimeout, rxVars
<1>13. QED
  BY <1>3, <1>5, <1>6, <1>7, <1>8, <1>9, <1>10, <1>11, <1>12 DEF Next, Bridge, C64

\* A request stays applied.
LEMMA StaysApplied ==
    ASSUME TypeOK, Shape, [Next]_vars, NEW n, \E i \in 1..Len(applied) : applied[i] = n
    PROVE  \E i \in 1..Len(applied') : applied'[i] = n
<1>1. CASE ~RequestNew
  BY <1>1, NumbersMove
<1>2. CASE RequestNew
  <2>1. down[1].n \in Nat /\ applied' = Append(applied, down[1].n) /\ applied \in Seq(Nat)
    BY <1>2, HeadRequest, AppliedFacts DEF RequestNew
  <2>2. Len(applied) \in Nat /\ Len(applied') = Len(applied) + 1
        /\ \A i \in 1..Len(applied) : applied'[i] = applied[i]
    BY <2>1
  <2>3. QED
    BY <2>2
<1>3. QED
  BY <1>1, <1>2

\* While the ids are fresh the ACK that the event loop waits for comes after the
\* request has been applied.
LEMMA StepAcksTrue ==
    ASSUME Senders = {Loop}, TypeOK, Shape, IdsTrue, IdsFresh, AcksTrue, [Next]_vars
    PROVE  AcksTrue'
<1>1. /\ issued \in Nat /\ nextTxID \in Ids /\ Window \in Nat
      /\ applied \in Seq(Nat)
      /\ applied # <<>> => LastOf(applied) \in 1..issued /\ LastOf(applied) \in Nat
  BY Counting, AppliedFacts, WindowAssumption DEF TypeOK
<1>2. SUFFICES ASSUME out'[Loop].pc # "idle"
               PROVE  /\ out'[Loop].n = issued'
                      /\ AckUnderway(out[Loop].id)' =>
                            \E i \in 1..Len(applied') : applied'[i] = issued'
  BY DEF AcksTrue
<1>3. CASE SendNew(Loop)
  <2>1. out'[Loop].n = issued' /\ out'[Loop].id = nextTxID
    BY <1>2, <1>3, SendersAssumption, SenderMoves DEF SendNew
  <2>2. ~RequestNew /\ ~RequestStale
    <3>1. issued' = issued + 1
      BY <1>3 DEF SendNew
    <3>2. RequestNew \/ RequestStale => issued' = issued
      BY DEF RequestNew, RequestStale, sendVars
    <3>3. QED
      BY <1>1, <3>1, <3>2
  <2>3. \A id : AckUnderway(id)' => AckUnderway(id)
    BY <2>2, AckMoves
  <2>4. ~AckUnderway(nextTxID)
    BY DEF IdsFresh
  <2>5. \A id : id = out'[Loop].id => ~AckUnderway(id)'
    BY <2>1, <2>3, <2>4
  <2>6. ~AckUnderway(out[Loop].id)'
    BY <2>5 DEF AckUnderway
  <2>7. QED
    BY <2>1, <2>6
<1>4. CASE ~SendNew(Loop)
  <2>1. /\ out[Loop].pc # "idle" /\ out'[Loop].id = out[Loop].id
        /\ out'[Loop].n = out[Loop].n
    BY <1>2, <1>4, SendersAssumption, SenderMoves
  <2>2. issued' = issued /\ out[Loop].n = issued
    BY <1>4, <2>1, NumbersMove DEF AcksTrue
  <2>3. ASSUME AckUnderway(out[Loop].id)
        PROVE  \E i \in 1..Len(applied') : applied'[i] = issued'
    <3>1. \E i \in 1..Len(applied) : applied[i] = issued
      BY <2>1, <2>3 DEF AcksTrue
    <3>2. QED
      BY <2>2, <3>1, StaysApplied
  <2>4. ASSUME RequestNew \/ RequestStale, out[Loop].id = down[1].id
        PROVE  \E i \in 1..Len(applied') : applied'[i] = issued'
    <3>1. /\ 1 \in 1..Len(down) /\ Head(down) = down[1] /\ down[1].kind = "data"
          /\ down[1].n \in 1..issued /\ down[1].n \in Nat
      BY <2>4, HeadRequest
    <3>2. down[1].id = IdOf(down[1].n) /\ out[Loop].id = IdOf(issued)
      BY <2>1, <2>2, <3>1, SendersAssumption DEF IdsTrue
    <3>3. issued - down[1].n <= Window
      BY <3>1 DEF IdsFresh, InWindow
    <3>4. down[1].n = issued
      BY <1>1, <2>4, <3>1, <3>2, <3>3, IdOfOrder
    <3>5. CASE RequestNew
      <4>1. applied' = Append(applied, issued)
        BY <3>1, <3>4, <3>5 DEF RequestNew
      <4>2. /\ Len(applied) + 1 \in 1..Len(applied')
            /\ applied'[Len(applied) + 1] = issued
        BY <1>1, <4>1
      <4>3. QED
        BY <2>2, <4>2
    <3>6. CASE RequestStale
      <4>1. rx_last_id # 0 /\ ~FrameIsNew(IdOf(issued), rx_last_id)
        BY <3>1, <3>2, <3>4, <3>6 DEF RequestStale, IsNew
      <4>2. applied # <<>> /\ issued - LastOf(applied) <= Window
        BY <4>1 DEF Shape, IdsFresh
      <4>3. rx_last_id = IdOf(LastOf(applied))
        BY <4>2 DEF IdsTrue
      <4>4. LastOf(applied) = issued
        BY <1>1, <4>1, <4>2, <4>3, IdOfOrder
      <4>5. Len(applied) \in 1..Len(applied)
        BY <1>1, <4>2, EmptySeq
      <4>6. \E i \in 1..Len(applied) : applied[i] = issued
        BY <4>4, <4>5 DEF LastOf
      <4>7. QED
        BY <2>2, <4>6, StaysApplied
    <3>7. QED
      BY <2>4, <3>5, <3>6
  <2>5. \A id : id = out[Loop].id /\ AckUnderway(id)' =>
           \E i \in 1..Len(applied') : applied'[i] = issued'
    BY <2>3, <2>4, AckMoves
  <2>6. AckUnderway(out[Loop].id)' => \E i \in 1..Len(applied') : applied'[i] = issued'
    BY <2>1, <2>5 DEF AckUnderway
  <2>7. QED
    BY <2>1, <2>2, <2>6
<1>5. QED
  BY <1>3, <1>4

LEMMA InitAcksTrue == Init => AcksTrue
  BY SendersAssumption DEF Init, Idle, AcksTrue

LEMMA InitRequests == Init => Requesting!Init
  BY DEF Init, Requesting!Init

\* Each step of the link is a step of the at most once delivery, or none.
LEMMA StepRequests ==
    ASSUME Senders = {Loop}, TypeOK, Shape, AcksTrue, Increasing(applied'), [Next]_vars
    PROVE  [Requesting!Next]_<<issued, applied, confirmed>>
<1>1. CASE \E s \in Senders : SendNew(s)
  BY <1>1 DEF SendNew, rxVars, Requesting!Next, Requesting!Issue
<1>2. CASE \E s \in Senders : \/ Register(s) \/ AckTimeout(s) \/ Resend(s) \/ TakeWaiterAck(s)
  BY <1>2 DEF Register, AckTimeout, Resend, TakeWaiterAck, rxVars
<1>3. CASE TakeAck
  <2>1. UNCHANGED <<issued, applied>>
    BY <1>3 DEF TakeAck, rxVars
  <2>2. CASE out[Loop].pc = "wait" /\ Head(ackCh) = out[Loop].id
    <3>1. confirmed' = confirmed \union {issued}
      BY <1>3, <2>2 DEF TakeAck, Confirm, AcksTrue
    <3>2. ackCh \in Seq(Ids) /\ ackCh # <<>>
      BY <1>3 DEF TakeAck, TypeOK
    <3>3. 1 \in 1..Len(ackCh) /\ ackCh[1] = out[Loop].id
      BY <2>2, <3>2, TailFacts
    <3>4. AckUnderway(out[Loop].id)
      BY <3>3 DEF AckUnderway
    <3>5. \E i \in 1..Len(applied) : applied[i] = issued
      BY <2>2, <3>4 DEF AcksTrue
    <3>6. issued \in 1..issued
      BY <2>2, SendersAssumption DEF Shape, AcksTrue
    <3>7. QED
      BY <2>1, <3>1, <3>5, <3>6 DEF Requesting!Next, Requesting!Confirm
  <2>3. CASE ~(out[Loop].pc = "wait" /\ Head(ackCh) = out[Loop].id)
    BY <1>3, <2>1, <2>3 DEF TakeAck
  <2>4. QED
    BY <2>2, <2>3
<1>4. CASE RequestNew
  <2>1. /\ down[1].n \in 1..issued /\ down[1].n \in Nat
        /\ applied' = Append(applied, down[1].n) /\ UNCHANGED <<issued, confirmed>>
    BY <1>4, HeadRequest DEF RequestNew, sendVars
  <2>2. applied \in Seq(Nat)
    BY AppliedFacts
  <2>3. Len(applied) \in Nat /\ Len(applied') = Len(applied) + 1
        /\ applied'[Len(applied) + 1] = down[1].n
        /\ \A i \in 1..Len(applied) : applied'[i] = applied[i]
    BY <2>1, <2>2
  <2>4. \A i \in 1..Len(applied) : applied[i] < down[1].n
    BY <2>3 DEF Increasing
  <2>5. QED
    BY <2>1, <2>4 DEF Requesting!Next, Requesting!Apply
<1>5. CASE TakeData \/ FlushAcks \/ ReceiveLoop \/ Lose \/ UNCHANGED vars
  BY <1>5 DEF TakeData, FlushAcks, ReceiveLoop, Lose, vars, sendVars, rxVars
<1>6. CASE C64 /\ ~RequestNew
  BY <1>6 DEF C64, AckIn, RequestStale, BuildEvent, EventSent, AckWaitTimeout, DrainAck,
     sendVars, rxVars
<1>7. QED
  BY <1>1, <1>2, <1>3, <1>4, <1>5, <1>6 DEF Next, Bridge

\* One goroutine sends, and nothing on the link is older than the ids can tell: the
\* link is an at most once delivery whose confirmations are true.
THEOREM RequestsRefine ==
    ASSUME Senders = {Loop}
    PROVE  Spec /\ []IdsFresh => RequestsReliable
<1>1. IdsFresh => InWindow
  BY DEF IdsFresh
<1>2. TypeOK /\ Shape /\ IdsTrue /\ IdsFresh /\ AcksTrue /\ [Next]_vars =>
         IdsTrue' /\ AcksTrue' /\ [Requesting!Next]_<<issued, applied, confirmed>>
  <2>1. SUFFICES ASSUME TypeOK, Shape, IdsTrue, IdsFresh, AcksTrue, [Next]_vars
                 PROVE  IdsTrue' /\ AcksTrue' /\ [Requesting!Next]_<<issued, applied, confirmed>>
    OBVIOUS
  <2>2. IdsTrue'
    BY <1>1, <2>1, StepIdsTrue
  <2>3. AcksTrue'
    BY <2>1, StepAcksTrue
  <2>4. Increasing(applied')
    BY <2>2 DEF IdsTrue
  <2>5. QED
    BY <2>1, <2>2, <2>3, <2>4, StepRequests
<1>3. QED
  BY <1>2, InitIdsTrue, InitAcksTrue, InitRequests, LinkTypeCorrect, ShapeKept,
     PTL DEF Spec, RequestsReliable, Requesting!Spec

\* The id of a request stays what it is while it is in the window.
LEMMA IdOfStays ==
    ASSUME TypeOK, [Next]_vars, NEW n \in Nat, n <= issued, issued - n <= Window
    PROVE  IdOf(n)' = IdOf(n) /\ n <= issued'
<1>1. issued \in Nat /\ nextTxID \in Ids
  BY Counting DEF TypeOK
<1>2. CASE \E s \in Senders : SendNew(s)
  BY <1>1, <1>2, NumbersMove, IdOfNext
<1>3. CASE ~\E s \in Senders : SendNew(s)
  BY <1>1, <1>3, NumbersMove DEF IdOf
<1>4. QED
  BY <1>2, <1>3

\* So the ACKs of the first Window + 1 requests carry their ids.
LEMMA StepAcksIssued ==
    ASSUME Requests <= Window + 1, TypeOK, Shape, IdsTrue, AcksIssued, [Next]_vars
    PROVE  AcksIssued'
<1>1. /\ issued \in Nat /\ issued' \in Nat
      /\ \A n \in 1..issued : n \in Nat /\ n <= issued /\ issued - n <= Window
  BY Counting, BoundsAssumption, WindowAssumption DEF TypeOK
<1>2. ASSUME NEW id \in Ids, AckUnderway(id)'
      PROVE  \E n \in 1..issued : id = IdOf(n)
  <2>1. CASE AckUnderway(id)
    BY <2>1 DEF AcksIssued
  <2>2. CASE (RequestNew \/ RequestStale) /\ id = down[1].id
    <3>1. 1 \in 1..Len(down) /\ down[1].kind = "data" /\ down[1].n \in 1..issued
      BY <2>2, HeadRequest
    <3>2. QED
      BY <2>2, <3>1 DEF IdsTrue
  <2>3. QED
    BY <1>2, <2>1, <2>2, AckMoves
<1>3. ASSUME NEW id \in Ids, AckUnderway(id)'
      PROVE  \E n \in 1..issued' : id = IdOf(n)'
  <2>1. PICK n \in 1..issued : id = IdOf(n)
    BY <1>2, <1>3
  <2>2. IdOf(n)' = IdOf(n) /\ n <= issued' /\ n \in Nat /\ n >= 1
    BY <1>1, <2>1, IdOfStays
  <2>3. QED
    BY <1>1, <2>1, <2>2
<1>4. QED
  BY <1>3 DEF AcksIssued

LEMMA InitAcksIssued == Init => AcksIssued
<1> SUFFICES ASSUME Init PROVE AcksIssued
  OBVIOUS
<1>1. Len(<<>>) = 0
  BY EmptySeq
<1>2. QED
  BY <1>1 DEF Init, AcksIssued, AckUnderway

\* None of them is taken for the ACK of the request to come.
LEMMA FewFresh ==
    ASSUME Requests <= Window + 1, TypeOK, Shape, AcksIssued
    PROVE  IdsFresh
<1>1. /\ issued \in Nat /\ nextTxID \in Ids
      /\ \A n \in 1..issued : n \in Nat /\ n <= issued /\ issued - n <= Window
  BY BoundsAssumption, WindowAssumption DEF TypeOK
<1>2. InWindow
  BY FewInWindow
<1>3. applied # <<>> => issued - LastOf(applied) <= Window
  BY <1>1, AppliedFacts
<1>4. ~AckUnderway(nextTxID)
  BY <1>1, IdOfType DEF AcksIssued
<1>5. QED
  BY <1>2, <1>3, <1>4 DEF IdsFresh

\* One goroutine that sends at most Window + 1 requests, over a line that loses and
\* delays what it likes, has an at most once delivery whose confirmations are true.
THEOREM RequestsOnce ==
    ASSUME Senders = {Loop}, Requests <= Window + 1
    PROVE  Spec => RequestsReliable
<1>1. TypeOK /\ Shape /\ AcksIssued => IdsFresh
  BY FewFresh
<1>2. IdsFresh => InWindow
  BY DEF IdsFresh
<1>3. TypeOK /\ Shape /\ IdsTrue /\ InWindow /\ [Next]_vars => IdsTrue'
  BY StepIdsTrue
<1>4. TypeOK /\ Shape /\ IdsTrue /\ AcksIssued /\ [Next]_vars => AcksIssued'
  BY StepAcksIssued
<1>5. Spec /\ []IdsFresh => RequestsReliable
  BY RequestsRefine
<1>6. QED
  BY <1>1, <1>2, <1>3, <1>4, <1>5, InitIdsTrue, InitAcksIssued, LinkTypeCorrect,
     ShapeKept, PTL DEF Spec
=============================================================================
