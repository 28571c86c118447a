--------------------------- MODULE C64PartsProofs ---------------------------
(***************************************************************************)
(* Proofs about the parts at the C64's end of the line.  The transmit      *)
(* path, for every length of an ACK, of a frame and of a burst that an     *)
(* 8-bit index can run over, and any number of ACKs and frames: the three  *)
(* contexts that send, and whatever makes BASIC start, print and end, take *)
(* their steps in any order.  The decoders, for any ids, characters and    *)
(* losses: what an arbitrary byte can do to their variables, and that      *)
(* they keep in step with a sender of whom no byte was lost.  And the user *)
(* queue's invariant, where it is one part of three.                       *)
(***************************************************************************)
EXTENDS C64Parts, UserQueueProofs, SequenceTheorems

GuardIInv == Guard!TypeOK /\ Guard!GuardInv

ByteOnWire == [of : {"ack", "frame"}, at : 0..(Bytes - 1)]

LEMMA Lengths ==
    /\ AckLen \in Nat /\ AckLen > 0 /\ FrameLen \in Nat /\ FrameLen > 0
    /\ Burst \in Nat /\ Burst > 0 /\ Bytes \in Nat /\ AckLen < Bytes /\ FrameLen < Bytes
    /\ 0 \in 0..(Bytes - 1) /\ AckLen \in 0..(Bytes - 1)
<1>1. AckLen \in Nat \ {0} /\ FrameLen \in Nat \ {0} /\ Burst \in Nat \ {0}
  BY LengthsAssumption
<1>2. QED
  BY <1>1, LengthsAssumption

-----------------------------------------------------------------------------
(* The transmit ring *)

\* What Whole and FrameOutsideAck say of a sequence of bytes.
EndsWhole(w) == w # <<>> /\ w[Len(w)].of = "ack" => w[Len(w)].at = AckLen - 1

NoFrameInside(w) ==
    \A i \in 2..Len(w) : w[i].of = "frame" /\ w[i - 1].of = "ack" => w[i - 1].at = AckLen - 1

\* A function on 1..n is a sequence of length n.
LEMMA FunctionIsSeq ==
    ASSUME NEW S, NEW n \in Nat, NEW f \in [1..n -> S]
    PROVE  f \in Seq(S) /\ Len(f) = n
OBVIOUS

\* The bytes of a run.
LEMMA RunBytes ==
    ASSUME NEW kind \in {"ack", "frame"}, NEW from \in 0..Bytes, NEW to \in 0..Bytes,
           NEW run \in [1..(to - from) -> ByteOnWire],
           \A i \in 1..(to - from) : run[i].of = kind /\ run[i].at = from + i - 1
    PROVE  /\ run \in Seq(ByteOnWire)
           /\ \A i \in 1..Len(run) : run[i].of = kind
           /\ run # <<>> => Len(run) = to - from /\ run[Len(run)].at = to - 1
<1>1. Bytes \in Nat /\ from \in Nat /\ to \in Nat
  BY Lengths
<1>2. PICK n \in Nat : 1..(to - from) = 1..n /\ (n # 0 => n = to - from)
  <2>1. CASE from < to
    <3>1. to - from \in Nat
      BY <1>1, <2>1
    <3>2. QED
      BY <3>1
  <2>2. CASE ~(from < to)
    <3>1. 1..(to - from) = 1..0
      BY <1>1, <2>2
    <3>2. QED
      BY <3>1
  <2>3. QED
    BY <2>1, <2>2
<1>3. run \in [1..n -> ByteOnWire]
  BY <1>2
<1>4. run \in Seq(ByteOnWire) /\ Len(run) = n
  BY <1>2, <1>3, FunctionIsSeq
<1>5. \A i \in 1..Len(run) : run[i].of = kind
  BY <1>2, <1>4
<1>6. ASSUME run # <<>> PROVE Len(run) = to - from /\ run[Len(run)].at = to - 1
  <2>1. n # 0
    BY <1>4, <1>6, EmptySeq
  <2>2. n = to - from /\ n \in 1..n
    BY <1>2, <2>1
  <2>3. run[n].at = from + n - 1
    BY <1>2, <2>2
  <2>4. from + n - 1 = to - 1
    BY <1>1, <2>2
  <2>5. QED
    BY <1>4, <2>2, <2>3, <2>4
<1>7. QED
  BY <1>4, <1>5, <1>6

\* A run of an ACK up to its last byte, or of a frame, may follow what ends whole.
LEMMA RunAppended ==
    ASSUME NEW w \in Seq(ByteOnWire), NEW run \in Seq(ByteOnWire), NEW kind \in {"ack", "frame"},
           EndsWhole(w), NoFrameInside(w),
           \A i \in 1..Len(run) : run[i].of = kind,
           kind = "ack" /\ run # <<>> => run[Len(run)].at = AckLen - 1
    PROVE  /\ w \o run \in Seq(ByteOnWire)
           /\ EndsWhole(w \o run) /\ NoFrameInside(w \o run)
<1>1. /\ w \o run \in Seq(ByteOnWire) /\ Len(w \o run) = Len(w) + Len(run)
      /\ \A i \in 1..(Len(w) + Len(run)) :
            (w \o run)[i] = IF i <= Len(w) THEN w[i] ELSE run[i - Len(w)]
      /\ Len(w) \in Nat /\ Len(run) \in Nat
  BY ConcatProperties, LenProperties
<1>2. /\ w = <<>> <=> Len(w) = 0
      /\ run = <<>> <=> Len(run) = 0
  BY EmptySeq
<1>3. EndsWhole(w \o run)
  <2>1. CASE Len(run) = 0
    <3>1. Len(w) # 0 => (w \o run)[Len(w)] = w[Len(w)]
      BY <1>1, <2>1
    <3>2. w \o run # <<>> => Len(w) # 0
      BY <1>1, <2>1, EmptySeq
    <3>3. QED
      BY <1>1, <1>2, <2>1, <3>1, <3>2 DEF EndsWhole
  <2>2. CASE Len(run) # 0
    <3>1. (w \o run)[Len(w) + Len(run)] = run[Len(run)]
      BY <1>1, <2>2
    <3>2. Len(run) \in 1..Len(run)
      BY <1>1, <2>2
    <3>3. QED
      BY <1>1, <1>2, <2>2, <3>1, <3>2 DEF EndsWhole
  <2>3. QED
    BY <2>1, <2>2
<1>4. ASSUME NEW i \in 2..(Len(w) + Len(run)),
             (w \o run)[i].of = "frame", (w \o run)[i - 1].of = "ack"
      PROVE  (w \o run)[i - 1].at = AckLen - 1
  <2>1. CASE i <= Len(w)
    <3>1. (w \o run)[i] = w[i] /\ (w \o run)[i - 1] = w[i - 1] /\ i \in 2..Len(w)
      BY <1>1, <2>1
    <3>2. QED
      BY <1>4, <3>1 DEF NoFrameInside
  <2>2. CASE i = Len(w) + 1
    <3>1. (w \o run)[i - 1] = w[Len(w)] /\ Len(w) # 0
      BY <1>1, <2>2
    <3>2. QED
      BY <1>2, <1>4, <3>1 DEF EndsWhole
  <2>3. CASE i > Len(w) + 1
    <3>1. /\ (w \o run)[i] = run[i - Len(w)] /\ (w \o run)[i - 1] = run[i - 1 - Len(w)]
          /\ i - Len(w) \in 1..Len(run) /\ i - 1 - Len(w) \in 1..Len(run)
      BY <1>1, <2>3
    <3>2. QED
      BY <1>4, <3>1
  <2>4. QED
    BY <1>1, <2>1, <2>2, <2>3
<1>5. QED
  BY <1>1, <1>3, <1>4 DEF NoFrameInside

\* A byte of an ACK may follow it as well.
LEMMA ByteAppended ==
    ASSUME NEW w \in Seq(ByteOnWire), NEW b \in ByteOnWire, b.of = "ack", NoFrameInside(w)
    PROVE  /\ Append(w, b) \in Seq(ByteOnWire) /\ NoFrameInside(Append(w, b))
           /\ Append(w, b) # <<>> /\ Append(w, b)[Len(Append(w, b))] = b
<1>1. /\ Append(w, b) \in Seq(ByteOnWire) /\ Len(Append(w, b)) = Len(w) + 1
      /\ \A i \in 1..Len(w) : Append(w, b)[i] = w[i]
      /\ Append(w, b)[Len(w) + 1] = b
      /\ Len(w) \in Nat
  BY AppendProperties, LenProperties
<1>2. Append(w, b) # <<>>
  BY <1>1, EmptySeq
<1>3. NoFrameInside(Append(w, b))
  BY <1>1 DEF NoFrameInside
<1>4. QED
  BY <1>1, <1>2, <1>3

-----------------------------------------------------------------------------
(* The invariant *)

\* What the invariant says of the ring.
LEMMA RingFacts ==
    /\ Guard!FrameOutsideAck <=> NoFrameInside(wire)
    /\ Guard!FrameOutsideAck' <=> NoFrameInside(wire')
    /\ Guard!Whole <=> EndsWhole(wire)
    /\ Guard!Whole' <=> EndsWhole(wire')
  BY DEF Guard!FrameOutsideAck, NoFrameInside, Guard!Whole, EndsWhole

LEMMA InitGuard == Guard!Init => GuardIInv
<1> SUFFICES ASSUME Guard!Init PROVE GuardIInv
  OBVIOUS
<1>1. Guard!TypeOK
  <2>1. 0 \in 0..Acks /\ 0 \in 0..Frames /\ 0 \in 0..FrameLen /\ 0 \in 0..(Bytes - 1)
    BY Lengths, GuardBoundsAssumption
  <2>2. wire \in Seq([of : {"ack", "frame"}, at : 0..(Bytes - 1)])
    BY EmptySeq DEF Guard!Init
  <2>3. QED
    BY <2>1, <2>2, Zenon DEF Guard!Init, Guard!TypeOK
<1>2. Guard!Whole /\ Guard!FrameOutsideAck
  <2>1. wire = <<>> /\ Len(<<>>) = 0
    BY EmptySeq DEF Guard!Init
  <2>2. QED
    BY <2>1 DEF Guard!Whole, Guard!FrameOutsideAck
<1>3. QED
  BY <1>1, <1>2 DEF Guard!Init, GuardIInv, Guard!GuardInv

\* An ACK and the next bytes of a frame go to the ring in one piece.
LEMMA ServiceGuard ==
    ASSUME GuardIInv, Guard!Service, UNCHANGED <<foreground, basic_running, hook, x, owed>>
    PROVE  GuardIInv'
<1> DEFINE start   == IF Guard!StartAck THEN 0 ELSE ack_pos
           total == IF Guard!StartAck THEN AckLen ELSE ack_total
           upto  == IF send_pos + Burst < send_total THEN send_pos + Burst ELSE send_total
           ack   == Guard!BytesOf(Guard!AckByte, start, total)
           data  == Guard!BytesOf(Guard!FrameByte, send_pos, upto)
<1>1. /\ tx_service_busy = 0 /\ tx_service_busy' = 0
      /\ UNCHANGED <<send_total, tx_ack_wait, built>>
      /\ send_pos' = upto
  BY DEF Guard!Service, Guard!ServiceInner
<1>2. PICK acking \in BOOLEAN :
        /\ acking => /\ Guard!StartAck \/ ack_pos # ack_total
                     /\ ack_pos' = total /\ ack_total' = total
                     /\ ack_pending' = (ack_pending /\ ~Guard!StartAck)
        /\ ~acking => UNCHANGED <<ack_pending, ack_pos, ack_total>>
        /\ wire' = wire \o (IF acking THEN ack ELSE <<>>) \o data
  <2>1. PICK first \in Guard!MayAck :
          LET acking == first /\ (Guard!StartAck \/ ack_pos # ack_total) IN
          /\ IF acking
             THEN /\ ack_pos' = total /\ ack_total' = total
                  /\ ack_pending' = (ack_pending /\ ~Guard!StartAck)
             ELSE UNCHANGED Guard!ackVars
          /\ wire' = wire \o (IF acking THEN ack ELSE <<>>) \o data
    BY DEF Guard!Service, Guard!ServiceInner
  <2>2. first \in BOOLEAN
    BY DEF Guard!MayAck
  <2>3. QED
    BY <2>1, <2>2, Zenon DEF Guard!ackVars
<1>3. Guard!TypeOK /\ Guard!GuardInv
  BY DEF GuardIInv
<1>4. /\ start \in 0..Bytes /\ total \in {0, AckLen} /\ total \in 0..(Bytes - 1)
      /\ Guard!StartAck \/ ack_pos # ack_total => total = AckLen
      /\ upto \in 0..FrameLen /\ upto \in 0..Bytes /\ send_pos \in 0..Bytes
  BY <1>3, Lengths DEF Guard!TypeOK, Guard!GuardInv
<1>5. EndsWhole(wire) /\ NoFrameInside(wire) /\ wire \in Seq(ByteOnWire)
  BY <1>1, <1>3, RingFacts DEF Guard!TypeOK, Guard!GuardInv, ByteOnWire
<1>6. /\ ack \in Seq(ByteOnWire) /\ \A i \in 1..Len(ack) : ack[i].of = "ack"
      /\ acking /\ ack # <<>> => ack[Len(ack)].at = AckLen - 1
  <2>1. ack = [i \in 1..(total - start) |-> [of |-> "ack", at |-> start + i - 1]]
    BY DEF Guard!BytesOf, Guard!AckByte
  <2>2. PICK from, to, run : from = start /\ to = total /\ run = ack
    OBVIOUS
  <2>3. from \in 0..Bytes /\ to \in 0..Bytes
    BY <1>4, <2>2, Lengths
  <2>4. /\ run \in [1..(to - from) -> ByteOnWire]
        /\ \A i \in 1..(to - from) : run[i].of = "ack" /\ run[i].at = from + i - 1
    BY <2>1, <2>2, <2>3, Lengths DEF ByteOnWire
  <2>5. /\ run \in Seq(ByteOnWire) /\ \A i \in 1..Len(run) : run[i].of = "ack"
        /\ run # <<>> => run[Len(run)].at = to - 1
    BY <2>3, <2>4, RunBytes
  <2>6. QED
    BY <1>2, <1>4, <2>2, <2>5
<1>7. data \in Seq(ByteOnWire) /\ \A i \in 1..Len(data) : data[i].of = "frame"
  <2>1. data = [i \in 1..(upto - send_pos) |-> [of |-> "frame", at |-> send_pos + i - 1]]
    BY DEF Guard!BytesOf, Guard!FrameByte
  <2>2. PICK from, to, run : from = send_pos /\ to = upto /\ run = data
    OBVIOUS
  <2>3. from \in 0..Bytes /\ to \in 0..Bytes
    BY <1>4, <2>2
  <2>4. /\ run \in [1..(to - from) -> ByteOnWire]
        /\ \A i \in 1..(to - from) : run[i].of = "frame" /\ run[i].at = from + i - 1
    BY <2>1, <2>2, <2>3, Lengths DEF ByteOnWire
  <2>5. run \in Seq(ByteOnWire) /\ \A i \in 1..Len(run) : run[i].of = "frame"
    BY <2>3, <2>4, RunBytes
  <2>6. QED
    BY <2>2, <2>5
<1>8. PICK w \in Seq(ByteOnWire) : wire' = w \o data /\ EndsWhole(w) /\ NoFrameInside(w)
  <2>1. CASE acking
    BY <1>2, <1>5, <1>6, <2>1, RunAppended
  <2>2. CASE ~acking
    <3>1. wire \o <<>> = wire
      BY <1>5
    <3>2. QED
      BY <1>2, <1>5, <2>2, <3>1
  <2>3. QED
    BY <2>1, <2>2
<1>9. wire' \in Seq(ByteOnWire) /\ EndsWhole(wire') /\ NoFrameInside(wire')
  BY <1>7, <1>8, RunAppended
<1>10. Guard!TypeOK'
  BY <1>1, <1>2, <1>3, <1>4, <1>9 DEF Guard!TypeOK, ByteOnWire
<1>11. hook \notin {"write", "advance"}
  BY <1>1, <1>3 DEF Guard!GuardInv
<1>12. ack_pos' = ack_total' \/ UNCHANGED <<ack_pos, ack_total>>
  BY <1>2
<1>13. ack_total' = 0 => ack_total = 0 /\ ack_pos' = 0
  BY <1>2, <1>3, <1>4, Lengths DEF Guard!GuardInv
<1>14. Guard!GuardInv'
  BY <1>1, <1>3, <1>9, <1>11, <1>12, <1>13, RingFacts DEF Guard!GuardInv
<1>15. QED
  BY <1>10, <1>14 DEF GuardIInv

\* The next frame is built, nothing goes to the ring.
LEMMA BuildGuard ==
    ASSUME GuardIInv, Guard!Build, UNCHANGED <<foreground, basic_running, hook, x, owed>>
    PROVE  GuardIInv'
<1>1. Guard!TypeOK'
  BY Lengths, GuardBoundsAssumption
     DEF GuardIInv, Guard!TypeOK, Guard!Build, Guard!ackVars
<1>2. Guard!GuardInv'
  BY DEF GuardIInv, Guard!GuardInv, Guard!Build, Guard!ackVars, Guard!Whole,
     Guard!FrameOutsideAck, Guard!AckByte
<1>3. QED
  BY <1>1, <1>2 DEF GuardIInv

\* The guard is freed where nothing is partly out.
LEMMA ClearStaleGuard == GuardIInv /\ Guard!ClearStale => GuardIInv'
<1> SUFFICES ASSUME GuardIInv, Guard!ClearStale PROVE GuardIInv'
  OBVIOUS
<1>1. Guard!TypeOK'
  BY DEF GuardIInv, Guard!TypeOK, Guard!ClearStale, Guard!ackVars, Guard!frameVars
<1>2. Guard!GuardInv'
  BY DEF GuardIInv, Guard!GuardInv, Guard!ClearStale, Guard!ackVars, Guard!frameVars,
     Guard!Whole, Guard!FrameOutsideAck, Guard!AckByte
<1>3. QED
  BY <1>1, <1>2 DEF GuardIInv

\* The BSOUT hook, one instruction after the other.
LEMMA HookGuard == GuardIInv /\ Guard!Hook => GuardIInv'
<1> SUFFICES ASSUME GuardIInv, Guard!Hook PROVE GuardIInv'
  OBVIOUS
<1>1. Guard!TypeOK /\ Guard!GuardInv
  BY DEF GuardIInv
<1>2. UNCHANGED <<foreground, basic_running, send_pos, send_total, tx_ack_wait, built, owed>>
  BY DEF Guard!Hook, Guard!HookStart, Guard!HookReady, Guard!HookClaim, Guard!HookWrite,
     Guard!HookRingFull, Guard!HookAdvance, Guard!Step, Guard!frameVars
<1>3. CASE Guard!HookStart
  <2>1. /\ hook = "start" /\ hook' = "ready" /\ UNCHANGED <<tx_service_busy, x, wire>>
        /\ \/ ack_pos = ack_total /\ ack_pos' = 0 /\ ack_total' = AckLen /\ ack_pending' = FALSE
           \/ UNCHANGED <<ack_pending, ack_pos, ack_total>>
    BY <1>3 DEF Guard!HookStart, Guard!Step, Guard!StartAck, Guard!ackVars
  <2>2. Guard!TypeOK'
    BY <1>1, <1>2, <2>1, Lengths DEF Guard!TypeOK
  <2>3. Guard!GuardInv'
    BY <1>1, <1>2, <2>1, Lengths
       DEF Guard!GuardInv, Guard!Whole, Guard!FrameOutsideAck
  <2>4. QED
    BY <2>2, <2>3 DEF GuardIInv
<1>4. CASE Guard!HookReady
  <2>1. /\ hook = "ready" /\ UNCHANGED <<ack_pending, ack_pos, ack_total, tx_service_busy, wire>>
        /\ x' = ack_pos
        /\ hook' \in {"out", "claim"} /\ (hook' = "claim" => ack_pos # ack_total)
    BY <1>4 DEF Guard!HookReady, Guard!Step, Guard!ackVars
  <2>2. Guard!TypeOK'
    BY <1>1, <1>2, <2>1 DEF Guard!TypeOK
  <2>3. Guard!GuardInv'
    BY <1>1, <1>2, <2>1 DEF Guard!GuardInv, Guard!Whole, Guard!FrameOutsideAck
  <2>4. QED
    BY <2>2, <2>3 DEF GuardIInv
<1>5. CASE Guard!HookClaim \/ Guard!HookRingFull
  <2>1. /\ UNCHANGED <<ack_pending, ack_pos, ack_total, x, wire>>
        /\ \/ hook = "claim" /\ hook' = "write" /\ tx_service_busy' = 2
           \/ hook = "write" /\ hook' = "out" /\ tx_service_busy' = tx_service_busy
    BY <1>5 DEF Guard!HookClaim, Guard!HookRingFull, Guard!Step, Guard!ackVars
  <2>2. Guard!TypeOK'
    BY <1>1, <1>2, <2>1 DEF Guard!TypeOK
  <2>3. Guard!GuardInv'
    BY <1>1, <1>2, <2>1 DEF Guard!GuardInv, Guard!Whole, Guard!FrameOutsideAck
  <2>4. QED
    BY <2>2, <2>3 DEF GuardIInv
<1>6. CASE Guard!HookWrite
  <2>1. /\ UNCHANGED <<ack_pending, ack_pos, ack_total, x, tx_service_busy>>
        /\ hook = "write" /\ hook' = "advance" /\ wire' = Append(wire, Guard!AckByte(x))
    BY <1>6 DEF Guard!HookWrite, Guard!Step, Guard!ackVars
  <2>2. Guard!AckByte(x) \in ByteOnWire /\ Guard!AckByte(x).of = "ack"
    BY <1>1 DEF Guard!AckByte, ByteOnWire, Guard!TypeOK
  <2>3. wire \in Seq(ByteOnWire) /\ NoFrameInside(wire)
    BY <1>1, RingFacts DEF Guard!TypeOK, Guard!GuardInv, ByteOnWire
  <2>4. /\ wire' \in Seq(ByteOnWire) /\ NoFrameInside(wire')
        /\ wire' # <<>> /\ wire'[Len(wire')] = Guard!AckByte(x)
    BY <2>1, <2>2, <2>3, ByteAppended
  <2>5. Guard!TypeOK'
    BY <1>1, <1>2, <2>1, <2>4 DEF Guard!TypeOK, ByteOnWire
  <2>6. Guard!AckByte(x)' = Guard!AckByte(x)
    BY <2>1 DEF Guard!AckByte
  <2>7. Guard!GuardInv'
    BY <1>1, <1>2, <2>1, <2>4, <2>6, RingFacts DEF Guard!GuardInv
  <2>8. QED
    BY <2>5, <2>7 DEF GuardIInv
<1>7. CASE Guard!HookAdvance
  <2>1. /\ UNCHANGED <<ack_pending, ack_total, x, wire>>
        /\ hook = "advance" /\ hook' = "out"
        /\ ack_pos' = (ack_pos + 1) % Bytes
        /\ tx_service_busy' = IF ack_pos' = ack_total THEN 0 ELSE tx_service_busy
    BY <1>7 DEF Guard!HookAdvance, Guard!Step
  <2>2. /\ ack_pos \in 0..(Bytes - 1) /\ x \in 0..(Bytes - 1) /\ ack_total = AckLen
        /\ ack_pos \in {x, ack_total} /\ tx_service_busy = 2
        /\ wire # <<>> /\ wire[Len(wire)] = Guard!AckByte(x)
    BY <1>1, <2>1 DEF Guard!TypeOK, Guard!GuardInv
  <2>3. /\ Bytes \in Nat \ {0} /\ AckLen \in 1..(Bytes - 1)
        /\ ack_pos' = IF ack_pos + 1 = Bytes THEN 0 ELSE ack_pos + 1
    <3>1. Bytes \in Nat \ {0} /\ AckLen \in 1..(Bytes - 1)
      BY Lengths
    <3>2. \A p \in 0..(Bytes - 1) : (p + 1) % Bytes = IF p + 1 = Bytes THEN 0 ELSE p + 1
      <4>1. Bytes % Bytes = 0
        BY <3>1
      <4>2. \A p \in 0..(Bytes - 1) : p + 1 # Bytes => (p + 1) % Bytes = p + 1
        BY <3>1
      <4>3. QED
        BY <4>1, <4>2
    <3>3. ack_pos' = IF ack_pos + 1 = Bytes THEN 0 ELSE ack_pos + 1
      BY <2>1, <2>2, <3>2, Zenon
    <3>4. QED
      BY <3>1, <3>3
  <2>4. ack_pos' = ack_total => x = AckLen - 1
    BY <2>2, <2>3
  <2>5. ack_pos' = ack_total => Guard!Whole'
    BY <2>1, <2>2, <2>4 DEF Guard!Whole, Guard!AckByte
  <2>6. Guard!TypeOK'
    BY <1>1, <1>2, <2>1, <2>2, <2>3 DEF Guard!TypeOK
  <2>7. Guard!GuardInv'
    <3>1. Guard!FrameOutsideAck'
      BY <1>1, <2>1 DEF Guard!GuardInv, Guard!FrameOutsideAck
    <3>2. ack_total' # 0
      BY <2>1, <2>2, <2>3
    <3>3. QED
      BY <1>1, <1>2, <2>1, <2>2, <2>5, <3>1, <3>2 DEF Guard!GuardInv
  <2>8. QED
    BY <2>6, <2>7 DEF GuardIInv
<1>8. QED
  BY <1>3, <1>4, <1>5, <1>6, <1>7 DEF Guard!Hook

\* The rest of the machine, which leaves the ring alone.
LEMMA OtherGuard ==
    ASSUME GuardIInv,
           \/ Guard!PrintChar \/ Guard!OweAck \/ Guard!AckIn \/ Guard!BasicStarts
           \/ Guard!Detach \/ Guard!BasicEnds \/ Guard!ReadySeen
    PROVE  GuardIInv'
<1>1. UNCHANGED <<tx_service_busy, ack_pos, ack_total, send_pos, send_total, built, x, wire>>
  BY DEF Guard!PrintChar, Guard!OweAck, Guard!AckIn, Guard!BasicStarts, Guard!Detach,
     Guard!BasicEnds, Guard!ReadySeen, Guard!Step, Guard!ackVars, Guard!frameVars
<1>2. /\ foreground' \in {"editor", "basic"} /\ basic_running' \in BOOLEAN
      /\ ack_pending' \in BOOLEAN /\ tx_ack_wait' \in BOOLEAN /\ owed' \in 0..Acks
      /\ hook' = hook \/ (hook = "out" /\ hook' = "start")
      /\ hook' # "out" => foreground' = "basic"
  <2>1. foreground \in {"editor", "basic"} /\ (hook # "out" => foreground = "basic")
    BY DEF GuardIInv, Guard!GuardInv, Guard!TypeOK
  <2>2. /\ basic_running' = basic_running \/ basic_running' = TRUE \/ basic_running' = FALSE
        /\ ack_pending' = ack_pending \/ ack_pending' = TRUE
        /\ tx_ack_wait' = tx_ack_wait \/ tx_ack_wait' = FALSE
    BY Zenon DEF Guard!PrintChar, Guard!OweAck, Guard!AckIn, Guard!BasicStarts, Guard!Detach,
       Guard!BasicEnds, Guard!ReadySeen, Guard!Step, Guard!ackVars, Guard!frameVars
  <2>3. basic_running' \in BOOLEAN /\ ack_pending' \in BOOLEAN /\ tx_ack_wait' \in BOOLEAN
    <3>1. basic_running \in BOOLEAN /\ ack_pending \in BOOLEAN /\ tx_ack_wait \in BOOLEAN
      BY DEF GuardIInv, Guard!TypeOK
    <3>2. QED
      BY <2>2, <3>1
  <2>4. owed' = owed \/ (owed < Acks /\ owed' = owed + 1)
    BY Zenon DEF Guard!PrintChar, Guard!OweAck, Guard!AckIn, Guard!BasicStarts, Guard!Detach,
       Guard!BasicEnds, Guard!ReadySeen, Guard!Step, Guard!ackVars, Guard!frameVars
  <2>5. \/ hook' = hook /\ foreground' = foreground
        \/ hook = "out" /\ hook' = "start" /\ foreground = "basic" /\ foreground' = foreground
        \/ hook' = hook /\ foreground' = "basic"
        \/ hook = "out" /\ hook' = hook /\ foreground' = "editor"
    BY Zenon DEF Guard!PrintChar, Guard!OweAck, Guard!AckIn, Guard!BasicStarts, Guard!Detach,
       Guard!BasicEnds, Guard!ReadySeen, Guard!Step, Guard!ackVars, Guard!frameVars
  <2>6. owed' \in 0..Acks
    <3>1. owed \in 0..Acks
      BY DEF GuardIInv, Guard!TypeOK
    <3>2. QED
      BY <2>4, <3>1, GuardBoundsAssumption
  <2>7. QED
    BY <2>1, <2>3, <2>5, <2>6
<1>3. Guard!TypeOK'
  BY <1>1, <1>2 DEF GuardIInv, Guard!TypeOK
<1>4. Guard!GuardInv'
  BY <1>1, <1>2 DEF GuardIInv, Guard!GuardInv, Guard!Whole, Guard!FrameOutsideAck,
     Guard!AckByte
<1>5. QED
  BY <1>3, <1>4 DEF GuardIInv

LEMMA StepGuard == GuardIInv /\ Guard!Next => GuardIInv'
<1>1. GuardIInv /\ (Guard!ForegroundService \/ Guard!IrqService) => GuardIInv'
  BY ServiceGuard, BuildGuard DEF Guard!ForegroundService, Guard!IrqService, Guard!Outbound
<1>2. QED
  BY <1>1, ClearStaleGuard, HookGuard, OtherGuard DEF Guard!Next

\* The invariant is inductive; the other parts do not touch the transmit path.
LEMMA GuardKept == PartsSpec => []GuardIInv
<1>1. PartsInit => GuardIInv
  BY InitGuard DEF PartsInit
<1>2. GuardIInv /\ UNCHANGED guardVars => GuardIInv'
  BY DEF guardVars, GuardIInv, Guard!TypeOK, Guard!GuardInv, Guard!Whole,
     Guard!FrameOutsideAck, Guard!AckByte
<1>3. GuardIInv /\ [PartsNext]_partsVars => GuardIInv'
  BY <1>2, StepGuard DEF PartsNext, QueueStep, GuardStep, CodecStep, partsVars
<1>4. QED
  BY <1>1, <1>3, PTL DEF PartsSpec

\* The indices of the transmit path stay within their byte, also where the hook runs
\* over the end of an ACK and comes round (service_outbound, guard_bsout_drain).
THEOREM GuardTypeCorrect == PartsSpec => []Guard!TypeOK
<1>1. GuardIInv => Guard!TypeOK
  BY DEF GuardIInv
<1>2. QED
  BY <1>1, GuardKept, PTL

\* No frame goes out between two bytes of an ACK: tx_service_busy does its work
\* whatever the interrupt and BASIC do.
THEOREM FrameOutside == PartsSpec => []FrameOutsideAck
<1>1. GuardIInv => FrameOutsideAck
  BY DEF GuardIInv, Guard!GuardInv, FrameOutsideAck
<1>2. QED
  BY <1>1, GuardKept, PTL
-----------------------------------------------------------------------------
(* The bytes of a frame *)

Byte == 0..127

LEMMA Codes ==
    /\ Codec!MSG = 77 /\ Codec!TEXT = 84 /\ Codec!DONE = 68 /\ Codec!ACK_IN = 66
    /\ Codec!LLM = 99 /\ Codec!USER = 102 /\ Codec!ACK = 103 /\ Codec!SyncByte = 254
BY DEF Codec!MSG, Codec!TEXT, Codec!DONE, Codec!ACK_IN, Codec!LLM, Codec!USER, Codec!ACK,
       Codec!SyncByte

\* The exclusive or of two bytes of seven bits is one.
LEMMA XorByte == ASSUME NEW a \in Byte, NEW b \in Byte PROVE Codec!Xor(a, b) \in Byte
<1>1. \A p \in {1, 2, 4, 8, 16, 32, 64} : Codec!BitOf(a, b, p) \in {0, p}
  BY Zenon DEF Codec!BitOf
<1>2. Codec!Xor(a, b) = Codec!BitOf(a, b, 1) + Codec!BitOf(a, b, 2) + Codec!BitOf(a, b, 4)
          + Codec!BitOf(a, b, 8) + Codec!BitOf(a, b, 16) + Codec!BitOf(a, b, 32)
          + Codec!BitOf(a, b, 64)
  BY Zenon DEF Codec!Xor, Byte
<1> HIDE DEF Byte
<1>3. \A b1, b2, b3, b4, b5, b6, b7 :
        /\ b1 \in {0, 1} /\ b2 \in {0, 2} /\ b3 \in {0, 4} /\ b4 \in {0, 8}
        /\ b5 \in {0, 16} /\ b6 \in {0, 32} /\ b7 \in {0, 64}
        => b1 + b2 + b3 + b4 + b5 + b6 + b7 \in 0..127
  OBVIOUS
<1>4. QED
  BY <1>1, <1>2, <1>3 DEF Byte

\* What the line makes of a byte, with bit 7 off: the same.
LEMMA MaskByte ==
    /\ \A b \in Byte : /\ Codec!Mask(b) = b /\ Codec!Mask((b + 128) % 256) = b
                      /\ b < 124 => /\ b # 254 /\ (b + 128) % 256 # 254
    /\ Codec!Mask(254) = 126 /\ Codec!Mask((254 + 128) % 256) = 126
    /\ \A b \in 0..255 : Codec!Mask(b) \in Byte /\ (b + 128) % 256 \in 0..255
<1>1. \A b \in Byte : b % 128 = b /\ (b + 128) % 256 = b + 128 /\ (b + 128) % 128 = b
  BY DEF Byte
<1>2. 254 % 128 = 126 /\ (254 + 128) % 256 = 126 /\ 126 % 128 = 126
  OBVIOUS
<1>3. \A b \in 0..255 : b % 128 \in Byte /\ (b + 128) % 256 \in 0..255
  BY DEF Byte
<1>4. QED
  BY <1>1, <1>2, <1>3 DEF Codec!Mask, Byte

LEMMA MaskedByte ==
    ASSUME NEW y \in Byte, NEW b, b \in {y, (y + 128) % 256}
    PROVE  Codec!Mask(b) = y
<1>1. y % 128 = y /\ (y + 128) % 256 = y + 128 /\ (y + 128) % 128 = y
  BY DEF Byte
<1>2. CASE b = y
  BY <1>1, <1>2 DEF Codec!Mask
<1>3. CASE b = (y + 128) % 256
  <2>1. b = y + 128
    BY <1>1, <1>3
  <2>2. QED
    BY <1>1, <2>1 DEF Codec!Mask
<1>4. QED
  BY <1>2, <1>3

LEMMA Letters ==
    \A c \in Nat : Codec!ToASCII(c) \in Byte /\ Codec!ToC64Text(c) \in Byte
<1> SUFFICES ASSUME NEW c \in Nat
             PROVE  Codec!ToASCII(c) \in Byte /\ Codec!ToC64Text(c) \in Byte
  OBVIOUS
<1>1. Codec!ToASCII(c) \in Byte
  BY DEF Codec!ToASCII, Byte
<1>2. Codec!ToC64Text(c) \in Byte
  <2>1. {32, 39, 40, 41, 47} \subseteq Byte
    BY DEF Byte
  <2>2. (IF Codec!ToASCII(c) \in 97..122 THEN Codec!ToASCII(c) - 32 ELSE Codec!ToASCII(c)) \in Byte
    BY <1>1 DEF Byte
  <2>3. QED
    BY <2>1, <2>2, Zenon DEF Codec!ToC64Text
<1>3. QED
  BY <1>1, <1>2

\* What can be sent: a type that is no SYNC and known to the receiver, an id, and
\* perhaps one byte more.
LEMMA FrameFacts ==
    ASSUME NEW r \in {"c64", "bridge"}, NEW f \in Codec!FramesTo(r)
    PROVE  /\ f = [type |-> f.type, payload |-> f.payload]
           /\ f.type \in 1..123 /\ Codec!IsKnownType(f.type)
           /\ f.payload \in Seq(Byte) /\ Len(f.payload) \in {1, 2}
           /\ r = "bridge" => f.type >= 96
           /\ r = "c64" => f.type < 96
           /\ f.type = Codec!ACK_IN => /\ Len(f.payload) = 2
                                      /\ Codec!Xor(f.payload[1], 127) = f.payload[2]
<1>1. Ids \subseteq 1..127 /\ Chars \subseteq Nat
  BY CodesAssumption
<1>2. CASE \E i \in Ids : \E t \in {Codec!DONE, Codec!ACK} :
            /\ f = [type |-> t, payload |-> <<i>>]
            /\ r = "c64" <=> t = Codec!DONE
  BY <1>1, <1>2, Codes DEF Codec!IsKnownType, Byte
<1>3. CASE \E i \in Ids : r = "c64" /\ f = [type |-> Codec!ACK_IN, payload |-> <<i, Codec!Xor(i, 127)>>]
  <2>1. PICK i \in Ids : r = "c64" /\ f = [type |-> Codec!ACK_IN, payload |-> <<i, Codec!Xor(i, 127)>>]
    BY <1>3
  <2>2. i \in Byte /\ 127 \in Byte
    BY <1>1 DEF Byte
  <2>5. Codec!Xor(i, 127) \in Byte
    BY <2>2, XorByte
  <2>3. f.type = 66 /\ f.payload = <<i, Codec!Xor(i, 127)>>
    BY <2>1, Codes
  <2>4. QED
    BY <2>1, <2>2, <2>3, <2>5, Codes DEF Codec!IsKnownType
<1>4. CASE \E i \in Ids, c \in Chars, t \in {Codec!MSG, Codec!TEXT, Codec!LLM, Codec!USER} :
            /\ f.payload \in {<<i, Codec!ToASCII(c)>>, <<i, Codec!ToC64Text(c)>>}
            /\ f = [type |-> t, payload |-> f.payload]
            /\ r = "c64" <=> t \in {Codec!MSG, Codec!TEXT}
  <2>1. PICK i \in Ids, c \in Chars, t \in {Codec!MSG, Codec!TEXT, Codec!LLM, Codec!USER} :
            /\ f.payload \in {<<i, Codec!ToASCII(c)>>, <<i, Codec!ToC64Text(c)>>}
            /\ f = [type |-> t, payload |-> f.payload]
            /\ r = "c64" <=> t \in {Codec!MSG, Codec!TEXT}
    BY <1>4
  <2>2. i \in Byte /\ Codec!ToASCII(c) \in Byte /\ Codec!ToC64Text(c) \in Byte
    BY <1>1, Letters DEF Byte
  <2>3. f.payload \in Seq(Byte) /\ Len(f.payload) = 2
    <3>1. PICK y \in Byte : f.payload = <<i, y>>
      BY <2>1, <2>2
    <3>2. QED
      BY <2>2, <3>1
  <2>4. f.type = t
    BY <2>1
  <2>5. QED
    BY <2>1, <2>3, <2>4, Codes DEF Codec!IsKnownType
<1>5. QED
  <2>1. CASE r = "c64"
    <3>1. \/ f \in {[type |-> Codec!MSG, payload |-> p] : p \in Ids \X {Codec!ToASCII(c) : c \in Chars}}
          \/ f \in {[type |-> Codec!TEXT, payload |-> p] : p \in Ids \X {Codec!ToC64Text(c) : c \in Chars}}
          \/ f \in {[type |-> Codec!DONE, payload |-> <<i>>] : i \in Ids}
          \/ f \in {[type |-> Codec!ACK_IN, payload |-> <<i, Codec!Xor(i, 127)>>] : i \in Ids}
      BY <2>1 DEF Codec!FramesTo
    <3>2. QED
      BY <1>2, <1>3, <1>4, <2>1, <3>1, Codes
  <2>2. CASE r = "bridge"
    BY <1>2, <1>4, <2>2, Codes DEF Codec!FramesTo
  <2>3. QED
    BY <2>1, <2>2

LEMMA BytesAreNats == ASSUME NEW p \in Seq(Byte) PROVE p \in Seq(Nat)
<1>1. \A k \in 1..Len(p) : p[k] \in Nat
  <2>1. \A k \in 1..Len(p) : p[k] \in Byte
    OBVIOUS
  <2>2. \A b \in Byte : b \in Nat
    BY DEF Byte
  <2>3. QED
    BY <2>1, <2>2, Zenon
<1>2. p \in [1..Len(p) -> Nat] /\ Len(p) \in Nat
  BY <1>1
<1>3. QED
  BY <1>2, FunctionIsSeq

\* Three bytes before a sequence and one behind it.
LEMMA Framed ==
    ASSUME NEW a \in Nat, NEW b \in Nat, NEW m \in Nat, NEW p \in Seq(Nat), NEW d \in Nat,
           NEW e, e = <<a, b, m>> \o p \o <<d>>
    PROVE  /\ e[1] = a /\ e[2] = b /\ e[3] = m
           /\ \A k \in 1..Len(p) : e[3 + k] = p[k]
           /\ e[4 + Len(p)] = d
<1>1. /\ <<a, b, m>> \in Seq(Nat) /\ Len(<<a, b, m>>) = 3
      /\ <<a, b, m>>[1] = a /\ <<a, b, m>>[2] = b /\ <<a, b, m>>[3] = m
      /\ <<d>> \in Seq(Nat) /\ Len(<<d>>) = 1 /\ <<d>>[1] = d
  OBVIOUS
<1>2. PICK h \in Seq(Nat), t \in Seq(Nat) :
        /\ h = <<a, b, m>> /\ Len(h) = 3 /\ h[1] = a /\ h[2] = b /\ h[3] = m
        /\ t = <<d>> /\ Len(t) = 1 /\ t[1] = d
  BY <1>1, Zenon
<1>3. /\ h \o p \in Seq(Nat) /\ Len(h \o p) = 3 + Len(p)
      /\ \A k \in 1..(3 + Len(p)) : (h \o p)[k] = IF k <= 3 THEN h[k] ELSE p[k - 3]
  BY <1>2, ConcatProperties
<1>4. PICK g \in Seq(Nat) :
        /\ g = h \o p /\ Len(g) = 3 + Len(p)
        /\ \A k \in 1..(3 + Len(p)) : g[k] = IF k <= 3 THEN h[k] ELSE p[k - 3]
  BY <1>3, Zenon
<1>5. Len(p) \in Nat
  OBVIOUS
<1>6. \A k \in 1..(3 + Len(p) + 1) : (g \o t)[k] = IF k <= 3 + Len(p) THEN g[k] ELSE t[k - (3 + Len(p))]
  BY <1>2, <1>4, ConcatProperties
<1>7. <<a, b, m>> \o p \o <<d>> = g \o t
  BY <1>2, <1>4, Zenon
<1>8. /\ (g \o t)[1] = a /\ (g \o t)[2] = b /\ (g \o t)[3] = m /\ (g \o t)[4 + Len(p)] = d
      /\ \A k \in 1..Len(p) : (g \o t)[3 + k] = p[k]
  BY <1>2, <1>4, <1>5, <1>6
<1>9. QED
  BY <1>7, <1>8

\* The checksums over the beginnings of a frame, and its bytes.
LEMMA FrameBytes ==
    ASSUME NEW f, f.type \in 1..123, f.payload \in Seq(Byte), Len(f.payload) \in {1, 2}
    PROVE  LET n == Len(f.payload) IN
           /\ Codec!Checksums(f)[0] = Codec!Xor(f.type, n)
           /\ \A k \in 1..n : Codec!Checksums(f)[k] = Codec!Xor(Codec!Checksums(f)[k - 1], f.payload[k])
           /\ \A k \in 0..n : Codec!Checksums(f)[k] \in Byte
           /\ Codec!Encode(f)[1] = 254 /\ Codec!Encode(f)[2] = f.type /\ Codec!Encode(f)[3] = n
           /\ \A k \in 1..n : Codec!Encode(f)[3 + k] = f.payload[k]
           /\ Codec!Encode(f)[4 + n] = Codec!Checksums(f)[n]
<1> DEFINE n == Len(f.payload)
           step(c, k) == IF k = 0 THEN Codec!Xor(f.type, n) ELSE Codec!Xor(c[k - 1], f.payload[k])
           c0 == Codec!Xor(f.type, n)
           c1 == Codec!Xor(c0, f.payload[1])
           c2 == Codec!Xor(c1, f.payload[2])
           c == Codec!Checksums(f)
<1>1. \E g : g = [k \in 0..n |-> step(g, k)]
  <2>1. \E g : g = [k \in 0..n |-> IF k = 0 THEN c0 ELSE IF k = 1 THEN c1 ELSE c2]
    OBVIOUS
  <2>2. PICK g : g = [k \in 0..n |-> IF k = 0 THEN c0 ELSE IF k = 1 THEN c1 ELSE c2]
    BY <2>1
  <2>3. \A k \in 0..n : g[k] = step(g, k)
    <3>1. n \in {1, 2}
      OBVIOUS
    <3>2. g[0] = c0 /\ g[1] = c1 /\ (n = 2 => g[2] = c2)
      BY <2>2, <3>1
    <3>3. TAKE k \in 0..n
    <3>4. k = 0 \/ k = 1 \/ (k = 2 /\ n = 2)
      <4> HIDE DEF n
      <4>1. QED
        BY <3>1
    <3>5. QED
      BY <3>2, <3>4
  <2>4. g = [k \in 0..n |-> step(g, k)]
    BY <2>2, <2>3
  <2>5. QED
    BY <2>4
<1>2. c = [k \in 0..n |-> step(c, k)]
  BY <1>1 DEF Codec!Checksums
<1>3. \A k \in 0..n : c[k] = step(c, k)
  BY <1>2
<1> HIDE DEF c
<1>4. /\ c[0] = Codec!Xor(f.type, n)
      /\ \A k \in 1..n : c[k] = Codec!Xor(c[k - 1], f.payload[k])
  BY <1>3
<1>5. \A k \in 0..n : c[k] \in Byte
  <2>1. f.type \in Byte /\ n \in Byte /\ \A k \in 1..n : f.payload[k] \in Byte
    <3>1. f.type \in Byte /\ n \in Byte /\ n \in Nat
      BY DEF Byte
    <3>2. QED
      BY <3>1
  <2>2. c[0] \in Byte
    BY <1>4, <2>1, XorByte
  <2>3. c[1] \in Byte
    <3>1. 1 \in 1..n /\ 1 - 1 = 0
      <4>1. n = 1 \/ n = 2
        OBVIOUS
      <4> HIDE DEF n
      <4>2. QED
        BY <4>1
    <3>2. c[1] = Codec!Xor(c[0], f.payload[1]) /\ f.payload[1] \in Byte
      BY <1>4, <2>1, <3>1
    <3>3. QED
      BY <2>2, <3>2, XorByte
  <2>4. n = 2 => c[2] \in Byte
    <3> HAVE n = 2
    <3>1. c[2] = Codec!Xor(c[1], f.payload[2]) /\ f.payload[2] \in Byte
      BY <1>4, <2>1
    <3>2. QED
      BY <2>3, <3>1, XorByte
  <2>5. QED
    <3>1. \A k \in 0..n : k = 0 \/ k = 1 \/ (k = 2 /\ n = 2)
      <4>1. n = 1 \/ n = 2
        OBVIOUS
      <4> HIDE DEF n
      <4>2. QED
        BY <4>1
    <3>2. QED
      BY <2>2, <2>3, <2>4, <3>1
<1>6. Codec!Encode(f) = <<254, f.type, n>> \o f.payload \o <<c[n]>>
  BY Codes DEF Codec!Encode, c
<1>7. /\ Codec!Encode(f)[1] = 254 /\ Codec!Encode(f)[2] = f.type /\ Codec!Encode(f)[3] = n
      /\ \A k \in 1..n : Codec!Encode(f)[3 + k] = f.payload[k]
      /\ Codec!Encode(f)[4 + n] = c[n]
  <2>1. f.payload \in Seq(Nat) /\ f.type \in Nat /\ n \in Nat /\ 254 \in Nat
    <3>1. f.payload \in Seq(Nat)
      BY BytesAreNats, Zenon
    <3>2. \A y \in 1..123 : y \in Nat
      OBVIOUS
    <3>3. f.type \in Nat
      BY <3>2, Zenon
    <3>4. n \in Nat
      OBVIOUS
    <3>5. 254 \in Nat
      OBVIOUS
    <3>6. QED
      BY <3>1, <3>3, <3>4, <3>5
  <2>2. c[n] \in Nat
    <3>1. n \in 0..n
      BY <2>1
    <3>2. c[n] \in Byte
      BY <1>5, <3>1, Zenon
    <3>3. \A b \in Byte : b \in Nat
      BY DEF Byte
    <3>4. QED
      BY <3>2, <3>3, Zenon
  <2>3. PICK m \in Nat, d \in Nat, y \in Nat, s \in Nat, p \in Seq(Nat) :
               m = n /\ d = c[n] /\ y = f.type /\ s = 254 /\ p = f.payload
    BY <2>1, <2>2, Zenon
  <2>4. PICK e : e = <<s, y, m>> \o p \o <<d>>
    OBVIOUS
  <2>5. /\ e[1] = s /\ e[2] = y /\ e[3] = m
        /\ \A k \in 1..Len(p) : e[3 + k] = p[k]
        /\ e[4 + Len(p)] = d
    BY <2>4, Framed, SMTT(60)
  <2>6. Codec!Encode(f) = e
    BY <1>6, <2>3, <2>4, Zenon
  <2>7. QED
    BY <2>3, <2>5, <2>6, Zenon
<1>8. QED
  BY <1>4, <1>5, <1>7 DEF c
-----------------------------------------------------------------------------
(* The invariants of a decoder *)

\* A payload that is being taken is shorter than the frame said.
CodecTypes ==
    /\ Codec!TypeOK
    /\ payload \in Seq(Byte)
    /\ at = "pay" => Len(payload) < len

\* While no byte was lost, the decoder is where the sender is.
InStep ==
    LET n == Len(frame.payload) IN
    /\ pos = 0 => at = "hunt"
    /\ pos = 1 => at = "sub"
    /\ pos = 2 => at = "len" /\ sub = frame.type /\ chk = frame.type
    /\ pos \in 3..(3 + n) =>
          /\ at = IF pos = 3 + n THEN "chk" ELSE "pay"
          /\ sub = frame.type /\ len = n /\ chk = Codec!Checksums(frame)[pos - 3]
          /\ Len(payload) = pos - 3
          /\ \A k \in 1..(pos - 3) : payload[k] = frame.payload[k]
    /\ pos = 4 + n => at = "hunt" /\ handed = frame
    /\ pos # 4 + n => handed = Codec!Nothing

CodecIInv == CodecTypes /\ (lost = 0 => InStep)

LEMMA FrameOfCodec ==
    ASSUME Codec!TypeOK
    PROVE  /\ frame = [type |-> frame.type, payload |-> frame.payload]
           /\ frame.type \in 1..123 /\ Codec!IsKnownType(frame.type)
           /\ frame.payload \in Seq(Byte) /\ Len(frame.payload) \in {1, 2}
           /\ receiver = "bridge" => frame.type >= 96
           /\ receiver = "c64" => frame.type < 96
           /\ frame.type = Codec!ACK_IN => /\ Len(frame.payload) = 2
                                          /\ Codec!Xor(frame.payload[1], 127) = frame.payload[2]
  BY FrameFacts DEF Codec!TypeOK

\* The byte that is on its way.
LEMMA NextByteIs ==
    ASSUME Codec!TypeOK, Codec!Sending
    PROVE  LET n == Len(frame.payload) IN
           /\ pos \in 0..(3 + n)
           /\ pos = 0 => Codec!NextByte = 254
           /\ pos = 1 => Codec!NextByte = frame.type
           /\ pos = 2 => Codec!NextByte = n
           /\ pos \in 3..(2 + n) => Codec!NextByte = frame.payload[pos - 2]
           /\ pos = 3 + n => Codec!NextByte = Codec!Checksums(frame)[n]
           /\ pos # 0 => Codec!NextByte \in Byte
<1> DEFINE n == Len(frame.payload)
<1>1. /\ frame.type \in 1..123 /\ frame.payload \in Seq(Byte) /\ n \in {1, 2}
      /\ \A k \in 1..n : frame.payload[k] \in Byte
  BY FrameOfCodec
<1>2. /\ \A k \in 0..n : Codec!Checksums(frame)[k] \in Byte
      /\ Codec!Encode(frame)[1] = 254 /\ Codec!Encode(frame)[2] = frame.type
      /\ Codec!Encode(frame)[3] = n
      /\ \A k \in 1..n : Codec!Encode(frame)[3 + k] = frame.payload[k]
      /\ Codec!Encode(frame)[4 + n] = Codec!Checksums(frame)[n]
  BY <1>1, FrameBytes
<1>3. Codec!NextByte = Codec!Encode(frame)[pos + 1]
  BY DEF Codec!NextByte
<1>4. pos \in 0..(3 + n)
  <2>1. pos \in 0..(n + 4) /\ pos < n + 4
    BY DEF Codec!TypeOK, Codec!Sending
  <2> HIDE DEF n
  <2>2. QED
    BY <1>1, <2>1
<1> HIDE DEF n
<1>5. \A y \in 1..123 : y \in Byte
  BY DEF Byte
<1>6. n \in Byte /\ n \in Nat
  BY <1>1 DEF Byte
<1>7. CASE pos \in {0, 1, 2}
  <2>1. frame.type \in Byte
    BY <1>1, <1>5, Zenon
  <2>2. /\ pos = 0 => Codec!NextByte = 254
        /\ pos = 1 => Codec!NextByte = frame.type
        /\ pos = 2 => Codec!NextByte = n
    BY <1>2, <1>3
  <2>3. pos # 0 => Codec!NextByte \in Byte
    BY <1>6, <1>7, <2>1, <2>2, Zenon
  <2>4. ~(pos \in 3..(2 + n) \/ pos = 3 + n)
    BY <1>6, <1>7
  <2>5. QED
    BY <1>4, <2>2, <2>3, <2>4, Zenon DEF n
<1>8. CASE pos \in 3..(2 + n)
  <2>1. pos - 2 \in 1..n /\ 3 + (pos - 2) = pos + 1
    BY <1>6, <1>8
  <2>2. Codec!NextByte = frame.payload[pos - 2]
    BY <1>2, <1>3, <2>1
  <2>3. frame.payload[pos - 2] \in Byte
    BY <1>1, <2>1
  <2>4. ~(pos = 0 \/ pos = 1 \/ pos = 2 \/ pos = 3 + n)
    BY <1>6, <1>8
  <2>5. QED
    BY <1>4, <2>2, <2>3, <2>4, Zenon DEF n
<1>9. CASE pos = 3 + n
  <2>1. pos + 1 = 4 + n /\ n \in 0..n
    BY <1>6, <1>9
  <2>2. Codec!NextByte = Codec!Checksums(frame)[n] /\ Codec!NextByte \in Byte
    BY <1>2, <1>3, <2>1
  <2>3. ~(pos = 0 \/ pos = 1 \/ pos = 2 \/ pos \in 3..(2 + n))
    BY <1>6, <1>9
  <2>4. QED
    BY <1>4, <2>2, <2>3, Zenon DEF n
<1>10. pos \in {0, 1, 2} \/ pos \in 3..(2 + n) \/ pos = 3 + n
  BY <1>4, <1>6
<1>11. QED
  BY <1>7, <1>8, <1>9, <1>10, Zenon

\* Whatever byte comes, the decoder keeps its types.
LEMMA TakeTypes ==
    ASSUME CodecTypes, NEW b \in 0..255, Codec!Take(b)
    PROVE  /\ at' \in {"hunt", "sub", "len", "pay", "chk"}
           /\ sub' \in Byte /\ len' \in Byte /\ chk' \in Byte
           /\ payload' \in Seq(Byte) /\ Len(payload') <= 127
           /\ at' = "pay" => Len(payload') < len'
<1>1. Codec!Mask(b) \in Byte
  BY MaskByte
<1>2. /\ sub \in Byte /\ len \in Byte /\ chk \in Byte /\ payload \in Seq(Byte) /\ Len(payload) <= 127
      /\ at = "pay" => Len(payload) < len
  BY DEF CodecTypes, Codec!TypeOK, Byte
<1>3. Codec!Xor(chk, Codec!Mask(b)) \in Byte
  BY <1>1, <1>2, XorByte
<1>4. CASE Codec!Hunt(b)
  BY <1>2, <1>4 DEF Codec!Hunt, Codec!Goto
<1>5. CASE Codec!Subtype(b)
  BY <1>1, <1>2, <1>5 DEF Codec!Subtype, Codec!Goto
<1>6. CASE Codec!Length(b)
  <2>1. CASE at' = "sub" /\ UNCHANGED <<sub, len, chk, payload>>
    BY <1>2, <2>1
  <2>2. CASE /\ len' = Codec!Mask(b) /\ chk' = Codec!Xor(chk, Codec!Mask(b)) /\ payload' = <<>>
             /\ at' \in {"hunt", "chk", "pay"} /\ (len' = 0 => at' # "pay")
             /\ sub' = sub
    <3>1. payload' \in Seq(Byte) /\ Len(payload') = 0
      BY <2>2
    <3>2. len' \in Byte /\ (at' = "pay" => 0 < len')
      <4>1. len' \in Byte /\ (len' = 0 => at' # "pay")
        BY <1>1, <2>2, Zenon
      <4>2. \A y \in Byte : y = 0 \/ 0 < y
        BY DEF Byte
      <4>3. QED
        BY <4>1, <4>2, Zenon
    <3>3. QED
      BY <1>2, <1>3, <2>2, <3>1, <3>2
  <2>3. QED
    BY <1>6, <2>1, <2>2, Zenon DEF Codec!Length, Codec!Goto
<1>7. CASE Codec!Payload(b)
  <2>1. /\ at = "pay" /\ payload' = Append(payload, Codec!Mask(b))
        /\ chk' = Codec!Xor(chk, Codec!Mask(b)) /\ sub' = sub /\ len' = len
        /\ at' = IF Len(payload') = len THEN "chk" ELSE "pay"
    BY <1>7 DEF Codec!Payload
  <2>2. payload' \in Seq(Byte) /\ Len(payload') = Len(payload) + 1 /\ Len(payload) \in Nat
    BY <1>1, <1>2, <2>1, AppendProperties, LenProperties
  <2>3. Len(payload') <= len /\ len <= 127 /\ len \in Nat
    BY <1>2, <2>1, <2>2 DEF Byte
  <2>4. QED
    BY <1>2, <1>3, <2>1, <2>2, <2>3
<1>8. CASE Codec!Check(b)
  BY <1>2, <1>8 DEF Codec!Check, Codec!Goto, Codec!AfterBad
<1>9. QED
  BY <1>4, <1>5, <1>6, <1>7, <1>8 DEF Codec!Take

\* With every byte of a frame the decoder goes on by one.
LEMMA TakeInStep ==
    ASSUME CodecTypes, InStep, Codec!Sending, NEW b, Codec!Take(b),
           b \in {Codec!NextByte, (Codec!NextByte + 128) % 256},
           pos' = pos + 1, UNCHANGED <<receiver, frame>>
    PROVE  InStep'
<1> DEFINE n == Len(frame.payload)
<1>1. /\ pos \in 0..(3 + n)
      /\ pos = 0 => Codec!NextByte = 254
      /\ pos = 1 => Codec!NextByte = frame.type
      /\ pos = 2 => Codec!NextByte = n
      /\ pos \in 3..(2 + n) => Codec!NextByte = frame.payload[pos - 2]
      /\ pos = 3 + n => Codec!NextByte = Codec!Checksums(frame)[n]
      /\ pos # 0 => Codec!NextByte \in Byte
  BY NextByteIs DEF CodecTypes
<1>2. /\ frame = [type |-> frame.type, payload |-> frame.payload]
      /\ frame.type \in 1..123 /\ Codec!IsKnownType(frame.type)
      /\ frame.payload \in Seq(Byte) /\ n \in {1, 2}
      /\ receiver = "bridge" => frame.type >= 96
      /\ receiver = "c64" => frame.type < 96
      /\ frame.type = Codec!ACK_IN => n = 2 /\ Codec!Xor(frame.payload[1], 127) = frame.payload[2]
  BY FrameOfCodec DEF CodecTypes
<1>3. /\ Codec!Checksums(frame)[0] = Codec!Xor(frame.type, n)
      /\ \A k \in 1..n : Codec!Checksums(frame)[k] = Codec!Xor(Codec!Checksums(frame)[k - 1], frame.payload[k])
  <2>1. frame.type \in 1..123 /\ frame.payload \in Seq(Byte) /\ Len(frame.payload) \in {1, 2}
    BY <1>2, Zenon
  <2>2. QED
    BY <2>1, FrameBytes
<1>4. Len(frame'.payload) = n
  OBVIOUS
<1>5. pos # 0 => Codec!Mask(b) = Codec!NextByte
  <2> HAVE pos # 0
  <2>1. PICK y \in Byte : y = Codec!NextByte /\ b \in {y, (y + 128) % 256}
    BY <1>1, Zenon
  <2>2. QED
    BY <2>1, MaskedByte, Zenon
<1>6. pos \in {1, 2} => ~Codec!SyncLike(b) /\ ~Codec!SyncAgain(b)
  <2> HAVE pos \in {1, 2}
  <2>1. Codec!NextByte < 124 /\ Codec!NextByte \in Byte
    <3>1. pos # 0 /\ (pos = 1 \/ pos = 2)
      OBVIOUS
    <3>2. Codec!NextByte \in Byte /\ (Codec!NextByte = frame.type \/ Codec!NextByte = n)
      BY <1>1, <3>1, Zenon
    <3>4. n = 1 \/ n = 2
      BY <1>2, Zenon
    <3>5. frame.type \in 1..123
      BY <1>2, Zenon
    <3> HIDE DEF n
    <3>3. QED
      BY <3>2, <3>4, <3>5
  <2>2. b # 254 /\ Codec!Mask(b) = Codec!NextByte
    BY <1>5, <2>1, MaskByte
  <2>3. QED
    BY <2>1, <2>2, Codes DEF Codec!SyncLike, Codec!SyncAgain, Byte
<1>7. CASE pos = 0
  <2>1. at = "hunt" /\ handed = Codec!Nothing
    BY <1>2, <1>7 DEF InStep
  <2>2. Codec!Mask(b) = 126
    <3>1. b \in {254, (254 + 128) % 256}
      BY <1>1, <1>7, Zenon
    <3>2. QED
      BY <3>1, MaskByte, Zenon
  <2>3. Codec!SyncLike(b)
    BY <2>2 DEF Codec!SyncLike
  <2>4. at' = "sub" /\ handed' = handed
    BY <2>1, <2>3 DEF Codec!Take, Codec!Hunt, Codec!Goto, Codec!Subtype, Codec!Length,
       Codec!Payload, Codec!Check
  <2>5. pos' = 1 /\ pos' # 4 + n /\ ~(pos' \in 3..(3 + n))
    BY <1>2, <1>7
  <2>6. QED
    BY <1>4, <2>1, <2>4, <2>5 DEF InStep
<1>8. CASE pos = 1
  <2>1. at = "sub" /\ handed = Codec!Nothing
    BY <1>2, <1>8 DEF InStep
  <2>2. at' = "len" /\ sub' = frame.type /\ chk' = frame.type /\ handed' = handed
    BY <1>1, <1>5, <1>6, <1>8, <2>1 DEF Codec!Take, Codec!Hunt, Codec!Subtype, Codec!Length,
       Codec!Payload, Codec!Check
  <2>3. pos' = 2 /\ pos' # 4 + n /\ ~(pos' \in 3..(3 + n))
    BY <1>2, <1>8
  <2>4. QED
    BY <1>4, <2>1, <2>2, <2>3 DEF InStep
<1>9. CASE pos = 2
  <2>1. at = "len" /\ sub = frame.type /\ chk = frame.type /\ handed = Codec!Nothing
    BY <1>2, <1>9 DEF InStep
  <2>2. Codec!Length(b)
    BY <2>1 DEF Codec!Take, Codec!Hunt, Codec!Subtype, Codec!Length,
       Codec!Payload, Codec!Check
  <2>3. Codec!Mask(b) = n
    BY <1>1, <1>5, <1>9
  <2>4. /\ len' = n /\ chk' = Codec!Xor(frame.type, n) /\ payload' = <<>> /\ at' = "pay"
        /\ sub' = frame.type /\ handed' = handed
    <3>1. ~Codec!SyncLike(b)
      BY <1>6, <1>9
    <3>2. /\ len' = n /\ chk' = Codec!Xor(frame.type, n) /\ payload' = <<>>
          /\ at' = IF receiver = "bridge" /\ ~Codec!IsKnownType(sub) THEN "hunt"
                   ELSE IF len' = 0 THEN "chk" ELSE "pay"
          /\ sub' = sub /\ handed' = handed
      BY <2>1, <2>2, <2>3, <3>1, Zenon DEF Codec!Length
    <3>3. n # 0 /\ Codec!IsKnownType(sub)
      <4>1. n # 0
        <5>1. n = 1 \/ n = 2
          BY <1>2, Zenon
        <5> HIDE DEF n
        <5>2. QED
          BY <5>1
      <4>2. QED
        BY <1>2, <2>1, <4>1, Zenon
    <3>4. QED
      BY <2>1, <3>2, <3>3, Zenon
  <2>5. pos' = 3 /\ pos' # 4 + n /\ pos' # 3 + n /\ pos' - 3 = 0 /\ Len(payload') = 0
    <3>1. Len(payload') = 0
      BY <2>4
    <3>2. n = 1 \/ n = 2
      BY <1>2
    <3> HIDE DEF n
    <3>3. QED
      BY <1>9, <3>1, <3>2
  <2>6. QED
    BY <1>3, <1>4, <2>1, <2>4, <2>5 DEF InStep
<1>10. CASE pos \in 3..(2 + n)
  <2>1. /\ at = "pay" /\ sub = frame.type /\ len = n /\ handed = Codec!Nothing
        /\ chk = Codec!Checksums(frame)[pos - 3] /\ Len(payload) = pos - 3
        /\ \A k \in 1..(pos - 3) : payload[k] = frame.payload[k]
    BY <1>2, <1>10 DEF InStep
  <2>2. Codec!Payload(b)
    BY <2>1 DEF Codec!Take, Codec!Hunt, Codec!Subtype, Codec!Length,
       Codec!Payload, Codec!Check
  <2>3. Codec!Mask(b) = frame.payload[pos - 2] /\ pos - 2 \in 1..n
    BY <1>1, <1>2, <1>5, <1>10
  <2>4. /\ payload' = Append(payload, frame.payload[pos - 2])
        /\ chk' = Codec!Xor(Codec!Checksums(frame)[pos - 3], frame.payload[pos - 2])
        /\ at' = IF Len(payload') = n THEN "chk" ELSE "pay"
        /\ sub' = frame.type /\ len' = n /\ handed' = Codec!Nothing
    BY <2>1, <2>2, <2>3 DEF Codec!Payload
  <2>5. /\ pos' - 3 = pos - 2 /\ (pos - 2) - 1 = pos - 3 /\ pos' \in 3..(3 + n)
        /\ pos' # 4 + n /\ (pos' = 3 + n <=> pos - 2 = n) /\ pos' \notin {0, 1, 2}
        /\ pos - 3 \in Nat
    BY <1>2, <1>10
  <2>6. chk' = Codec!Checksums(frame)[pos' - 3]
    BY <1>3, <2>3, <2>4, <2>5
  <2>7. /\ Len(payload') = pos' - 3
        /\ \A k \in 1..(pos' - 3) : payload'[k] = frame.payload[k]
    <3>1. payload \in Seq(Byte) /\ frame.payload[pos - 2] \in Byte
      BY <1>2, <2>3 DEF CodecTypes
    <3>2. /\ Len(payload') = Len(payload) + 1
          /\ \A k \in 1..Len(payload) : payload'[k] = payload[k]
          /\ payload'[Len(payload) + 1] = frame.payload[pos - 2]
      BY <2>4, <3>1, AppendProperties
    <3>3. Len(payload) + 1 = pos - 2
      BY <2>1, <2>5
    <3>4. ASSUME NEW k \in 1..(pos - 2) PROVE k \in 1..(pos - 3) \/ k = pos - 2
      BY <2>5
    <3>5. QED
      BY <2>1, <2>5, <3>2, <3>3, <3>4
  <2>8. QED
    BY <1>4, <2>4, <2>5, <2>6, <2>7 DEF InStep
<1>11. CASE pos = 3 + n
  <2>1. /\ at = "chk" /\ sub = frame.type /\ len = n /\ Len(payload) = n
        /\ chk = Codec!Checksums(frame)[n]
        /\ \A k \in 1..n : payload[k] = frame.payload[k]
    <3>1. pos \in 3..(3 + n) /\ pos - 3 = n
      BY <1>2, <1>11
    <3>2. QED
      BY <1>11, <3>1 DEF InStep
  <2>2. payload = frame.payload
    BY <1>2, <2>1 DEF CodecTypes
  <2>3. Codec!Check(b) /\ Codec!Mask(b) = chk
    BY <1>1, <1>2, <1>5, <1>11, <2>1 DEF Codec!Take, Codec!Hunt, Codec!Subtype, Codec!Length,
       Codec!Payload, Codec!Check
  <2>4. Codec!Inbound
    <3>1. receiver \in {"c64", "bridge"}
      BY DEF CodecTypes, Codec!TypeOK
    <3>2. QED
      BY <1>2, <2>1, <2>2, <3>1 DEF Codec!Inbound
  <2>5. at' = "hunt" /\ handed' = frame
    BY <1>2, <2>1, <2>2, <2>3, <2>4 DEF Codec!Check
  <2>6. pos' = 4 + n /\ pos' \notin {0, 1, 2} /\ ~(pos' \in 3..(3 + n))
    BY <1>2, <1>11
  <2>7. QED
    BY <1>4, <2>5, <2>6 DEF InStep
<1>12. pos \in {0, 1, 2} \/ pos \in 3..(2 + n) \/ pos = 3 + n
  BY <1>1, <1>2
<1>13. QED
  BY <1>7, <1>8, <1>9, <1>10, <1>11, <1>12

LEMMA InitCodec == Codec!Init => CodecIInv
<1> SUFFICES ASSUME Codec!Init PROVE CodecIInv
  OBVIOUS
<1>1. frame.payload \in Seq(Byte) /\ Len(frame.payload) \in {1, 2}
  BY FrameFacts DEF Codec!Init
<1>2. payload \in Seq(Byte) /\ Len(payload) = 0
  BY DEF Codec!Init
<1>3. Codec!TypeOK
  BY <1>1, <1>2, CodesAssumption DEF Codec!Init, Codec!TypeOK
<1>4. InStep
  BY <1>1 DEF Codec!Init, InStep
<1>5. QED
  BY <1>2, <1>3, <1>4 DEF Codec!Init, CodecIInv, CodecTypes

LEMMA StepCodec == CodecIInv /\ Codec!Next => CodecIInv'
<1> SUFFICES ASSUME CodecIInv, Codec!Next PROVE CodecIInv'
  OBVIOUS
<1>1. CodecTypes /\ Codec!TypeOK /\ lost \in 0..Losses /\ Losses \in Nat
  BY CodesAssumption DEF CodecIInv, CodecTypes, Codec!TypeOK
<1>2. Len(frame.payload) \in {1, 2} /\ pos \in 0..(Len(frame.payload) + 4)
  BY <1>1, FrameOfCodec DEF Codec!TypeOK
<1>3. CASE Codec!Arrive
  <2>1. PICK b \in {Codec!NextByte, (Codec!NextByte + 128) % 256} : Codec!Take(b)
    BY <1>3 DEF Codec!Arrive
  <2>2. Codec!Sending /\ pos' = pos + 1 /\ UNCHANGED <<receiver, frame, lost>>
    BY <1>3 DEF Codec!Arrive
  <2>3. b \in 0..255
    <3>1. Codec!NextByte \in 0..255
      BY <1>1, <2>2, NextByteIs DEF Byte
    <3>2. QED
      BY <2>1, <3>1, MaskByte
  <2>4. pos' \in 0..(Len(frame'.payload) + 4)
    BY <1>2, <2>2 DEF Codec!Sending
  <2>5. CodecTypes'
    <3>1. /\ at' \in {"hunt", "sub", "len", "pay", "chk"}
          /\ sub' \in Byte /\ len' \in Byte /\ chk' \in Byte
          /\ payload' \in Seq(Byte) /\ Len(payload') <= 127
          /\ at' = "pay" => Len(payload') < len'
      BY <1>1, <2>1, <2>3, TakeTypes
    <3>2. receiver' \in {"c64", "bridge"} /\ frame' \in Codec!FramesTo(receiver)' /\ lost' \in 0..Losses
      BY <1>1, <2>2 DEF Codec!TypeOK, Codec!FramesTo
    <3>3. QED
      BY <2>4, <3>1, <3>2 DEF CodecTypes, Codec!TypeOK, Byte
  <2>6. lost' = 0 => InStep'
    BY <1>1, <2>1, <2>2, TakeInStep DEF CodecIInv
  <2>7. QED
    BY <2>5, <2>6 DEF CodecIInv
<1>4. CASE Codec!Lose
  <2>1. /\ Codec!Sending /\ pos' = pos + 1 /\ lost' = lost + 1 /\ lost < Losses
        /\ UNCHANGED <<receiver, frame, at, sub, len, chk, payload>>
    BY <1>4 DEF Codec!Lose, Codec!rxVars
  <2>2. pos' \in 0..(Len(frame'.payload) + 4) /\ lost' \in 0..Losses /\ lost' # 0
    BY <1>1, <1>2, <2>1 DEF Codec!Sending
  <2>3. CodecTypes'
    BY <1>1, <2>1, <2>2 DEF CodecTypes, Codec!TypeOK, Codec!FramesTo
  <2>4. QED
    BY <2>2, <2>3 DEF CodecIInv
<1>5. CASE Codec!Begin
  <2>1. /\ ~Codec!Sending /\ pos' = 0 /\ handed' = Codec!Nothing
        /\ frame' \in Codec!FramesTo(receiver)
        /\ UNCHANGED <<receiver, lost, at, sub, len, chk, payload>>
    BY <1>1, <1>5 DEF Codec!Begin, Codec!rxVars, Codec!TypeOK
  <2>2. Len(frame'.payload) \in {1, 2}
    BY <1>1, <2>1, FrameFacts DEF Codec!TypeOK
  <2>3. CodecTypes'
    <3>1. pos' \in 0..(Len(frame'.payload) + 4)
      BY <2>1, <2>2
    <3>2. frame' \in Codec!FramesTo(receiver)'
      BY <2>1 DEF Codec!FramesTo
    <3>3. QED
      BY <1>1, <2>1, <3>1, <3>2 DEF CodecTypes, Codec!TypeOK
  <2>4. lost' = 0 => InStep'
    <3> HAVE lost' = 0
    <3>1. InStep /\ pos = 4 + Len(frame.payload)
      BY <1>2, <2>1 DEF CodecIInv, Codec!Sending
    <3>2. at = "hunt"
      BY <3>1 DEF InStep
    <3>3. QED
      BY <2>1, <2>2, <3>2 DEF InStep
  <2>5. QED
    BY <2>3, <2>4 DEF CodecIInv
<1>6. QED
  BY <1>3, <1>4, <1>5 DEF Codec!Next

LEMMA CodecKept == PartsSpec => []CodecIInv
<1>1. PartsInit => CodecIInv
  BY InitCodec DEF PartsInit
<1>2. CodecIInv /\ UNCHANGED codecVars => CodecIInv'
  BY DEF codecVars, CodecIInv, CodecTypes, InStep, Codec!TypeOK
<1>3. CodecIInv /\ [PartsNext]_partsVars => CodecIInv'
  BY <1>2, StepCodec DEF PartsNext, QueueStep, GuardStep, CodecStep, partsVars
<1>4. QED
  BY <1>1, <1>3, PTL DEF PartsSpec

\* The ring of the user queue, in a behaviour that may be about another part.
LEMMA QueueKept == PartsSpec => []Inv
<1>1. PartsInit => Inv
  BY InitInv DEF PartsInit
<1>2. Inv /\ [PartsNext]_partsVars => Inv'
  BY StepInv DEF PartsNext, QueueStep, GuardStep, CodecStep, partsVars
<1>3. QED
  BY <1>1, <1>2, PTL DEF PartsSpec

\* Every variable of the three parts keeps its type; in particular no frame, however
\* it is broken, makes a decoder take more payload than a length byte can announce
\* (fr_pay, the payload loop of Decode).
THEOREM PartsTypeCorrect == PartsSpec => []PartsTypeOK
<1>1. Inv /\ GuardIInv /\ CodecIInv => PartsTypeOK
  BY DEF Inv, GuardIInv, CodecIInv, CodecTypes, PartsTypeOK
<1>2. QED
  BY <1>1, QueueKept, GuardKept, CodecKept, PTL

\* While no byte was lost, every frame arrives, and nothing else: the noise on bit 7
\* costs none, whatever the ids and the characters are (frame.go:107, agent.asm:1758).
THEOREM FramesIntactWithoutLoss == PartsSpec => [](lost = 0 => FramesIntact)
<1>1. CodecIInv => (lost = 0 => FramesIntact)
  <2> SUFFICES ASSUME CodecIInv, lost = 0 PROVE Codec!FramesIntact
    BY DEF FramesIntact
  <2>1. InStep /\ Codec!TypeOK
    BY DEF CodecIInv, CodecTypes
  <2>2. Len(frame.payload) \in {1, 2} /\ pos \in 0..(Len(frame.payload) + 4)
    BY <2>1, FrameOfCodec DEF Codec!TypeOK
  <2>3. ~Codec!Sending => handed = frame
    BY <2>1, <2>2 DEF Codec!Sending, InStep
  <2>4. ~Codec!IsKnownType(Codec!Nothing.type)
    BY Codes DEF Codec!IsKnownType, Codec!Nothing, Codec!OtherTypes
  <2>5. handed \in {frame, Codec!Nothing}
    BY <2>1 DEF InStep
  <2>6. QED
    BY <2>3, <2>4, <2>5 DEF Codec!FramesIntact
<1>2. QED
  BY <1>1, CodecKept, PTL
=============================================================================
