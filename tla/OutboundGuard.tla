--------------------------- MODULE OutboundGuard ---------------------------
(***************************************************************************)
(* Who sends on the C64 (agent.asm, guarded_queue.asm).  Outbound bytes    *)
(* are moved to the KERNAL's transmit ring by three contexts: the editor   *)
(* loop or the RUN/STOP hook in the foreground, the raster interrupt, and  *)
(* the BSOUT hook, which runs whenever BASIC prints a character and moves  *)
(* one byte of an ACK per character.  tx_service_busy keeps them apart:    *)
(* 1 while service_outbound runs, 2 while the BSOUT hook is in the middle  *)
(* of an ACK.                                                              *)
(*                                                                         *)
(* The interrupt runs to completion, so the only interleaving is between   *)
(* it and the instructions of the foreground.  service_outbound in the     *)
(* foreground is one action: an interrupt in the middle of it finds        *)
(* tx_service_busy = 1 and does not send.                                  *)
(***************************************************************************)
EXTENDS Naturals, Sequences

CONSTANTS
    AckLen,         \* bytes of an ACK frame, 5
    FrameLen,       \* bytes of a reliable frame
    Burst,          \* bytes of a frame per call of service_outbound, 16
    Bytes,          \* values of an 8-bit index, 256
    Prints,         \* BASIC prints: the BSOUT hook runs
    Acks,           \* bound: ACKs owed
    Frames          \* bound: reliable frames built

VARIABLES
    foreground,         \* "editor" or "basic"
    basic_running,
    tx_service_busy,
    ack_pending, ack_pos, ack_total,
    send_pos, send_total, tx_ack_wait,
    hook,               \* the next instruction of the BSOUT hook, or "out"
    x,                  \* the X register of the hook
    owed, built,        \* ACKs and frames so far
    wire                \* the bytes in the transmit ring, oldest first

vars == <<foreground, basic_running, tx_service_busy, ack_pending, ack_pos, ack_total,
          send_pos, send_total, tx_ack_wait, hook, x, owed, built, wire>>
ackVars == <<ack_pending, ack_pos, ack_total>>
frameVars == <<send_pos, send_total, tx_ack_wait, built>>

Init ==
    /\ foreground = "editor"
    /\ basic_running = FALSE
    /\ tx_service_busy = 0
    /\ ack_pending = FALSE /\ ack_pos = 0 /\ ack_total = 0
    /\ send_pos = 0 /\ send_total = 0 /\ tx_ack_wait = FALSE
    /\ hook = "out"
    /\ x = 0
    /\ owed = 0 /\ built = 0
    /\ wire = <<>>

AckByte(i) == [of |-> "ack", at |-> i]
FrameByte(i) == [of |-> "frame", at |-> i]
BytesOf(Byte(_), from, to) == [i \in 1..(to - from) |-> Byte(from + i - 1)]

-----------------------------------------------------------------------------
(* service_outbound *)

\* so_send_check: the ACK goes first unless a STATUS frame is partly out; what is
\* partly out may or may not be one.
MayAck == {TRUE} \union (IF send_pos \in {0, send_total} THEN {} ELSE {FALSE})

\* Mutant: the test for an idle ACK buffer only knows the state at the start.
StartAckAtZero == ack_pending /\ ack_pos = 0

\* drain_ack_outbound: an owed ACK is built when the buffer is idle.
StartAck == ack_pending /\ ack_pos = ack_total

\* service_outbound_inner: the ACK and up to Burst bytes of the frame.
ServiceInner ==
    \E first \in MayAck :
    LET acking == first /\ (StartAck \/ ack_pos # ack_total)
        pos    == IF StartAck THEN 0 ELSE ack_pos
        total  == IF StartAck THEN AckLen ELSE ack_total
        upto   == IF send_pos + Burst < send_total THEN send_pos + Burst ELSE send_total
    IN  /\ acking \/ send_pos # send_total
        /\ IF acking
           THEN /\ ack_pos' = total /\ ack_total' = total
                /\ ack_pending' = (ack_pending /\ ~StartAck)
           ELSE UNCHANGED ackVars
        /\ send_pos' = upto
        /\ wire' = wire \o (IF acking THEN BytesOf(AckByte, pos, total) ELSE <<>>)
                        \o BytesOf(FrameByte, send_pos, upto)
        /\ UNCHANGED <<send_total, tx_ack_wait, built, tx_service_busy>>

\* Mutant: the guard only keeps service_outbound out of itself.
ServiceIgnoresHook == tx_service_busy # 1 /\ ServiceInner

Service == tx_service_busy = 0 /\ ServiceInner

\* The builders of service_outbound_inner: the previous frame is confirmed.
Build ==
    /\ tx_service_busy = 0
    /\ send_pos = send_total
    /\ ~tx_ack_wait
    /\ built < Frames
    /\ tx_ack_wait' = TRUE
    /\ built' = built + 1
    /\ send_pos' = 0
    /\ send_total' = FrameLen
    /\ UNCHANGED <<ackVars, tx_service_busy, wire>>

Outbound == Service \/ Build

\* guard_clear_stale_status_wait, at the top of the editor loop.
ClearStale ==
    /\ foreground = "editor"
    /\ tx_service_busy # 0
    /\ send_pos = send_total
    /\ ack_pos = ack_total
    /\ ~tx_ack_wait
    /\ tx_service_busy' = 0
    /\ UNCHANGED <<foreground, basic_running, ackVars, frameVars, hook, x, owed, wire>>

\* The editor loop, or the RUN/STOP hook between two statements.
ForegroundService ==
    /\ hook = "out"
    /\ Outbound
    /\ UNCHANGED <<foreground, basic_running, hook, x, owed>>

\* The raster interrupt, while a command is executed or its end not yet noticed.
IrqService ==
    /\ basic_running \/ foreground = "basic"
    /\ Outbound
    /\ UNCHANGED <<foreground, basic_running, hook, x, owed>>

-----------------------------------------------------------------------------
(* The BSOUT hook *)

Step(next) ==
    /\ hook' = next
    /\ UNCHANGED <<foreground, basic_running, frameVars, owed>>

\* BASIC has printed a character; drain_running_control_outbound.
PrintChar ==
    /\ Prints
    /\ foreground = "basic" /\ basic_running
    /\ hook = "out"
    /\ ack_pos # ack_total \/ ack_pending
    /\ Step("start")
    /\ UNCHANGED <<ackVars, tx_service_busy, x, wire>>

\* guard_bsout_drain up to gbd_ack_ready.
HookStart ==
    /\ hook = "start"
    /\ IF StartAck
       THEN ack_pending' = FALSE /\ ack_pos' = 0 /\ ack_total' = AckLen
       ELSE UNCHANGED ackVars
    /\ Step("ready")
    /\ UNCHANGED <<tx_service_busy, x, wire>>

\* gbd_ack_ready: nothing to send, or somebody else is at it.
HookReady ==
    /\ hook = "ready"
    /\ x' = ack_pos
    /\ Step(IF ack_pos = ack_total \/ (ack_pos # 0 /\ tx_service_busy # 2)
            THEN "out" ELSE "claim")
    /\ UNCHANGED <<ackVars, tx_service_busy, wire>>

\* Mutant: the hook claims the guard with the value of service_outbound.
HookClaimOne ==
    /\ hook = "claim"
    /\ tx_service_busy' = 1
    /\ Step("write")
    /\ UNCHANGED <<ackVars, x, wire>>

\* gbd_ack_claim
HookClaim ==
    /\ hook = "claim"
    /\ tx_service_busy' = 2
    /\ Step("write")
    /\ UNCHANGED <<ackVars, x, wire>>

\* guard_ring_write_byte, and its return with the carry set.
HookWrite ==
    /\ hook = "write"
    /\ wire' = Append(wire, AckByte(x))
    /\ Step("advance")
    /\ UNCHANGED <<ackVars, tx_service_busy, x>>

HookRingFull ==
    /\ hook = "write"
    /\ Step("out")
    /\ UNCHANGED <<ackVars, tx_service_busy, x, wire>>

\* The byte index moves on; the last byte frees the guard.
HookAdvance ==
    /\ hook = "advance"
    /\ ack_pos' = (ack_pos + 1) % Bytes
    /\ tx_service_busy' = IF ack_pos' = ack_total THEN 0 ELSE tx_service_busy
    /\ Step("out")
    /\ UNCHANGED <<ack_pending, ack_total, x, wire>>

Hook == HookStart \/ HookReady \/ HookClaim \/ HookWrite \/ HookRingFull \/ HookAdvance

-----------------------------------------------------------------------------
(* The rest of the machine *)

\* queue_ack_current, in whatever context the frame was received.
OweAck ==
    /\ owed < Acks
    /\ ~ack_pending
    /\ ack_pending' = TRUE
    /\ owed' = owed + 1
    /\ UNCHANGED <<foreground, basic_running, tx_service_busy, ack_pos, ack_total,
                   frameVars, hook, x, wire>>

\* The ACK of the bridge, or the C64 gives the frame up.
AckIn ==
    /\ tx_ack_wait
    /\ send_pos = send_total
    /\ tx_ack_wait' = FALSE
    /\ UNCHANGED <<foreground, basic_running, tx_service_busy, ackVars, send_pos,
                   send_total, built, hook, x, owed, wire>>

BasicStarts ==
    /\ foreground = "editor" /\ ~basic_running
    /\ foreground' = "basic"
    /\ UNCHANGED <<basic_running, tx_service_busy, ackVars, frameVars, hook, x, owed, wire>>

\* service_running or irq_service_io: the program is reported as RUNNING.
Detach ==
    /\ foreground = "basic" /\ ~basic_running
    /\ basic_running' = TRUE
    /\ UNCHANGED <<foreground, tx_service_busy, ackVars, frameVars, hook, x, owed, wire>>

\* The program ends; the last character of READY. has been printed.
BasicEnds ==
    /\ foreground = "basic"
    /\ hook = "out"
    /\ foreground' = "editor"
    /\ UNCHANGED <<basic_running, tx_service_busy, ackVars, frameVars, hook, x, owed, wire>>

\* READY is on the screen: the editor loop, or irq_service_io, notices it.
ReadySeen ==
    /\ foreground = "editor" /\ basic_running
    /\ basic_running' = FALSE
    /\ UNCHANGED <<foreground, tx_service_busy, ackVars, frameVars, hook, x, owed, wire>>

Next ==
    \/ ClearStale \/ ForegroundService \/ IrqService
    \/ PrintChar \/ Hook
    \/ OweAck \/ AckIn \/ BasicStarts \/ Detach \/ BasicEnds \/ ReadySeen

Spec == Init /\ [][Next]_vars

\* The foreground and the interrupt run, the transmit ring drains, every program
\* ends and its end is noticed.  Nothing makes BASIC start or print.
Fairness ==
    /\ WF_vars(ClearStale) /\ WF_vars(ForegroundService) /\ WF_vars(IrqService)
    /\ WF_vars(Hook) /\ SF_vars(HookWrite)
    /\ WF_vars(AckIn) /\ WF_vars(BasicEnds) /\ WF_vars(ReadySeen)

-----------------------------------------------------------------------------
(* Properties *)

\* Indices stay within their byte, and the guard has one of its three values.
TypeOK ==
    /\ foreground \in {"editor", "basic"} /\ basic_running \in BOOLEAN
    /\ tx_service_busy \in {0, 2}
    /\ ack_pending \in BOOLEAN /\ ack_pos \in 0..(Bytes - 1) /\ ack_total \in {0, AckLen}
    /\ send_pos \in 0..FrameLen /\ send_total \in {0, FrameLen}
    /\ tx_ack_wait \in BOOLEAN
    /\ hook \in {"out", "start", "ready", "claim", "write", "advance"}
    /\ x \in 0..(Bytes - 1)
    /\ owed \in 0..Acks /\ built \in 0..Frames
    /\ wire \in Seq([of : {"ack", "frame"}, at : 0..(Bytes - 1)])

\* A byte of an ACK is followed by the next byte of the ACK, and an ACK starts
\* with its first byte: the shared ACK buffer is advanced by one context at a
\* time (agent.asm:864).  The code does not keep it: README, section 6.
AcksWhole ==
    \A i \in 1..Len(wire) :
        wire[i].of = "ack" /\ wire[i].at > 0 =>
            i > 1 /\ wire[i - 1] = AckByte(wire[i].at - 1)

\* The guard does its work on the line: while the hook is between two bytes of
\* an ACK no other context sends a frame.
FrameOutsideAck ==
    \A i \in 2..Len(wire) :
        wire[i].of = "frame" /\ wire[i - 1].of = "ack" => wire[i - 1].at = AckLen - 1

\* The ring does not end within an ACK.
Whole == wire # <<>> /\ wire[Len(wire)].of = "ack" => wire[Len(wire)].at = AckLen - 1

\* Why: the foreground stands still during the hook, which writes under the guard and
\* from an index that is its own or was passed by a whole ACK; and whoever frees the
\* guard has sent a last byte.  With TypeOK it is the inductive strengthening of
\* FrameOutsideAck.
GuardInv ==
    /\ hook # "out" => foreground = "basic"
    /\ hook \in {"write", "advance"} => tx_service_busy = 2
    /\ ack_total = 0 => ack_pos = 0 /\ hook \notin {"claim", "write", "advance"}
    /\ hook \in {"claim", "write", "advance"} => ack_pos \in {x, ack_total}
    /\ hook = "advance" => wire # <<>> /\ wire[Len(wire)] = AckByte(x)
    /\ tx_service_busy = 0 \/ (hook # "advance" /\ ack_pos = ack_total) => Whole
    /\ FrameOutsideAck

AckOwed == ack_pending \/ ack_pos # ack_total

\* An ACK that is owed is sent (agent.asm:734: control traffic is kept alive).  The
\* code does not keep it: README, section 6.
AckSent == AckOwed ~> ~AckOwed

\* What is left of it: an ACK that is owed is sent, or the hook has taken it over.
\* Foreground and interrupt never keep one waiting by themselves.
AckSentOrHooked == AckOwed ~> ~AckOwed \/ tx_service_busy = 2

=============================================================================
