------------------------------ MODULE C64Parts ------------------------------
(***************************************************************************)
(* Three parts at the C64's end of the line that share no variable: the    *)
(* user queue, the transmit path, and the bytes of a frame on their way    *)
(* through a decoder.  A behaviour is about one of them and the others     *)
(* stand still.  How they work together is Session's and Transport's       *)
(* subject, which use what is shown here of each.                          *)
(***************************************************************************)
EXTENDS UserQueue

CONSTANTS
    AckLen, FrameLen, Burst, Bytes, Prints, Acks, Frames,   \* OutboundGuard
    Ids, Chars, Losses                                      \* FrameCodec

\* The lengths of what is sent: an 8-bit index runs over an ACK and over a frame.
ASSUME LengthsAssumption ==
    /\ {AckLen, FrameLen, Burst} \subseteq Nat \ {0}
    /\ Bytes \in Nat /\ AckLen < Bytes /\ FrameLen < Bytes
ASSUME PrintsAssumption == Prints \in BOOLEAN
ASSUME GuardBoundsAssumption == Acks \in Nat /\ Frames \in Nat
\* Ids are never 0 and, like characters of a text, no larger than a byte allows.
ASSUME CodesAssumption == Ids \subseteq 1..127 /\ Chars \subseteq Nat /\ Losses \in Nat

VARIABLES
    part,    \* the part that this behaviour is about
    foreground, basic_running, tx_service_busy, ack_pending, ack_pos, ack_total,
    send_pos, send_total, tx_ack_wait, hook, x, owed, built, wire,
    receiver, frame, pos, at, sub, len, chk, payload, handed, lost

Guard == INSTANCE OutboundGuard
Codec == INSTANCE FrameCodec

guardVars == <<foreground, basic_running, tx_service_busy, ack_pending, ack_pos,
               ack_total, send_pos, send_total, tx_ack_wait, hook, x, owed, built, wire>>
codecVars == <<receiver, frame, pos, at, sub, len, chk, payload, handed, lost>>
partsVars == <<part, vars, guardVars, codecVars>>

\* A part that stands still does so in one of its initial states.
PartsInit ==
    /\ part \in {"queue", "guard", "codec"}
    /\ Init /\ Guard!Init /\ Codec!Init
    /\ part # "queue" => marked = {}
    /\ part # "codec" => receiver = "c64" /\ frame \in {CHOOSE f \in Codec!FramesTo("c64") : TRUE}

QueueStep ==
    /\ part = "queue" /\ Next
    /\ UNCHANGED <<part, guardVars, codecVars>>

GuardStep ==
    /\ part = "guard" /\ Guard!Next
    /\ UNCHANGED <<part, vars, codecVars>>

CodecStep ==
    /\ part = "codec" /\ Codec!Next
    /\ UNCHANGED <<part, vars, guardVars>>

PartsNext == QueueStep \/ GuardStep \/ CodecStep

PartsSpec == PartsInit /\ [][PartsNext]_partsVars

-----------------------------------------------------------------------------
(* Properties: those of the parts, under their names there; RingInv is       *)
(* UserQueue's own                                                           *)

\* Every variable of every part keeps its type.
PartsTypeOK == TypeOK /\ Guard!TypeOK /\ Codec!TypeOK

\* No frame goes out between two bytes of an ACK (tx_service_busy).
FrameOutsideAck == Guard!FrameOutsideAck

\* An ACK that is owed is sent, or the BSOUT hook has taken it over
\* (service_outbound, guard_bsout_drain).
AckSentOrHooked == part = "guard" /\ Guard!Fairness => Guard!AckSentOrHooked

\* Bit 7 costs no frame, a lost byte makes none that was not sent (fr_hunt, Decode).
FramesIntact == Codec!FramesIntact

\* A decoder out of step gets back into step (fr_chk_bad, readType).
BackInStep == part = "codec" /\ Codec!Fairness => Codec!BackInStep
=============================================================================
