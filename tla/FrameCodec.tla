----------------------------- MODULE FrameCodec -----------------------------
(***************************************************************************)
(* Frames as bytes: the encoder and the decoder of the bridge (frame.go)   *)
(* and the byte parser of the C64 (agent.asm, frame_rx_byte).  A sender    *)
(* repeats a frame until it has been taken, as its transport does; the     *)
(* line may flip bit 7 of a byte, which the emulated RS232 does, and lose  *)
(* a byte.  The receiver has no clock: what it makes of the next byte      *)
(* depends only on the bytes so far.                                       *)
(***************************************************************************)
EXTENDS Naturals, Sequences

CONSTANTS
    Ids,            \* transport ids
    Chars,          \* characters of which a text has one
    Losses          \* bound: bytes lost on the line

VARIABLES
    receiver,       \* "c64" or "bridge": whose decoder this behaviour is about
    frame,          \* the frame the sender is at
    pos,            \* its bytes on the line so far
    at,             \* parse_state, or the place in Decode
    sub, len, chk,  \* frame_sub, frame_len and frame_chk; typ, length and chk
    payload,        \* AGENT_RXBUF up to rx_index; payload
    handed,         \* what was handed up since the frame began
    lost            \* bytes lost so far

rxVars == <<at, sub, len, chk, payload>>
codecVars == <<receiver, frame, pos, rxVars, handed, lost>>

\* Frame types to the C64, and to the bridge.
MSG == 77
TEXT == 84
DONE == 68
ACK_IN == 66
LLM == 99
USER == 102
ACK == 103
OtherTypes == {69, 75, 80, 81, 96, 97, 98, 101}

SyncByte == 254
Nothing == [type |-> 0, payload |-> <<>>]

\* The exclusive or of two bytes of seven bits.
BitOf(a, b, p) == IF (a \div p) % 2 = (b \div p) % 2 THEN 0 ELSE p

Xor(a, b) ==
    BitOf(a, b, 1) + BitOf(a, b, 2) + BitOf(a, b, 4) + BitOf(a, b, 8)
        + BitOf(a, b, 16) + BitOf(a, b, 32) + BitOf(a, b, 64)

Mask(b) == b % 128                               \* strips bit 7

SyncLike(b) == Mask(b) >= 124

\* The conversions of a character: of a message, and of a reply, in capitals and
\* with little punctuation.  That an umlaut becomes two letters is left out.
ToASCII(c) == IF c \in {9, 10} \union 32..126 THEN c ELSE 63

ToC64Text(c) ==
    LET u == IF ToASCII(c) \in 97..122 THEN ToASCII(c) - 32 ELSE ToASCII(c) IN
    CASE u \in {10, 32, 33, 34, 61, 63} \union 39..59 \union 65..90 -> u
      [] u = 96         -> 39
      [] u \in {91, 123} -> 40
      [] u \in {93, 125} -> 41
      [] u = 92         -> 47
      [] OTHER          -> 32

\* What is sent to r: an ACK, for the C64 with the complement of the id, a message
\* (which the C64 sends back as an LLM event) or a reply (sent back for the user),
\* and for the C64 the end of a turn.
FramesTo(r) ==
    LET Bare(type) == {[type |-> type, payload |-> <<i>>] : i \in Ids}
        WithText(type, texts) == {[type |-> type, payload |-> p] : p \in Ids \X texts}
        messages == {ToASCII(c) : c \in Chars}
        replies == {ToC64Text(c) : c \in Chars}
    IN  IF r = "c64"
        THEN WithText(MSG, messages) \union WithText(TEXT, replies) \union Bare(DONE)
             \union {[type |-> ACK_IN, payload |-> <<i, Xor(i, 127)>>] : i \in Ids}
        ELSE WithText(LLM, messages) \union WithText(USER, replies) \union Bare(ACK)

\* The checksum over the type, the length and the first k bytes of the payload.
Checksums(f) ==
    LET n == Len(f.payload)
        over[k \in 0..n] == IF k = 0 THEN Xor(f.type, n) ELSE Xor(over[k - 1], f.payload[k])
    IN  over

\* Encode, and build_rxbuf_frame on the C64.
Encode(f) ==
    LET n == Len(f.payload)
    IN  <<SyncByte, f.type, n>> \o f.payload \o <<Checksums(f)[n]>>

Init ==
    /\ receiver \in {"c64", "bridge"}
    /\ frame \in FramesTo(receiver)
    /\ pos = 0
    /\ at = "hunt" /\ sub = 0 /\ len = 0 /\ chk = 0 /\ payload = <<>>
    /\ handed = Nothing
    /\ lost = 0

-----------------------------------------------------------------------------
(* The decoders, on the next byte b *)

Goto(place) == at' = place /\ UNCHANGED <<sub, len, chk, payload, handed>>

\* fr_hunt, and the first loop of Decode.
Hunt(b) ==
    /\ at = "hunt"
    /\ Goto(IF SyncLike(b) THEN "sub" ELSE "hunt")

\* A SYNC where the type should be: the C64 takes any byte like it, the bridge the
\* SYNC byte itself.
SyncAgain(b) == IF receiver = "c64" THEN SyncLike(b) ELSE b = SyncByte

\* fr_sub, and readType.
Subtype(b) ==
    /\ at = "sub"
    /\ IF SyncAgain(b)
       THEN Goto("sub")
       ELSE /\ at' = "len" /\ sub' = Mask(b) /\ chk' = Mask(b)
            /\ UNCHANGED <<len, payload, handed>>

\* isKnownType
IsKnownType(typ) ==
    typ \in OtherTypes \union {MSG, TEXT, DONE, ACK_IN, LLM, USER, ACK}

\* fr_len, with its resynchronisation, and the bridge's with its test of the type.
Length(b) ==
    /\ at = "len"
    /\ IF receiver = "c64" /\ SyncLike(b) THEN Goto("sub")
       ELSE /\ len' = Mask(b) /\ chk' = Xor(chk, Mask(b)) /\ payload' = <<>>
            /\ at' = IF receiver = "bridge" /\ ~IsKnownType(sub) THEN "hunt"
                     ELSE IF len' = 0 THEN "chk" ELSE "pay"
            /\ UNCHANGED <<sub, handed>>

\* fr_pay, and the payload loop.
Payload(b) ==
    /\ at = "pay"
    /\ payload' = Append(payload, Mask(b))
    /\ chk' = Xor(chk, Mask(b))
    /\ at' = IF Len(payload') = len THEN "chk" ELSE "pay"
    /\ UNCHANGED <<sub, len, handed>>

\* Mutant: an ACK needs no second byte.
InboundAck == IF receiver = "c64" THEN sub < 96 ELSE sub >= 96

\* frame_dispatch and fd_inbound_gate, and Recv: a frame of one's own, echoed, is
\* passed over, and so is an ACK whose second byte is not the complement of the id.
Inbound ==
    IF receiver = "bridge" THEN sub >= 96
    ELSE IF sub = ACK_IN THEN len = 2 /\ Xor(payload[1], 127) = payload[2]
    ELSE sub < 96

\* Mutant: a bad checksum does not end the frame.
AfterBadStays(b) == "chk"

\* fr_chk_bad, and the end of Decode: the byte may be the SYNC of the next frame.
AfterBad(b) == IF SyncAgain(b) THEN "sub" ELSE "hunt"

\* fr_chk, and the comparison in Decode.
Check(b) ==
    /\ at = "chk"
    /\ IF Mask(b) = chk
       THEN /\ at' = "hunt"
            /\ handed' = IF Inbound THEN [type |-> sub, payload |-> payload] ELSE handed
            /\ UNCHANGED <<sub, len, chk, payload>>
       ELSE Goto(AfterBad(b))

Take(b) == Hunt(b) \/ Subtype(b) \/ Length(b) \/ Payload(b) \/ Check(b)

-----------------------------------------------------------------------------
(* The line *)

NextByte == Encode(frame)[pos + 1]
Sending == pos < Len(frame.payload) + 4

\* Link.Send writes one byte, and it arrives, perhaps with bit 7 flipped.
Arrive ==
    /\ Sending
    /\ \E b \in {NextByte, (NextByte + 128) % 256} : Take(b)
    /\ pos' = pos + 1
    /\ UNCHANGED <<receiver, frame, lost>>

Lose ==
    /\ Sending
    /\ lost < Losses
    /\ pos' = pos + 1
    /\ lost' = lost + 1
    /\ UNCHANGED <<receiver, frame, rxVars, handed>>

\* The next frame when this one was taken, the same again when it was not.
Begin ==
    /\ ~Sending
    /\ frame' \in IF handed = Nothing THEN {frame} ELSE FramesTo(receiver)
    /\ pos' = 0
    /\ handed' = Nothing
    /\ UNCHANGED <<receiver, rxVars, lost>>

Next == Arrive \/ Lose \/ Begin

Spec == Init /\ [][Next]_codecVars

\* Bytes keep coming.
Fairness == WF_codecVars(Next)

-----------------------------------------------------------------------------
(* Properties *)

TypeOK ==
    /\ receiver \in {"c64", "bridge"} /\ frame \in FramesTo(receiver)
    /\ pos \in 0..(Len(frame.payload) + 4)
    /\ at \in {"hunt", "sub", "len", "pay", "chk"}
    /\ {sub, len, chk} \subseteq 0..127 /\ Len(payload) <= 127
    /\ lost \in 0..Losses

\* Bit 7 alone, which both decoders strip, costs no frame: while no byte was lost,
\* every frame is handed up when its last byte has come (frame.go:107,
\* agent.asm:1758).  And the pieces of two frames around a lost byte make no third
\* one of a known type, though seven bits of checksum promise that only for the
\* lengths and ids here; the C64 does not look at the type (README, section 6).
FramesIntact ==
    /\ ~Sending /\ lost = 0 => handed = frame
    /\ IsKnownType(handed.type) => handed = frame

\* A decoder out of step gets back into step on the repetitions of a frame, unless
\* the frame has a byte in it that looks like SYNC (fr_len_resync, readType): a
\* reply never has one (ToC64Text), a message can (ToASCII; README, section 6).
BackInStep ==
    []<>(handed = frame \/ \E i \in 1..Len(frame.payload) : SyncLike(frame.payload[i]))
=============================================================================
