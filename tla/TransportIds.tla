---------------------------- MODULE TransportIds ----------------------------
(***************************************************************************)
(* The one-byte transport ids of reliable frames: how each side numbers    *)
(* its frames, and the two independently written tests, one in Go and one  *)
(* in 6502 assembly, that tell a new frame from a stale one.               *)
(***************************************************************************)
EXTENDS Integers

CONSTANTS
    MaxId,      \* the largest id, 127 in the code
    Window      \* how far ahead of the newest accepted id a new id may be, 63

\* The ids and the sums of the assembly routine fit in one byte.
ASSUME WindowAssumption ==
    Window \in Nat \ {0} /\ MaxId = 2 * Window + 1 /\ MaxId <= 127

Ids == 1..MaxId

\* Mutant: the counter wraps to the reserved value.
NextIdZero(id) == IF id + 1 > MaxId THEN 0 ELSE id + 1

\* allocID and the tail of inject_tx_id: 0 is never used.
NextId(id) == IF id + 1 > MaxId THEN 1 ELSE id + 1

\* transportIDAhead
TransportIDAhead(id, last) ==
    LET diff == IF id - last < 0 THEN id - last + MaxId ELSE id - last
    IN  diff > 0 /\ diff <= Window

\* The duplicate and stale test of frame_dispatch, on bytes: equal ids are
\* stale, a smaller id is moved up by MaxId before the subtraction.
FrameIsNew(id, last) ==
    LET raised == IF id >= last THEN id ELSE (id + MaxId) % 256
        diff   == (raised + 256 - last) % 256
    IN  id # last /\ diff < Window + 1
=============================================================================
