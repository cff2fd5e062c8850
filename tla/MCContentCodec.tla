--------------------------- MODULE MCContentCodec ---------------------------
(***************************************************************************)
(* TLC instances of ContentCodec: all texts and contents up to a length    *)
(* over a few bytes, one for every case the code distinguishes.            *)
(***************************************************************************)
EXTENDS ContentCodec

CONSTANTS TextLength, ContentLength

Upto(n, bytes) == UNION {[1..k -> bytes] : k \in 0..n}

\* B and g (digits 1 and 32), the padding, a newline, a byte of no digit.
MCTexts == Upto(TextLength, {66, 103, 61, 10, 123})

\* NUL, B, the padding, the two bytes of a character.
MCContents == Upto(ContentLength, {0, 66, 61, 200, 130})
=============================================================================
