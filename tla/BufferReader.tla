---------------------------- MODULE BufferReader ----------------------------
(***************************************************************************)
(* The readers of serialized data (src/nimiq_utils.c, "Buffer utils").     *)
(* Each of them takes a piece off the front of a buffer, advances the      *)
(* buffer's pointer and reduces its remaining length, or fails.            *)
(*                                                                         *)
(* A cursor is such a pointer and length, together with the piece that was *)
(* read last.  Pieces are pointers into the input, as in the code, which   *)
(* copies nothing.  Pointers are positions in the input; 0 is NULL.  A     *)
(* failed read fails all reads behind it, as the callers return then.      *)
(***************************************************************************)
EXTENDS Integers, Sequences

BYTE_SIZE == 256
MAX_BIP32_PATH_LENGTH == 10
NULL == 0

Piece(at, length) == [at |-> at, length |-> length]
Nothing == Piece(NULL, 0)

\* A cursor at the start of a piece of the input.
Open(piece) == [ok |-> TRUE, at |-> piece.at, left |-> piece.length, out |-> Nothing]
Whole(input) == Piece(1, Len(input))

Fail(c) == [c EXCEPT !.ok = FALSE]

ReadSubBuffer(c, length) ==
  IF ~c.ok THEN c
  ELSE IF length = 0 THEN [c EXCEPT !.out = Nothing]
  ELSE IF c.left < length THEN Fail(c)
  ELSE [ok |-> TRUE, at |-> c.at + length, left |-> c.left - length,
        out |-> Piece(c.at, length)]

\* Numbers are read byte by byte; a failure in their middle is a failure.
ReadU8(c) == ReadSubBuffer(c, 1)
ReadU16(c) == ReadSubBuffer(c, 2)
ReadU32(c) == ReadSubBuffer(c, 4)
ReadU64(c) == ReadSubBuffer(c, 8)

\* What the pieces hold: bytes, numbers (most significant byte first), booleans.
Bytes(input, piece) == SubSeq(input, piece.at, piece.at + piece.length - 1)
U8(input, piece) == input[piece.at]
U16(input, piece) == input[piece.at] * BYTE_SIZE + input[piece.at + 1]
U32(input, piece) ==
  U16(input, piece) * BYTE_SIZE * BYTE_SIZE + U16(input, Piece(piece.at + 2, 2))
Bool(input, piece) == input[piece.at] # 0

\* Only varints of a single byte are supported, the topmost bit of which is 0.
CONTINUATION_BIT == 128
ReadUvarint(input, c) ==
  LET read == ReadU8(c) IN
  IF read.ok /\ U8(input, read.out) >= CONTINUATION_BIT THEN Fail(read) ELSE read

ReadVecU8(input, c) ==
  LET length == ReadUvarint(input, c) IN
  ReadSubBuffer(length, U8(input, length.out))

\* A count and as many numbers.
ReadBip32Path(input, c) ==
  LET count == ReadU8(c) IN
  IF count.ok /\ U8(input, count.out) \notin 1..MAX_BIP32_PATH_LENGTH THEN Fail(count)
  ELSE ReadSubBuffer(count, 4 * U8(input, count.out))
=============================================================================
