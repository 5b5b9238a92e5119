----------------------- MODULE TransactionBytesProofs -----------------------
(***************************************************************************)
(* For every input a client can send: an accepted transaction is as long   *)
(* as its type says, the pointers through which the staker proof is        *)
(* written lie within its data, its amounts are printed exactly, and what  *)
(* is signed reads as what was reviewed.                                   *)
(*                                                                         *)
(* The readers conserve the sum of position and remaining length.  Along   *)
(* the reads of parse_tx, and with the checks that nothing is left over,   *)
(* this fixes every length and position in an accepted transaction.        *)
(*                                                                         *)
(* The digits of an amount come from a chain of quotients.  Multiplying by *)
(* ten and adding the digit leads from each quotient back to the number    *)
(* before it, so that reading the digits rebuilds the very bytes.          *)
(*                                                                         *)
(* Every read in front of the proof, and behind it, is one of bytes that   *)
(* the written proof leaves alone.                                         *)
(***************************************************************************)
EXTENDS TransactionBytes, SumsProofs

-----------------------------------------------------------------------------
(* Readers *)

Pieces == [at : Nat, length : Nat]
Cursors == [ok : BOOLEAN, at : Nat, left : Nat, out : Pieces]

\* The cursor d is what a successful read of length bytes makes of c.
Advanced(c, d, length) ==
  /\ c.ok
  /\ d.at = c.at + length /\ d.left = c.left - length
  /\ c.left >= length
  /\ length # 0 => d.out = Piece(c.at, length)
  /\ length = 0 => d.out = Nothing

\* A cursor stays a cursor if it is opened, read from or failed.
LEMMA OpenIsCursor ==
  ASSUME NEW piece \in Pieces
  PROVE  /\ Open(piece) \in Cursors
         /\ Open(piece).ok /\ Open(piece).at = piece.at /\ Open(piece).left = piece.length
  BY DEF Open, Pieces, Cursors, Nothing, Piece, NULL

\* read_sub_buffer advances the buffer by the length that was read, or fails.
LEMMA ReadSubBufferAdvances ==
  ASSUME NEW c \in Cursors, NEW length, c.ok => length \in Nat
  PROVE  /\ ReadSubBuffer(c, length) \in Cursors
         /\ ReadSubBuffer(c, length).ok => Advanced(c, ReadSubBuffer(c, length), length)
<1>1. CASE ~c.ok
  BY <1>1 DEF ReadSubBuffer
<1>2. CASE c.ok /\ length = 0
  <2>1. ReadSubBuffer(c, length) = [c EXCEPT !.out = Nothing]
    BY <1>2 DEF ReadSubBuffer
  <2> QED BY <1>2, <2>1 DEF Cursors, Advanced, Nothing, Piece, NULL, Pieces
<1>3. CASE c.ok /\ length # 0 /\ c.left < length
  <2>1. ReadSubBuffer(c, length) = [c EXCEPT !.ok = FALSE]
    BY <1>3 DEF ReadSubBuffer, Fail
  <2> QED BY <2>1 DEF Cursors
<1>4. CASE c.ok /\ length # 0 /\ ~(c.left < length)
  <2>1. ReadSubBuffer(c, length) =
          [ok |-> TRUE, at |-> c.at + length, left |-> c.left - length,
           out |-> Piece(c.at, length)]
    BY <1>4 DEF ReadSubBuffer
  <2> QED BY <1>4, <2>1 DEF Cursors, Advanced, Piece, Pieces
<1> QED BY <1>1, <1>2, <1>3, <1>4

\* The same for the readers of fixed length.
LEMMA FixedReadsAdvance ==
  ASSUME NEW c \in Cursors
  PROVE  /\ ReadU8(c) \in Cursors /\ (ReadU8(c).ok => Advanced(c, ReadU8(c), 1))
         /\ ReadU16(c) \in Cursors /\ (ReadU16(c).ok => Advanced(c, ReadU16(c), 2))
         /\ ReadU32(c) \in Cursors /\ (ReadU32(c).ok => Advanced(c, ReadU32(c), 4))
         /\ ReadU64(c) \in Cursors /\ (ReadU64(c).ok => Advanced(c, ReadU64(c), 8))
  BY ReadSubBufferAdvances DEF ReadU8, ReadU16, ReadU32, ReadU64

\* What is read of an input of bytes are bytes and numbers.
LEMMA BytesAreNumbers ==
  ASSUME NEW input \in Seq(BYTE)
  PROVE  \A i \in 1..Len(input) : input[i] \in 0..255
<1>1. \A i \in 1..Len(input) : input[i] \in BYTE
  OBVIOUS
<1>2. BYTE = 0..255
  BY DEF BYTE, BYTE_SIZE
<1> HIDE DEF BYTE
<1> QED BY <1>1, <1>2

\* The bytes and two-byte numbers at a piece of the input are natural numbers.
LEMMA NumbersOfInput ==
  ASSUME NEW input \in Seq(BYTE), NEW piece, piece.at \in Nat \ {0}
  PROVE  /\ piece.at <= Len(input) => U8(input, piece) \in 0..255
         /\ piece.at + 1 <= Len(input) => U16(input, piece) \in Nat
<1> DEFINE at == piece.at
           high == input[at]
           low == input[at + 1]
<1>1. \A i \in 1..Len(input) : input[i] \in 0..255
  BY BytesAreNumbers
<1>2. Len(input) \in Nat /\ at \in Nat \ {0}
  OBVIOUS
<1> HIDE DEF at
<1>3. at <= Len(input) => high \in 0..255
  BY <1>1, <1>2
<1>4. at + 1 <= Len(input) => high \in 0..255 /\ low \in 0..255
  BY <1>1, <1>2
<1>5. U8(input, piece) = high /\ U16(input, piece) = high * 256 + low
  BY Zenon DEF U8, U16, BYTE_SIZE, at
<1> HIDE DEF high, low
<1>6. high \in 0..255 /\ low \in 0..255 => high * 256 + low \in Nat
  OBVIOUS
<1> QED BY <1>3, <1>4, <1>5, <1>6, Zenon DEF at

\* A cursor whose remaining bytes end with the input.
Behind(c, input) == c.at >= 1 /\ c.at + c.left = Len(input) + 1

\* read_serde_vec_u8 reads a length of one byte, less than 128, and so many bytes.
LEMMA ReadVecAdvances ==
  ASSUME NEW input \in Seq(BYTE), NEW c \in Cursors, c.ok => Behind(c, input),
         NEW d, d = ReadVecU8(input, c)
  PROVE  /\ d \in Cursors
         /\ d.ok => /\ c.ok
                    /\ d.out.length \in 0..127
                    /\ d.at = c.at + 1 + d.out.length
                    /\ d.left = c.left - 1 - d.out.length
                    /\ Behind(d, input)
<1> DEFINE byte == ReadU8(c)
           length == ReadUvarint(input, c)
           number == U8(input, byte.out)
<1>1. byte \in Cursors /\ (byte.ok => Advanced(c, byte, 1))
  BY FixedReadsAdvance
<1>2. ASSUME byte.ok PROVE number \in 0..255
  <2> HIDE DEF byte
  <2>1. byte.out = Piece(c.at, 1) /\ c.ok /\ c.left >= 1
    BY <1>1, <1>2 DEF Advanced
  <2>2. c.at \in Nat \ {0} /\ c.at <= Len(input)
    BY <2>1 DEF Behind, Cursors
  <2>3. byte.out.at = c.at
    BY <2>1 DEF Piece
  <2>4. byte.out.at \in Nat \ {0} /\ byte.out.at <= Len(input)
    BY <2>2, <2>3
  <2> QED BY <2>4, NumbersOfInput, Zenon
<1>3. length = IF byte.ok /\ number >= 128 THEN [byte EXCEPT !.ok = FALSE] ELSE byte
  BY DEF ReadUvarint, Fail, CONTINUATION_BIT
<1>4. d = ReadSubBuffer(length, U8(input, length.out))
  BY DEF ReadVecU8
<1> HIDE DEF byte, length, number
<1>5. /\ length \in Cursors
      /\ length.ok => length = byte /\ number \in 0..127
  <2>1. CASE byte.ok /\ number >= 128
    <3>1. length = [byte EXCEPT !.ok = FALSE]
      BY <1>3, <2>1
    <3> QED BY <1>1, <3>1 DEF Cursors
  <2>2. CASE ~(byte.ok /\ number >= 128)
    <3>1. length = byte
      BY <1>3, <2>2
    <3>2. ASSUME byte.ok PROVE number \in 0..127
      <4>1. number \in 0..255
        BY <1>2, <3>2
      <4>2. ~(number >= 128)
        BY <2>2, <3>2
      <4> QED BY <4>1, <4>2
    <3> QED BY <1>1, <3>1, <3>2
  <2> QED BY <2>1, <2>2
<1>6. length.ok => U8(input, length.out) = number
  BY <1>5 DEF number
<1>7. /\ d \in Cursors
      /\ d.ok => Advanced(length, d, number)
  <2> DEFINE n == U8(input, length.out)
  <2>1. ASSUME length.ok PROVE n \in Nat
    <3>1. n = number
      BY <1>6, <2>1
    <3>2. number \in 0..127
      BY <1>5, <2>1
    <3> QED BY <3>1, <3>2
  <2>2. ReadSubBuffer(length, n) \in Cursors
        /\ (ReadSubBuffer(length, n).ok => Advanced(length, ReadSubBuffer(length, n), n))
    <3> HIDE DEF n
    <3> QED BY <1>5, <2>1, ReadSubBufferAdvances
  <2>3. d.ok => length.ok
    BY <1>4, <2>2 DEF Advanced
  <2> QED BY <1>4, <1>6, <2>2, <2>3
<1> SUFFICES ASSUME d.ok
             PROVE  /\ c.ok
                    /\ d.out.length \in 0..127
                    /\ d.at = c.at + 1 + d.out.length
                    /\ d.left = c.left - 1 - d.out.length
                    /\ Behind(d, input)
  BY <1>7
<1>8. length.ok /\ length = byte /\ number \in 0..127
  BY <1>5, <1>7 DEF Advanced
<1>9. d.out.length = number
  BY <1>7, <1>8 DEF Advanced, Piece, Nothing
<1>10. /\ c.ok /\ byte.at = c.at + 1 /\ byte.left = c.left - 1
       /\ d.at = byte.at + number /\ d.left = byte.left - number
  BY <1>1, <1>7, <1>8 DEF Advanced
<1>11. c.at \in Nat /\ c.left \in Nat /\ number \in Nat /\ Len(input) \in Nat
  BY <1>8 DEF Cursors
<1>12. c.at >= 1 /\ c.at + c.left = Len(input) + 1
  BY <1>10 DEF Behind
<1>13. d.at >= 1 /\ d.at + d.left = Len(input) + 1
  BY <1>10, <1>11, <1>12
<1> QED BY <1>8, <1>9, <1>10, <1>11, <1>13 DEF Behind

-----------------------------------------------------------------------------
(* The envelope *)

\* One more piece was read.
Follows(c, d, length) ==
  d.ok => c.ok /\ d.at = c.at + length /\ d.left = c.left - length

\* The reads of a fixed length follow on the cursor in front of them.
LEMMA FixedReadsFollow ==
  ASSUME NEW c \in Cursors
  PROVE  /\ ReadU8(c) \in Cursors /\ Follows(c, ReadU8(c), 1)
         /\ ReadU16(c) \in Cursors /\ Follows(c, ReadU16(c), 2)
         /\ ReadU32(c) \in Cursors /\ Follows(c, ReadU32(c), 4)
         /\ ReadU64(c) \in Cursors /\ Follows(c, ReadU64(c), 8)
         /\ ReadSubBuffer(c, ADDRESS_LENGTH) \in Cursors
         /\ Follows(c, ReadSubBuffer(c, ADDRESS_LENGTH), ADDRESS_LENGTH)
<1>1. ADDRESS_LENGTH \in Nat
  BY DEF ADDRESS_LENGTH
<1>2. /\ ReadSubBuffer(c, ADDRESS_LENGTH) \in Cursors
      /\ ReadSubBuffer(c, ADDRESS_LENGTH).ok =>
            Advanced(c, ReadSubBuffer(c, ADDRESS_LENGTH), ADDRESS_LENGTH)
  BY <1>1, ReadSubBufferAdvances
<1> QED BY <1>2, FixedReadsAdvance DEF Follows, Advanced

\* A complete transaction is as long as its two pieces of data and what all transactions
\* have; the recipient data is behind its length.
LEMMA EnvelopeLengths ==
  ASSUME NEW v \in {"LEGACY", "ALBATROSS"}, NEW input \in Seq(BYTE),
         NEW e, e = Envelope(v, input), IsComplete(e)
  PROVE  /\ e.data \in Pieces /\ e.data.at = IF e.data.length = 0 THEN NULL ELSE 3
         /\ e.senderData \in Pieces /\ e.senderData.length \in 0..127
         /\ v = "LEGACY" => e.senderData.length = 0
         /\ Len(input) = EnvelopeLength(v) + e.data.length + e.senderData.length
<1> DEFINE whole == Open(Whole(input))
           dataLength == ReadU16(whole)
           number == U16(input, dataLength.out)
           data == ReadSubBuffer(dataLength, number)
           sender == ReadSubBuffer(data, ADDRESS_LENGTH)
           senderType == ReadU8(sender)
           recipient == ReadSubBuffer(senderType, ADDRESS_LENGTH)
           recipientType == ReadU8(recipient)
           value == ReadU64(recipientType)
           fee == ReadU64(value)
           height == ReadU32(fee)
           networkId == ReadU8(height)
           flags == ReadU8(networkId)
           senderData == IF v = "ALBATROSS" THEN ReadVecU8(input, flags)
                         ELSE [flags EXCEPT !.out = Nothing]
<1>1. e = [ok |-> senderData.ok, left |-> senderData.left,
           data |-> data.out, sender |-> sender.out, senderType |-> senderType.out,
           recipient |-> recipient.out, recipientType |-> recipientType.out,
           value |-> value.out, fee |-> fee.out, height |-> height.out,
           networkId |-> networkId.out, flags |-> flags.out, senderData |-> senderData.out]
  BY Zenon DEF Envelope
<1>2. /\ e.ok = senderData.ok /\ e.left = senderData.left
      /\ e.data = data.out /\ e.senderData = senderData.out
  <2> HIDE DEF senderData, data, sender, senderType, recipient, recipientType, value, fee,
               height, networkId, flags
  <2> QED BY <1>1
<1>3. whole \in Cursors /\ whole.ok /\ whole.at = 1 /\ whole.left = Len(input)
  <2>1. Whole(input) \in Pieces /\ Whole(input).at = 1 /\ Whole(input).length = Len(input)
    BY DEF Whole, Piece, Pieces
  <2> QED BY <2>1, OpenIsCursor
<1>4. dataLength \in Cursors /\ (dataLength.ok => Advanced(whole, dataLength, 2))
  BY <1>3, FixedReadsAdvance
<1>5. ASSUME dataLength.ok PROVE number \in Nat
  <2> HIDE DEF dataLength, whole
  <2>1. dataLength.out = Piece(1, 2) /\ Len(input) >= 2
    BY <1>3, <1>4, <1>5 DEF Advanced
  <2>2. dataLength.out.at = 1
    BY <2>1 DEF Piece
  <2>3. dataLength.out.at \in Nat \ {0} /\ dataLength.out.at + 1 <= Len(input)
    BY <2>1, <2>2
  <2> QED BY <2>3, NumbersOfInput, Zenon
<1>6. data \in Cursors /\ (data.ok => Advanced(dataLength, data, number))
  <2> HIDE DEF dataLength, number
  <2> QED BY <1>4, <1>5, ReadSubBufferAdvances
<1>7. sender \in Cursors /\ Follows(data, sender, ADDRESS_LENGTH)
  <2> HIDE DEF data
  <2> QED BY <1>6, FixedReadsFollow
<1>8. senderType \in Cursors /\ Follows(sender, senderType, 1)
  <2> HIDE DEF sender
  <2> QED BY <1>7, FixedReadsFollow
<1>9. recipient \in Cursors /\ Follows(senderType, recipient, ADDRESS_LENGTH)
  <2> HIDE DEF senderType
  <2> QED BY <1>8, FixedReadsFollow
<1>10. recipientType \in Cursors /\ Follows(recipient, recipientType, 1)
  <2> HIDE DEF recipient
  <2> QED BY <1>9, FixedReadsFollow
<1>11. value \in Cursors /\ Follows(recipientType, value, 8)
  <2> HIDE DEF recipientType
  <2> QED BY <1>10, FixedReadsFollow
<1>12. fee \in Cursors /\ Follows(value, fee, 8)
  <2> HIDE DEF value
  <2> QED BY <1>11, FixedReadsFollow
<1>13. height \in Cursors /\ Follows(fee, height, 4)
  <2> HIDE DEF fee
  <2> QED BY <1>12, FixedReadsFollow
<1>14. networkId \in Cursors /\ Follows(height, networkId, 1)
  <2> HIDE DEF height
  <2> QED BY <1>13, FixedReadsFollow
<1>15. flags \in Cursors /\ Follows(networkId, flags, 1)
  <2> HIDE DEF networkId
  <2> QED BY <1>14, FixedReadsFollow
<1> HIDE DEF whole, dataLength, number, data, sender, senderType, recipient, recipientType,
             value, fee, height, networkId, flags
<1>16. ASSUME flags.ok
       PROVE  /\ data.ok /\ dataLength.ok
              /\ flags.at = data.at + 64 /\ flags.left = data.left - 64
  <2>1. /\ networkId.ok /\ height.ok /\ fee.ok /\ value.ok
        /\ recipientType.ok /\ recipient.ok /\ senderType.ok /\ sender.ok /\ data.ok
    BY <1>7, <1>8, <1>9, <1>10, <1>11, <1>12, <1>13, <1>14, <1>15, <1>16 DEF Follows
  <2>2. data.at \in Nat /\ data.left \in Nat
    BY <1>6 DEF Cursors
  <2>3. recipient.at = data.at + 41 /\ recipient.left = data.left - 41
    <3>1. sender.at = data.at + 20 /\ sender.left = data.left - 20
      BY <1>7, <2>1 DEF Follows, ADDRESS_LENGTH
    <3>2. senderType.at = data.at + 21 /\ senderType.left = data.left - 21
      BY <1>8, <2>1, <2>2, <3>1 DEF Follows
    <3> QED BY <1>9, <2>1, <2>2, <3>2 DEF Follows, ADDRESS_LENGTH
  <2>4. fee.at = data.at + 58 /\ fee.left = data.left - 58
    <3>1. recipientType.at = data.at + 42 /\ recipientType.left = data.left - 42
      BY <1>10, <2>1, <2>2, <2>3 DEF Follows
    <3>2. value.at = data.at + 50 /\ value.left = data.left - 50
      BY <1>11, <2>1, <2>2, <3>1 DEF Follows
    <3> QED BY <1>12, <2>1, <2>2, <3>2 DEF Follows
  <2>5. flags.at = data.at + 64 /\ flags.left = data.left - 64
    <3>1. height.at = data.at + 62 /\ height.left = data.left - 62
      BY <1>13, <2>1, <2>2, <2>4 DEF Follows
    <3>2. networkId.at = data.at + 63 /\ networkId.left = data.left - 63
      BY <1>14, <2>1, <2>2, <3>1 DEF Follows
    <3> QED BY <1>15, <1>16, <2>2, <3>2 DEF Follows
  <2> QED BY <1>6, <2>1, <2>5 DEF Advanced
<1>17. ASSUME flags.ok
       PROVE  /\ data.out \in Pieces /\ data.out.length = number /\ number \in Nat
              /\ data.out.at = IF data.out.length = 0 THEN NULL ELSE 3
              /\ flags.at = 67 + number /\ flags.at + flags.left = Len(input) + 1
  <2>1. Advanced(whole, dataLength, 2) /\ Advanced(dataLength, data, number) /\ number \in Nat
    BY <1>4, <1>5, <1>6, <1>16, <1>17
  <2>2. dataLength.at = 3 /\ dataLength.left = Len(input) - 2
    BY <1>3, <2>1 DEF Advanced
  <2>3. data.at = 3 + number /\ data.left = Len(input) - 2 - number
    BY <2>1, <2>2 DEF Advanced
  <2>4. data.out = IF number = 0 THEN Piece(NULL, 0) ELSE Piece(3, number)
    BY <2>1, <2>2 DEF Advanced, Nothing
  <2>5. /\ data.out.length = number
        /\ data.out.at = IF number = 0 THEN NULL ELSE 3
    BY <2>4 DEF Piece
  <2>6. data.out \in Pieces
    BY <1>6 DEF Cursors
  <2> QED BY <1>16, <1>17, <2>1, <2>3, <2>5, <2>6
<1>18. CASE v = "ALBATROSS"
  <2>1. senderData = ReadVecU8(input, flags)
    BY <1>18
  <2>2. flags.ok => Behind(flags, input)
    BY <1>17 DEF Behind
  <2> HIDE DEF senderData
  <2>3. /\ senderData \in Cursors
        /\ senderData.ok =>
             /\ flags.ok
             /\ senderData.out.length \in 0..127
             /\ senderData.left = flags.left - 1 - senderData.out.length
    BY <1>15, <2>1, <2>2, ReadVecAdvances
  <2>4. senderData.ok /\ senderData.left = 0 /\ flags.ok
    BY <1>2, <2>3 DEF IsComplete
  <2>5. EnvelopeLength(v) = 67
    BY <1>18 DEF EnvelopeLength
  <2>6. senderData.out \in Pieces
    BY <2>3 DEF Cursors
  <2>7. senderData.left = flags.left - 1 - senderData.out.length
    BY <2>3, <2>4
  <2>8. /\ flags.left \in Nat /\ number \in Nat /\ senderData.out.length \in Nat
        /\ Len(input) \in Nat
    BY <1>15, <1>17, <2>4, <2>6 DEF Cursors, Pieces
  <2>9. Len(input) = 67 + number + senderData.out.length
    <3>1. 67 + number + flags.left = Len(input) + 1 /\ senderData.left = 0
      BY <1>17, <2>4
    <3> DEFINE left == flags.left
               size == senderData.out.length
               total == Len(input)
    <3>2. /\ 67 + number + left = total + 1 /\ 0 = left - 1 - size
          /\ left \in Nat /\ number \in Nat /\ size \in Nat /\ total \in Nat
      BY <2>7, <2>8, <3>1
    <3> HIDE DEF left, size, total
    <3>3. total = 67 + number + size
      BY <3>2
    <3> QED BY <3>3 DEF size, total
  <2> QED BY <1>2, <1>17, <1>18, <2>3, <2>4, <2>5, <2>6, <2>9
<1>19. CASE v = "LEGACY"
  <2>1. senderData = [flags EXCEPT !.out = Nothing]
    BY <1>19
  <2> HIDE DEF senderData
  <2>2. /\ senderData.out = Nothing /\ senderData.left = flags.left /\ senderData.ok = flags.ok
    BY <1>15, <2>1 DEF Cursors
  <2>3. flags.ok /\ flags.left = 0
    BY <1>2, <2>2 DEF IsComplete
  <2>4. EnvelopeLength(v) = 66
    BY <1>19 DEF EnvelopeLength
  <2>5. Nothing \in Pieces /\ Nothing.length = 0
    BY DEF Nothing, Piece, Pieces, NULL
  <2>6. Len(input) = 66 + number
    BY <1>15, <1>17, <2>3 DEF Cursors
  <2> QED BY <1>2, <1>17, <1>19, <2>2, <2>3, <2>4, <2>5, <2>6
<1> QED BY <1>18, <1>19

-----------------------------------------------------------------------------
(* The data of each type *)

\* The one result of a parser has what it was built of.
LEMMA ResultHas ==
  ASSUME NEW type, NEW label, NEW fields, NEW proof, NEW r \in Result(type, label, fields, proof)
  PROVE  r.type = type /\ r.label = label /\ r.fields = fields /\ r.proof = proof
  BY DEF Result

\* Unstaking: a single byte of sender data.
LEMMA StakingOutgoingLengths ==
  ASSUME NEW v, NEW input, NEW e, e.senderData \in Pieces, NEW r \in ParseStakingOutgoing(v, input, e)
  PROVE  /\ r.label = "REMOVE_STAKE" /\ r.proof = NoProof
         /\ e.data.length = 0 /\ e.senderData.length = 1
<1> DEFINE type == ReadU8(Open(e.senderData))
           fields == RecipientFields(Bytes(input, e.recipient), EMPTY, EMPTY)
<1>1. /\ e.data.length = 0 /\ type.ok /\ type.left = 0
      /\ r \in Result("STAKING_OUTGOING", "REMOVE_STAKE", fields, NoProof)
  BY Zenon DEF ParseStakingOutgoing
<1>2. type \in Cursors /\ Follows(Open(e.senderData), type, 1) /\ Open(e.senderData).left = e.senderData.length
  BY OpenIsCursor, FixedReadsFollow
<1> HIDE DEF type, fields
<1>3. r.label = "REMOVE_STAKE" /\ r.proof = NoProof
  BY <1>1, ResultHas
<1>4. e.senderData.length = 1
  BY <1>1, <1>2 DEF Follows, Pieces
<1> QED BY <1>1, <1>3, <1>4

\* Basic transactions and cashlinks.
LEMMA NormalLengths ==
  ASSUME NEW input, NEW e, e.data \in Pieces, NEW r \in ParseNormal(input, e)
  PROVE  /\ r.label \in {"REGULAR_TRANSACTION", "CASHLINK"} /\ r.proof = NoProof
         /\ e.data.length \in 0..LENGTH_NORMAL_TX_DATA_MAX /\ e.senderData.length = 0
<1>1. /\ ~(e.senderData.length # 0) /\ ~(e.data.length > LENGTH_NORMAL_TX_DATA_MAX)
      /\ \E label \in {"REGULAR_TRANSACTION", "CASHLINK"} : \E fields :
           r \in Result("NORMAL", label, fields, NoProof)
  BY Zenon DEF ParseNormal
<1>2. r.label \in {"REGULAR_TRANSACTION", "CASHLINK"} /\ r.proof = NoProof
  BY <1>1, ResultHas
<1>3. e.data.length \in 0..LENGTH_NORMAL_TX_DATA_MAX
  BY <1>1 DEF Pieces, LENGTH_NORMAL_TX_DATA_MAX
<1> QED BY <1>1, <1>2, <1>3

\* HTLC: two addresses, an algorithm, a hash root of 32 or 64 bytes, a count, a timeout.
LEMMA HtlcLengths ==
  ASSUME NEW v, NEW input, NEW e, e.data \in Pieces, NEW r \in ParseHtlcCreation(v, input, e)
  PROVE  /\ r.label = "HTLC_CREATION" /\ r.proof = NoProof
         /\ e.data.length \in {78, 110}
<1> DEFINE refund == ReadSubBuffer(Open(e.data), ADDRESS_LENGTH)
           redeem == ReadSubBuffer(refund, ADDRESS_LENGTH)
           algorithm == ReadU8(redeem)
           length == HashLength(U8(input, algorithm.out))
           hashRoot == ReadSubBuffer(algorithm, length)
           hashCount == ReadU8(hashRoot)
           timeout == ReadU32(hashCount)
<1>1. /\ timeout.ok /\ timeout.left = 0
      /\ \E fields : r \in Result("HTLC_CREATION", "HTLC_CREATION", fields, NoProof)
  BY Zenon DEF ParseHtlcCreation
<1>2. Open(e.data) \in Cursors /\ Open(e.data).left = e.data.length
  BY OpenIsCursor
<1>3. refund \in Cursors /\ Follows(Open(e.data), refund, ADDRESS_LENGTH)
  BY <1>2, FixedReadsFollow
<1>4. redeem \in Cursors /\ Follows(refund, redeem, ADDRESS_LENGTH)
  <2> HIDE DEF refund
  <2> QED BY <1>3, FixedReadsFollow
<1>5. algorithm \in Cursors /\ Follows(redeem, algorithm, 1)
  <2> HIDE DEF redeem
  <2> QED BY <1>4, FixedReadsFollow
<1>6. length \in {32, 64}
  BY DEF HashLength
<1>7. hashRoot \in Cursors /\ Follows(algorithm, hashRoot, length)
  <2> HIDE DEF algorithm, length
  <2>1. length \in Nat
    BY <1>6
  <2> QED BY <1>5, <2>1, ReadSubBufferAdvances DEF Follows, Advanced
<1>8. hashCount \in Cursors /\ Follows(hashRoot, hashCount, 1)
  <2> HIDE DEF hashRoot
  <2> QED BY <1>7, FixedReadsFollow
<1>9. timeout \in Cursors /\ Follows(hashCount, timeout, 4)
  <2> HIDE DEF hashCount
  <2> QED BY <1>8, FixedReadsFollow
<1> HIDE DEF refund, redeem, algorithm, length, hashRoot, hashCount, timeout
<1>10. hashCount.ok /\ hashRoot.ok /\ algorithm.ok /\ redeem.ok /\ refund.ok
  BY <1>1, <1>4, <1>5, <1>7, <1>8, <1>9 DEF Follows
<1>11. e.data.length \in Nat
  BY DEF Pieces
<1>12. algorithm.left = e.data.length - 41
  BY <1>2, <1>3, <1>4, <1>5, <1>10, <1>11 DEF Follows, ADDRESS_LENGTH
<1>13. 0 = e.data.length - 41 - length - 5
  BY <1>1, <1>6, <1>7, <1>8, <1>9, <1>10, <1>11, <1>12 DEF Follows
<1>14. e.data.length \in {78, 110}
  BY <1>6, <1>11, <1>13
<1> QED BY <1>1, <1>14, ResultHas

\* Vesting: an address, and one, three or four numbers.
LEMMA VestingLengths ==
  ASSUME NEW v, NEW input, NEW e, e.data \in Pieces, NEW r \in ParseVestingCreation(v, input, e)
  PROVE  /\ r.label = "VESTING_CREATION" /\ r.proof = NoProof
         /\ e.data.length \in {24, 36, 44}
<1> DEFINE owner == ReadSubBuffer(Open(e.data), ADDRESS_LENGTH)
           parameters == VestingParameters(owner)
           startBlock == ReadU32(owner)
           stepBlockCount == ReadU32(startBlock)
           stepAmount == ReadU64(stepBlockCount)
<1>1. /\ parameters.ok /\ parameters.left = 0
      /\ \E fields : r \in Result("VESTING_CREATION", "VESTING_CREATION", fields, NoProof)
  BY Zenon DEF ParseVestingCreation
<1>2. Open(e.data) \in Cursors /\ Open(e.data).left = e.data.length
  BY OpenIsCursor
<1>3. owner \in Cursors /\ Follows(Open(e.data), owner, ADDRESS_LENGTH)
  BY <1>2, FixedReadsFollow
<1>4. parameters = IF owner.ok /\ owner.left = 4 THEN startBlock
                   ELSE IF stepAmount.ok /\ stepAmount.left = 8 THEN ReadU64(stepAmount)
                   ELSE stepAmount
  BY Zenon DEF VestingParameters
<1> HIDE DEF owner, parameters
<1>5. startBlock \in Cursors /\ Follows(owner, startBlock, 4)
  BY <1>3, FixedReadsFollow
<1> HIDE DEF startBlock
<1>6. stepBlockCount \in Cursors /\ Follows(startBlock, stepBlockCount, 4)
  BY <1>5, FixedReadsFollow
<1> HIDE DEF stepBlockCount
<1>7. stepAmount \in Cursors /\ Follows(stepBlockCount, stepAmount, 8)
  BY <1>6, FixedReadsFollow
<1> HIDE DEF stepAmount
<1>8. ReadU64(stepAmount) \in Cursors /\ Follows(stepAmount, ReadU64(stepAmount), 8)
  BY <1>7, FixedReadsFollow
<1>9. e.data.length \in Nat
  BY DEF Pieces
<1>10. owner.ok => owner.left = e.data.length - 20
  BY <1>2, <1>3 DEF Follows, ADDRESS_LENGTH
<1>11. stepAmount.ok => owner.ok /\ stepAmount.left = e.data.length - 36
  BY <1>5, <1>6, <1>7, <1>9, <1>10 DEF Follows
<1>12. CASE owner.ok /\ owner.left = 4
  BY <1>9, <1>10, <1>12, <1>1, ResultHas
<1>13. CASE ~(owner.ok /\ owner.left = 4) /\ stepAmount.ok /\ stepAmount.left = 8
  BY <1>9, <1>11, <1>13, <1>1, ResultHas
<1>14. CASE ~(owner.ok /\ owner.left = 4) /\ ~(stepAmount.ok /\ stepAmount.left = 8)
  BY <1>1, <1>4, <1>9, <1>11, <1>14, ResultHas
<1> QED BY <1>12, <1>13, <1>14

\* Incoming staking: what is in front of the proof.
StakingTypeNames ==
  {"CREATE_STAKER", "ADD_STAKE", "UPDATE_STAKER", "SET_ACTIVE_STAKE", "RETIRE_STAKE"}
LengthsBeforeProof(type) ==
  IF type = "CREATE_STAKER" THEN {1, 21}
  ELSE IF type = "UPDATE_STAKER" THEN {2, 22}
  ELSE IF type = "ADD_STAKE" THEN {20}
  ELSE {8}

\* A delegation takes a byte, and twenty more if there is one; UPDATE_STAKER has one byte more.
LEMMA StakerDataLengths ==
  ASSUME NEW input, NEW type \in StakerTypes, NEW c \in Cursors,
         NEW d, d = StakerData(input, type, c).cursor
  PROVE  d \in Cursors /\ \E n \in LengthsBeforeProof(type) : Follows(c, d, n)
<1> DEFINE hasDelegation == ReadU8(c)
           hasIt == hasDelegation.ok /\ Bool(input, hasDelegation.out)
           delegation == IF hasIt THEN ReadSubBuffer(hasDelegation, ADDRESS_LENGTH)
                         ELSE [hasDelegation EXCEPT !.out = Nothing]
           reactivate == IF type = "UPDATE_STAKER" THEN ReadU8(delegation) ELSE delegation
<1>1. \E fields : StakerData(input, type, c) = [cursor |-> reactivate, fields |-> fields]
  BY Zenon DEF StakerData
<1> HIDE DEF reactivate
<1>2. d = reactivate
  BY <1>1
<1>3. hasDelegation \in Cursors /\ Follows(c, hasDelegation, 1)
  BY FixedReadsFollow
<1> HIDE DEF hasDelegation, hasIt
<1>4. /\ delegation \in Cursors
      /\ Follows(c, delegation, 21) \/ Follows(c, delegation, 1)
  <2>1. CASE hasIt
    <3>1. delegation = ReadSubBuffer(hasDelegation, ADDRESS_LENGTH)
      BY <2>1
    <3> HIDE DEF delegation
    <3>2. delegation \in Cursors /\ Follows(hasDelegation, delegation, ADDRESS_LENGTH)
      BY <1>3, <3>1, FixedReadsFollow
    <3>3. Follows(c, delegation, 21)
      BY <1>3, <3>2 DEF Follows, ADDRESS_LENGTH, Cursors
    <3> QED BY <3>2, <3>3
  <2>2. CASE ~hasIt
    <3>1. delegation = [hasDelegation EXCEPT !.out = Nothing]
      BY <2>2
    <3>2. Nothing \in Pieces
      BY DEF Nothing, Piece, Pieces, NULL
    <3> HIDE DEF delegation
    <3>3. /\ delegation \in Cursors /\ delegation.ok = hasDelegation.ok
          /\ delegation.at = hasDelegation.at /\ delegation.left = hasDelegation.left
      BY <1>3, <3>1, <3>2 DEF Cursors
    <3> QED BY <1>3, <3>3 DEF Follows
  <2> QED BY <2>1, <2>2
<1> HIDE DEF delegation
<1>5. CASE type = "UPDATE_STAKER"
  <2>1. reactivate \in Cursors /\ Follows(delegation, reactivate, 1)
    BY <1>4, <1>5, FixedReadsFollow DEF reactivate
  <2>2. Follows(c, reactivate, 22) \/ Follows(c, reactivate, 2)
    BY <1>4, <2>1 DEF Follows, Cursors
  <2> QED BY <1>2, <1>5, <2>1, <2>2 DEF LengthsBeforeProof
<1>6. CASE type = "CREATE_STAKER"
  <2>1. reactivate = delegation
    BY <1>6 DEF reactivate
  <2> QED BY <1>2, <1>4, <1>6, <2>1 DEF LengthsBeforeProof
<1> QED BY <1>5, <1>6 DEF StakerTypes

\* The length of the data in front of the proof, by its type.
LEMMA StakingDataLengths ==
  ASSUME NEW input, NEW type \in StakingTypeNames, NEW c \in Cursors,
         NEW d, d = StakingData(input, type, c).cursor
  PROVE  d \in Cursors /\ \E n \in LengthsBeforeProof(type) : Follows(c, d, n)
<1>1. CASE type \in StakerTypes
  BY <1>1, StakerDataLengths DEF StakingData
<1>2. CASE type \in AmountTypes
  <2> DEFINE amount == ReadU64(c)
  <2>1. StakingData(input, type, c) = AmountData(input, c)
    BY <1>2 DEF StakingData, StakerTypes, AmountTypes
  <2>2. \E fields : \/ AmountData(input, c) = [cursor |-> amount, fields |-> fields]
                   \/ AmountData(input, c) = [cursor |-> Fail(amount), fields |-> fields]
    BY Zenon DEF AmountData
  <2>3. amount \in Cursors /\ Follows(c, amount, 8)
    BY FixedReadsFollow
  <2> HIDE DEF amount
  <2>4. d = amount \/ d = Fail(amount)
    BY <2>1, <2>2
  <2>5. Fail(amount) \in Cursors /\ ~Fail(amount).ok
    BY <2>3 DEF Fail, Cursors
  <2>6. d \in Cursors /\ Follows(c, d, 8)
    BY <2>3, <2>4, <2>5 DEF Follows
  <2> QED BY <1>2, <2>6 DEF LengthsBeforeProof, AmountTypes
<1>3. CASE type = "ADD_STAKE"
  <2>1. StakingData(input, type, c) =
          [cursor |-> ReadSubBuffer(c, ADDRESS_LENGTH), fields |-> NoFields]
    BY <1>3 DEF StakingData, StakerTypes, AmountTypes
  <2>2. d = ReadSubBuffer(c, ADDRESS_LENGTH)
    BY <2>1
  <2>3. d \in Cursors /\ Follows(c, d, 20)
    BY <2>2, FixedReadsFollow DEF ADDRESS_LENGTH
  <2> QED BY <1>3, <2>3 DEF LengthsBeforeProof
<1> QED BY <1>1, <1>2, <1>3 DEF StakingTypeNames, StakerTypes, AmountTypes

\* A proof has 98 bytes: a type, the key, an empty merkle path, and the signature.
LEMMA ProofLengths ==
  ASSUME NEW input, NEW c \in Cursors, NEW p, p = ReadSignatureProof(input, c), p.ok
  PROVE  /\ c.ok /\ c.left >= 98 /\ p.left = c.left - 98
         /\ p.key = Piece(c.at + 1, PUBLIC_KEY_LENGTH)
         /\ p.signature = Piece(c.at + 34, SIGNATURE_LENGTH)
<1> DEFINE typeAndFlags == ReadU8(c)
           key == ReadSubBuffer(typeAndFlags, PUBLIC_KEY_LENGTH)
           merklePathLength == ReadU8(key)
           signature == ReadSubBuffer(merklePathLength, SIGNATURE_LENGTH)
<1>1. \E ok : /\ p = [ok |-> ok, left |-> signature.left, key |-> key.out, signature |-> signature.out]
              /\ ok => signature.ok
  BY Zenon DEF ReadSignatureProof
<1>2. PUBLIC_KEY_LENGTH \in Nat /\ PUBLIC_KEY_LENGTH = 32 /\ SIGNATURE_LENGTH \in Nat /\ SIGNATURE_LENGTH = 64
  BY DEF PUBLIC_KEY_LENGTH, SIGNATURE_LENGTH
<1>3. typeAndFlags \in Cursors /\ (typeAndFlags.ok => Advanced(c, typeAndFlags, 1))
  BY FixedReadsAdvance
<1> HIDE DEF typeAndFlags
<1>4. key \in Cursors /\ (key.ok => Advanced(typeAndFlags, key, PUBLIC_KEY_LENGTH))
  BY <1>2, <1>3, ReadSubBufferAdvances
<1> HIDE DEF key
<1>5. merklePathLength \in Cursors /\ (merklePathLength.ok => Advanced(key, merklePathLength, 1))
  BY <1>4, FixedReadsAdvance
<1> HIDE DEF merklePathLength
<1>6. signature \in Cursors /\ (signature.ok => Advanced(merklePathLength, signature, SIGNATURE_LENGTH))
  BY <1>2, <1>5, ReadSubBufferAdvances
<1> HIDE DEF signature
<1>7. p.ok => signature.ok
  BY <1>1
<1>8. p.left = signature.left /\ p.key = key.out /\ p.signature = signature.out
  BY <1>1
<1>9. /\ Advanced(merklePathLength, signature, 64) /\ Advanced(key, merklePathLength, 1)
      /\ Advanced(typeAndFlags, key, 32) /\ Advanced(c, typeAndFlags, 1)
  BY <1>2, <1>3, <1>4, <1>5, <1>6, <1>7 DEF Advanced
<1>10. c.at \in Nat /\ c.left \in Nat
  BY DEF Cursors
<1>11. /\ key.at = c.at + 33 /\ key.left = c.left - 33 /\ key.out = Piece(c.at + 1, 32)
       /\ c.ok
  BY <1>9, <1>10 DEF Advanced
<1>12. merklePathLength.at = c.at + 34 /\ merklePathLength.left = c.left - 34
  BY <1>9, <1>10, <1>11 DEF Advanced
<1>13. /\ signature.left = c.left - 98 /\ signature.out = Piece(c.at + 34, 64)
       /\ merklePathLength.left >= 64
  BY <1>9, <1>10, <1>12 DEF Advanced
<1> QED BY <1>2, <1>8, <1>10, <1>11, <1>12, <1>13

\* Each type byte of staking data has a name.
LEMMA StakingTypesAreNamed == \A id \in DOMAIN StakingTypes : StakingTypes[id] \in StakingTypeNames
  BY DEF StakingTypes, StakingTypeNames

\* The lengths of the data that were read as r, of a transaction to the staking contract.
AreStakingLengths(e, r) ==
  /\ r.label \in StakingTypeNames
  /\ e.senderData.length = 0
  /\ r.label = "ADD_STAKE" => r.proof = NoProof /\ e.data.length = 21
  /\ r.label # "ADD_STAKE" =>
       \E n \in LengthsBeforeProof(r.label) :
         /\ e.data.length = n + 99
         /\ r.proof = [key |-> Piece(e.data.at + n + 2, PUBLIC_KEY_LENGTH),
                       signature |-> Piece(e.data.at + n + 35, SIGNATURE_LENGTH)]

\* Incoming staking: a type, the data of the type, and the proof, if it has one, at the end.
LEMMA StakingIncomingLengths ==
  ASSUME NEW v, NEW input, NEW e, e.data \in Pieces, NEW r \in ParseStakingIncoming(v, input, e)
  PROVE  AreStakingLengths(e, r)
<1> DEFINE start == Open(e.data)
           typeId == ReadU8(start)
           type == StakingTypes[U8(input, typeId.out)]
           data == StakingData(input, type, typeId).cursor
           proof == ReadProof(input, type, data)
<1>1. /\ e.senderData.length = 0
      /\ typeId.ok /\ U8(input, typeId.out) \in DOMAIN StakingTypes
      /\ data.ok /\ proof.ok /\ proof.left = 0
      /\ \E fields : r \in Result("STAKING_INCOMING", type, fields,
                                  [key |-> proof.key, signature |-> proof.signature])
  BY Zenon DEF ParseStakingIncoming
<1>2. type \in StakingTypeNames
  BY <1>1, StakingTypesAreNamed
<1>3. start \in Cursors /\ start.ok /\ start.at = e.data.at /\ start.left = e.data.length
  BY OpenIsCursor
<1> HIDE DEF start
<1>4. typeId \in Cursors /\ Follows(start, typeId, 1)
  BY <1>3, FixedReadsFollow
<1> HIDE DEF typeId, type
<1>5. data \in Cursors /\ \E n \in LengthsBeforeProof(type) : Follows(typeId, data, n)
  BY <1>2, <1>4, StakingDataLengths
<1> HIDE DEF data
<1>6. r.label = type /\ r.proof = [key |-> proof.key, signature |-> proof.signature]
  BY <1>1, ResultHas
<1>7. PICK n \in LengthsBeforeProof(type) : Follows(typeId, data, n)
  BY <1>5
<1>8. n \in Nat
  BY <1>7 DEF LengthsBeforeProof
<1>9. e.data.at \in Nat /\ e.data.length \in Nat
  BY DEF Pieces
<1>10. data.at = e.data.at + n + 1 /\ data.left = e.data.length - n - 1
  <2>1. typeId.at = e.data.at + 1 /\ typeId.left = e.data.length - 1
    BY <1>1, <1>3, <1>4 DEF Follows
  <2> QED BY <1>1, <1>7, <1>8, <1>9, <2>1 DEF Follows
<1>11. CASE type = "ADD_STAKE"
  <2>1. proof = [ok |-> data.ok, left |-> data.left, key |-> Nothing, signature |-> Nothing]
    BY <1>11 DEF ReadProof
  <2> HIDE DEF proof
  <2>2. data.left = 0 /\ proof.key = Nothing /\ proof.signature = Nothing
    BY <1>1, <2>1
  <2>3. n = 20
    BY <1>7, <1>11 DEF LengthsBeforeProof
  <2>4. e.data.length = 21
    BY <1>9, <1>10, <2>2, <2>3
  <2> QED BY <1>1, <1>2, <1>6, <1>11, <2>2, <2>4 DEF NoProof, AreStakingLengths
<1>12. CASE type # "ADD_STAKE"
  <2>1. proof = ReadSignatureProof(input, data)
    BY <1>12 DEF ReadProof
  <2> HIDE DEF proof
  <2>2. /\ proof.left = data.left - 98
        /\ proof.key = Piece(data.at + 1, PUBLIC_KEY_LENGTH)
        /\ proof.signature = Piece(data.at + 34, SIGNATURE_LENGTH)
    <3>1. proof.ok
      BY <1>1
    <3>2. data \in Cursors
      BY <1>5
    <3> QED BY <2>1, <3>1, <3>2, ProofLengths
  <2>3. e.data.length = n + 99
    BY <1>1, <1>8, <1>9, <1>10, <2>2
  <2>4. data.at + 1 = e.data.at + n + 2 /\ data.at + 34 = e.data.at + n + 35
    BY <1>8, <1>9, <1>10
  <2>5. r.proof = [key |-> Piece(e.data.at + n + 2, PUBLIC_KEY_LENGTH),
                   signature |-> Piece(e.data.at + n + 35, SIGNATURE_LENGTH)]
    BY <1>6, <2>2, <2>4
  <2> QED BY <1>1, <1>2, <1>6, <1>7, <1>12, <2>3, <2>5 DEF AreStakingLengths
<1> QED BY <1>11, <1>12

-----------------------------------------------------------------------------
(* Accepted transactions *)

\* What parse_tx accepts is as long as its type says, and a proof is at the end of the
\* recipient data.
ProofIsAtEnd(data, proof) ==
  \E n \in Nat :
    /\ data.length = n + 99
    /\ proof = [key |-> Piece(data.at + n + 2, PUBLIC_KEY_LENGTH),
                signature |-> Piece(data.at + n + 35, SIGNATURE_LENGTH)]

\* What parse_tx accepts is as long as its label says, and its proof, if any, ends its data.
LEMMA AcceptedLengths ==
  ASSUME NEW v \in {"LEGACY", "ALBATROSS"}, NEW input \in Seq(BYTE),
         NEW e, e = Envelope(v, input), NEW r \in ParseTx(v, input)
  PROVE  /\ IsComplete(e)
         /\ Len(input) - EnvelopeLength(v) \in DataLengths(r.label)
         /\ r.proof # NoProof => ProofIsAtEnd(e.data, r.proof)
<1>1. /\ IsComplete(e)
      /\ \/ r \in ParseStakingOutgoing(v, input, e)
         \/ r \in ParseNormal(input, e)
         \/ e.senderData.length = 0 /\ r \in ParseVestingCreation(v, input, e)
         \/ e.senderData.length = 0 /\ r \in ParseHtlcCreation(v, input, e)
         \/ r \in ParseStakingIncoming(v, input, e)
  <2>1. /\ HasValidEnvelope(v, input, e)
        /\ \/ r \in ParseStakingOutgoing(v, input, e)
           \/ r \in ParseNormal(input, e)
           \/ r \in ParseContractCreation(v, input, e)
           \/ r \in ParseStakingIncoming(v, input, e)
    BY Zenon DEF ParseTx
  <2>2. ASSUME r \in ParseContractCreation(v, input, e)
        PROVE  /\ e.senderData.length = 0
               /\ \/ r \in ParseVestingCreation(v, input, e)
                  \/ r \in ParseHtlcCreation(v, input, e)
    BY <2>2, Zenon DEF ParseContractCreation
  <2>3. IsComplete(e)
    BY <2>1 DEF HasValidEnvelope
  <2> QED BY <2>1, <2>2, <2>3
<1>2. /\ e.data \in Pieces /\ e.senderData \in Pieces
      /\ Len(input) = EnvelopeLength(v) + e.data.length + e.senderData.length
  BY <1>1, EnvelopeLengths
<1>3. EnvelopeLength(v) \in Nat
  BY DEF EnvelopeLength
<1>4. e.data.length \in Nat /\ e.senderData.length \in Nat
  BY <1>2 DEF Pieces
<1>5. Len(input) - EnvelopeLength(v) = e.data.length + e.senderData.length
  BY <1>2, <1>3, <1>4
<1>6. CASE r \in ParseStakingOutgoing(v, input, e)
  <2>1. /\ r.label = "REMOVE_STAKE" /\ r.proof = NoProof
        /\ e.data.length = 0 /\ e.senderData.length = 1
    BY <1>2, <1>6, StakingOutgoingLengths
  <2>2. Len(input) - EnvelopeLength(v) = 1
    BY <1>5, <2>1
  <2> QED BY <1>1, <2>1, <2>2 DEF DataLengths
<1>7. CASE r \in ParseNormal(input, e)
  <2>1. /\ r.label \in {"REGULAR_TRANSACTION", "CASHLINK"} /\ r.proof = NoProof
        /\ e.data.length \in 0..LENGTH_NORMAL_TX_DATA_MAX /\ e.senderData.length = 0
    BY <1>2, <1>7, NormalLengths
  <2>2. Len(input) - EnvelopeLength(v) = e.data.length
    BY <1>4, <1>5, <2>1
  <2> QED BY <1>1, <2>1, <2>2 DEF DataLengths
<1>8. CASE e.senderData.length = 0 /\ r \in ParseVestingCreation(v, input, e)
  <2>1. r.label = "VESTING_CREATION" /\ r.proof = NoProof /\ e.data.length \in {24, 36, 44}
    BY <1>2, <1>8, VestingLengths
  <2>2. Len(input) - EnvelopeLength(v) = e.data.length
    BY <1>4, <1>5, <1>8
  <2> QED BY <1>1, <2>1, <2>2 DEF DataLengths
<1>9. CASE e.senderData.length = 0 /\ r \in ParseHtlcCreation(v, input, e)
  <2>1. r.label = "HTLC_CREATION" /\ r.proof = NoProof /\ e.data.length \in {78, 110}
    BY <1>2, <1>9, HtlcLengths
  <2>2. Len(input) - EnvelopeLength(v) = e.data.length
    BY <1>4, <1>5, <1>9
  <2> QED BY <1>1, <2>1, <2>2 DEF DataLengths
<1>10. CASE r \in ParseStakingIncoming(v, input, e)
  <2>1. AreStakingLengths(e, r)
    <3>1. e.data \in Pieces
      BY <1>2
    <3> QED BY <3>1, <1>10, StakingIncomingLengths
  <2>2. Len(input) - EnvelopeLength(v) = e.data.length
    BY <1>4, <1>5, <2>1 DEF AreStakingLengths
  <2>3. CASE r.label = "ADD_STAKE"
    BY <1>1, <2>1, <2>2, <2>3 DEF DataLengths, AreStakingLengths
  <2>4. CASE r.label # "ADD_STAKE"
    <3>1. PICK n \in LengthsBeforeProof(r.label) :
            /\ e.data.length = n + 99
            /\ r.proof = [key |-> Piece(e.data.at + n + 2, PUBLIC_KEY_LENGTH),
                          signature |-> Piece(e.data.at + n + 35, SIGNATURE_LENGTH)]
      BY <2>1, <2>4, Zenon DEF AreStakingLengths
    <3>2. n \in Nat
      BY <3>1 DEF LengthsBeforeProof
    <3>3. e.data.length \in DataLengths(r.label)
      BY <2>1, <2>4, <3>1 DEF LengthsBeforeProof, DataLengths, StakingTypeNames, AreStakingLengths
    <3> QED BY <1>1, <2>2, <3>1, <3>2, <3>3 DEF ProofIsAtEnd
  <2> QED BY <2>3, <2>4
<1> QED BY <1>1, <1>6, <1>7, <1>8, <1>9, <1>10

\* An accepted transaction ends where its proof does, or behind it.
ProofEndsData(v, input, proof) ==
  \E n \in Nat, at \in Nat :
    /\ Envelope(v, input).data = Piece(at, n + 99)
    /\ proof = [key |-> Piece(at + n + 2, PUBLIC_KEY_LENGTH),
                signature |-> Piece(at + n + 35, SIGNATURE_LENGTH)]
    /\ at + n + 99 <= Len(input)

LEMMA ProofIsInTransaction ==
  ASSUME NEW v \in {"LEGACY", "ALBATROSS"}, NEW input \in Seq(BYTE),
         NEW r \in ParseTx(v, input), r.proof # NoProof
  PROVE  ProofEndsData(v, input, r.proof)
<1> DEFINE e == Envelope(v, input)
<1>1. IsComplete(e) /\ ProofIsAtEnd(e.data, r.proof)
  BY AcceptedLengths
<1>2. /\ e.data \in Pieces /\ e.data.at = IF e.data.length = 0 THEN NULL ELSE 3
      /\ e.senderData \in Pieces
      /\ Len(input) = EnvelopeLength(v) + e.data.length + e.senderData.length
  BY <1>1, EnvelopeLengths
<1> HIDE DEF e
<1>3. PICK n \in Nat :
        /\ e.data.length = n + 99
        /\ r.proof = [key |-> Piece(e.data.at + n + 2, PUBLIC_KEY_LENGTH),
                      signature |-> Piece(e.data.at + n + 35, SIGNATURE_LENGTH)]
  BY <1>1 DEF ProofIsAtEnd
<1>4. EnvelopeLength(v) \in Nat /\ EnvelopeLength(v) >= 66
  BY DEF EnvelopeLength
<1>5. e.data = Piece(e.data.at, n + 99) /\ e.senderData.length \in Nat
  BY <1>2, <1>3 DEF Pieces, Piece
<1>6. e.data.at = 3
  BY <1>2, <1>3
<1>7. e.data.at + n + 99 <= Len(input)
  BY <1>2, <1>3, <1>4, <1>5, <1>6
<1>8. e.data.at \in Nat
  BY <1>6
<1> QED BY <1>3, <1>5, <1>7, <1>8 DEF ProofEndsData, e

-----------------------------------------------------------------------------
(* Writing the proof *)

\* The positions of a piece.
Positions(piece) == piece.at..(piece.at + piece.length - 1)

\* Overwriting a piece with as many bytes as it is long leaves bytes, of the same number.
LEMMA OverwriteIsBytes ==
  ASSUME NEW input \in Seq(BYTE), NEW piece \in Pieces, NEW bytes,
         piece.length # 0 => bytes \in [1..piece.length -> BYTE]
  PROVE  /\ Overwrite(input, piece, bytes) \in Seq(BYTE)
         /\ Len(Overwrite(input, piece, bytes)) = Len(input)
<1> DEFINE f == Overwrite(input, piece, bytes)
<1>1. piece.at \in Nat /\ piece.length \in Nat
  BY DEF Pieces
<1>2. ASSUME NEW i \in 1..Len(input) PROVE f[i] \in BYTE
  <2>1. CASE i \in Positions(piece)
    <3>1. i - piece.at + 1 \in 1..piece.length /\ piece.length # 0
      BY <1>1, <2>1 DEF Positions
    <3>2. bytes[i - piece.at + 1] \in BYTE
      BY <3>1
    <3> QED BY <2>1, <3>2 DEF Overwrite, Positions
  <2>2. CASE i \notin Positions(piece)
    BY <2>2 DEF Overwrite, Positions
  <2> QED BY <2>1, <2>2
<1>3. f = [i \in 1..Len(input) |-> f[i]]
  BY DEF Overwrite
<1> HIDE DEF f
<1>4. Len(input) \in Nat
  OBVIOUS
<1>5. f \in Seq(BYTE) /\ Len(f) = Len(input)
  BY <1>2, <1>3, <1>4
<1> QED BY <1>5 DEF f

-----------------------------------------------------------------------------
(* Recursion *)

\* A function that is defined step by step.
Recurs(f, S, n, x, step) ==
  f \in [0..n -> S] /\ f[0] = x /\ \A k \in 1..n : f[k] = step[k][f[k - 1]]

\* There is one.
LEMMA Recursion ==
  ASSUME NEW S, NEW n \in Nat, NEW x \in S, NEW step \in [1..n -> [S -> S]]
  PROVE  \E f : Recurs(f, S, n, x, step)
<1> DEFINE IsUpTo(f, m) ==
             f \in [0..m -> S] /\ f[0] = x /\ \A k \in 1..m : f[k] = step[k][f[k - 1]]
           M == {m \in 0..n : \E f : IsUpTo(f, m)}
<1>1. 0 \in M
  <2> DEFINE f == [k \in 0..0 |-> x]
  <2>1. IsUpTo(f, 0) /\ 0 \in 0..n
    OBVIOUS
  <2> HIDE DEF f, IsUpTo
  <2> QED BY <2>1
<1>2. ASSUME NEW m \in 0..(n - 1), m \in M PROVE m + 1 \in M
  <2>1. PICK f : IsUpTo(f, m)
    BY <1>2
  <2> DEFINE next == step[m + 1][f[m]]
             g == [k \in 0..(m + 1) |-> IF k = m + 1 THEN next ELSE f[k]]
  <2>2. next \in S
    <3>1. f[m] \in S /\ step[m + 1] \in [S -> S]
      BY <2>1
    <3> QED BY <3>1
  <2> HIDE DEF next
  <2>3. g \in [0..(m + 1) -> S] /\ g[0] = x
    BY <2>1, <2>2
  <2>4. ASSUME NEW k \in 1..(m + 1) PROVE g[k] = step[k][g[k - 1]]
    <3>1. CASE k = m + 1
      <4>1. g[k] = next /\ g[k - 1] = f[m]
        BY <3>1
      <4> QED BY <3>1, <4>1 DEF next
    <3>2. CASE k # m + 1
      <4>1. k \in 1..m /\ k - 1 # m + 1 /\ k - 1 \in 0..(m + 1)
        BY <3>2
      <4>2. g[k] = f[k] /\ g[k - 1] = f[k - 1]
        BY <3>2, <4>1
      <4> QED BY <2>1, <4>1, <4>2
    <3> QED BY <3>1, <3>2
  <2> HIDE DEF g
  <2>5. IsUpTo(g, m + 1)
    BY <2>3, <2>4
  <2>6. m + 1 \in 0..n
    OBVIOUS
  <2> QED BY <2>5, <2>6
<1>3. 0..n \subseteq M
  <2> HIDE DEF M
  <2> QED BY <1>1, <1>2, UpTo
<1>4. n \in M
  BY <1>3
<1> QED BY <1>4 DEF Recurs

-----------------------------------------------------------------------------
(* Dividing by ten and multiplying by ten *)

\* The remainders of a long division.
AreRemainders(r, b, q) ==
  /\ r \in [0..Len(b) -> 0..9] /\ r[0] = 0
  /\ \A i \in 1..Len(b) : q[i] * 10 + r[i] = r[i - 1] * 256 + b[i]

IsDivision(f, b) ==
  f = [i \in 0..Len(b) |->
        IF i = 0 THEN [quotient |-> <<>>, remainder |-> 0]
        ELSE LET before == f[i - 1]
                 dividend == before.remainder * 256 + b[i]
             IN [quotient |-> Append(before.quotient, dividend \div 10),
                 remainder |-> dividend % 10]]

\* A step of idiv10 on a byte keeps the quotient a byte and the remainder a digit.
LEMMA DigitOfQuotient ==
  ASSUME NEW r \in 0..9, NEW b \in BYTE
  PROVE  /\ (r * 256 + b) \div 10 \in BYTE /\ (r * 256 + b) % 10 \in 0..9
         /\ ((r * 256 + b) \div 10) * 10 + ((r * 256 + b) % 10) = r * 256 + b
<1> DEFINE a == r * 256 + b
<1>1. a \in 0..2559
  BY DEF BYTE, BYTE_SIZE
<1> HIDE DEF a
<1>2. a \div 10 \in Int /\ a % 10 \in 0..9 /\ (a \div 10) * 10 + (a % 10) = a
  <2>1. a \div 10 \in Int
    BY <1>1
  <2>2. a % 10 \in 0..9
    BY <1>1
  <2>3. (a \div 10) * 10 + (a % 10) = a
    BY <1>1
  <2> QED BY <2>1, <2>2, <2>3
<1>3. a \div 10 \in 0..255
  BY <1>1, <1>2
<1> QED BY <1>2, <1>3 DEF a, BYTE, BYTE_SIZE

\* The recursive function of idiv10 is one.
LEMMA DivisionExists ==
  ASSUME NEW b \in Seq(BYTE)
  PROVE  \E f : IsDivision(f, b)
<1> DEFINE S == [quotient : Seq(BYTE), remainder : 0..9]
           n == Len(b)
           Step(k, s) == [quotient |-> Append(s.quotient, (s.remainder * 256 + b[k]) \div 10),
                          remainder |-> (s.remainder * 256 + b[k]) % 10]
           step == [k \in 1..n |-> [s \in S |-> Step(k, s)]]
           x == [quotient |-> <<>>, remainder |-> 0]
<1>1. \A k \in 1..n : \A s \in S : Step(k, s) \in S
  <2> TAKE k \in 1..n
  <2> TAKE s \in S
  <2>1. s.remainder \in 0..9 /\ b[k] \in BYTE /\ s.quotient \in Seq(BYTE)
    OBVIOUS
  <2> DEFINE dividend == s.remainder * 256 + b[k]
  <2>2. dividend \div 10 \in BYTE /\ dividend % 10 \in 0..9
    BY <2>1, DigitOfQuotient
  <2> HIDE DEF dividend
  <2>3. [quotient |-> Append(s.quotient, dividend \div 10), remainder |-> dividend % 10] \in S
    BY <2>1, <2>2
  <2> QED BY <2>3 DEF dividend
<1> HIDE DEF Step
<1>2. x \in S /\ n \in Nat /\ step \in [1..n -> [S -> S]]
  BY <1>1
<1> HIDE DEF S, x, n, step
<1>pick. PICK f : Recurs(f, S, n, x, step)
  BY <1>2, Recursion
<1>3. f \in [0..n -> S] /\ f[0] = x /\ \A k \in 1..n : f[k] = step[k][f[k - 1]]
  BY <1>pick DEF Recurs
<1>4. ASSUME NEW k \in 0..n
      PROVE  f[k] = IF k = 0 THEN x ELSE Step(k, f[k - 1])
  <2>1. CASE k = 0
    BY <1>3, <2>1
  <2>2. CASE k # 0
    <3>1. k \in 1..n /\ k - 1 \in 0..n
      BY <1>2, <2>2
    <3>2. f[k] = step[k][f[k - 1]] /\ f[k - 1] \in S
      BY <1>3, <3>1
    <3> QED BY <2>2, <3>1, <3>2 DEF step
  <2> QED BY <2>1, <2>2
<1>5. f = [k \in 0..n |-> IF k = 0 THEN x ELSE Step(k, f[k - 1])]
  BY <1>3, <1>4
<1>6. IsDivision(f, b)
  BY <1>5, Zenon DEF IsDivision, Step, x, n
<1> QED BY <1>6

\* Long division by ten.
LEMMA DividesBy10 ==
  ASSUME NEW b \in Seq(BYTE)
  PROVE  LET d == DividedBy10(b) IN
         /\ d.quotient \in Seq(BYTE) /\ Len(d.quotient) = Len(b)
         /\ \E r : AreRemainders(r, b, d.quotient) /\ d.remainder = r[Len(b)]
<1> DEFINE f == CHOOSE g : IsDivision(g, b)
           n == Len(b)
           Fits(i) ==
             /\ f[i].quotient \in Seq(BYTE) /\ Len(f[i].quotient) = i /\ f[i].remainder \in 0..9
             /\ \A j \in 1..i : f[i].quotient[j] * 10 + f[j].remainder
                                  = f[j - 1].remainder * 256 + b[j]
           K == {i \in 0..n : Fits(i)}
<1>1. IsDivision(f, b) /\ DividedBy10(b) = f[n]
  <2>1. IsDivision(f, b)
    BY DivisionExists
  <2>2. DividedBy10(b) = f[n]
    BY Zenon DEF DividedBy10, IsDivision
  <2> QED BY <2>1, <2>2
<1> HIDE DEF f
<1>2. n \in Nat /\ \A i \in 1..n : b[i] \in BYTE
  OBVIOUS
<1>3. /\ f[0] = [quotient |-> <<>>, remainder |-> 0]
      /\ \A i \in 1..n :
           f[i] = [quotient |-> Append(f[i - 1].quotient,
                                       (f[i - 1].remainder * 256 + b[i]) \div 10),
                   remainder |-> (f[i - 1].remainder * 256 + b[i]) % 10]
  <2> DEFINE x == [quotient |-> <<>>, remainder |-> 0]
             Step(i, s) == [quotient |-> Append(s.quotient, (s.remainder * 256 + b[i]) \div 10),
                            remainder |-> (s.remainder * 256 + b[i]) % 10]
  <2>1. f = [i \in 0..n |-> IF i = 0 THEN x ELSE Step(i, f[i - 1])]
    BY <1>1, Zenon DEF IsDivision
  <2> HIDE DEF x, Step, n
  <2>2. 0 \in 0..n /\ \A i \in 1..n : i \in 0..n /\ i # 0
    BY <1>2
  <2>3. f[0] = x /\ \A i \in 1..n : f[i] = Step(i, f[i - 1])
    BY <2>1, <2>2
  <2> QED BY <2>3, Zenon DEF x, Step
<1>4. 0 \in K
  <2>1. f[0].quotient = <<>> /\ f[0].remainder = 0
    BY <1>3
  <2>2. Fits(0)
    BY <2>1
  <2> QED BY <1>2, <2>2
<1>5. ASSUME NEW i \in 0..(n - 1), i \in K PROVE i + 1 \in K
  <2> DEFINE r == f[i].remainder
             q == f[i].quotient
             digit == (r * 256 + b[i + 1]) \div 10
             rest == (r * 256 + b[i + 1]) % 10
  <2>1. i + 1 \in 1..n /\ (i + 1) - 1 = i /\ i + 1 \in 0..n
    BY <1>2
  <2>2. f[i + 1] = [quotient |-> Append(q, digit), remainder |-> rest]
    BY <1>3, <2>1
  <2>3. r \in 0..9 /\ q \in Seq(BYTE) /\ Len(q) = i
    BY <1>5
  <2>4. b[i + 1] \in BYTE
    BY <1>2, <2>1
  <2>5. digit \in BYTE /\ rest \in 0..9 /\ digit * 10 + rest = r * 256 + b[i + 1]
    <3> DEFINE c == b[i + 1]
    <3>1. r \in 0..9 /\ c \in BYTE
      BY <2>3, <2>4
    <3> HIDE DEF r, c
    <3>2. /\ (r * 256 + c) \div 10 \in BYTE /\ (r * 256 + c) % 10 \in 0..9
          /\ ((r * 256 + c) \div 10) * 10 + ((r * 256 + c) % 10) = r * 256 + c
      BY <3>1, DigitOfQuotient
    <3> QED BY <3>2, Zenon DEF c
  <2>old. \A j \in 1..i : q[j] * 10 + f[j].remainder = f[j - 1].remainder * 256 + b[j]
    BY <1>5
  <2>same. r = f[i].remainder
    OBVIOUS
  <2> HIDE DEF digit, rest, q, r
  <2>6. /\ Append(q, digit) \in Seq(BYTE) /\ Len(Append(q, digit)) = i + 1
        /\ Append(q, digit)[i + 1] = digit /\ \A j \in 1..i : Append(q, digit)[j] = q[j]
    BY <2>3, <2>5
  <2> DEFINE longer == Append(q, digit)
  <2>7. f[i + 1].quotient = longer /\ f[i + 1].remainder = rest
    BY <2>2
  <2>len. longer \in Seq(BYTE) /\ Len(longer) = i + 1 /\ longer[i + 1] = digit
          /\ \A j \in 1..i : longer[j] = q[j]
    BY <2>6
  <2> HIDE DEF longer
  <2>8. ASSUME NEW j \in 1..(i + 1)
        PROVE  longer[j] * 10 + f[j].remainder = f[j - 1].remainder * 256 + b[j]
    <3>1. CASE j = i + 1
      <4>1. f[j - 1].remainder = r /\ f[j].remainder = rest /\ longer[j] = digit
        BY <2>1, <2>7, <2>same, <2>len, <3>1
      <4> QED BY <2>5, <3>1, <4>1
    <3>2. CASE j # i + 1
      <4>1. j \in 1..i
        BY <3>2
      <4>2. longer[j] = q[j]
        BY <2>len, <4>1
      <4> QED BY <2>old, <4>1, <4>2
    <3> QED BY <3>1, <3>2
  <2>9. Fits(i + 1)
    BY <2>5, <2>7, <2>8, <2>len
  <2> QED BY <2>1, <2>9
<1>6. n \in K
  <2> HIDE DEF K
  <2>1. 0..n \subseteq K
    BY <1>2, <1>4, <1>5, UpTo
  <2> QED BY <1>2, <2>1
<1> DEFINE r == [i \in 0..n |-> f[i].remainder]
<1>7. \A i \in 0..n : f[i].remainder \in 0..9
  <2>1. 0..n \subseteq K
    <3> HIDE DEF K
    <3> QED BY <1>2, <1>4, <1>5, UpTo
  <2> QED BY <2>1
<1>8. AreRemainders(r, b, f[n].quotient)
  <2>1. r \in [0..n -> 0..9] /\ r[0] = 0 /\ \A i \in 0..n : r[i] = f[i].remainder
    BY <1>2, <1>3, <1>7
  <2>2. \A j \in 1..n : f[n].quotient[j] * 10 + f[j].remainder = f[j - 1].remainder * 256 + b[j]
    BY <1>6
  <2>3. \A j \in 1..n : j \in 0..n /\ j - 1 \in 0..n
    BY <1>2
  <2> HIDE DEF r
  <2>4. \A j \in 1..n : f[n].quotient[j] * 10 + r[j] = r[j - 1] * 256 + b[j]
    BY <2>1, <2>2, <2>3
  <2> QED BY <2>1, <2>4 DEF AreRemainders
<1>9. f[n].remainder = r[n]
  BY <1>2
<1> HIDE DEF r, n
<1> QED BY <1>1, <1>6, <1>8, <1>9 DEF n

\* The function that Times10Plus computes, and one step of it.
Multiplied(q, i, before) ==
  [bytes |-> <<(q[Len(q) + 1 - i] * 10 + before.carry) % 256>> \o before.bytes,
   carry |-> (q[Len(q) + 1 - i] * 10 + before.carry) \div 256]

IsProduct(f, q, digit) ==
  f = [i \in 0..Len(q) |-> IF i = 0 THEN [bytes |-> <<>>, carry |-> digit]
                           ELSE Multiplied(q, i, f[i - 1])]

\* A byte above a carry.
LEMMA DigitOfProduct ==
  ASSUME NEW r \in 0..9, NEW b \in BYTE
  PROVE  (r * 256 + b) % 256 = b /\ (r * 256 + b) \div 256 = r
<1>1. (r * 256 + b) % 256 = b
  BY DEF BYTE, BYTE_SIZE
<1>2. (r * 256 + b) \div 256 = r
  BY DEF BYTE, BYTE_SIZE
<1> QED BY <1>1, <1>2

\* One sequence behind another.
LEMMA Concatenation ==
  ASSUME NEW S, NEW h \in Seq(S), NEW d \in Seq(S)
  PROVE  /\ h \o d \in Seq(S) /\ Len(h \o d) = Len(h) + Len(d)
         /\ \A i \in 1..Len(h) : (h \o d)[i] = h[i]
         /\ \A i \in 1..Len(d) : (h \o d)[Len(h) + i] = d[i]
<1>1. h \o d \in Seq(S) /\ Len(h \o d) = Len(h) + Len(d)
  OBVIOUS
<1>2. \A i \in 1..Len(h) : (h \o d)[i] = h[i]
  OBVIOUS
<1>3. \A i \in 1..Len(d) : (h \o d)[Len(h) + i] = d[i]
  OBVIOUS
<1> QED BY <1>1, <1>2, <1>3

\* One byte more, in front of the last ones.
LEMMA OneByteMore ==
  ASSUME NEW b \in Seq(BYTE), NEW m \in 1..Len(b)
  PROVE  <<b[m]>> \o SubSeq(b, m + 1, Len(b)) = SubSeq(b, m, Len(b))
<1> DEFINE rest == SubSeq(b, m + 1, Len(b))
           whole == SubSeq(b, m, Len(b))
           n == Len(b) - m + 1
<1>1. n \in Nat /\ n >= 1 /\ m \in Nat /\ Len(b) \in Nat
  OBVIOUS
<1>2. rest \in Seq(BYTE) /\ Len(rest) = n - 1 /\ \A i \in 1..(n - 1) : rest[i] = b[i + m]
  OBVIOUS
<1>3. whole \in Seq(BYTE) /\ Len(whole) = n /\ \A i \in 1..n : whole[i] = b[i + m - 1]
  OBVIOUS
<1>4. b[m] \in BYTE
  OBVIOUS
<1> HIDE DEF rest, whole, n
<1> DEFINE first == <<b[m]>>
           both == first \o rest
<1>5. first \in Seq(BYTE) /\ Len(first) = 1 /\ first[1] = b[m]
  BY <1>4
<1> HIDE DEF first
<1>6. /\ both \in Seq(BYTE) /\ Len(both) = n /\ both[1] = b[m]
      /\ \A i \in 1..(n - 1) : both[1 + i] = rest[i]
  <2>1. first \in Seq(BYTE) /\ rest \in Seq(BYTE)
    BY <1>2, <1>5
  <2>2. /\ both \in Seq(BYTE) /\ Len(both) = Len(first) + Len(rest)
        /\ \A i \in 1..Len(first) : both[i] = first[i]
        /\ \A i \in 1..Len(rest) : both[Len(first) + i] = rest[i]
    BY <2>1, Concatenation
  <2> HIDE DEF both
  <2> QED BY <1>1, <1>2, <1>5, <2>2
<1> HIDE DEF both
<1>7. \A i \in 1..n : both[i] = whole[i]
  <2> TAKE i \in 1..n
  <2>1. CASE i = 1
    BY <1>1, <1>3, <1>6, <2>1
  <2>2. CASE i # 1
    <3>1. i - 1 \in 1..(n - 1) /\ 1 + (i - 1) = i /\ (i - 1) + m = i + m - 1
      BY <1>1, <2>2
    <3> QED BY <1>2, <1>3, <1>6, <3>1
  <2> QED BY <2>1, <2>2
<1>8. both = whole
  BY <1>3, <1>6, <1>7
<1> QED BY <1>8 DEF both, first, rest, whole

\* Multiplying a quotient and adding the remainder undoes a division.
LEMMA UndoesDivision ==
  ASSUME NEW b \in Seq(BYTE), NEW q \in Seq(BYTE), Len(q) = Len(b),
         NEW r, AreRemainders(r, b, q)
  PROVE  Times10Plus(q, r[Len(b)]) = b
<1> DEFINE n == Len(b)
           digit == r[n]
           f == [i \in 0..n |-> [bytes |-> SubSeq(b, n - i + 1, n), carry |-> r[n - i]]]
           g == CHOOSE h : IsProduct(h, q, digit)
           x == [bytes |-> <<>>, carry |-> digit]
           Step(i, s) == Multiplied(q, i, s)
<1>1. n \in Nat /\ Len(q) = n /\ \A i \in 1..n : b[i] \in BYTE /\ q[i] \in BYTE
  OBVIOUS
<1>2. /\ r \in [0..n -> 0..9] /\ r[0] = 0
      /\ \A i \in 1..n : q[i] * 10 + r[i] = r[i - 1] * 256 + b[i]
  BY DEF AreRemainders
<1>3. ASSUME NEW i, NEW s
      PROVE  Step(i, s) = [bytes |-> <<(q[n + 1 - i] * 10 + s.carry) % 256>> \o s.bytes,
                           carry |-> (q[n + 1 - i] * 10 + s.carry) \div 256]
  BY Zenon DEF Multiplied
<1>4. ASSUME NEW i \in 1..n PROVE f[i] = Step(i, f[i - 1])
  <2> DEFINE m == n + 1 - i
             rest == SubSeq(b, m + 1, n)
  <2>1. /\ m \in 1..n /\ i \in 0..n /\ i - 1 \in 0..n
        /\ n - i + 1 = m /\ n - (i - 1) + 1 = m + 1 /\ n - i = m - 1 /\ n - (i - 1) = m
    BY <1>1
  <2>2. f[i] = [bytes |-> SubSeq(b, m, n), carry |-> r[m - 1]]
    BY <2>1
  <2>3. f[i - 1] = [bytes |-> rest, carry |-> r[m]]
    BY <2>1
  <2>4. q[m] * 10 + r[m] = r[m - 1] * 256 + b[m]
    BY <1>2, <2>1
  <2>5. r[m - 1] \in 0..9 /\ b[m] \in BYTE
    <3>1. m - 1 \in 0..n
      BY <1>1, <2>1
    <3> HIDE DEF m
    <3> QED BY <1>1, <1>2, <2>1, <3>1
  <2>6. (q[m] * 10 + r[m]) % 256 = b[m] /\ (q[m] * 10 + r[m]) \div 256 = r[m - 1]
    <3> DEFINE upper == r[m - 1]
               lower == b[m]
    <3>1. upper \in 0..9 /\ lower \in BYTE /\ q[m] * 10 + r[m] = upper * 256 + lower
      BY <2>4, <2>5
    <3> HIDE DEF upper, lower, m
    <3>2. (upper * 256 + lower) % 256 = lower /\ (upper * 256 + lower) \div 256 = upper
      <4> HIDE DEF n
      <4> QED BY <3>1, DigitOfProduct
    <3> QED BY <3>1, <3>2, Zenon DEF upper, lower
  <2>7. <<b[m]>> \o rest = SubSeq(b, m, n)
    BY <2>1, OneByteMore
  <2>8. Step(i, f[i - 1]) = [bytes |-> <<(q[m] * 10 + r[m]) % 256>> \o rest,
                             carry |-> (q[m] * 10 + r[m]) \div 256]
    <3>1. f[i - 1].bytes = rest /\ f[i - 1].carry = r[m] /\ n + 1 - i = m
      <4> HIDE DEF f
      <4> QED BY <2>3
    <3> DEFINE before == f[i - 1]
    <3>2. Step(i, before) = [bytes |-> <<(q[n + 1 - i] * 10 + before.carry) % 256>> \o before.bytes,
                             carry |-> (q[n + 1 - i] * 10 + before.carry) \div 256]
      <4> HIDE DEF before, Step, n
      <4> QED BY <1>3, Zenon
    <3>3. before.bytes = rest /\ before.carry = r[m] /\ n + 1 - i = m
      <4> HIDE DEF f, rest, n, m
      <4> QED BY <3>1, Zenon
    <3> DEFINE sum == q[m] * 10 + r[m]
    <3> HIDE DEF before, f, rest, Step, n, m
    <3>4. q[n + 1 - i] * 10 + before.carry = sum
      BY <3>3, Zenon
    <3> HIDE DEF sum
    <3>5. Step(i, before) = [bytes |-> <<sum % 256>> \o rest, carry |-> sum \div 256]
      BY <3>2, <3>3, <3>4, Zenon
    <3> QED BY <3>5 DEF before, sum
  <2> HIDE DEF f, Step, m, n
  <2> QED BY <2>2, <2>6, <2>7, <2>8
<1>5. f[0] = x
  <2>1. SubSeq(b, n + 1, n) = <<>>
    BY <1>1
  <2>2. f[0] = [bytes |-> SubSeq(b, n - 0 + 1, n), carry |-> r[n - 0]]
    BY <1>1
  <2>3. n - 0 = n
    BY <1>1
  <2> HIDE DEF f
  <2> QED BY <2>1, <2>2, <2>3
<1>6. \A i \in 0..n : f[i] = IF i = 0 THEN x ELSE Step(i, f[i - 1])
  <2> TAKE i \in 0..n
  <2>1. CASE i = 0
    BY <1>5, <2>1
  <2>2. CASE i # 0
    <3>1. i \in 1..n
      BY <1>1, <2>2
    <3> HIDE DEF f, Step, x
    <3> QED BY <1>4, <2>2, <3>1
  <2> HIDE DEF f, Step, x
  <2> QED BY <2>1, <2>2
<1>7. IsProduct(f, q, digit)
  <2>1. f = [i \in 0..n |-> f[i]]
    OBVIOUS
  <2> HIDE DEF f, Step, x, n
  <2>2. f = [i \in 0..n |-> IF i = 0 THEN x ELSE Step(i, f[i - 1])]
    BY <1>6, <2>1
  <2> QED BY <1>1, <2>2 DEF IsProduct, Step, x
<1>8. IsProduct(g, q, digit)
  <2> HIDE DEF f
  <2> QED BY <1>7, Zenon
<1>9. Times10Plus(q, digit) = g[n].bytes
  BY Zenon DEF Times10Plus, IsProduct, Multiplied
<1> HIDE DEF f, g
<1>10. \A i \in 0..n : g[i] = IF i = 0 THEN x ELSE Step(i, g[i - 1])
  <2> HIDE DEF n
  <2>1. g = [i \in 0..n |-> IF i = 0 THEN x ELSE Step(i, g[i - 1])]
    BY <1>1, <1>8 DEF IsProduct
  <2> HIDE DEF Step, x
  <2> QED BY <2>1
<1> HIDE DEF Step, x
<1>11. 0..n \subseteq {i \in 0..n : g[i] = f[i]}
  <2> DEFINE K == {i \in 0..n : g[i] = f[i]}
  <2>1. \A i \in 0..n : /\ g[i] = IF i = 0 THEN x ELSE Step(i, g[i - 1])
                        /\ f[i] = IF i = 0 THEN x ELSE Step(i, f[i - 1])
    BY <1>6, <1>10
  <2>2. 0 \in K
    BY <1>1, <2>1
  <2>3. ASSUME NEW i \in 0..(n - 1), i \in K PROVE i + 1 \in K
    <3>1. i + 1 \in 0..n /\ i + 1 # 0 /\ (i + 1) - 1 = i
      BY <1>1
    <3>2. g[i + 1] = Step(i + 1, g[i]) /\ f[i + 1] = Step(i + 1, f[i])
      BY <2>1, <3>1
    <3> QED BY <2>3, <3>1, <3>2
  <2> HIDE DEF K
  <2>4. 0..n \subseteq K
    BY <1>1, <2>2, <2>3, UpTo
  <2> QED BY <2>4 DEF K
<1>12. g[n] = f[n]
  BY <1>1, <1>11
<1>13. f[n].bytes = b
  <2>1. f[n] = [bytes |-> SubSeq(b, n - n + 1, n), carry |-> r[n - n]]
    BY <1>1 DEF f
  <2>2. n - n + 1 = 1
    BY <1>1
  <2>3. SubSeq(b, 1, n) = b
    OBVIOUS
  <2> QED BY <2>1, <2>2, <2>3
<1> QED BY <1>9, <1>12, <1>13, Zenon

-----------------------------------------------------------------------------
(* Numbers of eight bytes *)

Numbers == {b \in Seq(BYTE) : Len(b) = 8}

\* The numbers that the first bytes make: n[8] is that of all of them.
ArePrefixes(n, b) ==
  n \in [0..8 -> Nat] /\ n[0] = 0 /\ \A i \in 1..8 : n[i] = n[i - 1] * 256 + b[i]
IsNumber(b, v) == \E n : ArePrefixes(n, b) /\ n[8] = v

\* A number has eight bytes.
LEMMA BytesOfNumber ==
  ASSUME NEW b \in Numbers
  PROVE  b \in Seq(BYTE) /\ Len(b) = 8 /\ \A i \in 1..8 : b[i] \in Nat /\ b[i] <= 255
<1>1. b \in Seq(BYTE) /\ Len(b) = 8
  BY DEF Numbers
<1>2. \A i \in 1..Len(b) : b[i] \in BYTE
  <2>1. b \in Seq(BYTE)
    BY <1>1
  <2> QED BY <2>1
<1>3. \A x \in BYTE : x \in Nat /\ x <= 255
  BY DEF BYTE, BYTE_SIZE
<1> QED BY <1>1, <1>2, <1>3

\* Eight bytes are a number.
LEMMA BytesAreNumber ==
  ASSUME NEW b \in Numbers
  PROVE  \E v \in Nat : IsNumber(b, v)
<1> DEFINE step == [k \in 1..8 |-> [x \in Nat |-> x * 256 + b[k]]]
<1>1. \A i \in 1..8 : b[i] \in Nat
  BY BytesOfNumber
<1>2. step \in [1..8 -> [Nat -> Nat]]
  <2>1. ASSUME NEW k \in 1..8, NEW x \in Nat PROVE x * 256 + b[k] \in Nat
    BY <1>1
  <2> QED BY <2>1
<1>3. \A k \in 1..8 : \A x \in Nat : step[k][x] = x * 256 + b[k]
  OBVIOUS
<1> HIDE DEF step
<1>4. PICK n : Recurs(n, Nat, 8, 0, step)
  BY <1>2, Recursion
<1>5. n \in [0..8 -> Nat] /\ n[0] = 0 /\ \A k \in 1..8 : n[k] = step[k][n[k - 1]]
  BY <1>4 DEF Recurs
<1>6. ASSUME NEW k \in 1..8 PROVE n[k] = n[k - 1] * 256 + b[k]
  <2>1. n[k - 1] \in Nat
    BY <1>5
  <2> QED BY <1>3, <1>5, <2>1
<1>7. ArePrefixes(n, b) /\ n[8] \in Nat
  BY <1>5, <1>6 DEF ArePrefixes
<1> QED BY <1>7 DEF IsNumber

\* The number of a quotient.
LEMMA NumberOfQuotient ==
  ASSUME NEW b \in Numbers, NEW q \in Numbers, NEW r, AreRemainders(r, b, q),
         NEW v, IsNumber(b, v)
  PROVE  \E w \in Nat : IsNumber(q, w) /\ v = 10 * w + r[8]
<1>1. PICK n : ArePrefixes(n, b) /\ n[8] = v
  BY DEF IsNumber
<1>2. PICK w \in Nat : IsNumber(q, w)
  BY BytesAreNumber
<1>3. PICK m : ArePrefixes(m, q) /\ m[8] = w
  BY <1>2 DEF IsNumber
<1>4. n \in [0..8 -> Nat] /\ n[0] = 0 /\ \A i \in 1..8 : n[i] = n[i - 1] * 256 + b[i]
  BY <1>1 DEF ArePrefixes
<1>5. m \in [0..8 -> Nat] /\ m[0] = 0 /\ \A i \in 1..8 : m[i] = m[i - 1] * 256 + q[i]
  BY <1>3 DEF ArePrefixes
<1>6. /\ r \in [0..8 -> 0..9] /\ r[0] = 0
      /\ \A i \in 1..8 : q[i] * 10 + r[i] = r[i - 1] * 256 + b[i]
  BY BytesOfNumber DEF AreRemainders
<1>7. \A i \in 1..8 : b[i] \in Nat /\ q[i] \in Nat
  BY BytesOfNumber
<1> DEFINE K == {i \in 0..8 : n[i] = 10 * m[i] + r[i]}
<1>8. 0 \in K
  BY <1>4, <1>5, <1>6
<1>9. ASSUME NEW i \in 0..7, i \in K PROVE i + 1 \in K
  <2> DEFINE n0 == n[i] m0 == m[i] r0 == r[i] b1 == b[i + 1] q1 == q[i + 1] r1 == r[i + 1]
  <2>1. i + 1 \in 1..8 /\ (i + 1) - 1 = i
    OBVIOUS
  <2>2. n0 \in Nat /\ m0 \in Nat /\ r0 \in Nat /\ b1 \in Nat /\ q1 \in Nat /\ r1 \in Nat
    <3>1. n0 \in Nat /\ m0 \in Nat
      BY <1>4, <1>5
    <3>2. r0 \in Nat
      BY <1>6
    <3>3. b1 \in Nat /\ q1 \in Nat
      BY <1>7, <2>1
    <3>4. r1 \in Nat
      <4>1. i + 1 \in 0..8
        OBVIOUS
      <4> QED BY <1>6, <4>1
    <3> QED BY <3>1, <3>2, <3>3, <3>4
  <2>3. n[i + 1] = n0 * 256 + b1 /\ m[i + 1] = m0 * 256 + q1
    BY <1>4, <1>5, <2>1
  <2>4. q1 * 10 + r1 = r0 * 256 + b1
    BY <1>6, <2>1
  <2>5. n0 = 10 * m0 + r0
    BY <1>9
  <2>6. i + 1 \in 0..8 /\ r1 = r[i + 1]
    OBVIOUS
  <2> HIDE DEF n0, m0, r0, b1, q1, r1
  <2>7. n0 * 256 + b1 = 10 * (m0 * 256 + q1) + r1
    BY <2>2, <2>4, <2>5
  <2> QED BY <2>3, <2>6, <2>7
<1>10. 0..8 \subseteq K
  <2> HIDE DEF K
  <2>1. \A i \in 0..(8 - 1) : i \in K => i + 1 \in K
    BY <1>9
  <2> QED BY <1>8, <2>1, UpTo
<1>11. n[8] = 10 * m[8] + r[8]
  BY <1>10
<1> QED BY <1>1, <1>2, <1>3, <1>11

\* Zero has zero bytes only, and no other number has.
LEMMA NumberIsZero ==
  ASSUME NEW b \in Numbers, NEW v, IsNumber(b, v)
  PROVE  v = 0 <=> IsZero(b)
<1>1. PICK n : ArePrefixes(n, b) /\ n[8] = v
  BY DEF IsNumber
<1>2. n \in [0..8 -> Nat] /\ n[0] = 0 /\ \A i \in 1..8 : n[i] = n[i - 1] * 256 + b[i]
  BY <1>1 DEF ArePrefixes
<1>3. \A i \in 1..8 : b[i] \in Nat
  BY BytesOfNumber
<1>4. IsZero(b) <=> \A i \in 1..8 : b[i] = 0
  <2>1. DOMAIN b = 1..8
    BY BytesOfNumber
  <2> QED BY <2>1, Zenon DEF IsZero
<1>5. ASSUME NEW i \in 1..8 PROVE n[i] = 0 <=> n[i - 1] = 0 /\ b[i] = 0
  <2>1. n[i - 1] \in Nat /\ b[i] \in Nat /\ n[i] = n[i - 1] * 256 + b[i]
    BY <1>2, <1>3
  <2> QED BY <2>1
<1>6. /\ n[8] = 0 <=> n[7] = 0 /\ b[8] = 0
      /\ n[7] = 0 <=> n[6] = 0 /\ b[7] = 0
      /\ n[6] = 0 <=> n[5] = 0 /\ b[6] = 0
      /\ n[5] = 0 <=> n[4] = 0 /\ b[5] = 0
      /\ n[4] = 0 <=> n[3] = 0 /\ b[4] = 0
      /\ n[3] = 0 <=> n[2] = 0 /\ b[3] = 0
      /\ n[2] = 0 <=> n[1] = 0 /\ b[2] = 0
      /\ n[1] = 0 <=> n[0] = 0 /\ b[1] = 0
  <2>1. /\ 8 - 1 = 7 /\ 7 - 1 = 6 /\ 6 - 1 = 5 /\ 5 - 1 = 4
        /\ 4 - 1 = 3 /\ 3 - 1 = 2 /\ 2 - 1 = 1 /\ 1 - 1 = 0
    OBVIOUS
  <2>2. /\ 1 \in 1..8 /\ 2 \in 1..8 /\ 3 \in 1..8 /\ 4 \in 1..8
        /\ 5 \in 1..8 /\ 6 \in 1..8 /\ 7 \in 1..8 /\ 8 \in 1..8
    OBVIOUS
  <2> QED BY <1>5, <2>1, <2>2
<1>7. n[8] = 0 <=> /\ b[1] = 0 /\ b[2] = 0 /\ b[3] = 0 /\ b[4] = 0
                   /\ b[5] = 0 /\ b[6] = 0 /\ b[7] = 0 /\ b[8] = 0
  BY <1>2, <1>6
<1>8. (\A i \in 1..8 : b[i] = 0) <=> /\ b[1] = 0 /\ b[2] = 0 /\ b[3] = 0 /\ b[4] = 0
                                     /\ b[5] = 0 /\ b[6] = 0 /\ b[7] = 0 /\ b[8] = 0
  <2>1. ASSUME NEW i \in 1..8
        PROVE  i = 1 \/ i = 2 \/ i = 3 \/ i = 4 \/ i = 5 \/ i = 6 \/ i = 7 \/ i = 8
    OBVIOUS
  <2> QED BY <2>1
<1> QED BY <1>1, <1>4, <1>7, <1>8

\* Powers of ten.
ArePowers(p) == p \in [0..16 -> Nat] /\ p[0] = 1 /\ \A k \in 1..16 : p[k] = 10 * p[k - 1]

\* There are powers of ten.
LEMMA PowersExist == \E p : ArePowers(p)
<1> DEFINE step == [k \in 1..16 |-> [x \in Nat |-> 10 * x]]
<1>1. step \in [1..16 -> [Nat -> Nat]] /\ \A k \in 1..16 : \A x \in Nat : step[k][x] = 10 * x
  OBVIOUS
<1> HIDE DEF step
<1>2. PICK p : Recurs(p, Nat, 16, 1, step)
  BY <1>1, Recursion
<1>3. p \in [0..16 -> Nat] /\ p[0] = 1 /\ \A k \in 1..16 : p[k] = step[k][p[k - 1]]
  BY <1>2 DEF Recurs
<1>4. ASSUME NEW k \in 1..16 PROVE p[k] = 10 * p[k - 1]
  <2>1. p[k - 1] \in Nat
    BY <1>3
  <2> QED BY <1>1, <1>3, <2>1
<1> QED BY <1>3, <1>4 DEF ArePowers

\* The largest of them, in factors that the provers can compute with.
LEMMA LargestPower ==
  ASSUME NEW p, ArePowers(p)
  PROVE  p[16] = 10000 * (10000 * (10000 * 10000))
<1>1. p \in [0..16 -> Nat] /\ p[0] = 1 /\ \A k \in 1..16 : p[k] = 10 * p[k - 1]
  BY DEF ArePowers
<1>2. ASSUME NEW k \in {0, 4, 8, 12} PROVE p[k + 4] = 10000 * p[k]
  <2>1. p[k + 1] = 10 * p[k]
    BY <1>1
  <2>2. p[k + 2] = 10 * p[k + 1]
    BY <1>1
  <2>3. p[k + 3] = 10 * p[k + 2]
    BY <1>1
  <2>4. p[k + 4] = 10 * p[k + 3]
    BY <1>1
  <2>5. p[k] \in Nat
    BY <1>1
  <2> QED BY <2>1, <2>2, <2>3, <2>4, <2>5
<1>3. p[4] = 10000 * p[0] /\ p[8] = 10000 * p[4] /\ p[12] = 10000 * p[8] /\ p[16] = 10000 * p[12]
  <2>1. 0 + 4 = 4 /\ 4 + 4 = 8 /\ 8 + 4 = 12 /\ 12 + 4 = 16
    OBVIOUS
  <2> QED BY <1>2, <2>1
<1> QED BY <1>1, <1>3

\* What parse_amount prints has at most sixteen digits.
LEMMA SafeIsBelow ==
  ASSUME NEW b \in Numbers, IsSafeAmount(b), NEW v, IsNumber(b, v), NEW p, ArePowers(p)
  PROVE  v < p[16]
<1>1. Len(b) = 8 /\ b \in Seq(BYTE) /\ \A i \in 1..8 : b[i] \in Nat /\ b[i] <= 255
  BY BytesOfNumber
<1> DEFINE m == MAX_SAFE_LUNA_AMOUNT
<1>2. m[1] = 0 /\ m[2] = 31
  BY DEF MAX_SAFE_LUNA_AMOUNT
<1>3. b[1] = 0 /\ b[2] <= 31
  <2>1. CASE b = m
    BY <1>2, <2>1
  <2>2. CASE b # m
    <3> HIDE DEF m
    <3>1. PICK i \in 1..8 : b[i] < m[i] /\ \A j \in 1..(i - 1) : b[j] = m[j]
      <4>1. DOMAIN b = 1..8
        BY <1>1
      <4>2. AtMost(b, m)
        BY Zenon DEF IsSafeAmount, m
      <4> QED BY <2>2, <4>1, <4>2, Zenon DEF AtMost
    <3>2. i # 1
      BY <1>1, <1>2, <3>1
    <3>3. 1 \in 1..(i - 1)
      BY <3>2
    <3>4. b[1] = 0
      BY <1>2, <3>1, <3>3
    <3>5. CASE i = 2
      BY <1>1, <1>2, <3>1, <3>4, <3>5
    <3>6. CASE i # 2
      <4>1. 2 \in 1..(i - 1)
        BY <3>2, <3>6
      <4>2. b[2] = 31
        BY <1>2, <3>1, <4>1
      <4> QED BY <3>4, <4>2
    <3> QED BY <3>5, <3>6
  <2> QED BY <2>1, <2>2
<1>4. PICK n : ArePrefixes(n, b) /\ n[8] = v
  BY DEF IsNumber
<1>5. n \in [0..8 -> Nat] /\ n[0] = 0 /\ \A i \in 1..8 : n[i] = n[i - 1] * 256 + b[i]
  BY <1>4 DEF ArePrefixes
<1>6. n[1] = 0
  BY <1>3, <1>5
<1>7. n[2] <= 31
  BY <1>1, <1>3, <1>5, <1>6
<1>8. \A i \in 3..8 : n[i] <= n[i - 1] * 256 + 255
  <2> TAKE i \in 3..8
  <2>1. i \in 1..8 /\ n[i - 1] \in Nat
    BY <1>5
  <2>2. b[i] \in Nat /\ b[i] <= 255 /\ n[i] = n[i - 1] * 256 + b[i]
    BY <1>1, <1>5, <2>1
  <2> HIDE DEF m
  <2> QED BY <2>1, <2>2
<1>9. /\ n[3] <= n[2] * 256 + 255 /\ n[4] <= n[3] * 256 + 255 /\ n[5] <= n[4] * 256 + 255
      /\ n[6] <= n[5] * 256 + 255 /\ n[7] <= n[6] * 256 + 255 /\ n[8] <= n[7] * 256 + 255
  <2>1. 3 - 1 = 2 /\ 4 - 1 = 3 /\ 5 - 1 = 4 /\ 6 - 1 = 5 /\ 7 - 1 = 6 /\ 8 - 1 = 7
    OBVIOUS
  <2>2. 3 \in 3..8 /\ 4 \in 3..8 /\ 5 \in 3..8 /\ 6 \in 3..8 /\ 7 \in 3..8 /\ 8 \in 3..8
    OBVIOUS
  <2> QED BY <1>8, <2>1, <2>2
<1>10. n[2] \in Nat /\ n[3] \in Nat /\ n[4] \in Nat /\ n[5] \in Nat /\ n[6] \in Nat /\ n[7] \in Nat /\ n[8] \in Nat
  BY <1>5
<1>11. n[8] < 8192 * (1048576 * 1048576)
  BY <1>7, <1>9, <1>10, SMT
<1>12. p[16] = 10000 * (10000 * (10000 * 10000))
  BY LargestPower
<1>13. 8192 * (1048576 * 1048576) <= 10000 * (10000 * (10000 * 10000))
  BY SMT
<1> QED BY <1>4, <1>10, <1>11, <1>12, <1>13, SMT
-----------------------------------------------------------------------------
(* The digits of an amount *)

DIGIT == 0..9
ZERO == [i \in 1..8 |-> 0]

\* A number without a byte other than 0 is ZERO.
LEMMA ZeroIsZero ==
  ASSUME NEW b \in Numbers, IsZero(b)
  PROVE  b = ZERO
<1>1. b \in Seq(BYTE) /\ Len(b) = 8
  BY BytesOfNumber
<1>2. DOMAIN b = 1..8
  BY <1>1
<1>3. b = [i \in 1..8 |-> b[i]]
  BY <1>1, <1>2
<1>4. \A i \in 1..8 : b[i] = 0
  BY <1>2 DEF IsZero
<1> QED BY <1>3, <1>4 DEF ZERO

\* One division of a number.
LEMMA NumberDivided ==
  ASSUME NEW b \in Numbers, NEW q, q = DividedBy10(b).quotient,
         NEW digit, digit = DividedBy10(b).remainder
  PROVE  /\ q \in Numbers /\ digit \in DIGIT /\ Times10Plus(q, digit) = b
         /\ \A v : IsNumber(b, v) => \E w \in Nat : IsNumber(q, w) /\ v = 10 * w + digit
<1>1. b \in Seq(BYTE) /\ Len(b) = 8
  BY BytesOfNumber
<1>2. /\ q \in Seq(BYTE) /\ Len(q) = Len(b)
      /\ \E r : AreRemainders(r, b, q) /\ digit = r[Len(b)]
  <2>1. b \in Seq(BYTE)
    BY <1>1
  <2> QED BY <2>1, DividesBy10
<1>3. PICK r : AreRemainders(r, b, q) /\ digit = r[8]
  BY <1>1, <1>2
<1>4. q \in Numbers
  BY <1>1, <1>2 DEF Numbers
<1>5. digit \in DIGIT
  BY <1>1, <1>3 DEF AreRemainders, DIGIT
<1>6. Times10Plus(q, r[Len(b)]) = b
  <2>1. b \in Seq(BYTE) /\ q \in Seq(BYTE) /\ Len(q) = Len(b) /\ AreRemainders(r, b, q)
    BY <1>1, <1>2, <1>3
  <2> QED BY <2>1, UndoesDivision
<1>7. Times10Plus(q, digit) = b
  BY <1>1, <1>3, <1>6
<1>8. ASSUME NEW v, IsNumber(b, v)
      PROVE  \E w \in Nat : IsNumber(q, w) /\ v = 10 * w + digit
  BY <1>3, <1>4, <1>8, NumberOfQuotient
<1> QED BY <1>4, <1>5, <1>7, <1>8

\* The numbers between the divisions: multiplying by ten leads back from each to the one
\* before.
IsChain(c, b, digits) ==
  /\ c \in [0..Len(digits) -> Numbers] /\ c[0] = b
  /\ \A k \in 1..Len(digits) : Times10Plus(c[k], digits[k]) = c[k - 1]

\* What the loop of parse_amount has made of b after n rounds, some of them idle.
Fits(s, b, p, n) ==
  /\ s.dVal \in Numbers /\ s.digits \in Seq(DIGIT)
  /\ Len(s.digits) <= 16 /\ Len(s.digits) <= n
  /\ n <= LeastDigits => Len(s.digits) = n
  /\ n > LeastDigits => /\ Len(s.digits) >= LeastDigits
                        /\ Len(s.digits) = n \/ IsZero(s.dVal)
  /\ Len(s.digits) > LeastDigits => ~IsZero(s.dVal) \/ s.digits[Len(s.digits)] # 0
  /\ \E c : IsChain(c, b, s.digits) /\ c[Len(s.digits)] = s.dVal
  /\ \E v \in Nat : IsNumber(s.dVal, v) /\ v < p[16 - Len(s.digits)]

\* A chain of quotients stays one with the next quotient and its digit.
LEMMA ChainGrows ==
  ASSUME NEW b, NEW digits \in Seq(DIGIT), NEW digit \in DIGIT,
         NEW c, IsChain(c, b, digits),
         NEW q \in Numbers, Times10Plus(q, digit) = c[Len(digits)]
  PROVE  \E g : IsChain(g, b, Append(digits, digit)) /\ g[Len(Append(digits, digit))] = q
<1> DEFINE n == Len(digits)
           longer == Append(digits, digit)
           g == [k \in 0..(n + 1) |-> IF k = n + 1 THEN q ELSE c[k]]
<1>1. /\ n \in Nat /\ Len(longer) = n + 1 /\ longer[n + 1] = digit
      /\ \A k \in 1..n : longer[k] = digits[k]
  OBVIOUS
<1>2. /\ c \in [0..n -> Numbers] /\ c[0] = b
      /\ \A k \in 1..n : Times10Plus(c[k], digits[k]) = c[k - 1]
  BY DEF IsChain
<1>3. g \in [0..(n + 1) -> Numbers] /\ g[0] = b /\ g[n + 1] = q /\ \A k \in 0..n : g[k] = c[k]
  <2>1. g \in [0..(n + 1) -> Numbers]
    <3>1. ASSUME NEW k \in 0..(n + 1), k # n + 1 PROVE k \in 0..n
      BY <1>1, <3>1
    <3> HIDE DEF n
    <3> QED BY <1>2, <3>1
  <2>2. \A k \in 0..n : k \in 0..(n + 1) /\ k # n + 1
    BY <1>1
  <2>3. n + 1 \in 0..(n + 1) /\ 0 \in 0..n
    BY <1>1
  <2> HIDE DEF n
  <2> QED BY <1>2, <2>1, <2>2, <2>3
<1> HIDE DEF g, longer
<1>4. ASSUME NEW k \in 1..(n + 1) PROVE Times10Plus(g[k], longer[k]) = g[k - 1]
  <2>1. CASE k = n + 1
    <3>1. k - 1 = n /\ n \in 0..n
      BY <1>1, <2>1
    <3>2. g[k - 1] = c[n] /\ g[k] = q /\ longer[k] = digit
      BY <1>1, <1>3, <2>1, <3>1
    <3> QED BY <3>2
  <2>2. CASE k # n + 1
    <3>1. k \in 1..n /\ k \in 0..n /\ k - 1 \in 0..n
      BY <1>1, <2>2
    <3>2. g[k] = c[k] /\ g[k - 1] = c[k - 1] /\ longer[k] = digits[k]
      BY <1>1, <1>3, <3>1
    <3> QED BY <1>2, <3>1, <3>2
  <2> QED BY <2>1, <2>2
<1>5. IsChain(g, b, longer)
  BY <1>1, <1>3, <1>4 DEF IsChain
<1>6. g[Len(longer)] = q
  BY <1>1, <1>3
<1> QED BY <1>5, <1>6 DEF longer

\* A round of the loop.
LEMMA OneRound ==
  ASSUME NEW b \in Numbers, NEW p, ArePowers(p), NEW n \in 0..19,
         NEW s, Fits(s, b, p, n), NEW t,
         t = IF n + 1 > LeastDigits /\ IsZero(s.dVal) THEN s
             ELSE [dVal |-> DividedBy10(s.dVal).quotient,
                   digits |-> Append(s.digits, DividedBy10(s.dVal).remainder)]
  PROVE  Fits(t, b, p, n + 1)
<1> DEFINE L == Len(s.digits)
<1>1. /\ s.dVal \in Numbers /\ s.digits \in Seq(DIGIT) /\ L \in Nat
      /\ L <= 16 /\ L <= n
      /\ n <= LeastDigits => L = n
      /\ n > LeastDigits => L >= LeastDigits /\ (L = n \/ IsZero(s.dVal))
  BY DEF Fits
<1>2. LeastDigits = 6
  BY DEF LeastDigits, DECIMALS
<1>3. PICK v \in Nat : IsNumber(s.dVal, v) /\ v < p[16 - L]
  BY DEF Fits
<1>4. PICK c : IsChain(c, b, s.digits) /\ c[L] = s.dVal
  BY DEF Fits
<1>5. CASE n + 1 > LeastDigits /\ IsZero(s.dVal)
  <2>1. t = s
    BY <1>5
  <2>2. L <= n + 1 /\ (n + 1 <= LeastDigits => L = n + 1) /\ L >= LeastDigits
    BY <1>1, <1>2, <1>5
  <2>3. Len(t.digits) = L
    BY <2>1
  <2> HIDE DEF L
  <2> QED BY <1>1, <1>5, <2>1, <2>2 DEF Fits, L
<1>6. CASE ~(n + 1 > LeastDigits /\ IsZero(s.dVal))
  <2> DEFINE q == DividedBy10(s.dVal).quotient
             digit == DividedBy10(s.dVal).remainder
             longer == Append(s.digits, digit)
  <2>1. t = [dVal |-> q, digits |-> longer]
    BY <1>6
  <2>2. /\ q \in Numbers /\ digit \in DIGIT /\ Times10Plus(q, digit) = s.dVal
        /\ \A u : IsNumber(s.dVal, u) => \E w \in Nat : IsNumber(q, w) /\ u = 10 * w + digit
    BY <1>1, NumberDivided
  <2> HIDE DEF q, digit
  <2>3. longer \in Seq(DIGIT) /\ Len(longer) = L + 1 /\ longer[L + 1] = digit
    BY <1>1, <2>2
  <2>4. \E g : IsChain(g, b, longer) /\ g[Len(longer)] = q
    BY <1>1, <1>4, <2>2, ChainGrows
  <2>5. PICK w \in Nat : IsNumber(q, w) /\ v = 10 * w + digit
    BY <1>3, <2>2
  <2>6. digit \in Nat
    BY <2>2 DEF DIGIT
  <2> HIDE DEF L, longer
  <2>7. L = n
    BY <1>1, <1>2, <1>6
  <2>8. n + 1 > LeastDigits => v # 0
    BY <1>1, <1>3, <1>6, NumberIsZero
  <2>p. p \in [0..16 -> Nat] /\ p[0] = 1 /\ \A k \in 1..16 : p[k] = 10 * p[k - 1]
    BY DEF ArePowers
  <2>9. L + 1 <= 16
    <3>1. CASE L = 16
      <4>1. 16 - L = 0 /\ n + 1 > LeastDigits
        BY <1>2, <2>7, <3>1
      <4>2. v < 1
        BY <1>3, <2>p, <4>1
      <4> QED BY <1>3, <2>8, <4>1, <4>2
    <3> QED BY <1>1, <3>1
  <2>10. w < p[16 - (L + 1)]
    <3>1. 16 - L \in 1..16 /\ (16 - L) - 1 = 16 - (L + 1) /\ 16 - (L + 1) \in 0..16
      BY <1>1, <2>9
    <3>2. p[16 - L] = 10 * p[16 - (L + 1)] /\ p[16 - (L + 1)] \in Nat
      BY <2>p, <3>1
    <3> DEFINE x == p[16 - (L + 1)]
    <3>3. 10 * w + digit < 10 * x /\ x \in Nat
      BY <1>3, <2>5, <3>2
    <3> HIDE DEF x
    <3>4. w < x
      BY <2>6, <3>3
    <3> QED BY <3>4 DEF x
  <2>11. L + 1 > LeastDigits => ~IsZero(q) \/ digit # 0
    <3>1. ASSUME L + 1 > LeastDigits, IsZero(q), digit = 0 PROVE FALSE
      <4>1. w = 0
        BY <2>2, <2>5, <3>1, NumberIsZero
      <4>2. v = 0
        BY <2>5, <3>1, <4>1
      <4> QED BY <2>7, <2>8, <3>1, <4>2
    <3> QED BY <3>1
  <2>12. t.dVal = q /\ t.digits = longer
    BY <2>1
  <2>13. /\ Len(longer) <= n + 1
         /\ n + 1 <= LeastDigits => Len(longer) = n + 1
         /\ n + 1 > LeastDigits => Len(longer) >= LeastDigits /\ Len(longer) = n + 1
    BY <1>1, <1>2, <2>3, <2>7
  <2>14. \E u \in Nat : IsNumber(q, u) /\ u < p[16 - Len(longer)]
    BY <2>3, <2>5, <2>10
  <2>15. Len(longer) <= 16 /\ (Len(longer) > LeastDigits => ~IsZero(q) \/ longer[Len(longer)] # 0)
    BY <2>3, <2>9, <2>11
  <2> QED BY <2>2, <2>3, <2>4, <2>12, <2>13, <2>14, <2>15 DEF Fits
<1> QED BY <1>5, <1>6

\* The loop as a function, which exists.
Round(n, s) ==
  IF n > LeastDigits /\ IsZero(s.dVal) THEN s
  ELSE [dVal |-> DividedBy10(s.dVal).quotient,
        digits |-> Append(s.digits, DividedBy10(s.dVal).remainder)]
IsLoop(f, b) ==
  f = [n \in 0..MAX_DIGITS |->
        IF n = 0 THEN [dVal |-> b, digits |-> <<>>] ELSE Round(n, f[n - 1])]

\* The loop of parse_amount over the digits is a recursive function.
LEMMA LoopExists ==
  ASSUME NEW b \in Numbers
  PROVE  \E f : IsLoop(f, b)
<1> DEFINE S == [dVal : Numbers, digits : Seq(DIGIT)]
           step == [n \in 1..MAX_DIGITS |-> [s \in S |-> Round(n, s)]]
           x == [dVal |-> b, digits |-> <<>>]
<1>1. \A n \in 1..MAX_DIGITS : \A s \in S : Round(n, s) \in S
  <2> TAKE n \in 1..MAX_DIGITS
  <2> TAKE s \in S
  <2> DEFINE q == DividedBy10(s.dVal).quotient
             digit == DividedBy10(s.dVal).remainder
  <2>1. s.dVal \in Numbers /\ s.digits \in Seq(DIGIT)
    OBVIOUS
  <2>2. q \in Numbers /\ digit \in DIGIT
    BY <2>1, NumberDivided
  <2> HIDE DEF q, digit
  <2>3. [dVal |-> q, digits |-> Append(s.digits, digit)] \in S
    BY <2>1, <2>2
  <2> HIDE DEF S
  <2>4. Round(n, s) = s \/ Round(n, s) = [dVal |-> q, digits |-> Append(s.digits, digit)]
    BY DEF Round, q, digit
  <2> QED BY <2>3, <2>4
<1>2. x \in S /\ MAX_DIGITS \in Nat /\ step \in [1..MAX_DIGITS -> [S -> S]]
  <2>1. x \in S /\ MAX_DIGITS \in Nat
    BY DEF MAX_DIGITS
  <2> HIDE DEF S, x
  <2> QED BY <1>1, <2>1
<1> HIDE DEF S, x
<1>3. \A n \in 1..MAX_DIGITS : \A s \in S : step[n][s] = Round(n, s)
  OBVIOUS
<1> HIDE DEF step
<1>pick. PICK f : Recurs(f, S, MAX_DIGITS, x, step)
  BY <1>2, Recursion
<1>4. f \in [0..MAX_DIGITS -> S] /\ f[0] = x /\ \A k \in 1..MAX_DIGITS : f[k] = step[k][f[k - 1]]
  BY <1>pick DEF Recurs
<1>5. ASSUME NEW k \in 0..MAX_DIGITS
      PROVE  f[k] = IF k = 0 THEN x ELSE Round(k, f[k - 1])
  <2>1. CASE k = 0
    BY <1>4, <2>1
  <2>2. CASE k # 0
    <3>1. k \in 1..MAX_DIGITS /\ k - 1 \in 0..MAX_DIGITS
      BY <1>2, <2>2
    <3>2. f[k] = step[k][f[k - 1]] /\ f[k - 1] \in S
      BY <1>4, <3>1
    <3> QED BY <1>3, <2>2, <3>1, <3>2
  <2> QED BY <2>1, <2>2
<1>6. f = [k \in 0..MAX_DIGITS |-> IF k = 0 THEN x ELSE Round(k, f[k - 1])]
  BY <1>4, <1>5
<1>7. IsLoop(f, b)
  BY <1>6, Zenon DEF IsLoop, x
<1> QED BY <1>7

\* The digits of a number that is printed: at least six, at most sixteen, without a zero
\* in front of more than six, and the number is what they make up.
LEMMA DigitsOfAmount ==
  ASSUME NEW b \in Numbers, IsSafeAmount(b), NEW d, d = ReversedDigits(b)
  PROVE  /\ d \in Seq(DIGIT) /\ Len(d) \in 6..16
         /\ Len(d) > 6 => d[Len(d)] # 0
         /\ \E c : IsChain(c, b, d) /\ c[Len(d)] = ZERO
<1> DEFINE f == CHOOSE g : IsLoop(g, b)
<1>1. IsLoop(f, b) /\ d = f[MAX_DIGITS].digits
  <2>1. IsLoop(f, b)
    BY LoopExists
  <2>2. d = f[MAX_DIGITS].digits
    BY Zenon DEF ReversedDigits, IsLoop, Round
  <2> QED BY <2>1, <2>2
<1> HIDE DEF f
<1>2. PICK p : ArePowers(p)
  BY PowersExist
<1>3. MAX_DIGITS = 20 /\ LeastDigits = 6
  BY DEF MAX_DIGITS, LeastDigits, DECIMALS
<1>4. /\ f[0] = [dVal |-> b, digits |-> <<>>]
      /\ \A n \in 0..19 : f[n + 1] = Round(n + 1, f[n])
  <2> DEFINE x == [dVal |-> b, digits |-> <<>>]
  <2>1. f = [n \in 0..20 |-> IF n = 0 THEN x ELSE Round(n, f[n - 1])]
    BY <1>1, <1>3 DEF IsLoop
  <2> HIDE DEF x
  <2>2. f[0] = x
    BY <2>1
  <2>3. ASSUME NEW n \in 0..19 PROVE f[n + 1] = Round(n + 1, f[n])
    <3>1. n + 1 \in 0..20 /\ n + 1 # 0 /\ (n + 1) - 1 = n
      OBVIOUS
    <3> QED BY <2>1, <3>1
  <2> QED BY <2>2, <2>3 DEF x
<1> DEFINE K == {n \in 0..20 : Fits(f[n], b, p, n)}
<1>5. 0 \in K
  <2>1. f[0].dVal = b /\ f[0].digits = <<>> /\ Len(f[0].digits) = 0
    BY <1>4
  <2> DEFINE c == [k \in 0..0 |-> b]
  <2>2. IsChain(c, b, f[0].digits) /\ c[0] = b
    BY <2>1 DEF IsChain
  <2> HIDE DEF c
  <2>3. \E v \in Nat : IsNumber(b, v) /\ v < p[16]
    BY <1>2, BytesAreNumber, SafeIsBelow
  <2>4. f[0].digits \in Seq(DIGIT) /\ 16 - 0 = 16
    BY <2>1
  <2>5. Fits(f[0], b, p, 0)
    BY <1>3, <2>1, <2>2, <2>3, <2>4 DEF Fits
  <2> QED BY <2>5
<1>6. ASSUME NEW n \in 0..19, n \in K PROVE n + 1 \in K
  <2>1. f[n + 1] = IF n + 1 > LeastDigits /\ IsZero(f[n].dVal) THEN f[n]
                   ELSE [dVal |-> DividedBy10(f[n].dVal).quotient,
                         digits |-> Append(f[n].digits, DividedBy10(f[n].dVal).remainder)]
    BY <1>4, Zenon DEF Round
  <2>2. Fits(f[n + 1], b, p, n + 1)
    BY <1>2, <1>6, <2>1, OneRound
  <2> QED BY <2>2
<1>7. 20 \in K
  <2> HIDE DEF K
  <2>1. \A n \in 0..(20 - 1) : n \in K => n + 1 \in K
    BY <1>6
  <2>2. 0..20 \subseteq K
    BY <1>5, <2>1, UpTo
  <2> QED BY <2>2
<1>8. Fits(f[20], b, p, 20)
  BY <1>7
<1> DEFINE L == Len(d)
<1>9. f[20].digits = d
  BY <1>1, <1>3
<1>10. /\ f[20].dVal \in Numbers /\ d \in Seq(DIGIT) /\ L <= 16 /\ L >= 6
       /\ L = 20 \/ IsZero(f[20].dVal)
       /\ L > 6 => ~IsZero(f[20].dVal) \/ d[L] # 0
       /\ \E c : IsChain(c, b, d) /\ c[L] = f[20].dVal
  BY <1>3, <1>8, <1>9 DEF Fits
<1>11. L \in 6..16 /\ IsZero(f[20].dVal)
  <2>1. L \in Nat
    BY <1>10
  <2> HIDE DEF L
  <2> QED BY <1>10, <2>1
<1>12. f[20].dVal = ZERO
  BY <1>10, <1>11, ZeroIsZero
<1> HIDE DEF L
<1> QED BY <1>10, <1>11, <1>12 DEF L

-----------------------------------------------------------------------------
(* The text of an amount *)

CHARACTER == 0..36

\* The digits from the first one on, and the text before zeros are stripped.
Forward(d) == [i \in 1..Len(d) |-> d[Len(d) + 1 - i]]
WholeDigits(d) == Len(d) - DECIMALS
Unstripped(d) ==
  [i \in 1..(Len(d) + 1) |->
     IF i <= WholeDigits(d) THEN d[Len(d) + 1 - i]
     ELSE IF i = WholeDigits(d) + 1 THEN POINT ELSE d[Len(d) + 1 - (i - 1)]]

\* The digits of an amount as the lemma DigitsOfAmount has them.
AreDigits(d) == d \in Seq(DIGIT) /\ Len(d) \in 6..16 /\ (Len(d) > 6 => d[Len(d)] # 0)

\* The text has the digits, with a point after the whole ones.
LEMMA TextOfDigits ==
  ASSUME NEW d, AreDigits(d)
  PROVE  /\ WholeDigits(d) \in 1..11 /\ Len(d) = WholeDigits(d) + 5
         /\ Forward(d) \in [1..Len(d) -> DIGIT]
         /\ WholeDigits(d) > 1 => Forward(d)[1] # 0
         /\ Len(Unstripped(d)) = Len(d) + 1 /\ Unstripped(d) \in Seq(CHARACTER)
         /\ \A i \in 1..WholeDigits(d) : Unstripped(d)[i] = Forward(d)[i]
         /\ Unstripped(d)[WholeDigits(d) + 1] = POINT
         /\ \A i \in (WholeDigits(d) + 1)..Len(d) : Unstripped(d)[i + 1] = Forward(d)[i]
<1> DEFINE n == Len(d)
           w == WholeDigits(d)
           D == Forward(d)
           t == Unstripped(d)
<1>1. n \in 6..16 /\ d \in Seq(DIGIT) /\ \A i \in 1..n : d[i] \in DIGIT
  BY DEF AreDigits
<1>2. w \in 1..11 /\ n = w + 5
  BY <1>1 DEF WholeDigits, DECIMALS
<1>3. /\ D = [i \in 1..n |-> d[n + 1 - i]]
      /\ w > 1 => D[1] # 0
  <2>1. D = [i \in 1..n |-> d[n + 1 - i]]
    BY DEF Forward
  <2>2. w > 1 => d[n] # 0
    BY <1>2 DEF AreDigits
  <2> HIDE DEF n, D, w
  <2>3. D[1] = d[n]
    <3>1. 1 \in 1..n /\ n + 1 - 1 = n
      BY <1>1
    <3> QED BY <2>1, <3>1
  <2> QED BY <2>1, <2>2, <2>3
<1>4. \A i \in 1..n : D[i] = d[n + 1 - i] /\ D[i] \in DIGIT
  <2> TAKE i \in 1..n
  <2> HIDE DEF n, D
  <2>1. n + 1 - i \in 1..n
    BY <1>1
  <2> QED BY <1>1, <1>3, <2>1
<1>5. D \in [1..n -> DIGIT]
  <2> HIDE DEF n, D
  <2> QED BY <1>3, <1>4
<1>6. t = [i \in 1..(n + 1) |-> IF i <= w THEN d[n + 1 - i]
                                ELSE IF i = w + 1 THEN POINT ELSE d[n + 1 - (i - 1)]]
  BY DEF Unstripped
<1> HIDE DEF n, w, D, t
<1>7. \A i \in 1..w : t[i] = D[i]
  <2> TAKE i \in 1..w
  <2>1. i \in 1..(n + 1) /\ i <= w /\ i \in 1..n
    BY <1>2
  <2> QED BY <1>4, <1>6, <2>1
<1>8. t[w + 1] = POINT
  <2>1. w + 1 \in 1..(n + 1) /\ ~(w + 1 <= w)
    BY <1>2
  <2> QED BY <1>6, <2>1
<1>9. \A i \in (w + 1)..n : t[i + 1] = D[i]
  <2> TAKE i \in (w + 1)..n
  <2>1. i + 1 \in 1..(n + 1) /\ ~(i + 1 <= w) /\ i + 1 # w + 1 /\ (i + 1) - 1 = i /\ i \in 1..n
    BY <1>2
  <2> QED BY <1>4, <1>6, <2>1
<1>10. \A i \in 1..(n + 1) : t[i] \in CHARACTER
  <2> TAKE i \in 1..(n + 1)
  <2>1. CASE i \in 1..w
    <3>1. i \in 1..n
      BY <1>2, <2>1
    <3>2. t[i] \in DIGIT
      BY <1>4, <1>7, <2>1, <3>1
    <3> QED BY <3>2 DEF DIGIT, CHARACTER
  <2>2. CASE i = w + 1
    BY <1>8, <2>2 DEF POINT, CHARACTER
  <2>3. CASE i \notin 1..w /\ i # w + 1
    <3>1. i - 1 \in (w + 1)..n /\ (i - 1) + 1 = i /\ i - 1 \in 1..n
      BY <1>2, <2>3
    <3>2. t[i] \in DIGIT
      BY <1>4, <1>9, <3>1
    <3> QED BY <3>2 DEF DIGIT, CHARACTER
  <2> QED BY <2>1, <2>2, <2>3
<1>11. t \in Seq(CHARACTER) /\ Len(t) = n + 1
  <2>1. n + 1 \in Nat
    BY <1>1
  <2>2. t = [i \in 1..(n + 1) |-> t[i]]
    BY <1>6
  <2> DEFINE m == n + 1
  <2>3. m \in Nat /\ t = [i \in 1..m |-> t[i]] /\ \A i \in 1..m : t[i] \in CHARACTER
    BY <1>10, <2>1, <2>2
  <2> HIDE DEF m
  <2>4. t \in [1..m -> CHARACTER]
    BY <2>3
  <2>5. t \in Seq(CHARACTER) /\ Len(t) = m
    BY <2>3, <2>4
  <2> QED BY <2>5 DEF m
<1>12. w > 1 => D[1] # 0
  BY <1>3
<1> QED BY <1>2, <1>5, <1>7, <1>8, <1>9, <1>11, <1>12 DEF n, w, D, t

\* How a stripped text looks: the whole digits alone, or with the point and the digits
\* behind it up to the last that is not zero.
IsStripped(s, d, length) ==
  /\ length \in (WholeDigits(d) + 1)..(Len(d) + 1)
  /\ \A i \in (length + 1)..(Len(d) + 1) : Unstripped(d)[i] = 0
  /\ Unstripped(d)[length] # 0
  /\ s = SubSeq(Unstripped(d), 1, IF length = WholeDigits(d) + 1 THEN WholeDigits(d) ELSE length)

IsLastOf(length, text) ==
  /\ \A i \in (length + 1)..Len(text) : text[i] = 0
  /\ length > 0 => text[length] # 0

\* parse_amount takes off trailing zeros and then the point, so that a first part of the text is left.
LEMMA StrippedText ==
  ASSUME NEW d, AreDigits(d)
  PROVE  \E length : IsStripped(Stripped(Unstripped(d)), d, length)
<1> DEFINE n == Len(d)
           w == WholeDigits(d)
           D == Forward(d)
           t == Unstripped(d)
           last == CHOOSE length \in 0..Len(t) : IsLastOf(length, t)
<1>1. /\ w \in 1..11 /\ n = w + 5 /\ D \in [1..n -> DIGIT]
      /\ Len(t) = n + 1 /\ t \in Seq(CHARACTER) /\ t[w + 1] = POINT
      /\ \A i \in (w + 1)..n : t[i + 1] = D[i]
  BY TextOfDigits
<1> HIDE DEF n, w, D, t
<1>2. \E length \in 0..Len(t) : IsLastOf(length, t)
  <2> DEFINE S == {i \in 0..(n + 1) : i > 0 /\ t[i] # 0}
  <2>1. w + 1 \in S
    BY <1>1 DEF POINT
  <2>2. S \subseteq 0..(n + 1) /\ n + 1 \in Nat
    BY <1>1
  <2> DEFINE bound == n + 1
  <2>3. S \subseteq 0..bound /\ bound \in Nat /\ S # {}
    BY <2>1, <2>2
  <2> HIDE DEF bound, S
  <2>4. PICK length \in S : \A i \in S : i <= length
    BY <2>3, GreatestElement
  <2>5. length \in 0..(n + 1) /\ length > 0 /\ t[length] # 0
    BY <2>4 DEF S
  <2>6. ASSUME NEW i \in (length + 1)..(n + 1) PROVE t[i] = 0
    <3>1. i \in 0..(n + 1) /\ i > 0 /\ ~(i <= length)
      BY <1>1, <2>5
    <3>2. i \notin S
      BY <2>4, <3>1
    <3> QED BY <3>1, <3>2 DEF S
  <2>7. IsLastOf(length, t)
    BY <1>1, <2>5, <2>6 DEF IsLastOf
  <2> QED BY <1>1, <2>5, <2>7
<1>3. last \in 0..Len(t) /\ IsLastOf(last, t)
  BY <1>2
<1>4. Stripped(t) = SubSeq(t, 1, IF last > 0 /\ t[last] = POINT THEN last - 1 ELSE last)
  BY Zenon DEF Stripped, IsLastOf
<1> HIDE DEF last
<1>5. /\ last \in 0..(n + 1) /\ \A i \in (last + 1)..(n + 1) : t[i] = 0
      /\ last > 0 => t[last] # 0
  BY <1>1, <1>3 DEF IsLastOf
<1>6. last \in (w + 1)..(n + 1)
  <2>1. CASE last <= w
    <3>1. w + 1 \in (last + 1)..(n + 1)
      BY <1>1, <1>5, <2>1
    <3> QED BY <1>1, <1>5, <3>1 DEF POINT
  <2> QED BY <1>1, <1>5, <2>1
<1>7. last > 0 /\ (t[last] = POINT <=> last = w + 1)
  <2>1. CASE last = w + 1
    BY <1>1, <2>1
  <2>2. CASE last # w + 1
    <3>1. last - 1 \in (w + 1)..n /\ (last - 1) + 1 = last /\ last - 1 \in 1..n
      BY <1>1, <1>6, <2>2
    <3>2. t[last] \in DIGIT
      BY <1>1, <3>1
    <3> QED BY <1>1, <1>6, <2>2, <3>2 DEF DIGIT, POINT
  <2> QED BY <2>1, <2>2
<1>8. Stripped(t) = SubSeq(t, 1, IF last = w + 1 THEN w ELSE last)
  <2>1. CASE last = w + 1
    <3>1. last - 1 = w
      BY <1>1, <2>1
    <3> QED BY <1>4, <1>7, <2>1, <3>1
  <2>2. CASE last # w + 1
    BY <1>4, <1>7, <2>2
  <2> QED BY <2>1, <2>2
<1>9. t[last] # 0
  BY <1>5, <1>7
<1>10. IsStripped(Stripped(t), d, last)
  BY <1>5, <1>6, <1>8, <1>9 DEF IsStripped, n, w, t
<1> QED BY <1>10 DEF t

\* What a stripped text consists of.
LEMMA StrippedConsists ==
  ASSUME NEW d, AreDigits(d), NEW length, NEW s, IsStripped(s, d, length)
  PROVE  /\ Len(s) = IF length = WholeDigits(d) + 1 THEN WholeDigits(d) ELSE length
         /\ Len(s) \in 1..17 /\ DOMAIN s = 1..Len(s) /\ s \in Seq(CHARACTER)
         /\ \A i \in 1..Len(s) : s[i] = Unstripped(d)[i]
         /\ \A i \in 1..Len(s) : s[i] = POINT <=> i = WholeDigits(d) + 1
<1> DEFINE n == Len(d)
           w == WholeDigits(d)
           D == Forward(d)
           t == Unstripped(d)
           m == IF length = w + 1 THEN w ELSE length
<1>1. /\ w \in 1..11 /\ n = w + 5 /\ D \in [1..n -> DIGIT]
      /\ Len(t) = n + 1 /\ t \in Seq(CHARACTER) /\ t[w + 1] = POINT
      /\ \A i \in 1..w : t[i] = D[i]
      /\ \A i \in (w + 1)..n : t[i + 1] = D[i]
  BY TextOfDigits
<1>2. length \in (w + 1)..(n + 1) /\ s = SubSeq(t, 1, m)
  BY DEF IsStripped
<1> HIDE DEF n, w, D, t
<1>3. m \in 1..17 /\ m <= Len(t)
  BY <1>1, <1>2
<1> HIDE DEF m
<1>4. Len(s) = m /\ s \in Seq(CHARACTER) /\ \A i \in 1..m : s[i] = t[i]
  <2>1. m \in Nat /\ t \in Seq(CHARACTER) /\ m <= Len(t) /\ s = SubSeq(t, 1, m)
    BY <1>1, <1>2, <1>3
  <2>2. Len(s) = m
    BY <2>1
  <2>4. \A i \in 1..m : s[i] = t[i]
    BY <2>1
  <2>3. s \in Seq(CHARACTER)
    <3>1. \A i \in 1..Len(t) : t[i] \in CHARACTER
      <4>1. t \in Seq(CHARACTER)
        BY <2>1
      <4> QED BY <4>1
    <3>2. \A i \in 1..m : s[i] \in CHARACTER
      <4> TAKE i \in 1..m
      <4>1. i \in 1..Len(t)
        BY <2>1
      <4> QED BY <2>4, <3>1, <4>1
    <3>3. s = [i \in 1..m |-> s[i]]
      BY <2>1
    <3>4. s \in [1..m -> CHARACTER]
      BY <3>2, <3>3
    <3>5. m \in Nat
      BY <2>1
    <3> QED BY <3>3, <3>4, <3>5
  <2> QED BY <2>2, <2>3, <2>4
<1>5. DOMAIN s = 1..Len(s)
  BY <1>4
<1>6. ASSUME NEW i \in 1..m PROVE s[i] = POINT <=> i = w + 1
  <2>i. i \in 1..(n + 1) /\ s[i] = t[i]
    <3>1. m <= n + 1
      BY <1>1, <1>3
    <3> QED BY <1>1, <1>3, <1>4, <3>1
  <2>1. CASE i = w + 1
    BY <1>1, <2>1, <2>i
  <2>2. CASE i # w + 1
    <3>1. t[i] \in DIGIT
      <4>1. CASE i \in 1..w
        <5>1. i \in 1..n
          BY <1>1, <4>1
        <5> QED BY <1>1, <4>1, <5>1
      <4>2. CASE i \notin 1..w
        <5>1. i - 1 \in (w + 1)..n /\ (i - 1) + 1 = i /\ i - 1 \in 1..n
          BY <1>1, <2>2, <2>i, <4>2
        <5> QED BY <1>1, <5>1
      <4> QED BY <4>1, <4>2
    <3> QED BY <2>2, <2>i, <3>1 DEF DIGIT, POINT
  <2> QED BY <2>1, <2>2
<1> QED BY <1>3, <1>4, <1>5, <1>6 DEF m, w, t

\* It is written without a zero or a point too much.
LEMMA StrippedIsCanonical ==
  ASSUME NEW d, AreDigits(d), NEW length, NEW s, IsStripped(s, d, length)
  PROVE  IsCanonicalAmount(s)
<1> DEFINE n == Len(d)
           w == WholeDigits(d)
           D == Forward(d)
           t == Unstripped(d)
<1>a. w \in 1..11 /\ n = w + 5 /\ (\A i \in 1..w : t[i] = D[i]) /\ (w > 1 => D[1] # 0)
  BY TextOfDigits
<1>2. length \in (w + 1)..(n + 1) /\ t[length] # 0
  BY DEF IsStripped
<1>3. /\ Len(s) = IF length = w + 1 THEN w ELSE length
      /\ Len(s) \in 1..17 /\ DOMAIN s = 1..Len(s) /\ s \in Seq(CHARACTER)
      /\ \A i \in 1..Len(s) : s[i] = t[i]
      /\ \A i \in 1..Len(s) : s[i] = POINT <=> i = w + 1
  BY StrippedConsists
<1> HIDE DEF n, w, D, t
<1> DEFINE m == Len(s)
<1>m. m \in 1..17 /\ m = (IF length = w + 1 THEN w ELSE length) /\ DOMAIN s = 1..m
  BY <1>3
<1>s. \A i \in 1..m : s[i] = t[i] /\ (s[i] = POINT <=> i = w + 1)
  BY <1>3
<1>4. s # <<>>
  BY <1>3
<1> HIDE DEF m
<1>5. s[1] # POINT
  BY <1>a, <1>m, <1>s
<1>6. \A i, j \in DOMAIN s : s[i] = POINT /\ s[j] = POINT => i = j
  BY <1>m, <1>s
<1>7. m > 1 /\ s[1] = 0 => s[2] = POINT
  <2>1. CASE w = 1
    <3>1. m > 1 => 2 \in 1..m
      BY <1>m
    <3> QED BY <1>s, <2>1, <3>1
  <2>2. CASE w # 1
    <3>1. 1 \in 1..w /\ 1 \in 1..m /\ w > 1
      BY <1>a, <1>m, <2>2
    <3>2. s[1] # 0
      BY <1>a, <1>s, <3>1
    <3> QED BY <3>2
  <2> QED BY <2>1, <2>2
<1>8. \A i \in DOMAIN s : s[i] = POINT => s[m] \notin {0, POINT}
  <2> SUFFICES ASSUME NEW i \in 1..m, s[i] = POINT PROVE s[m] \notin {0, POINT}
    BY <1>m
  <2>1. i = w + 1
    BY <1>s
  <2>2. ASSUME length = w + 1 PROVE FALSE
    <3>1. m = w /\ i <= m
      BY <1>m, <2>2
    <3> QED BY <1>a, <2>1, <3>1
  <2>n. length # w + 1
    BY <2>2
  <2>3. m = length /\ m # w + 1 /\ m \in 1..m
    <3>1. m = length
      BY <1>m, <2>n
    <3>2. m \in 1..m
      BY <1>m
    <3> QED BY <2>n, <3>1, <3>2
  <2> QED BY <1>2, <1>s, <2>3
<1> QED BY <1>4, <1>5, <1>6, <1>7, <1>8 DEF IsCanonicalAmount, m

-----------------------------------------------------------------------------
(* Reading the text of an amount *)

IsValue(f, digits) ==
  f = [n \in 0..Len(digits) |-> IF n = 0 THEN ZERO ELSE Times10Plus(f[n - 1], digits[n])]
ValueOf(digits) == (CHOOSE f : IsValue(f, digits))[Len(digits)]

\* The digits of a chain make up its first number.
LEMMA ValueOfDigits ==
  ASSUME NEW d \in Seq(DIGIT), NEW b, NEW c, IsChain(c, b, d), c[Len(d)] = ZERO,
         NEW D, D \in Seq(DIGIT), Len(D) = Len(d), \A i \in 1..Len(d) : D[i] = d[Len(d) + 1 - i]
  PROVE  ValueOf(D) = b
<1> DEFINE n == Len(d)
           f == [k \in 0..n |-> c[n - k]]
           g == CHOOSE h : IsValue(h, D)
<1>1. n \in Nat /\ Len(D) = n /\ \A i \in 1..n : D[i] = d[n + 1 - i]
  OBVIOUS
<1>2. c[0] = b /\ c[n] = ZERO /\ \A k \in 1..n : Times10Plus(c[k], d[k]) = c[k - 1]
  BY DEF IsChain
<1> HIDE DEF n
<1>3. \A k \in 0..n : f[k] = IF k = 0 THEN ZERO ELSE Times10Plus(f[k - 1], D[k])
  <2> TAKE k \in 0..n
  <2>1. CASE k = 0
    <3>1. f[k] = c[n - 0] /\ n - 0 = n
      BY <1>1, <2>1
    <3> QED BY <1>2, <2>1, <3>1
  <2>2. CASE k # 0
    <3> DEFINE j == n + 1 - k
    <3>1. /\ k \in 1..n /\ j \in 1..n /\ n - k = j - 1 /\ n - (k - 1) = j
          /\ k - 1 \in 0..n
      BY <1>1, <2>2
    <3>2. f[k] = c[j - 1] /\ f[k - 1] = c[j] /\ D[k] = d[j]
      BY <1>1, <3>1
    <3> HIDE DEF j, f
    <3>3. f[k] = Times10Plus(f[k - 1], D[k])
      BY <1>2, <3>1, <3>2
    <3> QED BY <2>2, <3>3
  <2> QED BY <2>1, <2>2
<1>f. f = [k \in 0..n |-> f[k]] /\ f[n] = b
  <2>1. n \in 0..n /\ n - n = 0
    BY <1>1
  <2>2. f[n] = c[n - n]
    BY <2>1
  <2> QED BY <1>2, <2>1, <2>2
<1> HIDE DEF f
<1>4. IsValue(f, D)
  <2>1. f = [k \in 0..n |-> IF k = 0 THEN ZERO ELSE Times10Plus(f[k - 1], D[k])]
    BY <1>3, <1>f
  <2> QED BY <1>1, <2>1 DEF IsValue
<1>5. IsValue(g, D) /\ ValueOf(D) = g[n]
  BY <1>1, <1>4 DEF ValueOf
<1> HIDE DEF g
<1>6. \A k \in 0..n : g[k] = IF k = 0 THEN ZERO ELSE Times10Plus(g[k - 1], D[k])
  BY <1>1, <1>5 DEF IsValue
<1> DEFINE K == {k \in 0..n : g[k] = f[k]}
<1>7. 0 \in K
  BY <1>1, <1>3, <1>6
<1>8. ASSUME NEW k \in 0..(n - 1), k \in K PROVE k + 1 \in K
  <2>1. k + 1 \in 0..n /\ k + 1 # 0 /\ (k + 1) - 1 = k
    BY <1>1
  <2>2. g[k + 1] = Times10Plus(g[k], D[k + 1]) /\ f[k + 1] = Times10Plus(f[k], D[k + 1])
    BY <1>3, <1>6, <2>1
  <2> QED BY <1>8, <2>1, <2>2
<1>9. g[n] = f[n]
  <2> HIDE DEF K
  <2>1. 0..n \subseteq K
    BY <1>1, <1>7, <1>8, UpTo
  <2> QED BY <1>1, <2>1 DEF K
<1> QED BY <1>5, <1>9, <1>f

\* A part of a sequence.
LEMMA PartOfSequence ==
  ASSUME NEW S, NEW t \in Seq(S), NEW from \in Nat \ {0}, NEW to \in Nat, to <= Len(t)
  PROVE  /\ from > to => Len(SubSeq(t, from, to)) = 0
         /\ from <= to => /\ Len(SubSeq(t, from, to)) = to - from + 1
                         /\ \A i \in 1..(to - from + 1) : SubSeq(t, from, to)[i] = t[i + from - 1]
<1>1. from > to => Len(SubSeq(t, from, to)) = 0
  OBVIOUS
<1>2. from <= to => Len(SubSeq(t, from, to)) = to - from + 1
  OBVIOUS
<1>3. from <= to => \A i \in 1..(to - from + 1) : SubSeq(t, from, to)[i] = t[i + from - 1]
  OBVIOUS
<1> QED BY <1>1, <1>2, <1>3

\* What is read of a text with w whole digits.
FractionIn(s, w) == SubSeq(s, w + 2, Len(s))
DigitsIn(s, w) ==
  SubSeq(s, 1, w)
  \o [i \in 1..DECIMALS |-> IF i <= Len(FractionIn(s, w)) THEN FractionIn(s, w)[i] ELSE 0]

\* All digits of a stripped text are read, those that were stripped as zeros.
LEMMA DigitsOfText ==
  ASSUME NEW d, AreDigits(d), NEW length, NEW s, IsStripped(s, d, length),
         NEW digits, digits = DigitsIn(s, WholeDigits(d))
  PROVE  /\ digits \in Seq(DIGIT) /\ Len(digits) = Len(d)
         /\ \A i \in 1..Len(d) : digits[i] = Forward(d)[i]
<1> DEFINE n == Len(d)
           w == WholeDigits(d)
           D == Forward(d)
           t == Unstripped(d)
           m == Len(s)
           fraction == FractionIn(s, w)
           front == SubSeq(s, 1, w)
           back == [i \in 1..5 |-> IF i <= Len(fraction) THEN fraction[i] ELSE 0]
<1>1. /\ w \in 1..11 /\ n = w + 5 /\ D \in [1..n -> DIGIT]
      /\ \A i \in 1..w : t[i] = D[i]
      /\ \A i \in (w + 1)..n : t[i + 1] = D[i]
  BY TextOfDigits
<1>2. /\ length \in (w + 1)..(n + 1)
      /\ \A i \in (length + 1)..(n + 1) : t[i] = 0
  BY DEF IsStripped
<1>3. /\ m = IF length = w + 1 THEN w ELSE length
      /\ m \in 1..17 /\ s \in Seq(CHARACTER)
      /\ \A i \in 1..m : s[i] = t[i]
  BY StrippedConsists
<1>4. digits = front \o back
  BY Zenon DEF DECIMALS, DigitsIn
<1>5. fraction = SubSeq(s, w + 2, m)
  BY DEF FractionIn
<1> HIDE DEF n, w, D, t, fraction
<1>6. m = Len(s) /\ w <= m /\ m <= n + 1
  <2>1. m = Len(s)
    OBVIOUS
  <2> HIDE DEF m
  <2> QED BY <1>1, <1>2, <1>3, <2>1
<1> HIDE DEF m
<1>7. Len(front) = w /\ \A i \in 1..w : front[i] = D[i]
  <2>1. s \in Seq(CHARACTER) /\ w \in Nat /\ w <= Len(s)
    BY <1>1, <1>3, <1>6
  <2>2. Len(front) = w
    BY <2>1
  <2>3. \A i \in 1..w : front[i] = s[i]
    BY <2>1
  <2>4. \A i \in 1..w : i \in 1..m
    BY <1>1, <1>3, <1>6
  <2> HIDE DEF front
  <2> QED BY <1>1, <1>3, <2>2, <2>3, <2>4
<1>8. /\ Len(fraction) = IF length = w + 1 THEN 0 ELSE length - w - 1
      /\ \A i \in 1..Len(fraction) : fraction[i] = s[i + w + 1]
  <2> DEFINE from == w + 2
  <2>0. /\ s \in Seq(CHARACTER) /\ from \in Nat \ {0} /\ m \in Nat /\ m <= Len(s)
        /\ fraction = SubSeq(s, from, m)
    <3>1. from \in Nat \ {0}
      BY <1>1
    <3>2. m \in Nat /\ m <= Len(s)
      BY <1>3, <1>6
    <3> QED BY <1>3, <1>5, <3>1, <3>2
  <2>from. from = w + 2
    OBVIOUS
  <2> HIDE DEF from
  <2>part. /\ from > m => Len(fraction) = 0
           /\ from <= m => /\ Len(fraction) = m - from + 1
                          /\ \A i \in 1..(m - from + 1) : fraction[i] = s[i + from - 1]
    <3> DEFINE part == SubSeq(s, from, m)
    <3>1. /\ from > m => Len(part) = 0
          /\ from <= m => /\ Len(part) = m - from + 1
                         /\ \A i \in 1..(m - from + 1) : part[i] = s[i + from - 1]
      <4>1. s \in Seq(CHARACTER) /\ from \in Nat \ {0} /\ m \in Nat /\ m <= Len(s)
        BY <2>0
      <4> QED BY <4>1, PartOfSequence
    <3>2. fraction = part
      BY <2>0
    <3> HIDE DEF part
    <3> QED BY <3>1, <3>2
  <2>1. CASE length = w + 1
    <3>1. from > m
      BY <1>1, <1>3, <2>1, <2>from
    <3>2. Len(fraction) = 0
      BY <2>part, <3>1
    <3> QED BY <2>1, <3>2
  <2>2. CASE length # w + 1
    <3>1. m = length /\ from <= m
      BY <1>1, <1>2, <1>3, <2>2, <2>from
    <3>2. m - from + 1 = length - w - 1 /\ \A i \in 1..(m - from + 1) : i + from - 1 = i + w + 1
      BY <1>1, <1>2, <3>1, <2>from
    <3>3. Len(fraction) = m - from + 1 /\ \A i \in 1..(m - from + 1) : fraction[i] = s[i + from - 1]
      BY <2>part, <3>1
    <3>4. Len(fraction) = length - w - 1
      BY <3>2, <3>3
    <3>5. \A i \in 1..Len(fraction) : fraction[i] = s[i + w + 1]
      BY <3>2, <3>3
    <3> QED BY <2>2, <3>4, <3>5
  <2> QED BY <2>1, <2>2
<1> DEFINE k == Len(fraction)
<1>k. k = (IF length = w + 1 THEN 0 ELSE length - w - 1) /\ k = Len(fraction)
  BY <1>8
<1> HIDE DEF k
<1>F. k \in Nat
  BY <1>1, <1>2, <1>k
<1>9. \A i \in 1..5 : back[i] = D[w + i]
  <2> TAKE i \in 1..5
  <2>1. back[i] = IF i <= Len(fraction) THEN fraction[i] ELSE 0
    OBVIOUS
  <2> HIDE DEF back
  <2>2. w + i \in (w + 1)..n /\ t[w + i + 1] = D[w + i]
    <3>1. w + i \in (w + 1)..n
      BY <1>1
    <3> QED BY <1>1, <3>1
  <2>3. CASE i <= k
    <3>1. length # w + 1 /\ i <= length - w - 1 /\ m = length
      <4>1. length # w + 1
        BY <1>k, <2>3
      <4> QED BY <1>3, <1>k, <2>3, <4>1
    <3>2. i \in 1..k
      BY <1>F, <2>3
    <3>3. i + w + 1 \in 1..m /\ i + w + 1 = w + i + 1
      BY <1>1, <1>2, <3>1
    <3>4. fraction[i] = t[w + i + 1]
      BY <1>3, <1>8, <1>k, <3>2, <3>3
    <3> QED BY <1>k, <2>1, <2>2, <2>3, <3>4
  <2>4. CASE ~(i <= k)
    <3>1. w + i + 1 \in (length + 1)..(n + 1)
      <4>1. CASE length = w + 1
        BY <1>1, <4>1
      <4>2. CASE length # w + 1
        <5>1. i > length - w - 1
          BY <1>1, <1>2, <1>k, <2>4, <4>2
        <5> QED BY <1>1, <1>2, <5>1
      <4> QED BY <4>1, <4>2
    <3>2. t[w + i + 1] = 0
      BY <1>2, <3>1
    <3> QED BY <1>k, <2>1, <2>2, <2>4, <3>2
  <2> QED BY <2>3, <2>4
<1>10. back \in Seq(DIGIT) /\ Len(back) = 5
  <2>1. back = [i \in 1..5 |-> back[i]] /\ DOMAIN back = 1..5
    OBVIOUS
  <2> HIDE DEF back
  <2>2. \A i \in 1..5 : back[i] \in DIGIT
    <3> TAKE i \in 1..5
    <3>1. w + i \in 1..n
      BY <1>1
    <3> QED BY <1>1, <1>9, <3>1
  <2> DEFINE five == 5
  <2>3. five \in Nat /\ back = [i \in 1..five |-> back[i]] /\ \A i \in 1..five : back[i] \in DIGIT
    BY <2>1, <2>2
  <2> HIDE DEF five
  <2>4. back \in [1..five -> DIGIT]
    BY <2>3
  <2>5. back \in Seq(DIGIT) /\ Len(back) = five
    BY <2>3, <2>4
  <2> QED BY <2>5 DEF five
<1>11. front \in Seq(DIGIT)
  <2>1. \A i \in 1..w : front[i] \in DIGIT
    <3> TAKE i \in 1..w
    <3>1. i \in 1..n
      BY <1>1
    <3> HIDE DEF front
    <3> QED BY <1>1, <1>7, <3>1
  <2>2. s \in Seq(CHARACTER) /\ w \in Nat /\ w <= Len(s)
    BY <1>1, <1>3, <1>6
  <2>3. front = [i \in 1..w |-> front[i]]
    BY <2>2
  <2> HIDE DEF front
  <2>4. front \in [1..w -> DIGIT] /\ w \in Nat
    BY <2>1, <2>2, <2>3
  <2> QED BY <2>3, <2>4
<1> HIDE DEF front, back
<1>12. /\ digits \in Seq(DIGIT) /\ Len(digits) = w + 5
       /\ \A i \in 1..w : digits[i] = front[i]
       /\ \A i \in 1..5 : digits[w + i] = back[i]
  <2> DEFINE both == front \o back
  <2>1. /\ both \in Seq(DIGIT) /\ Len(both) = Len(front) + Len(back)
        /\ \A i \in 1..Len(front) : both[i] = front[i]
        /\ \A i \in 1..Len(back) : both[Len(front) + i] = back[i]
    <3>1. front \in Seq(DIGIT) /\ back \in Seq(DIGIT)
      BY <1>10, <1>11
    <3> QED BY <3>1, Concatenation
  <2> HIDE DEF both
  <2>2. digits = both
    BY <1>4 DEF both
  <2> QED BY <1>7, <1>10, <2>1, <2>2
<1>13. ASSUME NEW i \in 1..n PROVE digits[i] = D[i]
  <2>1. CASE i \in 1..w
    BY <1>7, <1>12, <2>1
  <2>2. CASE i \notin 1..w
    <3>1. i - w \in 1..5 /\ w + (i - w) = i
      BY <1>1, <2>2
    <3>2. digits[w + (i - w)] = back[i - w] /\ back[i - w] = D[w + (i - w)]
      BY <1>9, <1>12, <3>1
    <3> QED BY <3>1, <3>2
  <2> QED BY <2>1, <2>2
<1> QED BY <1>1, <1>12, <1>13 DEF n, D

\* Where the whole digits end.
IsPoint(i, text) ==
  /\ i <= Len(text) => text[i] = POINT
  /\ \A j \in 1..(i - 1) : text[j] # POINT

\* Reading what is left of the text gives the number the digits are of.
LEMMA ReadStripped ==
  ASSUME NEW d, AreDigits(d), NEW length, NEW s, IsStripped(s, d, length),
         NEW b, NEW c, IsChain(c, b, d), c[Len(d)] = ZERO
  PROVE  ReadAmount(s) = b
<1> DEFINE w == WholeDigits(d)
           point == CHOOSE i \in 1..(Len(s) + 1) : IsPoint(i, s)
           fraction == SubSeq(s, point + 1, Len(s))
           digits == SubSeq(s, 1, point - 1)
                     \o [i \in 1..DECIMALS |-> IF i <= Len(fraction) THEN fraction[i] ELSE 0]
<1>1. w \in 1..11 /\ Len(d) = w + 5
  BY TextOfDigits
<1>2. /\ Len(s) = IF length = w + 1 THEN w ELSE length
      /\ Len(s) \in 1..17
      /\ \A i \in 1..Len(s) : s[i] = POINT <=> i = w + 1
  BY StrippedConsists
<1>3. length \in (w + 1)..(Len(d) + 1)
  BY DEF IsStripped
<1>m. Len(s) \in Nat
  BY <1>2
<1>4. ReadAmount(s) = ValueOf(digits)
  BY Zenon DEF ReadAmount, ValueOf, IsValue, IsPoint, ZERO
<1>5. point = w + 1
  <2> HIDE DEF w
  <2> DEFINE m == Len(s)
  <2>m. m \in Nat /\ w \in Nat /\ m = Len(s) /\ (m = w \/ m >= w + 1)
    BY <1>1, <1>2, <1>3, <1>m
  <2>i. \A i \in 1..m : s[i] = POINT <=> i = w + 1
    BY <1>2
  <2> HIDE DEF m
  <2>1. IsPoint(w + 1, s) /\ w + 1 \in 1..(m + 1)
    <3>1. w + 1 <= m => s[w + 1] = POINT
      BY <2>m, <2>i
    <3>2. ASSUME NEW j \in 1..((w + 1) - 1) PROVE s[j] # POINT
      <4>1. j \in 1..m /\ j # w + 1
        BY <2>m
      <4> QED BY <2>i, <4>1
    <3>3. IsPoint(w + 1, s)
      BY <2>m, <3>1, <3>2 DEF IsPoint
    <3>4. w + 1 \in 1..(m + 1)
      BY <2>m
    <3> QED BY <3>3, <3>4
  <2>2. ASSUME NEW i \in 1..(m + 1), IsPoint(i, s) PROVE i = w + 1
    <3>1. CASE i <= m
      <4>1. i \in 1..m /\ s[i] = POINT
        BY <2>m, <2>2, <3>1 DEF IsPoint
      <4> QED BY <2>i, <4>1
    <3>2. CASE ~(i <= m)
      <4>1. i - 1 = m /\ i = m + 1
        BY <2>m, <3>2
      <4>2. \A j \in 1..m : s[j] # POINT
        BY <2>2, <4>1 DEF IsPoint
      <4>3. ASSUME m >= w + 1 PROVE FALSE
        <5>1. w + 1 \in 1..m
          BY <2>m, <4>3
        <5> QED BY <2>i, <4>2, <5>1
      <4> QED BY <2>m, <4>1, <4>3
    <3> QED BY <3>1, <3>2
  <2>3. \A i \in 1..(Len(s) + 1) : IsPoint(i, s) => i = w + 1
    BY <2>2 DEF m
  <2>4. w + 1 \in 1..(Len(s) + 1)
    BY <2>1 DEF m
  <2> QED BY <2>1, <2>3, <2>4
<1> HIDE DEF point
<1>6. point + 1 = w + 2 /\ point - 1 = w
  BY <1>1, <1>5
<1>7. digits = DigitsIn(s, w)
  BY <1>6, Zenon DEF DigitsIn, FractionIn
<1> HIDE DEF fraction, digits
<1>9. /\ digits \in Seq(DIGIT) /\ Len(digits) = Len(d)
      /\ \A i \in 1..Len(d) : digits[i] = Forward(d)[i]
  BY <1>7, DigitsOfText
<1>10. \A i \in 1..Len(d) : digits[i] = d[Len(d) + 1 - i]
  BY <1>9 DEF Forward
<1>11. d \in Seq(DIGIT)
  BY DEF AreDigits
<1>12. ValueOf(digits) = b
  BY <1>9, <1>10, <1>11, ValueOfDigits
<1> QED BY <1>4, <1>12

\* parse_amount prints every number up to its largest, exactly and without a character
\* too much, into its buffer.
LEMMA AmountsArePrinted ==
  ASSUME NEW b \in Numbers, IsSafeAmount(b)
  PROVE  \E text : /\ ParseAmount(b) = {text}
                   /\ Len(text) < STRING_LENGTH_NIM_AMOUNT
                   /\ IsCanonicalAmount(text) /\ ReadAmount(text) = b
<1> DEFINE d == ReversedDigits(b)
           t == Unstripped(d)
           s == Stripped(t)
<1>1. /\ d \in Seq(DIGIT) /\ Len(d) \in 6..16
      /\ Len(d) > 6 => d[Len(d)] # 0
      /\ \E c : IsChain(c, b, d) /\ c[Len(d)] = ZERO
  BY DigitsOfAmount
<1>2. AreDigits(d)
  BY <1>1 DEF AreDigits
<1>3. PICK length : IsStripped(s, d, length)
  BY <1>2, StrippedText
<1>4. Len(t) = Len(d) + 1
  BY <1>2, TextOfDigits
<1>5. Len(s) \in 1..17
  BY <1>2, <1>3, StrippedConsists
<1>6. IsCanonicalAmount(s)
  BY <1>2, <1>3, StrippedIsCanonical
<1>7. ReadAmount(s) = b
  BY <1>1, <1>2, <1>3, ReadStripped
<1>8. ParseAmount(b) = IF \/ Len(t) > STRING_LENGTH_NIM_AMOUNT
                          \/ Len(s) >= STRING_LENGTH_NIM_AMOUNT
                       THEN {} ELSE {s}
  BY Zenon DEF ParseAmount, Unstripped, WholeDigits
<1> HIDE DEF d, t, s
<1>9. ~(Len(t) > STRING_LENGTH_NIM_AMOUNT) /\ Len(s) < STRING_LENGTH_NIM_AMOUNT
      /\ ~(Len(s) >= STRING_LENGTH_NIM_AMOUNT)
  <2> DEFINE digits == Len(d)
             whole == Len(t)
             stripped == Len(s)
             size == STRING_LENGTH_NIM_AMOUNT
  <2>1. digits \in 6..16 /\ whole = digits + 1 /\ stripped \in 1..17
    BY <1>1, <1>4, <1>5
  <2>2. size = 18
    BY DEF STRING_LENGTH_NIM_AMOUNT
  <2> HIDE DEF digits, whole, stripped, size
  <2>3. ~(whole > size) /\ stripped < size /\ ~(stripped >= size)
    BY <2>1, <2>2
  <2> QED BY <2>3 DEF whole, stripped, size
<1>10. ParseAmount(b) = {s}
  BY <1>8, <1>9
<1> QED BY <1>6, <1>7, <1>9, <1>10

-----------------------------------------------------------------------------
(* Where the envelope has its fields *)

\* What a read of some bytes leaves: their piece, and the position behind it.
Took(c, d, length) ==
  d.ok => c.ok /\ d.at = c.at + length /\ d.left = c.left - length /\ d.out = Piece(c.at, length)

\* Each read of a fixed length that succeeds takes the bytes at its position.
LEMMA ReadsTake ==
  ASSUME NEW c \in Cursors
  PROVE  /\ ReadU8(c) \in Cursors /\ Took(c, ReadU8(c), 1)
         /\ ReadU16(c) \in Cursors /\ Took(c, ReadU16(c), 2)
         /\ ReadU32(c) \in Cursors /\ Took(c, ReadU32(c), 4)
         /\ ReadU64(c) \in Cursors /\ Took(c, ReadU64(c), 8)
         /\ ReadSubBuffer(c, ADDRESS_LENGTH) \in Cursors
         /\ Took(c, ReadSubBuffer(c, ADDRESS_LENGTH), ADDRESS_LENGTH)
<1>1. ADDRESS_LENGTH \in Nat /\ ADDRESS_LENGTH # 0
  BY DEF ADDRESS_LENGTH
<1>2. /\ ReadSubBuffer(c, ADDRESS_LENGTH) \in Cursors
      /\ ReadSubBuffer(c, ADDRESS_LENGTH).ok =>
            Advanced(c, ReadSubBuffer(c, ADDRESS_LENGTH), ADDRESS_LENGTH)
  BY <1>1, ReadSubBufferAdvances
<1>3. ASSUME NEW d, NEW length, length # 0, d.ok => Advanced(c, d, length)
      PROVE  Took(c, d, length)
  BY <1>3 DEF Took, Advanced
<1> QED BY <1>1, <1>2, <1>3, FixedReadsAdvance

\* The pieces of the envelope behind n bytes of recipient data.
ArePieces(e, n) ==
  /\ e.sender = Piece(n + 3, 20) /\ e.senderType = Piece(n + 23, 1)
  /\ e.recipient = Piece(n + 24, 20) /\ e.recipientType = Piece(n + 44, 1)
  /\ e.value = Piece(n + 45, 8) /\ e.fee = Piece(n + 53, 8)
  /\ e.height = Piece(n + 61, 4) /\ e.networkId = Piece(n + 65, 1)
  /\ e.flags = Piece(n + 66, 1)

\* The cursors behind the recipient data and behind the flags.
DataCursor(input) ==
  ReadSubBuffer(ReadU16(Open(Whole(input))), U16(input, ReadU16(Open(Whole(input))).out))
FlagsCursor(data) ==
  ReadU8(ReadU8(ReadU32(ReadU64(ReadU64(ReadU8(ReadSubBuffer(
    ReadU8(ReadSubBuffer(data, ADDRESS_LENGTH)), ADDRESS_LENGTH)))))))

\* The cursor c has read the flags behind n bytes of data.
AreFlagsRead(c, n, input) ==
  c \in Cursors /\ c.ok /\ c.at = n + 67 /\ c.left = Len(input) - n - 66

\* The fields of an envelope that is complete are where the length n of its data puts them.
LEMMA EnvelopePieces ==
  ASSUME NEW v \in {"LEGACY", "ALBATROSS"}, NEW input \in Seq(BYTE),
         NEW e, e = Envelope(v, input), IsComplete(e)
  PROVE  \E n \in Nat : /\ ArePieces(e, n) /\ n + 66 <= Len(input)
                        /\ e.data = IF n = 0 THEN Nothing ELSE Piece(3, n)
                        /\ AreFlagsRead(FlagsCursor(DataCursor(input)), n, input)
<1> DEFINE whole == Open(Whole(input))
           dataLength == ReadU16(whole)
           number == U16(input, dataLength.out)
           data == ReadSubBuffer(dataLength, number)
           sender == ReadSubBuffer(data, ADDRESS_LENGTH)
           senderType == ReadU8(sender)
           recipient == ReadSubBuffer(senderType, ADDRESS_LENGTH)
           recipientType == ReadU8(recipient)
           value == ReadU64(recipientType)
           fee == ReadU64(value)
           height == ReadU32(fee)
           networkId == ReadU8(height)
           flags == ReadU8(networkId)
           senderData == IF v = "ALBATROSS" THEN ReadVecU8(input, flags)
                         ELSE [flags EXCEPT !.out = Nothing]
<1>1. e = [ok |-> senderData.ok, left |-> senderData.left,
           data |-> data.out, sender |-> sender.out, senderType |-> senderType.out,
           recipient |-> recipient.out, recipientType |-> recipientType.out,
           value |-> value.out, fee |-> fee.out, height |-> height.out,
           networkId |-> networkId.out, flags |-> flags.out, senderData |-> senderData.out]
  BY Zenon DEF Envelope
<1>2. /\ e.ok = senderData.ok /\ e.data = data.out /\ e.sender = sender.out
      /\ e.senderType = senderType.out /\ e.recipient = recipient.out
      /\ e.recipientType = recipientType.out /\ e.value = value.out /\ e.fee = fee.out
      /\ e.height = height.out /\ e.networkId = networkId.out /\ e.flags = flags.out
  <2> HIDE DEF senderData, data, sender, senderType, recipient, recipientType, value, fee,
               height, networkId, flags
  <2> QED BY <1>1
<1>2a. flags = FlagsCursor(DataCursor(input))
  BY DEF FlagsCursor, DataCursor
<1>3. whole \in Cursors /\ whole.ok /\ whole.at = 1 /\ whole.left = Len(input)
  <2>1. Whole(input) \in Pieces /\ Whole(input).at = 1 /\ Whole(input).length = Len(input)
    BY DEF Whole, Piece, Pieces
  <2> QED BY <2>1, OpenIsCursor
<1>4. dataLength \in Cursors /\ Took(whole, dataLength, 2)
  <2> HIDE DEF whole
  <2> QED BY <1>3, ReadsTake
<1>5. ASSUME dataLength.ok PROVE number \in Nat
  <2> HIDE DEF dataLength, whole
  <2>1. dataLength.out = Piece(1, 2) /\ dataLength.left = Len(input) - 2 /\ dataLength.left \in Nat
    BY <1>3, <1>4, <1>5 DEF Took, Cursors
  <2>2. dataLength.out.at = 1 /\ Len(input) >= 2
    BY <2>1 DEF Piece
  <2>3. dataLength.out.at \in Nat \ {0} /\ dataLength.out.at + 1 <= Len(input)
    BY <2>1, <2>2
  <2> QED BY <2>3, NumbersOfInput, Zenon
<1>6. data \in Cursors /\ (data.ok => Advanced(dataLength, data, number))
  <2> HIDE DEF dataLength, number
  <2> QED BY <1>4, <1>5, ReadSubBufferAdvances
<1>7. sender \in Cursors /\ Took(data, sender, 20)
  <2> HIDE DEF data
  <2> QED BY <1>6, ReadsTake DEF ADDRESS_LENGTH
<1>8. senderType \in Cursors /\ Took(sender, senderType, 1)
  <2> HIDE DEF sender
  <2> QED BY <1>7, ReadsTake
<1>9. recipient \in Cursors /\ Took(senderType, recipient, 20)
  <2> HIDE DEF senderType
  <2> QED BY <1>8, ReadsTake DEF ADDRESS_LENGTH
<1>10. recipientType \in Cursors /\ Took(recipient, recipientType, 1)
  <2> HIDE DEF recipient
  <2> QED BY <1>9, ReadsTake
<1>11. value \in Cursors /\ Took(recipientType, value, 8)
  <2> HIDE DEF recipientType
  <2> QED BY <1>10, ReadsTake
<1>12. fee \in Cursors /\ Took(value, fee, 8)
  <2> HIDE DEF value
  <2> QED BY <1>11, ReadsTake
<1>13. height \in Cursors /\ Took(fee, height, 4)
  <2> HIDE DEF fee
  <2> QED BY <1>12, ReadsTake
<1>14. networkId \in Cursors /\ Took(height, networkId, 1)
  <2> HIDE DEF height
  <2> QED BY <1>13, ReadsTake
<1>15. flags \in Cursors /\ Took(networkId, flags, 1)
  <2> HIDE DEF networkId
  <2> QED BY <1>14, ReadsTake
<1> HIDE DEF whole, dataLength, number, data, sender, senderType, recipient, recipientType,
             value, fee, height, networkId, flags
<1>16. senderData.ok => flags.ok
  <2>1. ReadVecU8(input, flags).ok => flags.ok
    <3> DEFINE byte == ReadU8(flags)
               length == ReadUvarint(input, flags)
               d == ReadVecU8(input, flags)
    <3>1. byte \in Cursors /\ Took(flags, byte, 1)
      BY <1>15, ReadsTake
    <3>2. length.ok => byte.ok
      BY <3>1 DEF ReadUvarint, Fail, Cursors
    <3>3. d.ok => length.ok
      <4>1. d = ReadSubBuffer(length, U8(input, length.out))
        BY DEF ReadVecU8
      <4> HIDE DEF d, length
      <4> QED BY <4>1 DEF ReadSubBuffer
    <3> QED BY <3>1, <3>2, <3>3 DEF Took
  <2>2. [flags EXCEPT !.out = Nothing].ok = flags.ok
    BY <1>15 DEF Cursors
  <2> QED BY <2>1, <2>2
<1>17. flags.ok
  BY <1>2, <1>16 DEF IsComplete
<1>18. /\ networkId.ok /\ height.ok /\ fee.ok /\ value.ok /\ recipientType.ok
       /\ recipient.ok /\ senderType.ok /\ sender.ok /\ data.ok /\ dataLength.ok
  BY <1>6, <1>7, <1>8, <1>9, <1>10, <1>11, <1>12, <1>13, <1>14, <1>15, <1>17
  DEF Took, Advanced
<1>19. number \in Nat /\ data.at = 3 + number /\ data.left = Len(input) - 2 - number
       /\ data.out = IF number = 0 THEN Nothing ELSE Piece(3, number)
  <2>1. dataLength.at = 3 /\ dataLength.left = Len(input) - 2
    BY <1>3, <1>4, <1>18 DEF Took
  <2>2. Advanced(dataLength, data, number) /\ number \in Nat
    BY <1>5, <1>6, <1>18
  <2> QED BY <2>1, <2>2 DEF Advanced
<1> DEFINE n == number
           left == data.left
<1>20. n \in Nat /\ left \in Nat /\ data.at = n + 3 /\ left = Len(input) - 2 - n /\ Len(input) \in Nat
  BY <1>6, <1>19 DEF Cursors
<1>21. sender.out = Piece(n + 3, 20) /\ sender.at = n + 23 /\ sender.left = left - 20
  BY <1>7, <1>18, <1>20 DEF Took
<1>22. senderType.out = Piece(n + 23, 1) /\ senderType.at = n + 24 /\ senderType.left = left - 21
  BY <1>8, <1>18, <1>20, <1>21 DEF Took
<1>23. recipient.out = Piece(n + 24, 20) /\ recipient.at = n + 44 /\ recipient.left = left - 41
  BY <1>9, <1>18, <1>20, <1>22 DEF Took
<1>24. /\ recipientType.out = Piece(n + 44, 1) /\ recipientType.at = n + 45
       /\ recipientType.left = left - 42
  BY <1>10, <1>18, <1>20, <1>23 DEF Took
<1>25. value.out = Piece(n + 45, 8) /\ value.at = n + 53 /\ value.left = left - 50
  BY <1>11, <1>18, <1>20, <1>24 DEF Took
<1>26. fee.out = Piece(n + 53, 8) /\ fee.at = n + 61 /\ fee.left = left - 58
  BY <1>12, <1>18, <1>20, <1>25 DEF Took
<1>27. height.out = Piece(n + 61, 4) /\ height.at = n + 65 /\ height.left = left - 62
  BY <1>13, <1>18, <1>20, <1>26 DEF Took
<1>28. networkId.out = Piece(n + 65, 1) /\ networkId.at = n + 66 /\ networkId.left = left - 63
  BY <1>14, <1>18, <1>20, <1>27 DEF Took
<1>29. flags.out = Piece(n + 66, 1) /\ flags.at = n + 67 /\ flags.left = left - 64
  BY <1>15, <1>17, <1>20, <1>28 DEF Took
<1>30. n + 66 <= Len(input)
  <2>1. flags.left \in Nat
    BY <1>15 DEF Cursors
  <2> QED BY <1>20, <1>29, <2>1
<1>31. ArePieces(e, n)
  BY <1>2, <1>21, <1>22, <1>23, <1>24, <1>25, <1>26, <1>27, <1>28, <1>29 DEF ArePieces
<1>32. AreFlagsRead(FlagsCursor(DataCursor(input)), n, input)
  BY <1>2a, <1>15, <1>17, <1>20, <1>29 DEF AreFlagsRead
<1> QED BY <1>2, <1>19, <1>20, <1>30, <1>31, <1>32

\* Eight bytes of the input are a number.
LEMMA NumberInInput ==
  ASSUME NEW input \in Seq(BYTE), NEW at \in Nat \ {0}, at + 7 <= Len(input)
  PROVE  Bytes(input, Piece(at, 8)) \in Numbers
<1> DEFINE b == SubSeq(input, at, at + 7)
<1>1. b \in Seq(BYTE) /\ Len(b) = 8
  <2> DEFINE to == at + 7
             size == to - at + 1
  <2>1. to \in Nat /\ at <= to /\ to <= Len(input) /\ size = 8
    OBVIOUS
  <2> HIDE DEF to, size
  <2>2. Len(SubSeq(input, at, to)) = size /\ \A i \in 1..size : SubSeq(input, at, to)[i] = input[i + at - 1]
    BY <2>1, PartOfSequence DEF size
  <2>3. SubSeq(input, at, to) \in Seq(BYTE)
    BY <2>1
  <2> QED BY <2>1, <2>2, <2>3 DEF to
<1>2. Bytes(input, Piece(at, 8)) = b
  <2>1. at + 8 - 1 = at + 7
    OBVIOUS
  <2> QED BY <2>1 DEF Bytes, Piece
<1> QED BY <1>1, <1>2 DEF Numbers

-----------------------------------------------------------------------------
(* Reading a transaction with another proof *)

\* Two inputs that differ at most in the key and the signature of the proof, the key of
\* which is at position p.
DifferAt(p, input, other) ==
  /\ other \in Seq(BYTE) /\ Len(other) = Len(input)
  /\ \A i \in 1..Len(input) : (i < p \/ i = p + 32 \/ i > p + 96) => other[i] = input[i]

\* A piece in front of the key or behind the signature reads the same.
LEMMA PiecesReadTheSame ==
  ASSUME NEW input \in Seq(BYTE), NEW p \in Nat, NEW other, DifferAt(p, input, other),
         NEW at \in Nat \ {0}, NEW length \in Nat \ {0}, at + length - 1 <= Len(input),
         at + length <= p \/ p + 96 < at
  PROVE  /\ Bytes(other, Piece(at, length)) = Bytes(input, Piece(at, length))
         /\ U8(other, Piece(at, length)) = U8(input, Piece(at, length))
         /\ Bool(other, Piece(at, length)) = Bool(input, Piece(at, length))
         /\ length >= 2 => U16(other, Piece(at, length)) = U16(input, Piece(at, length))
<1>1. /\ other \in Seq(BYTE) /\ Len(other) = Len(input) /\ Len(input) \in Nat
      /\ \A i \in 1..Len(input) : (i < p \/ i = p + 32 \/ i > p + 96) => other[i] = input[i]
  BY DEF DifferAt
<1> DEFINE to == at + length - 1
           n == to - at + 1
<1>2. to \in Nat /\ at <= to /\ to <= Len(input) /\ n = length /\ (to < p \/ p + 96 < at)
  OBVIOUS
<1>3. ASSUME NEW i \in Nat, at <= i, i <= to PROVE other[i] = input[i]
  <2>1. i \in 1..Len(input) /\ (i < p \/ i > p + 96)
    BY <1>2, <1>3
  <2> QED BY <1>1, <2>1
<1>4. Piece(at, length).at = at /\ Piece(at, length).length = length
  BY DEF Piece
<1>5. Bytes(other, Piece(at, length)) = Bytes(input, Piece(at, length))
  <2> HIDE DEF to, n
  <2> DEFINE f == SubSeq(input, at, to)
             g == SubSeq(other, at, to)
  <2>1. f \in Seq(BYTE) /\ Len(f) = n /\ \A i \in 1..n : f[i] = input[i + at - 1]
    BY <1>1, <1>2, PartOfSequence DEF n
  <2>2. g \in Seq(BYTE) /\ Len(g) = n /\ \A i \in 1..n : g[i] = other[i + at - 1]
    BY <1>1, <1>2, PartOfSequence DEF n
  <2>3. \A i \in 1..n : g[i] = f[i]
    <3> TAKE i \in 1..n
    <3>1. n = to - at + 1 /\ i \in Nat /\ 1 <= i /\ i <= n
      BY <1>2 DEF n
    <3>2. i + at - 1 \in Nat /\ at <= i + at - 1 /\ i + at - 1 <= to
      BY <1>2, <3>1
    <3>3. other[i + at - 1] = input[i + at - 1]
      BY <1>3, <3>2
    <3> QED BY <2>1, <2>2, <3>3
  <2> HIDE DEF f, g
  <2>4. f = [i \in 1..n |-> f[i]] /\ g = [i \in 1..n |-> g[i]]
    BY <2>1, <2>2
  <2>5. f = g
    BY <2>3, <2>4
  <2>6. Bytes(input, Piece(at, length)) = f /\ Bytes(other, Piece(at, length)) = g
    BY <1>4 DEF Bytes, f, g, to
  <2> QED BY <2>5, <2>6
<1>6. other[at] = input[at]
  BY <1>2, <1>3
<1>7. length >= 2 => other[at + 1] = input[at + 1]
  BY <1>2, <1>3
<1> QED BY <1>4, <1>5, <1>6, <1>7 DEF U8, Bool, U16

\* A vector reads the same if its length does.
LEMMA VectorsReadTheSame ==
  ASSUME NEW input, NEW other, NEW c \in Cursors,
         ReadU8(c).ok => U8(other, ReadU8(c).out) = U8(input, ReadU8(c).out)
  PROVE  ReadVecU8(other, c) = ReadVecU8(input, c)
<1> DEFINE read == ReadU8(c)
           Length(x) == ReadUvarint(x, c)
<1>1. ASSUME NEW x
      PROVE  /\ ReadVecU8(x, c) = ReadSubBuffer(Length(x), U8(x, Length(x).out))
             /\ Length(x) = IF read.ok /\ U8(x, read.out) >= CONTINUATION_BIT
                            THEN Fail(read) ELSE read
  BY Zenon DEF ReadVecU8, ReadUvarint
<1>2. read \in Cursors
  BY FixedReadsAdvance
<1> HIDE DEF Length, read
<1>3. Length(other) = Length(input)
  BY <1>1 DEF read
<1>4. CASE ~Length(input).ok
  BY <1>1, <1>3, <1>4 DEF ReadSubBuffer
<1>5. CASE Length(input).ok
  <2>1. ~Fail(read).ok
    BY <1>2 DEF Fail, Cursors
  <2>2. Length(input) = read
    BY <1>1, <1>5, <2>1
  <2> QED BY <1>1, <1>3, <1>5, <2>2 DEF read
<1> QED BY <1>4, <1>5

\* The envelope depends on the input only by the length of its data, and that of the
\* sender data.
LEMMA EnvelopesReadTheSame ==
  ASSUME NEW v, NEW input, NEW other,
         DataCursor(other) = DataCursor(input),
         ReadVecU8(other, FlagsCursor(DataCursor(input)))
           = ReadVecU8(input, FlagsCursor(DataCursor(input)))
  PROVE  Envelope(v, other) = Envelope(v, input)
<1> DEFINE E(data, vector) ==
             LET sender == ReadSubBuffer(data, ADDRESS_LENGTH)
                 senderType == ReadU8(sender)
                 recipient == ReadSubBuffer(senderType, ADDRESS_LENGTH)
                 recipientType == ReadU8(recipient)
                 value == ReadU64(recipientType)
                 fee == ReadU64(value)
                 height == ReadU32(fee)
                 networkId == ReadU8(height)
                 flags == ReadU8(networkId)
                 senderData == IF v = "ALBATROSS" THEN vector ELSE [flags EXCEPT !.out = Nothing]
             IN [ok |-> senderData.ok, left |-> senderData.left,
                 data |-> data.out, sender |-> sender.out, senderType |-> senderType.out,
                 recipient |-> recipient.out, recipientType |-> recipientType.out,
                 value |-> value.out, fee |-> fee.out, height |-> height.out,
                 networkId |-> networkId.out, flags |-> flags.out, senderData |-> senderData.out]
<1>1. ASSUME NEW x
      PROVE  Envelope(v, x) = E(DataCursor(x), ReadVecU8(x, FlagsCursor(DataCursor(x))))
  BY Zenon DEF Envelope, DataCursor, FlagsCursor
<1> HIDE DEF E
<1>2. /\ Envelope(v, other) = E(DataCursor(other), ReadVecU8(other, FlagsCursor(DataCursor(other))))
      /\ Envelope(v, input) = E(DataCursor(input), ReadVecU8(input, FlagsCursor(DataCursor(input))))
  BY <1>1
<1> QED BY <1>2

\* The proof itself passes as before: its type and its merkle path are not overwritten.
LEMMA ProofsReadTheSame ==
  ASSUME NEW input \in Seq(BYTE), NEW c \in Cursors, c.at # 0,
         NEW proof, proof = ReadSignatureProof(input, c), proof.ok,
         c.at + 97 <= Len(input),
         NEW other, DifferAt(c.at + 1, input, other)
  PROVE  ReadSignatureProof(other, c) = proof
<1> DEFINE typeAndFlags == ReadU8(c)
           key == ReadSubBuffer(typeAndFlags, PUBLIC_KEY_LENGTH)
           merklePathLength == ReadU8(key)
           signature == ReadSubBuffer(merklePathLength, SIGNATURE_LENGTH)
           R(first, second) ==
             [ok |-> signature.ok /\ first = 0 /\ second = 0,
              left |-> signature.left, key |-> key.out, signature |-> signature.out]
<1>1. ASSUME NEW x
      PROVE  ReadSignatureProof(x, c) = R(U8(x, typeAndFlags.out), U8(x, merklePathLength.out))
  BY Zenon DEF ReadSignatureProof
<1>2. proof.ok => signature.ok
  <2>1. \E ok : /\ proof = [ok |-> ok, left |-> signature.left, key |-> key.out, signature |-> signature.out]
                /\ ok => signature.ok
    BY Zenon DEF ReadSignatureProof
  <2> QED BY <2>1
<1> HIDE DEF R
<1>3. PUBLIC_KEY_LENGTH \in Nat /\ PUBLIC_KEY_LENGTH = 32 /\ SIGNATURE_LENGTH \in Nat /\ SIGNATURE_LENGTH = 64
  BY DEF PUBLIC_KEY_LENGTH, SIGNATURE_LENGTH
<1>4. typeAndFlags \in Cursors /\ (typeAndFlags.ok => Advanced(c, typeAndFlags, 1))
  BY FixedReadsAdvance
<1> HIDE DEF typeAndFlags
<1>5. key \in Cursors /\ (key.ok => Advanced(typeAndFlags, key, PUBLIC_KEY_LENGTH))
  BY <1>3, <1>4, ReadSubBufferAdvances
<1> HIDE DEF key
<1>6. merklePathLength \in Cursors /\ (merklePathLength.ok => Advanced(key, merklePathLength, 1))
  BY <1>5, FixedReadsAdvance
<1> HIDE DEF merklePathLength
<1>7. signature \in Cursors /\ (signature.ok => Advanced(merklePathLength, signature, SIGNATURE_LENGTH))
  BY <1>3, <1>6, ReadSubBufferAdvances
<1> HIDE DEF signature
<1>8. /\ Advanced(key, merklePathLength, 1) /\ Advanced(typeAndFlags, key, 32)
      /\ Advanced(c, typeAndFlags, 1)
  BY <1>2, <1>3, <1>4, <1>5, <1>6, <1>7 DEF Advanced
<1>9. c.at \in Nat /\ Len(input) \in Nat
  BY DEF Cursors
<1>10. typeAndFlags.out = Piece(c.at, 1) /\ merklePathLength.out = Piece(c.at + 33, 1)
  BY <1>8, <1>9 DEF Advanced
<1>11. other[c.at] = input[c.at] /\ other[c.at + 33] = input[c.at + 33]
  <2>1. c.at \in 1..Len(input) /\ c.at + 33 \in 1..Len(input)
    BY <1>9
  <2>2. c.at < c.at + 1 /\ c.at + 33 = (c.at + 1) + 32
    BY <1>9
  <2> QED BY <2>1, <2>2 DEF DifferAt
<1>12. /\ U8(other, typeAndFlags.out) = U8(input, typeAndFlags.out)
       /\ U8(other, merklePathLength.out) = U8(input, merklePathLength.out)
  BY <1>10, <1>11 DEF U8, Piece
<1> QED BY <1>1, <1>12

\* So does an amount in front of the proof.
LEMMA AmountDataReadsTheSame ==
  ASSUME NEW input \in Seq(BYTE), NEW c \in Cursors, c.at # 0,
         NEW d, d = AmountData(input, c), d.cursor.ok,
         NEW p \in Nat, p <= Len(input), d.cursor.at <= p, NEW other, DifferAt(p, input, other)
  PROVE  AmountData(other, c) = d
<1> DEFINE amount == ReadU64(c)
           G(b) == IF amount.ok /\ ParseAmount(b) # {}
                   THEN [cursor |-> amount, fields |-> [amount |-> AmountText(b)]]
                   ELSE [cursor |-> Fail(amount), fields |-> NoFields]
<1>1. ASSUME NEW x PROVE AmountData(x, c) = G(Bytes(x, amount.out))
  BY Zenon DEF AmountData
<1>2. amount \in Cursors /\ Took(c, amount, 8)
  BY ReadsTake
<1>3. d.cursor = amount /\ amount.ok
  <2>1. ~Fail(amount).ok
    BY <1>2 DEF Fail, Cursors
  <2> HIDE DEF amount
  <2>2. d.cursor = amount \/ d.cursor = Fail(amount)
    BY <1>1
  <2> QED BY <2>1, <2>2
<1> HIDE DEF G, amount
<1>4. c.at \in Nat \ {0} /\ Len(input) \in Nat
  BY DEF Cursors
<1>5. amount.out = Piece(c.at, 8) /\ c.at + 8 <= p /\ c.at + 8 - 1 <= Len(input)
  BY <1>2, <1>3, <1>4 DEF Took
<1>6. Bytes(other, amount.out) = Bytes(input, amount.out)
  BY <1>4, <1>5, PiecesReadTheSame
<1> QED BY <1>1, <1>6

\* So does the data of a staker, delegation and reactivation.
LEMMA StakerDataReadsTheSame ==
  ASSUME NEW input \in Seq(BYTE), NEW type \in StakerTypes, NEW c \in Cursors, c.at # 0,
         NEW d, d = StakerData(input, type, c), d.cursor.ok,
         NEW p \in Nat, p <= Len(input), d.cursor.at <= p, NEW other, DifferAt(p, input, other)
  PROVE  StakerData(other, type, c) = d
<1> DEFINE has == ReadU8(c)
           del(b) == IF has.ok /\ b THEN ReadSubBuffer(has, ADDRESS_LENGTH)
                     ELSE [has EXCEPT !.out = Nothing]
           re(b) == IF type = "UPDATE_STAKER" THEN ReadU8(del(b)) ELSE del(b)
           F(b, y) == [delegation |-> IF del(b).out = Nothing THEN EMPTY ELSE y]
           H(b, y, z) == [cursor |-> re(b),
                          fields |-> IF ~re(b).ok THEN NoFields
                                     ELSE IF type = "CREATE_STAKER" THEN F(b, y)
                                     ELSE With(F(b, y), [reactivate |-> IF z THEN "Yes" ELSE "No"])]
           B(x) == Bool(x, has.out)
<1>1. ASSUME NEW x
      PROVE  StakerData(x, type, c) = H(B(x), Bytes(x, del(B(x)).out), Bool(x, re(B(x)).out))
  BY Zenon DEF StakerData
<1> DEFINE b == B(input)
           delegation == del(b)
           reactivate == re(b)
<1>2. d.cursor = reactivate
  <2>1. ASSUME NEW x, NEW y, NEW z PROVE H(x, y, z).cursor = re(x)
    <3> HIDE DEF re, F
    <3> QED OBVIOUS
  <2> HIDE DEF re, H, B
  <2> QED BY <1>1, <2>1
<1>3. has \in Cursors /\ Took(c, has, 1)
  BY ReadsTake
<1> HIDE DEF has
<1>4. /\ has.ok /\ b => /\ delegation = ReadSubBuffer(has, ADDRESS_LENGTH)
                        /\ delegation \in Cursors /\ Took(has, delegation, 20)
      /\ ~(has.ok /\ b) => /\ delegation \in Cursors /\ delegation.ok = has.ok
                           /\ delegation.at = has.at /\ delegation.out = Nothing
  <2> HIDE DEF b
  <2>1. CASE has.ok /\ b
    BY <1>3, <2>1, ReadsTake DEF ADDRESS_LENGTH
  <2>2. CASE ~(has.ok /\ b)
    <3>1. delegation = [has EXCEPT !.out = Nothing]
      BY <2>2
    <3>2. Nothing \in Pieces
      BY DEF Nothing, Piece, Pieces, NULL
    <3> QED BY <1>3, <2>2, <3>1, <3>2 DEF Cursors
  <2> QED BY <2>1, <2>2
<1>5. /\ type = "UPDATE_STAKER" => reactivate = ReadU8(delegation) /\ Took(delegation, reactivate, 1)
      /\ type # "UPDATE_STAKER" => reactivate = delegation
  <2>1. delegation \in Cursors
    BY <1>4
  <2> HIDE DEF delegation
  <2>2. Took(delegation, ReadU8(delegation), 1)
    BY <2>1, ReadsTake
  <2> QED BY <2>2 DEF delegation
<1> HIDE DEF del, delegation, reactivate, re
<1>6. reactivate.ok /\ reactivate.at <= p /\ delegation.ok /\ has.ok
  <2>1. reactivate.ok /\ reactivate.at <= p
    BY <1>2
  <2>2. delegation.ok
    BY <1>5, <2>1 DEF Took
  <2> QED BY <1>4, <2>1, <2>2 DEF Took
<1>7. c.at \in Nat \ {0} /\ Len(input) \in Nat /\ has.at = c.at + 1 /\ has.out = Piece(c.at, 1)
  BY <1>3, <1>6 DEF Took, Cursors
<1>8. /\ b => delegation.at = c.at + 21 /\ delegation.out = Piece(c.at + 1, 20)
      /\ ~b => delegation.at = c.at + 1 /\ delegation.out = Nothing
  BY <1>4, <1>6, <1>7 DEF Took
<1>9. delegation.at \in Nat \ {0} /\ c.at + 1 <= delegation.at
  BY <1>7, <1>8
<1>10. /\ delegation.at <= p
       /\ type = "UPDATE_STAKER" => /\ delegation.at + 1 <= p
                                    /\ reactivate.out = Piece(delegation.at, 1)
  BY <1>5, <1>6, <1>9 DEF Took
<1>11. B(other) = B(input)
  <2>1. c.at + 1 <= p /\ c.at + 1 - 1 <= Len(input)
    BY <1>7, <1>9, <1>10
  <2> QED BY <1>7, <2>1, PiecesReadTheSame
<1>12. delegation.out = Nothing \/ Bytes(other, delegation.out) = Bytes(input, delegation.out)
  <2>1. CASE b
    <3>1. /\ c.at + 1 \in Nat \ {0} /\ c.at + 1 + 20 <= p /\ c.at + 1 + 20 - 1 <= Len(input)
          /\ delegation.out = Piece(c.at + 1, 20)
      BY <1>7, <1>8, <1>10, <2>1
    <3> QED BY <3>1, PiecesReadTheSame
  <2> QED BY <1>8, <2>1
<1>13. type = "UPDATE_STAKER" => Bool(other, reactivate.out) = Bool(input, reactivate.out)
  <2> SUFFICES ASSUME type = "UPDATE_STAKER" PROVE Bool(other, reactivate.out) = Bool(input, reactivate.out)
    OBVIOUS
  <2> DEFINE at == delegation.at
  <2>1. /\ at \in Nat \ {0} /\ at + 1 <= p /\ reactivate.out = Piece(at, 1)
        /\ at + 1 - 1 <= Len(input)
    BY <1>7, <1>9, <1>10
  <2> HIDE DEF at, reactivate
  <2>2. Bool(other, Piece(at, 1)) = Bool(input, Piece(at, 1))
    BY <2>1, PiecesReadTheSame
  <2> QED BY <2>1, <2>2
<1>14. ASSUME NEW y, NEW y2, NEW z, NEW z2, delegation.out = Nothing \/ y = y2,
              type = "UPDATE_STAKER" => z = z2
       PROVE  H(b, y, z) = H(b, y2, z2)
  <2>1. F(b, y) = F(b, y2)
    BY <1>14 DEF delegation
  <2> HIDE DEF F
  <2>2. CASE type = "CREATE_STAKER"
    BY <2>1, <2>2
  <2>3. CASE type = "UPDATE_STAKER"
    BY <1>14, <2>1, <2>3
  <2> QED BY <2>2, <2>3 DEF StakerTypes
<1> HIDE DEF H, B
<1>15. /\ d = H(b, Bytes(input, delegation.out), Bool(input, reactivate.out))
       /\ StakerData(other, type, c) = H(b, Bytes(other, delegation.out), Bool(other, reactivate.out))
  BY <1>1, <1>11 DEF delegation, reactivate
<1> QED BY <1>12, <1>13, <1>14, <1>15

\* And so does all that is in front of a proof.
LEMMA StakingDataReadsTheSame ==
  ASSUME NEW input \in Seq(BYTE), NEW type \in StakingTypeNames \ {"ADD_STAKE"},
         NEW c \in Cursors, c.at # 0,
         NEW d, d = StakingData(input, type, c), d.cursor.ok,
         NEW p \in Nat, p <= Len(input), d.cursor.at <= p, NEW other, DifferAt(p, input, other)
  PROVE  StakingData(other, type, c) = d
<1>1. CASE type \in StakerTypes
  BY <1>1, StakerDataReadsTheSame DEF StakingData
<1>2. CASE type \in AmountTypes
  <2>1. type \notin StakerTypes
    BY <1>2 DEF StakerTypes, AmountTypes
  <2> QED BY <1>2, <2>1, AmountDataReadsTheSame DEF StakingData
<1> QED BY <1>1, <1>2 DEF StakingTypeNames, StakerTypes, AmountTypes

\* No field of the data in front of the proof is one of the proof.
LEMMA StakingFieldNames ==
  ASSUME NEW input, NEW type \in StakingTypeNames, NEW c
  PROVE  DOMAIN StakingData(input, type, c).fields \subseteq {"delegation", "reactivate", "amount"}
<1> DEFINE Named(d) == DOMAIN d.fields \subseteq {"delegation", "reactivate", "amount"}
<1>1. DOMAIN NoFields = {}
  BY DEF NoFields
<1>2. ASSUME NEW cursor PROVE Named([cursor |-> cursor, fields |-> NoFields])
  BY <1>1
<1>3. CASE type \in StakerTypes
  <2> DEFINE fields == StakerData(input, type, c).fields
  <2>1. \/ fields = NoFields
        \/ \E x : fields = [delegation |-> x]
        \/ \E x, y : fields = With([delegation |-> x], [reactivate |-> y])
    BY DEF StakerData
  <2>2. ASSUME NEW x, NEW y
        PROVE  DOMAIN With([delegation |-> x], [reactivate |-> y]) = {"delegation", "reactivate"}
    BY DEF With
  <2>3. DOMAIN fields \subseteq {"delegation", "reactivate", "amount"}
    <3> HIDE DEF fields
    <3>1. ASSUME NEW x, fields = [delegation |-> x] PROVE DOMAIN fields = {"delegation"}
      BY <3>1
    <3>2. ASSUME NEW x, NEW y, fields = With([delegation |-> x], [reactivate |-> y])
          PROVE  DOMAIN fields = {"delegation", "reactivate"}
      BY <2>2, <3>2
    <3>3. DOMAIN fields \in {{}, {"delegation"}, {"delegation", "reactivate"}}
      BY <1>1, <2>1, <3>1, <3>2
    <3> QED BY <3>3
  <2> QED BY <1>3, <2>3 DEF StakingData
<1>4. CASE type \in AmountTypes
  <2> DEFINE d == AmountData(input, c)
  <2>1. \E cursor, x : \/ d = [cursor |-> cursor, fields |-> NoFields]
                       \/ d = [cursor |-> cursor, fields |-> [amount |-> x]]
    BY Zenon DEF AmountData
  <2>2. Named(d)
    <3> HIDE DEF d
    <3> QED BY <1>1, <2>1
  <2>3. type \notin StakerTypes
    BY <1>4 DEF StakerTypes, AmountTypes
  <2> QED BY <1>4, <2>2, <2>3 DEF StakingData
<1>5. CASE type = "ADD_STAKE"
  <2>1. StakingData(input, type, c) =
          [cursor |-> ReadSubBuffer(c, ADDRESS_LENGTH), fields |-> NoFields]
    BY <1>5 DEF StakingData, StakerTypes, AmountTypes
  <2> QED BY <1>2, <2>1
<1> QED BY <1>3, <1>4, <1>5 DEF StakingTypeNames, StakerTypes, AmountTypes

\* What a piece holds.
LEMMA BytesOfPiece ==
  ASSUME NEW input \in Seq(BYTE), NEW at \in Nat \ {0}, NEW length \in Nat \ {0},
         at + length - 1 <= Len(input), NEW f \in [1..length -> BYTE],
         \A i \in at..(at + length - 1) : input[i] = f[i - at + 1]
  PROVE  Bytes(input, Piece(at, length)) = f
<1> DEFINE to == at + length - 1
           n == to - at + 1
           s == SubSeq(input, at, to)
<1>1. to \in Nat /\ at <= to /\ to <= Len(input) /\ n = length
  OBVIOUS
<1>2. Bytes(input, Piece(at, length)) = s
  BY DEF Bytes, Piece
<1>3. \A i \in at..to : input[i] = f[i - at + 1]
  OBVIOUS
<1> HIDE DEF to
<1>4. Len(s) = n /\ \A i \in 1..n : s[i] = input[i + at - 1]
  BY <1>1, PartOfSequence
<1>5. s \in Seq(BYTE)
  BY <1>1
<1> HIDE DEF s
<1>6. ASSUME NEW i \in 1..length PROVE s[i] = f[i]
  <2> DEFINE j == i + at - 1
  <2>1. i \in 1..n /\ j \in at..to /\ j - at + 1 = i
    BY <1>1
  <2> HIDE DEF j
  <2>2. input[j] = f[i]
    BY <1>3, <2>1
  <2> QED BY <1>4, <2>1, <2>2 DEF j
<1>7. s = [i \in 1..length |-> s[i]] /\ f = [i \in 1..length |-> f[i]]
  BY <1>1, <1>4, <1>5
<1>8. s = f
  BY <1>6, <1>7
<1> QED BY <1>2, <1>8

\* What on_transaction_approved has written, where it was read as the proof.
LEMMA ProofIsWritten ==
  ASSUME NEW input \in Seq(BYTE), NEW p \in Nat \ {0}, p + 96 <= Len(input),
         NEW proof, proof = [key |-> Piece(p, PUBLIC_KEY_LENGTH),
                             signature |-> Piece(p + 33, SIGNATURE_LENGTH)],
         Signature(input) \in [1..SIGNATURE_LENGTH -> BYTE],
         NEW other, other = WithProof(input, proof)
  PROVE  /\ DifferAt(p, input, other)
         /\ Bytes(other, proof.key) = AccountKey
         /\ Bytes(other, proof.signature) = Signature(input)
<1> DEFINE half == WithSignature(input, proof)
<1>1. PUBLIC_KEY_LENGTH = 32 /\ SIGNATURE_LENGTH = 64 /\ Len(input) \in Nat
  BY DEF PUBLIC_KEY_LENGTH, SIGNATURE_LENGTH
<1>2. /\ proof.key = Piece(p, 32) /\ proof.signature = Piece(p + 33, 64)
      /\ proof.key.at = p /\ proof.key.length = 32
      /\ proof.signature.at = p + 33 /\ proof.signature.length = 64
      /\ proof.key \in Pieces /\ proof.signature \in Pieces
  BY <1>1 DEF Piece, Pieces
<1>3. AccountKey \in [1..32 -> BYTE] /\ Signature(input) \in [1..64 -> BYTE]
  BY <1>1, AccountAssumption
<1>4. /\ half = Overwrite(input, proof.signature, Signature(input))
      /\ half \in Seq(BYTE) /\ Len(half) = Len(input)
  <2>1. half = Overwrite(input, proof.signature, Signature(input))
    BY Zenon DEF WithSignature
  <2>2. Signature(input) \in [1..proof.signature.length -> BYTE] /\ proof.signature \in Pieces
    BY <1>2, <1>3
  <2> HIDE DEF half
  <2>3. /\ Overwrite(input, proof.signature, Signature(input)) \in Seq(BYTE)
        /\ Len(Overwrite(input, proof.signature, Signature(input))) = Len(input)
    BY <2>2, OverwriteIsBytes, Zenon
  <2> QED BY <2>1, <2>3, Zenon
<1>5. other = Overwrite(half, proof.key, AccountKey)
  BY DEF WithProof
<1> HIDE DEF half
<1>6. other \in Seq(BYTE) /\ Len(other) = Len(input)
  <2>1. AccountKey \in [1..proof.key.length -> BYTE]
    BY <1>2, <1>3
  <2>2. Overwrite(half, proof.key, AccountKey) \in Seq(BYTE)
    BY <1>2, <1>4, <2>1, OverwriteIsBytes
  <2>3. Len(Overwrite(half, proof.key, AccountKey)) = Len(half)
    BY <1>2, <1>4, <2>1, OverwriteIsBytes
  <2> QED BY <1>4, <1>5, <2>2, <2>3
<1>7. ASSUME NEW i \in 1..Len(input)
      PROVE  other[i] = IF i \in p..(p + 31) THEN AccountKey[i - p + 1]
                        ELSE IF i \in (p + 33)..(p + 96) THEN Signature(input)[i - (p + 33) + 1]
                        ELSE input[i]
  <2>1. i \in DOMAIN input /\ i \in DOMAIN half
    BY <1>4
  <2>2. proof.key.at + proof.key.length - 1 = p + 31 /\ proof.signature.at + proof.signature.length - 1 = p + 96
    BY <1>2
  <2>3. half[i] = IF i \in (p + 33)..(p + 96) THEN Signature(input)[i - (p + 33) + 1] ELSE input[i]
    BY <1>2, <1>4, <2>1, <2>2 DEF Overwrite
  <2>4. other[i] = IF i \in p..(p + 31) THEN AccountKey[i - p + 1] ELSE half[i]
    BY <1>2, <1>5, <2>1, <2>2 DEF Overwrite
  <2> QED BY <2>3, <2>4
<1>8. DifferAt(p, input, other)
  <2>1. ASSUME NEW i \in 1..Len(input), i < p \/ i = p + 32 \/ i > p + 96
        PROVE  other[i] = input[i]
    BY <1>7, <2>1
  <2> QED BY <1>6, <2>1 DEF DifferAt
<1> DEFINE size == Len(input)
           length == 32
           q == p + 33
           longer == 64
<1>9. /\ size \in Nat /\ size = Len(other) /\ p \in Nat /\ p \in Nat \ {0} /\ p + 96 <= size
      /\ length = 32 /\ length \in Nat \ {0}
      /\ q \in Nat \ {0} /\ q = p + 33 /\ longer = 64 /\ longer \in Nat \ {0}
  BY <1>6
<1>10. /\ AccountKey \in [1..length -> BYTE] /\ Signature(input) \in [1..longer -> BYTE]
       /\ proof.key = Piece(p, length) /\ proof.signature = Piece(q, longer)
  BY <1>2, <1>3
<1> HIDE DEF size, length, q, longer
<1>11. p + length - 1 <= Len(other) /\ q + longer - 1 <= Len(other)
  BY <1>9
<1>12. \A i \in p..(p + length - 1) : other[i] = AccountKey[i - p + 1]
  <2> TAKE i \in p..(p + length - 1)
  <2>1. i \in 1..size /\ i \in p..(p + 31)
    BY <1>9
  <2> QED BY <1>7, <2>1 DEF size
<1>13. \A i \in q..(q + longer - 1) : other[i] = Signature(input)[i - q + 1]
  <2> TAKE i \in q..(q + longer - 1)
  <2>1. i \in 1..size /\ i \notin p..(p + 31) /\ i \in (p + 33)..(p + 96)
    BY <1>9
  <2> QED BY <1>7, <1>9, <2>1 DEF size
<1>14. Bytes(other, Piece(p, length)) = AccountKey
  <2>1. other \in Seq(BYTE) /\ p \in Nat \ {0} /\ length \in Nat \ {0}
        /\ p + length - 1 <= Len(other) /\ AccountKey \in [1..length -> BYTE]
    BY <1>6, <1>9, <1>10, <1>11
  <2> QED BY <1>12, <2>1, BytesOfPiece, Zenon
<1>15. Bytes(other, Piece(q, longer)) = Signature(input)
  <2>1. other \in Seq(BYTE) /\ q \in Nat \ {0} /\ longer \in Nat \ {0}
        /\ q + longer - 1 <= Len(other) /\ Signature(input) \in [1..longer -> BYTE]
    BY <1>6, <1>9, <1>10, <1>11
  <2> QED BY <1>13, <2>1, BytesOfPiece, Zenon
<1> QED BY <1>8, <1>10, <1>14, <1>15

\* The two inputs have the same bytes at a piece.
AgreeAt(piece, input, other) ==
  Bytes(other, piece) = Bytes(input, piece) /\ U8(other, piece) = U8(input, piece)

\* The envelope e of one input is that of the other, too, with the same contents.
EnvelopeKept(v, e, input, other) ==
  /\ Envelope(v, other) = e
  /\ AgreeAt(e.sender, input, other) /\ AgreeAt(e.senderType, input, other)
  /\ AgreeAt(e.recipient, input, other) /\ AgreeAt(e.recipientType, input, other)
  /\ AgreeAt(e.value, input, other) /\ AgreeAt(e.fee, input, other)
  /\ AgreeAt(e.networkId, input, other) /\ AgreeAt(e.flags, input, other)

\* The proof is no part of the envelope.
LEMMA EnvelopeIsKept ==
  ASSUME NEW v \in {"LEGACY", "ALBATROSS"}, NEW input \in Seq(BYTE),
         NEW e, e = Envelope(v, input), IsComplete(e),
         NEW m \in Nat, e.data = Piece(3, m + 99), NEW other, DifferAt(m + 5, input, other)
  PROVE  EnvelopeKept(v, e, input, other)
<1>1. PICK n \in Nat : /\ ArePieces(e, n) /\ n + 66 <= Len(input)
                       /\ e.data = IF n = 0 THEN Nothing ELSE Piece(3, n)
                       /\ AreFlagsRead(FlagsCursor(DataCursor(input)), n, input)
  BY EnvelopePieces
<1>2. n = m + 99
  BY <1>1 DEF Nothing, Piece, NULL
<1> DEFINE p == m + 5
<1>3. p \in Nat /\ p + 96 = n + 2 /\ 5 <= p /\ Len(input) \in Nat /\ Len(other) = Len(input)
  BY <1>2 DEF DifferAt
<1>4. DifferAt(p, input, other)
  OBVIOUS
<1> HIDE DEF p
<1>5. DataCursor(other) = DataCursor(input)
  <2> DEFINE c == ReadU16(Open(Whole(input)))
  <2>1. Whole(other) = Whole(input)
    BY <1>3 DEF Whole
  <2>2. Open(Whole(input)) \in Cursors /\ Open(Whole(input)).ok
        /\ Open(Whole(input)).at = 1 /\ Open(Whole(input)).left = Len(input)
    <3>1. Whole(input) \in Pieces /\ Whole(input).at = 1 /\ Whole(input).length = Len(input)
      BY <1>3 DEF Whole, Piece, Pieces
    <3> QED BY <3>1, OpenIsCursor
  <2>3. c.out = Piece(1, 2)
    <3> DEFINE start == Open(Whole(input))
    <3> HIDE DEF start
    <3>1. start.ok /\ start.at = 1 /\ 2 <= start.left /\ start.left \in Nat
      BY <1>1, <1>3, <2>2 DEF start
    <3>2. c = ReadSubBuffer(start, 2)
      BY DEF start, ReadU16
    <3>3. c.out = Piece(start.at, 2)
      <4>1. ~(start.left < 2) /\ 2 # 0
        BY <3>1
      <4>2. c = [ok |-> TRUE, at |-> start.at + 2, left |-> start.left - 2,
                 out |-> Piece(start.at, 2)]
        BY <3>1, <3>2, <4>1, Zenon DEF ReadSubBuffer
      <4> HIDE DEF c
      <4> QED BY <4>2
    <3> QED BY <3>1, <3>3
  <2> HIDE DEF c
  <2>4. U16(other, Piece(1, 2)) = U16(input, Piece(1, 2))
    <3>1. 1 + 2 - 1 <= Len(input) /\ 1 + 2 <= p
      BY <1>1, <1>3
    <3> QED BY <1>3, <1>4, <3>1, PiecesReadTheSame
  <2> QED BY <2>1, <2>3, <2>4 DEF DataCursor, c
<1> DEFINE F == FlagsCursor(DataCursor(input))
<1>6. ReadVecU8(other, F) = ReadVecU8(input, F)
  <2>1. F \in Cursors /\ F.at = n + 67 /\ F.left = Len(input) - n - 66
    BY <1>1 DEF AreFlagsRead
  <2> HIDE DEF F
  <2>2. ASSUME ReadU8(F).ok PROVE U8(other, ReadU8(F).out) = U8(input, ReadU8(F).out)
    <3>1. Advanced(F, ReadU8(F), 1)
      BY <2>1, <2>2, FixedReadsAdvance
    <3> DEFINE at == n + 67
    <3>2. ReadU8(F).out = Piece(at, 1) /\ at \in Nat \ {0} /\ at + 1 - 1 <= Len(input) /\ p + 96 < at
      BY <1>3, <2>1, <3>1 DEF Advanced
    <3> HIDE DEF at
    <3> QED BY <1>3, <1>4, <3>2, PiecesReadTheSame
  <2> QED BY <2>1, <2>2, VectorsReadTheSame
<1>7. Envelope(v, other) = e
  BY <1>5, <1>6, EnvelopesReadTheSame
<1>8. ASSUME NEW at \in Nat, NEW length \in Nat \ {0}, n + 3 <= at, at + length <= n + 67
      PROVE  AgreeAt(Piece(at, length), input, other)
  <2>1. at \in Nat \ {0} /\ at + length - 1 <= Len(input) /\ p + 96 < at
    BY <1>1, <1>3, <1>8
  <2> QED BY <1>3, <1>4, <1>8, <2>1, PiecesReadTheSame DEF AgreeAt
<1>9. /\ AgreeAt(Piece(n + 3, 20), input, other) /\ AgreeAt(Piece(n + 23, 1), input, other)
      /\ AgreeAt(Piece(n + 24, 20), input, other) /\ AgreeAt(Piece(n + 44, 1), input, other)
      /\ AgreeAt(Piece(n + 45, 8), input, other) /\ AgreeAt(Piece(n + 53, 8), input, other)
      /\ AgreeAt(Piece(n + 65, 1), input, other) /\ AgreeAt(Piece(n + 66, 1), input, other)
  BY <1>8
<1> QED BY <1>1, <1>7, <1>9 DEF ArePieces, EnvelopeKept

\* The fields of incoming staking: those in front of the proof, and those of StakerFields.
AllFields(front, input, type, c, proof, e) ==
  With([stakingType |-> type], With(front, StakerFields(input, type, c, proof, e)))
FieldNames(front) == {"stakingType", "staker", "hasProof", "proof"} \cup DOMAIN front
AddProof(fields, front, input, type, proof) ==
  /\ fields.hasProof => type # "ADD_STAKE"
  /\ type # "ADD_STAKE" =>
       /\ DOMAIN fields = FieldNames(front)
       /\ fields.stakingType = type /\ fields.hasProof = TRUE
       /\ fields.proof = IF IsEmptyProof(input, proof) THEN "empty" ELSE "signed"
       /\ \A f \in DOMAIN front : fields[f] = front[f]

\* The latter do not hide the former, and tell whether there is a proof and which.
LEMMA StakingFieldsSay ==
  ASSUME NEW input, NEW type, NEW c, NEW proof, NEW e,
         NEW front, DOMAIN front \subseteq {"delegation", "reactivate", "amount"}
  PROVE  AddProof(AllFields(front, input, type, c, proof, e), front, input, type, proof)
<1> DEFINE fields == AllFields(front, input, type, c, proof, e)
           S == StakerFields(input, type, c, proof, e)
           kind == IF IsEmptyProof(input, proof) THEN "empty" ELSE "signed"
           both == With(front, S)
           has == type # "ADD_STAKE"
<1>1. \E staker : S = With([staker |-> staker, hasProof |-> has],
                           IF type = "ADD_STAKE" THEN NoFields ELSE [proof |-> kind])
  BY Zenon DEF StakerFields
<1>2. /\ fields = With([stakingType |-> type], both)
      /\ both = With(front, S)
  BY DEF AllFields
<1> HIDE DEF fields, S, kind, both, has
<1>3. PICK staker : S = With([staker |-> staker, hasProof |-> has],
                             IF type = "ADD_STAKE" THEN NoFields ELSE [proof |-> kind])
  BY <1>1
<1>4. /\ S["hasProof"] = has
      /\ {"staker", "hasProof"} \subseteq DOMAIN S /\ DOMAIN S \subseteq {"staker", "hasProof", "proof"}
      /\ type # "ADD_STAKE" => "proof" \in DOMAIN S /\ S["proof"] = kind
  <2> DEFINE first == [staker |-> staker, hasProof |-> has]
             second == IF type = "ADD_STAKE" THEN NoFields ELSE [proof |-> kind]
  <2>1. /\ DOMAIN first = {"staker", "hasProof"} /\ first["hasProof"] = has
        /\ DOMAIN second \subseteq {"proof"}
        /\ type # "ADD_STAKE" => DOMAIN second = {"proof"} /\ second["proof"] = kind
    BY DEF NoFields
  <2>2. S = With(first, second)
    BY <1>3
  <2> HIDE DEF first, second
  <2>3. S = [x \in DOMAIN first \cup DOMAIN second |-> IF x \in DOMAIN first THEN first[x] ELSE second[x]]
    BY <2>2 DEF With
  <2> QED BY <2>1, <2>3
<1>5. /\ DOMAIN both = DOMAIN front \cup DOMAIN S
      /\ \A f \in DOMAIN front : both[f] = front[f]
      /\ \A f \in DOMAIN S : f \notin DOMAIN front => both[f] = S[f]
  BY <1>2 DEF With
<1>6. /\ DOMAIN fields = {"stakingType"} \cup DOMAIN both
      /\ fields["stakingType"] = type
      /\ \A f \in DOMAIN both : f # "stakingType" => fields[f] = both[f]
  BY <1>2 DEF With
<1>7. fields["hasProof"] = has
  BY <1>4, <1>5, <1>6
<1>8. fields["hasProof"] => type # "ADD_STAKE"
  BY <1>7 DEF has
<1>9. ASSUME type # "ADD_STAKE"
      PROVE  /\ DOMAIN fields = {"stakingType", "staker", "hasProof", "proof"} \cup DOMAIN front
             /\ fields["proof"] = kind
             /\ \A f \in DOMAIN front : fields[f] = front[f]
  <2>1. DOMAIN S = {"staker", "hasProof", "proof"}
    BY <1>4, <1>9
  <2>2. DOMAIN fields = {"stakingType", "staker", "hasProof", "proof"} \cup DOMAIN front
    BY <1>5, <1>6, <2>1
  <2>3. fields["proof"] = kind
    BY <1>4, <1>5, <1>6, <1>9, <2>1
  <2>4. \A f \in DOMAIN front : fields[f] = front[f]
    BY <1>5, <1>6
  <2> QED BY <2>2, <2>3, <2>4
<1>10. type # "ADD_STAKE" => fields["hasProof"] = TRUE
  BY <1>7 DEF has
<1> QED BY <1>6, <1>8, <1>9, <1>10 DEF kind, fields, AddProof, FieldNames

\* The result for other is that for input, but for the proof, which is one by the account.
ReadsAlike(v, input, r, other, result) ==
  /\ Printed(v, other) = Printed(v, input)
  /\ <<result.type, result.label, result.proof>> = <<r.type, r.label, r.proof>>
  /\ \A f \in DOMAIN result.fields \ {"proof", "staker"} : result.fields[f] = r.fields[f]
  /\ result.fields.proof = "signed"
  /\ Bytes(other, result.proof.key) = AccountKey
  /\ Bytes(other, result.proof.signature) = Signature(input)

\* The conditions and the result of ParseStakingIncoming, with a name for each of them.
IsStakingIncoming(v, input, e) ==
  /\ U8(input, e.flags) \in {0, TX_FLAG_SIGNALING} /\ e.senderData.length = 0
  /\ IsStakingContract(Bytes(input, e.recipient))
  /\ v # "LEGACY"
StakingTypeIn(input, e) == StakingTypes[U8(input, ReadU8(Open(e.data)).out)]
StakingDataIn(input, e) == StakingData(input, StakingTypeIn(input, e), ReadU8(Open(e.data)))
ProofIn(input, e) == ReadProof(input, StakingTypeIn(input, e), StakingDataIn(input, e).cursor)
StakingFieldsIn(input, e) ==
  With([stakingType |-> StakingTypeIn(input, e)],
       With(StakingDataIn(input, e).fields,
            StakerFields(input, StakingTypeIn(input, e), StakingDataIn(input, e).cursor,
                         ProofIn(input, e), e)))
StakingIsRead(input, e) ==
  /\ ReadU8(Open(e.data)).ok /\ U8(input, ReadU8(Open(e.data)).out) \in DOMAIN StakingTypes
  /\ StakingDataIn(input, e).cursor.ok /\ ProofIn(input, e).ok /\ ProofIn(input, e).left = 0
  /\ (U8(input, e.flags) = TX_FLAG_SIGNALING) = IsSignaling(StakingTypeIn(input, e))

\* The parser in these terms.
LEMMA StakingIncomingIs ==
  ASSUME NEW v, NEW input, NEW e
  PROVE  ParseStakingIncoming(v, input, e) =
           IF IsStakingIncoming(v, input, e) /\ StakingIsRead(input, e)
           THEN Result("STAKING_INCOMING", StakingTypeIn(input, e), StakingFieldsIn(input, e),
                       [key |-> ProofIn(input, e).key, signature |-> ProofIn(input, e).signature])
           ELSE {}
  BY Zenon DEF ParseStakingIncoming, IsStakingIncoming, StakingTypeIn, StakingDataIn, ProofIn,
     StakingFieldsIn, StakingIsRead

\* Only the branch for incoming staking gives a result of its type.
LEMMA StakingIncomingIsOfBranch ==
  ASSUME NEW v, NEW input, NEW e, e = Envelope(v, input),
         NEW r \in ParseTx(v, input), r.type = "STAKING_INCOMING"
  PROVE  /\ HasValidEnvelope(v, input, e)
         /\ U8(input, e.senderType) # ACCOUNT_TYPE_STAKING
         /\ U8(input, e.recipientType) = ACCOUNT_TYPE_STAKING
         /\ r \in ParseStakingIncoming(v, input, e)
<1>1. /\ HasValidEnvelope(v, input, e)
      /\ \/ r \in ParseStakingOutgoing(v, input, e)
         \/ r \in ParseNormal(input, e)
         \/ r \in ParseContractCreation(v, input, e)
         \/ /\ U8(input, e.senderType) # ACCOUNT_TYPE_STAKING
            /\ U8(input, e.recipientType) = ACCOUNT_TYPE_STAKING
            /\ r \in ParseStakingIncoming(v, input, e)
  BY Zenon DEF ParseTx
<1>2. ASSUME NEW label, NEW fields, NEW proof, NEW type,
             type \in {"STAKING_OUTGOING", "NORMAL", "VESTING_CREATION", "HTLC_CREATION"},
             r \in Result(type, label, fields, proof)
      PROVE  FALSE
  BY <1>2, ResultHas
<1>3. r \notin ParseStakingOutgoing(v, input, e)
  <2>1. r \in ParseStakingOutgoing(v, input, e) =>
          \E label, fields, proof : r \in Result("STAKING_OUTGOING", label, fields, proof)
    BY Zenon DEF ParseStakingOutgoing
  <2> QED BY <1>2, <2>1
<1>4. r \notin ParseNormal(input, e)
  <2>1. r \in ParseNormal(input, e) =>
          \E label, fields, proof : r \in Result("NORMAL", label, fields, proof)
    BY Zenon DEF ParseNormal
  <2> QED BY <1>2, <2>1
<1>5. r \notin ParseContractCreation(v, input, e)
  <2>1. r \in ParseContractCreation(v, input, e) =>
          r \in ParseVestingCreation(v, input, e) \/ r \in ParseHtlcCreation(v, input, e)
    BY Zenon DEF ParseContractCreation
  <2>2. r \in ParseVestingCreation(v, input, e) =>
          \E label, fields, proof : r \in Result("VESTING_CREATION", label, fields, proof)
    BY ZenonT(30) DEF ParseVestingCreation
  <2>3. r \in ParseHtlcCreation(v, input, e) =>
          \E label, fields, proof : r \in Result("HTLC_CREATION", label, fields, proof)
    BY ZenonT(30) DEF ParseHtlcCreation
  <2> QED BY <1>2, <2>1, <2>2, <2>3
<1> QED BY <1>1, <1>3, <1>4, <1>5

\* So the transaction with the proof of the account is accepted as the one that was
\* reviewed, with all of its fields but for the proof.
LEMMA ApprovedReadsAlike ==
  ASSUME NEW v \in {"LEGACY", "ALBATROSS"}, NEW input \in Seq(BYTE),
         NEW r \in ParseTx(v, input), r.type = "STAKING_INCOMING", r.fields.hasProof,
         Signature(input) \in [1..SIGNATURE_LENGTH -> BYTE],
         NEW other, other = WithProof(input, r.proof)
  PROVE  \E result \in ParseTx(v, other) : ReadsAlike(v, input, r, other, result)
<1> DEFINE e == Envelope(v, input)
           start == Open(e.data)
           typeId == ReadU8(start)
           type == StakingTypeIn(input, e)
           data == StakingDataIn(input, e)
           c == data.cursor
           proof == ProofIn(input, e)
           fields == StakingFieldsIn(input, e)
<1>1. /\ HasValidEnvelope(v, input, e)
      /\ U8(input, e.senderType) # ACCOUNT_TYPE_STAKING
      /\ U8(input, e.recipientType) = ACCOUNT_TYPE_STAKING
      /\ r \in ParseStakingIncoming(v, input, e)
  <2> HIDE DEF e
  <2> QED BY StakingIncomingIsOfBranch DEF e
<1>2. /\ IsStakingIncoming(v, input, e) /\ StakingIsRead(input, e)
      /\ r \in Result("STAKING_INCOMING", type, fields,
                      [key |-> proof.key, signature |-> proof.signature])
  <2> HIDE DEF e, type, fields, proof
  <2> QED BY <1>1, StakingIncomingIs DEF type, fields, proof
<1>3. /\ r.label = type /\ r.fields = fields
      /\ r.proof = [key |-> proof.key, signature |-> proof.signature]
  <2> HIDE DEF e, type, fields, proof
  <2> QED BY <1>2, ResultHas
<1>4. /\ typeId.ok /\ c.ok /\ proof.ok /\ proof.left = 0
      /\ U8(input, typeId.out) \in DOMAIN StakingTypes
  <2> HIDE DEF e
  <2> QED BY <1>2 DEF StakingIsRead
<1>5. type \in StakingTypeNames
  <2> HIDE DEF e
  <2> QED BY <1>4, StakingTypesAreNamed DEF StakingTypeIn
<1>6. data = StakingData(input, type, typeId)
  BY DEF StakingDataIn
<1>7. DOMAIN data.fields \subseteq {"delegation", "reactivate", "amount"}
  <2> HIDE DEF data, type, typeId
  <2> QED BY <1>5, <1>6, StakingFieldNames
<1>8. fields = With([stakingType |-> type],
                    With(data.fields, StakerFields(input, type, c, proof, e)))
  BY DEF StakingFieldsIn
<1>9. proof = ReadProof(input, type, c)
  BY DEF ProofIn
<1> HIDE DEF type, data, proof, fields
<1>10. type # "ADD_STAKE"
  <2> DEFINE front == data.fields
  <2>1. fields = AllFields(front, input, type, c, proof, e)
    BY <1>8 DEF AllFields
  <2> HIDE DEF front, c, e
  <2>2. AddProof(fields, front, input, type, proof)
    BY <1>7, <2>1, StakingFieldsSay DEF front
  <2> QED BY <1>3, <2>2, Zenon DEF AddProof
<1>11. IsComplete(e)
  BY <1>1 DEF HasValidEnvelope
<1>12. /\ e.data \in Pieces /\ e.data.at = IF e.data.length = 0 THEN NULL ELSE 3
       /\ e.senderData \in Pieces /\ Len(input) = EnvelopeLength(v) + e.data.length + e.senderData.length
  <2> HIDE DEF e
  <2> QED BY <1>11, EnvelopeLengths DEF e
<1> HIDE DEF e
<1>13. PICK n \in Nat :
         /\ e.data.length = n + 99
         /\ r.proof = [key |-> Piece(e.data.at + n + 2, PUBLIC_KEY_LENGTH),
                       signature |-> Piece(e.data.at + n + 35, SIGNATURE_LENGTH)]
  <2>1. AreStakingLengths(e, r)
    BY <1>1, <1>12, StakingIncomingLengths
  <2>2. \A label : LengthsBeforeProof(label) \subseteq Nat
    BY DEF LengthsBeforeProof
  <2> QED BY <1>3, <1>10, <2>1, <2>2 DEF AreStakingLengths
<1> DEFINE p == n + 5
<1>14. /\ e.data = Piece(3, n + 99) /\ p \in Nat \ {0} /\ Len(input) \in Nat /\ p + 96 <= Len(input)
       /\ r.proof = [key |-> Piece(p, PUBLIC_KEY_LENGTH), signature |-> Piece(p + 33, SIGNATURE_LENGTH)]
  <2>1. e.data.at = 3
    BY <1>12, <1>13
  <2>2. e.data = Piece(3, n + 99)
    BY <1>12, <1>13, <2>1 DEF Pieces, Piece
  <2>3. e.senderData.length \in Nat /\ EnvelopeLength(v) \in Nat /\ EnvelopeLength(v) >= 66
    BY <1>12 DEF Pieces, EnvelopeLength
  <2>4. p + 96 <= Len(input)
    BY <1>12, <1>13, <2>3
  <2>5. e.data.at + n + 2 = p /\ e.data.at + n + 35 = p + 33
    BY <2>1
  <2> QED BY <1>13, <2>2, <2>4, <2>5
<1>15. /\ DifferAt(p, input, other)
       /\ Bytes(other, r.proof.key) = AccountKey
       /\ Bytes(other, r.proof.signature) = Signature(input)
  <2> HIDE DEF p
  <2> QED BY <1>14, ProofIsWritten
<1>16. EnvelopeKept(v, e, input, other)
  <2>1. DifferAt(n + 5, input, other)
    BY <1>15
  <2>2. e = Envelope(v, input)
    BY DEF e
  <2>3. e.data = Piece(3, n + 99)
    BY <1>14
  <2> QED BY <1>11, <2>1, <2>2, <2>3, EnvelopeIsKept, Zenon
<1>17. start \in Cursors /\ start.at = 3
  BY <1>12, <1>14, OpenIsCursor DEF Piece
<1>18. typeId \in Cursors /\ typeId.at = 4 /\ typeId.out = Piece(3, 1)
  <2> HIDE DEF start
  <2> QED BY <1>4, <1>17, ReadsTake DEF Took
<1> HIDE DEF typeId
<1>19. U8(other, typeId.out) = U8(input, typeId.out)
  <2>1. 3 + 1 - 1 <= Len(input) /\ 3 + 1 <= p
    BY <1>14
  <2> HIDE DEF p
  <2> QED BY <1>14, <1>15, <1>18, <2>1, PiecesReadTheSame
<1>20. StakingTypeIn(other, e) = type
  BY <1>19 DEF StakingTypeIn, type, typeId
<1>21. proof = ReadSignatureProof(input, c)
  BY <1>9, <1>10 DEF ReadProof
<1>22. c \in Cursors /\ c.at = n + 4
  <2>1. c \in Cursors
    BY <1>5, <1>6, <1>18, StakingDataLengths
  <2> HIDE DEF c
  <2>2. proof.key = Piece(c.at + 1, PUBLIC_KEY_LENGTH)
    BY <1>4, <1>21, <2>1, ProofLengths
  <2>3. proof.key = Piece(p, PUBLIC_KEY_LENGTH)
    BY <1>3, <1>14
  <2>4. c.at + 1 = p /\ c.at \in Nat
    BY <2>1, <2>2, <2>3 DEF Piece, Cursors
  <2> QED BY <2>1, <2>4
<1>23. StakingDataIn(other, e) = data
  <2>1. StakingDataIn(other, e) = StakingData(other, type, typeId)
    BY <1>20 DEF StakingDataIn, typeId
  <2>2. data.cursor.at <= p /\ data.cursor.ok /\ p \in Nat /\ p <= Len(input) /\ typeId.at # 0
    BY <1>4, <1>14, <1>18, <1>22
  <2>3. type \in StakingTypeNames \ {"ADD_STAKE"}
    BY <1>5, <1>10
  <2> HIDE DEF p
  <2> QED BY <1>6, <1>15, <1>18, <2>1, <2>2, <2>3, StakingDataReadsTheSame
<1>24. ProofIn(other, e) = proof
  <2>1. ProofIn(other, e) = ReadSignatureProof(other, c)
    BY <1>10, <1>20, <1>23 DEF ProofIn, ReadProof
  <2>2. c.at # 0 /\ c.at + 97 <= Len(input) /\ c.at + 1 = p
    BY <1>14, <1>22
  <2>3. DifferAt(c.at + 1, input, other)
    BY <1>15, <2>2
  <2> HIDE DEF c, p
  <2> QED BY <1>4, <1>21, <1>22, <2>1, <2>2, <2>3, ProofsReadTheSame
<1> DEFINE said == StakingFieldsIn(other, e)
           result == [type |-> "STAKING_INCOMING", label |-> type, fields |-> said,
                      proof |-> [key |-> proof.key, signature |-> proof.signature]]
<1>25. said = With([stakingType |-> type],
                   With(data.fields, StakerFields(other, type, c, proof, e)))
  BY <1>20, <1>23, <1>24 DEF StakingFieldsIn
<1> HIDE DEF said, p
<1>26. IsStakingIncoming(v, other, e) /\ StakingIsRead(other, e)
  <2>1. IsStakingIncoming(v, other, e)
    BY <1>2, <1>16 DEF IsStakingIncoming, EnvelopeKept, AgreeAt
  <2>2. StakingIsRead(other, e)
    <3>1. StakingIsRead(input, e)
      BY <1>2
    <3> QED BY <3>1, <1>16, <1>19, <1>20, <1>23, <1>24
        DEF StakingIsRead, EnvelopeKept, AgreeAt, type, data, proof, typeId
  <2> QED BY <2>1, <2>2
<1>27. result \in ParseStakingIncoming(v, other, e)
  BY <1>20, <1>24, <1>26, StakingIncomingIs DEF said, Result
<1>28. HasValidEnvelope(v, other, e)
  BY <1>1, <1>16 DEF HasValidEnvelope, EnvelopeKept, AgreeAt
<1>29. ParseTx(v, other) = ParseStakingIncoming(v, other, e)
  <2>1. /\ U8(other, e.senderType) # ACCOUNT_TYPE_STAKING
        /\ U8(other, e.recipientType) = ACCOUNT_TYPE_STAKING
    BY <1>1, <1>16 DEF EnvelopeKept, AgreeAt
  <2>2. /\ ACCOUNT_TYPE_STAKING # ACCOUNT_TYPE_BASIC
        /\ ACCOUNT_TYPE_STAKING \notin {ACCOUNT_TYPE_VESTING, ACCOUNT_TYPE_HTLC}
    BY DEF ACCOUNT_TYPE_STAKING, ACCOUNT_TYPE_BASIC, ACCOUNT_TYPE_VESTING, ACCOUNT_TYPE_HTLC
  <2> QED BY <1>16, <1>28, <2>1, <2>2, Zenon DEF ParseTx, EnvelopeKept
<1>30. ~IsEmptyProof(other, proof)
  <2>1. Bytes(other, proof.key) = AccountKey
    BY <1>3, <1>15
  <2>2. PICK i \in DOMAIN AccountKey : AccountKey[i] # 0
    BY AccountAssumption
  <2> QED BY <2>1, <2>2 DEF IsEmptyProof
<1>31. /\ said.proof = "signed"
       /\ \A f \in DOMAIN said \ {"proof", "staker"} : said[f] = r.fields[f]
  <2> DEFINE front == data.fields
  <2>1. /\ fields = AllFields(front, input, type, c, proof, e)
        /\ said = AllFields(front, other, type, c, proof, e)
    BY <1>8, <1>25 DEF AllFields
  <2> HIDE DEF front, c
  <2>2. /\ AddProof(fields, front, input, type, proof)
        /\ AddProof(said, front, other, type, proof)
    BY <1>7, <2>1, StakingFieldsSay DEF front
  <2> QED BY <1>3, <1>10, <1>30, <2>2 DEF AddProof, FieldNames
<1>32. Printed(v, other) = Printed(v, input)
  BY <1>16 DEF Printed, EnvelopeKept, AgreeAt, e
<1>33. ReadsAlike(v, input, r, other, result)
  BY <1>3, <1>15, <1>31, <1>32 DEF ReadsAlike
<1> QED BY <1>27, <1>29, <1>33

-----------------------------------------------------------------------------
(* The inductive invariant: what is reviewed is one of the requests, as parsed. *)

IInv ==
  /\ TypeOK
  /\ status = "review" => \E r \in Requests : rawTx = r.bytes

\* What is written over the proof are bytes, too.
LEMMA ProofIsBytes ==
  ASSUME IInv, status = "review"
  PROVE  \A input \in {WithSignature(rawTx, parsed.proof), WithProof(rawTx, parsed.proof)} :
           input \in Seq(BYTE) /\ Len(input) <= MAX_RAW_TX
<1>1. /\ version \in {"LEGACY", "ALBATROSS"} /\ rawTx \in Seq(BYTE) /\ Len(rawTx) <= MAX_RAW_TX
      /\ parsed \in ParseTx(version, rawTx)
  BY DEF IInv, TypeOK
<1>2. /\ AccountKey \in [1..PUBLIC_KEY_LENGTH -> BYTE]
      /\ Signature(rawTx) \in [1..SIGNATURE_LENGTH -> BYTE]
  BY AccountAssumption DEF IInv
<1>3. /\ parsed.proof.key \in Pieces /\ parsed.proof.signature \in Pieces
      /\ parsed.proof.key.length \in {0, PUBLIC_KEY_LENGTH}
      /\ parsed.proof.signature.length \in {0, SIGNATURE_LENGTH}
  <2>1. CASE parsed.proof = NoProof
    BY <2>1 DEF NoProof, Nothing, Piece, Pieces, NULL
  <2>2. CASE parsed.proof # NoProof
    <3>1. PICK n \in Nat, at \in Nat :
            parsed.proof = [key |-> Piece(at + n + 2, PUBLIC_KEY_LENGTH),
                            signature |-> Piece(at + n + 35, SIGNATURE_LENGTH)]
      <4>1. ProofEndsData(version, rawTx, parsed.proof)
        BY <1>1, <2>2, ProofIsInTransaction, Zenon
      <4> QED BY <4>1, Zenon DEF ProofEndsData
    <3> QED BY <3>1 DEF Piece, Pieces, PUBLIC_KEY_LENGTH, SIGNATURE_LENGTH
  <2> QED BY <2>1, <2>2
<1> DEFINE half == WithSignature(rawTx, parsed.proof)
<1>4. half \in Seq(BYTE) /\ Len(half) = Len(rawTx)
  BY <1>1, <1>2, <1>3, OverwriteIsBytes DEF WithSignature
<1>5. WithProof(rawTx, parsed.proof) = Overwrite(half, parsed.proof.key, AccountKey)
  BY DEF WithProof
<1> HIDE DEF half
<1>6. /\ WithProof(rawTx, parsed.proof) \in Seq(BYTE)
      /\ Len(WithProof(rawTx, parsed.proof)) = Len(half)
  <2> DEFINE key == parsed.proof.key
  <2>1. key \in Pieces /\ (key.length # 0 => AccountKey \in [1..key.length -> BYTE])
    BY <1>2, <1>3
  <2> HIDE DEF key
  <2>2. Overwrite(half, key, AccountKey) \in Seq(BYTE)
        /\ Len(Overwrite(half, key, AccountKey)) = Len(half)
    BY <1>4, <2>1, OverwriteIsBytes, Zenon
  <2> QED BY <1>5, <2>2, Zenon DEF key
<1> QED BY <1>1, <1>4, <1>6 DEF half

\* The initial state has nothing under review.
LEMMA InitEstablishesIInv == Init => IInv
<1> SUFFICES ASSUME Init PROVE IInv
  OBVIOUS
<1>1. rawTx \in Seq(BYTE) /\ Len(rawTx) <= MAX_RAW_TX
  BY DEF Init, MAX_RAW_TX
<1> QED BY <1>1 DEF Init, IInv, TypeOK

\* Whatever a request or a decision does, IInv is kept.
LEMMA NextPreservesIInv == IInv /\ [Next]_vars => IInv'
<1> SUFFICES ASSUME IInv, [Next]_vars PROVE IInv'
  OBVIOUS
<1>1. <<>> \in Seq(BYTE) /\ Len(<<>>) <= MAX_RAW_TX
  BY DEF MAX_RAW_TX
<1>2. CASE Begin
  BY <1>1, <1>2 DEF Begin, IInv, TypeOK
<1>3. ASSUME NEW r \in Requests, SignTransaction(r) PROVE IInv'
  <2>1. CASE status' = "rejected"
    <3>1. version' = "LEGACY" /\ rawTx' = <<>>
      BY <1>3, <2>1 DEF SignTransaction
    <3> QED BY <1>1, <2>1, <3>1 DEF IInv, TypeOK
  <2>2. CASE status' = "review"
    <3>1. /\ version' = r.version /\ rawTx' = r.bytes
          /\ parsed' \in IF Len(r.bytes) <= MAX_RAW_TX THEN ParseTx(r.version, r.bytes) ELSE {}
      BY <1>3, <2>2 DEF SignTransaction
    <3>2. Len(r.bytes) <= MAX_RAW_TX /\ parsed' \in ParseTx(r.version, r.bytes)
      BY <3>1
    <3> QED BY <2>2, <3>1, <3>2, RequestsAssumption DEF IInv, TypeOK
  <2> QED BY <1>3, <2>1, <2>2 DEF SignTransaction
<1>4. CASE OnTransactionApproved
  <2>1. /\ status = "review" /\ status' = "decided" /\ version' = version
        /\ rawTx' \in {rawTx, WithSignature(rawTx, parsed.proof), WithProof(rawTx, parsed.proof)}
    BY <1>4, Zenon DEF OnTransactionApproved
  <2>2. rawTx' \in Seq(BYTE) /\ Len(rawTx') <= MAX_RAW_TX
    BY <2>1, ProofIsBytes DEF IInv, TypeOK
  <2> QED BY <2>1, <2>2 DEF IInv, TypeOK
<1>5. CASE OnRejected
  BY <1>5 DEF OnRejected, IInv, TypeOK
<1>6. CASE UNCHANGED vars
  BY <1>6 DEF vars, IInv, TypeOK
<1> QED BY <1>2, <1>3, <1>4, <1>5, <1>6 DEF Next

\* So IInv is an invariant.
LEMMA IInvIsInvariant == Spec => []IInv
  BY InitEstablishesIInv, NextPreservesIInv, PTL DEF Spec

-----------------------------------------------------------------------------
(* The theorems *)

\* The raw transaction stays bytes that fit the buffer, also with the proof written into
\* it, and what is reviewed is a result of parse_tx for it.
THEOREM BytesTypeCorrect == Spec => []TypeOK
<1>1. IInv => TypeOK
  BY DEF IInv
<1> QED BY <1>1, IInvIsInvariant, PTL

\* Of every accepted transaction all bytes are read, and it is as long as the comment on
\* MAX_RAW_TX says for its type; so none is as short as the digest of a message.
THEOREM TransactionLengths == Spec => []LengthsAsDocumented
<1>1. IInv => LengthsAsDocumented
  <2> SUFFICES ASSUME IInv, status = "review" PROVE LengthsAsDocumented
    BY DEF LengthsAsDocumented
  <2>1. /\ version \in {"LEGACY", "ALBATROSS"} /\ rawTx \in Seq(BYTE) /\ Len(rawTx) <= MAX_RAW_TX
        /\ parsed \in ParseTx(version, rawTx)
    BY DEF IInv, TypeOK
  <2>2. Len(rawTx) - EnvelopeLength(version) \in DataLengths(parsed.label)
    BY <2>1, AcceptedLengths
  <2>3. DataLengths(parsed.label) \subseteq Nat
    BY DEF DataLengths, LENGTH_NORMAL_TX_DATA_MAX
  <2>4. EnvelopeLength(version) \in Nat /\ EnvelopeLength(version) >= 66
    BY <2>1 DEF EnvelopeLength
  <2>5. Len(rawTx) \in Nat
    BY <2>1
  <2>6. 32 < Len(rawTx)
    BY <2>2, <2>3, <2>4, <2>5
  <2> QED BY <2>1, <2>2, <2>6 DEF LengthsAsDocumented
<1> QED BY <1>1, IInvIsInvariant, PTL

\* The pointers of the signature proof of every accepted transaction point to a key and a
\* signature that lie apart from each other at the end of its recipient data.
THEOREM ProofPointersInBounds == Spec => []ProofLiesInData
<1>1. IInv => ProofLiesInData
  <2> SUFFICES ASSUME IInv, status = "review", parsed.proof # NoProof PROVE ProofLiesInData
    BY Zenon DEF ProofLiesInData
  <2>1. /\ version \in {"LEGACY", "ALBATROSS"} /\ rawTx \in Seq(BYTE)
        /\ parsed \in ParseTx(version, rawTx)
    BY DEF IInv, TypeOK
  <2>2. PICK n \in Nat, at \in Nat :
          /\ Envelope(version, rawTx).data = Piece(at, n + 99)
          /\ parsed.proof = [key |-> Piece(at + n + 2, PUBLIC_KEY_LENGTH),
                             signature |-> Piece(at + n + 35, SIGNATURE_LENGTH)]
          /\ at + n + 99 <= Len(rawTx)
    <3>1. ProofEndsData(version, rawTx, parsed.proof)
      BY <2>1, ProofIsInTransaction, Zenon
    <3> QED BY <3>1, Zenon DEF ProofEndsData
  <2> QED BY <2>2 DEF ProofLiesInData, Piece, PUBLIC_KEY_LENGTH, SIGNATURE_LENGTH
<1> QED BY <1>1, IInvIsInvariant, PTL

\* Value and fee of every accepted transaction are printed as the very number of luna that
\* its bytes say, canonically and with room for the terminator.
THEOREM AmountsReadExactly == Spec => []AmountsAreExact
<1>1. IInv => AmountsAreExact
  <2> SUFFICES ASSUME IInv, status = "review" PROVE AmountsAreExact
    BY Zenon DEF AmountsAreExact
  <2> DEFINE e == Envelope(version, rawTx)
             Exact(piece) ==
               LET text == AmountText(Bytes(rawTx, piece))
               IN /\ Len(text) < STRING_LENGTH_NIM_AMOUNT
                  /\ IsCanonicalAmount(text) /\ ReadAmount(text) = Bytes(rawTx, piece)
  <2>1. /\ version \in {"LEGACY", "ALBATROSS"} /\ rawTx \in Seq(BYTE)
        /\ ParseTx(version, rawTx) # {}
    BY DEF IInv, TypeOK
  <2>2. HasValidEnvelope(version, rawTx, e)
    BY <2>1, Zenon DEF ParseTx
  <2>3. /\ IsComplete(e)
        /\ ParseAmount(Bytes(rawTx, e.value)) # {} /\ ParseAmount(Bytes(rawTx, e.fee)) # {}
    BY <2>2 DEF HasValidEnvelope
  <2>4. PICK n \in Nat : ArePieces(e, n) /\ n + 66 <= Len(rawTx)
    BY <2>1, <2>3, EnvelopePieces
  <2>5. e.value = Piece(n + 45, 8) /\ e.fee = Piece(n + 53, 8)
    BY <2>4 DEF ArePieces
  <2> HIDE DEF e
  <2>6. Bytes(rawTx, e.value) \in Numbers /\ Bytes(rawTx, e.fee) \in Numbers
    <3>1. /\ n + 45 \in Nat \ {0} /\ (n + 45) + 7 <= Len(rawTx)
          /\ n + 53 \in Nat \ {0} /\ (n + 53) + 7 <= Len(rawTx)
      BY <2>1, <2>4
    <3> QED BY <2>1, <2>5, <3>1, NumberInInput
  <2>7. ASSUME NEW piece, Bytes(rawTx, piece) \in Numbers, ParseAmount(Bytes(rawTx, piece)) # {}
        PROVE  Exact(piece)
    <3> DEFINE b == Bytes(rawTx, piece)
    <3>1. b \in Numbers /\ IsSafeAmount(b)
      BY <2>7 DEF ParseAmount
    <3> HIDE DEF b
    <3>2. PICK text : /\ ParseAmount(b) = {text}
                      /\ Len(text) < STRING_LENGTH_NIM_AMOUNT
                      /\ IsCanonicalAmount(text) /\ ReadAmount(text) = b
      BY <3>1, AmountsArePrinted
    <3>3. AmountText(b) = text
      BY <3>2 DEF AmountText
    <3> QED BY <3>2, <3>3 DEF b
  <2>8. Exact(e.value) /\ Exact(e.fee)
    <3> HIDE DEF Exact
    <3> QED BY <2>3, <2>6, <2>7
  <2>9. /\ Printed(version, rawTx).value = AmountText(Bytes(rawTx, e.value))
        /\ Printed(version, rawTx).fee = AmountText(Bytes(rawTx, e.fee))
    BY DEF Printed, e
  <2> DEFINE valueText == AmountText(Bytes(rawTx, e.value))
             feeText == AmountText(Bytes(rawTx, e.fee))
  <2>10. ASSUME NEW amount \in {<<valueText, e.value>>, <<feeText, e.fee>>}
         PROVE  /\ Len(amount[1]) < STRING_LENGTH_NIM_AMOUNT
                /\ IsCanonicalAmount(amount[1])
                /\ ReadAmount(amount[1]) = Bytes(rawTx, amount[2])
    <3>1. CASE amount = <<valueText, e.value>>
      <4>1. amount[1] = valueText /\ amount[2] = e.value
        BY <3>1
      <4> QED BY <2>8, <4>1
    <3>2. CASE amount = <<feeText, e.fee>>
      <4>1. amount[1] = feeText /\ amount[2] = e.fee
        BY <3>2
      <4> QED BY <2>8, <4>1
    <3> QED BY <3>1, <3>2
  <2> QED BY <2>9, <2>10, Zenon DEF AmountsAreExact, e
<1> QED BY <1>1, IInvIsInvariant, PTL

\* Whatever is signed, with or without a staker proof written into it, parse_tx would accept
\* with what the user has reviewed; a proof that was empty is now one by the account.
THEOREM SignedReadsLikeReview == Spec => []SignedReadsAsReviewed
<1>1. Init => SignedReadsAsReviewed
  BY DEF Init, SignedReadsAsReviewed
<1>2. ASSUME IInv, SignedReadsAsReviewed, [Next]_vars PROVE SignedReadsAsReviewed'
  <2>1. CASE Begin
    BY <2>1 DEF Begin, SignedReadsAsReviewed
  <2>2. ASSUME NEW r \in Requests, SignTransaction(r) PROVE SignedReadsAsReviewed'
    BY <2>2 DEF SignTransaction, SignedReadsAsReviewed
  <2>3. CASE OnTransactionApproved
    <3>1. /\ status = "review" /\ version' = version /\ parsed' = parsed
          /\ \/ signed' = NotSigned
             \/ /\ rawTx' = IF CreatesStakerSignature THEN WithProof(rawTx, parsed.proof) ELSE rawTx
                /\ signed' = [staker |-> IF CreatesStakerSignature THEN rawTx ELSE <<>>, over |-> rawTx']
      BY <2>3, Zenon DEF OnTransactionApproved
    <3>2. /\ version \in {"LEGACY", "ALBATROSS"} /\ rawTx \in Seq(BYTE)
          /\ parsed \in ParseTx(version, rawTx)
          /\ Signature(rawTx) \in [1..SIGNATURE_LENGTH -> BYTE]
      BY <1>2, <3>1, AccountAssumption DEF IInv, TypeOK
    <3>3. CASE signed' = NotSigned
      BY <3>3 DEF SignedReadsAsReviewed
    <3>4. CASE ~CreatesStakerSignature /\ signed' # NotSigned
      <4>1. rawTx' = rawTx /\ signed' = [staker |-> <<>>, over |-> rawTx]
        BY <3>1, <3>4
      <4>2. signed'.staker = <<>> /\ signed'.over = rawTx
        BY <4>1
      <4> QED BY <3>1, <3>2, <4>1, <4>2 DEF SignedReadsAsReviewed
    <3>5. CASE CreatesStakerSignature /\ signed' # NotSigned
      <4> DEFINE other == WithProof(rawTx, parsed.proof)
      <4>1. signed' = [staker |-> rawTx, over |-> other]
        BY <3>1, <3>5
      <4> HIDE DEF other
      <4>2. signed'.staker = rawTx /\ signed'.over = other
        BY <4>1
      <4>3. parsed.type = "STAKING_INCOMING" /\ parsed.fields.hasProof
        BY <3>5, Zenon DEF CreatesStakerSignature
      <4>4. PICK result \in ParseTx(version, other) : ReadsAlike(version, rawTx, parsed, other, result)
        BY <3>2, <4>3, ApprovedReadsAlike DEF other
      <4>5. rawTx # <<>>
        <5>1. IsComplete(Envelope(version, rawTx))
          BY <3>2, AcceptedLengths
        <5>2. \E n \in Nat : n + 66 <= Len(rawTx)
          BY <3>2, <5>1, EnvelopePieces
        <5> QED BY <5>2
      <4>6. /\ Printed(version, other) = Printed(version, rawTx)
            /\ <<result.type, result.label, result.proof>> = <<parsed.type, parsed.label, parsed.proof>>
            /\ \A f \in DOMAIN result.fields \ {"proof", "staker"} : result.fields[f] = parsed.fields[f]
            /\ result.fields.proof = "signed"
            /\ Bytes(other, result.proof.key) = AccountKey
            /\ Bytes(other, result.proof.signature) = Signature(rawTx)
        BY <4>4, Zenon DEF ReadsAlike
      <4> QED BY <3>1, <4>2, <4>4, <4>5, <4>6, Zenon DEF SignedReadsAsReviewed
    <3> QED BY <3>3, <3>4, <3>5
  <2>4. CASE OnRejected
    BY <1>2, <2>4 DEF OnRejected, SignedReadsAsReviewed
  <2>5. CASE UNCHANGED vars
    BY <1>2, <2>5 DEF vars, SignedReadsAsReviewed
  <2> QED BY <1>2, <2>1, <2>2, <2>3, <2>4, <2>5 DEF Next
<1> QED BY <1>1, <1>2, IInvIsInvariant, PTL DEF Spec
=============================================================================
