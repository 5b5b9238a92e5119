----------------------- MODULE PublicKeyRequestProofs -----------------------
(***************************************************************************)
(* Proofs about PublicKeyRequest, for any commands, keys and signatures.   *)
(*                                                                         *)
(* The buffer keeps what earlier commands and replies left behind the      *)
(* current command.  A request that is accepted is shown to be read from   *)
(* within its command; the inductive invariant then says that ctx.req.pk   *)
(* holds the key and the signature of the last request as long as it is    *)
(* under review, and the reply is made of them.                            *)
(*                                                                         *)
(* The address on the screen is followed from the bytes to the text:       *)
(* base32_encode is undone bit by bit, five bytes at a time; iban_check    *)
(* takes remainders in pieces, which are those of all digits; and          *)
(* print_address groups what removing the separators brings back.          *)
(***************************************************************************)
EXTENDS PublicKeyRequest, SumsProofs

-----------------------------------------------------------------------------
(* The buffer *)

IsBuffer(b) == DOMAIN b = 1..BUFFER_LENGTH /\ b = [i \in 1..BUFFER_LENGTH |-> b[i]]

(* Writing to the front of the buffer does not change its size. *)
LEMMA WrittenIsBuffer ==
  ASSUME NEW bytes, NEW b, IsBuffer(b)
  PROVE  IsBuffer(Written(bytes, b))
BY DEF IsBuffer, Written

(* A piece of the buffer is a sequence of its bytes. *)
LEMMA PieceOfBuffer ==
  ASSUME NEW b, IsBuffer(b), NEW from \in Nat, NEW to \in Nat,
         1 <= from, to <= BUFFER_LENGTH, from <= to + 1
  PROVE  SubSeq(b, from, to) = [i \in 1..(to - from + 1) |-> b[i + from - 1]]
<1>1. BUFFER_LENGTH \in Nat
  BY CommandAssumption
<1>2. b \in Seq({b[i] : i \in 1..BUFFER_LENGTH}) /\ Len(b) = BUFFER_LENGTH
  BY <1>1 DEF IsBuffer
<1> QED BY <1>1, <1>2

(* Data behind a header. *)
LEMMA HeaderAndData ==
  ASSUME NEW S, NEW h \in Seq(S), NEW d \in Seq(S)
  PROVE  /\ h \o d \in Seq(S) /\ Len(h \o d) = Len(h) + Len(d)
         /\ \A i \in 1..Len(h) : (h \o d)[i] = h[i]
         /\ \A i \in 1..Len(d) : (h \o d)[Len(h) + i] = d[i]
<1>1. h \o d \in Seq(S) /\ Len(h \o d) = Len(h) + Len(d)
  OBVIOUS
<1>2. \A i \in 1..Len(h) : (h \o d)[i] = h[i]
  OBVIOUS
<1>3. \A i \in 1..Len(d) : (h \o d)[Len(h) + i] = d[i]
  OBVIOUS
<1> QED BY <1>1, <1>2, <1>3

(* The header and the data of a command are in the buffer where they are looked for. *)
LEMMA ReceivedCommand ==
  ASSUME NEW ins, NEW c, c.data \in Seq(BYTE), OFFSET_CDATA + Len(c.data) <= BUFFER_LENGTH,
         IsBuffer(buffer)
  PROVE  LET received == Received(ins, c) IN
         /\ IsBuffer(received)
         /\ received[OFFSET_CDATA] = Len(c.data)
         /\ \A i \in 1..Len(c.data) : received[OFFSET_CDATA + i] = c.data[i]
<1> DEFINE data == c.data
           header == <<CLA, ins, c.p1, c.p2, Len(data)>>
           bytes == header \o data
           received == Received(ins, c)
<1>1. received = Written(bytes, buffer)
  BY Zenon DEF Received
<1>2. Len(data) \in Nat /\ BUFFER_LENGTH \in Nat
  BY CommandAssumption
<1>3. /\ Len(header) = 5 /\ header[5] = Len(data)
      /\ header \in Seq({header[i] : i \in 1..5})
  OBVIOUS
<1>4. /\ Len(bytes) = 5 + Len(data) /\ bytes[5] = Len(data)
      /\ \A i \in 1..Len(data) : bytes[5 + i] = data[i]
  <2> DEFINE S == {header[i] : i \in 1..5} \cup BYTE
  <2>1. header \in Seq(S) /\ data \in Seq(S)
    BY <1>3
  <2> HIDE DEF header, S
  <2>2. /\ Len(bytes) = Len(header) + Len(data)
        /\ \A i \in 1..Len(header) : bytes[i] = header[i]
        /\ \A i \in 1..Len(data) : bytes[Len(header) + i] = data[i]
    BY <2>1, HeaderAndData
  <2> HIDE DEF bytes
  <2> QED BY <1>2, <1>3, <2>2
<1> HIDE DEF bytes, header
<1>5. IsBuffer(received)
  BY <1>1, WrittenIsBuffer
<1>6. \A i \in 1..Len(bytes) : i \in DOMAIN buffer /\ received[i] = bytes[i]
  <2>1. \A i \in 1..Len(bytes) : i \in DOMAIN buffer
    BY <1>2, <1>4 DEF IsBuffer, OFFSET_CDATA
  <2> QED BY <1>1, <1>2, <1>4, <2>1 DEF Written
<1>7. received[5] = Len(data) /\ \A i \in 1..Len(data) : received[5 + i] = data[i]
  BY <1>2, <1>4, <1>6
<1> QED BY <1>5, <1>7 DEF OFFSET_CDATA

(* A piece of the data in the buffer is that piece of the data. *)
LEMMA PieceOfData ==
  ASSUME NEW b, IsBuffer(b), NEW data \in Seq(BYTE), OFFSET_CDATA + Len(data) <= BUFFER_LENGTH,
         \A i \in 1..Len(data) : b[OFFSET_CDATA + i] = data[i],
         NEW from \in Nat, NEW to \in Nat, 1 <= from, from <= to + 1, to <= Len(data)
  PROVE  SubSeq(b, OFFSET_CDATA + from, OFFSET_CDATA + to) = SubSeq(data, from, to)
<1> DEFINE size == to - from + 1
<1>1. Len(data) \in Nat /\ BUFFER_LENGTH \in Nat /\ OFFSET_CDATA = 5 /\ size \in Nat
  BY CommandAssumption DEF OFFSET_CDATA
<1>2. SubSeq(b, OFFSET_CDATA + from, OFFSET_CDATA + to)
        = [i \in 1..size |-> b[i + (4 + from)]]
  <2>1. /\ OFFSET_CDATA + from \in Nat /\ OFFSET_CDATA + to \in Nat
        /\ 1 <= OFFSET_CDATA + from /\ OFFSET_CDATA + to <= BUFFER_LENGTH
        /\ OFFSET_CDATA + from <= OFFSET_CDATA + to + 1
    BY <1>1
  <2>2. SubSeq(b, OFFSET_CDATA + from, OFFSET_CDATA + to)
          = [i \in 1..(OFFSET_CDATA + to - (OFFSET_CDATA + from) + 1)
               |-> b[i + (OFFSET_CDATA + from) - 1]]
    <3> DEFINE lower == OFFSET_CDATA + from
               upper == OFFSET_CDATA + to
    <3> HIDE DEF lower, upper
    <3>1. lower \in Nat /\ upper \in Nat /\ 1 <= lower /\ upper <= BUFFER_LENGTH
          /\ lower <= upper + 1
      BY <2>1 DEF lower, upper
    <3>2. SubSeq(b, lower, upper) = [i \in 1..(upper - lower + 1) |-> b[i + lower - 1]]
      BY <3>1, PieceOfBuffer
    <3>3. /\ lower = OFFSET_CDATA + from /\ upper = OFFSET_CDATA + to
          /\ upper - lower + 1 = OFFSET_CDATA + to - (OFFSET_CDATA + from) + 1
      BY <1>1 DEF lower, upper
    <3>4. \A i : i + lower - 1 = i + (OFFSET_CDATA + from) - 1
      BY DEF lower
    <3> QED BY <3>2, <3>3, <3>4, Zenon
  <2>3. OFFSET_CDATA + to - (OFFSET_CDATA + from) + 1 = size
    BY <1>1
  <2>4. \A i \in 1..size : i + (OFFSET_CDATA + from) - 1 = i + (4 + from)
    BY <1>1
  <2> QED BY <2>2, <2>3, <2>4
<1>3. SubSeq(data, from, to) = [i \in 1..size |-> data[i + from - 1]]
  OBVIOUS
<1>4. \A i \in 1..size : b[i + (4 + from)] = data[i + from - 1]
  <2> TAKE i \in 1..size
  <2>1. i + from - 1 \in 1..Len(data) /\ OFFSET_CDATA + (i + from - 1) = i + (4 + from)
    BY <1>1
  <2> QED BY <2>1
<1> QED BY <1>2, <1>3, <1>4

-----------------------------------------------------------------------------
(* Requests *)

(* read_sub_buffer takes a piece off the front if there is enough left, or fails. *)
LEMMA ReadsPiece ==
  ASSUME NEW c, c.ok = TRUE, c.at \in Nat, c.left \in Nat, NEW length \in Nat, length > 0,
         NEW d, d = ReadSubBuffer(c, length)
  PROVE  /\ c.left < length => ~d.ok
         /\ c.left >= length => /\ d.ok = TRUE /\ d.at = c.at + length
                                /\ d.left = c.left - length /\ d.out = Piece(c.at, length)
                                /\ "out" \in DOMAIN d
<1>1. CASE c.left < length
  <2>1. d = Fail(c)
    BY <1>1 DEF ReadSubBuffer
  <2>2. ~Fail(c).ok
    BY DEF Fail
  <2> QED BY <1>1, <2>1, <2>2
<1>2. CASE c.left >= length
  <2>1. d = [ok |-> TRUE, at |-> c.at + length, left |-> c.left - length,
             out |-> Piece(c.at, length)]
    BY <1>2 DEF ReadSubBuffer
  <2> QED BY <1>2, <2>1
<1> QED BY <1>1, <1>2

(* What is read by read_bip32_path: a number between 1 and 10, and four bytes for each. *)
LEMMA ReadsPath ==
  ASSUME NEW received, NEW length \in Nat,
         length > 0 => received[OFFSET_CDATA + 1] \in Nat,
         NEW path, path = ReadBip32Path(received, Open(Piece(OFFSET_CDATA + 1, length))),
         path.ok
  PROVE  LET n == received[OFFSET_CDATA + 1] IN
         /\ length > 0 /\ n \in 1..MAX_BIP32_PATH_LENGTH /\ 1 + 4 * n <= length
         /\ path.out = Piece(OFFSET_CDATA + 2, 4 * n)
         /\ path.at = OFFSET_CDATA + 2 + 4 * n /\ path.left = length - 1 - 4 * n
         /\ "out" \in DOMAIN path
<1> DEFINE open == Open(Piece(OFFSET_CDATA + 1, length))
           count == ReadU8(open)
           n == received[OFFSET_CDATA + 1]
<1>1. open.ok = TRUE /\ open.at = 6 /\ open.left = length
  BY DEF Open, Piece, OFFSET_CDATA
<1>2. count = ReadSubBuffer(open, 1)
  BY DEF ReadU8
<1>3. path = IF count.ok /\ U8(received, count.out) \notin 1..MAX_BIP32_PATH_LENGTH
             THEN Fail(count) ELSE ReadSubBuffer(count, 4 * U8(received, count.out))
  BY Zenon DEF ReadBip32Path
<1>4. ~Fail(count).ok
  BY DEF Fail
<1> HIDE DEF open, count
<1>5. /\ length < 1 => ~count.ok
      /\ length >= 1 => /\ count.ok = TRUE /\ count.at = 7
                        /\ count.left = length - 1 /\ count.out = Piece(6, 1)
  <2>1. open.at \in Nat /\ open.left \in Nat /\ 1 \in Nat /\ 1 > 0
    BY <1>1
  <2>2. /\ open.left < 1 => ~count.ok
        /\ open.left >= 1 => /\ count.ok = TRUE /\ count.at = open.at + 1
                             /\ count.left = open.left - 1 /\ count.out = Piece(open.at, 1)
    BY <1>1, <1>2, <2>1, ReadsPiece
  <2> QED BY <1>1, <2>2
<1>6. CASE length = 0
  <2>1. ~count.ok
    BY <1>5, <1>6
  <2>2. ~path.ok
    BY <1>3, <2>1 DEF ReadSubBuffer
  <2> QED BY <2>2
<1>7. CASE length # 0
  <2>1. /\ count.ok = TRUE /\ count.at = 7 /\ count.left = length - 1 /\ count.out = Piece(6, 1)
    BY <1>5, <1>7
  <2>2. U8(received, count.out) = n
    BY <2>1 DEF U8, Piece, OFFSET_CDATA
  <2>3. path = IF n \notin 1..MAX_BIP32_PATH_LENGTH THEN Fail(count)
               ELSE ReadSubBuffer(count, 4 * n)
    BY <1>3, <2>1, <2>2, Zenon
  <2>4. n \in 1..MAX_BIP32_PATH_LENGTH /\ path = ReadSubBuffer(count, 4 * n)
    BY <1>4, <2>3
  <2> HIDE DEF n
  <2>5. /\ n \in Nat /\ 4 * n \in Nat /\ 4 * n > 0
        /\ count.at \in Nat /\ count.left \in Nat
    BY <1>7, <2>1, <2>4 DEF MAX_BIP32_PATH_LENGTH
  <2>6. /\ count.left < 4 * n => ~path.ok
        /\ count.left >= 4 * n => /\ path.at = count.at + 4 * n
                                  /\ path.left = count.left - 4 * n
                                  /\ path.out = Piece(count.at, 4 * n)
                                  /\ "out" \in DOMAIN path
    <3> DEFINE size == 4 * n
    <3>1. path = ReadSubBuffer(count, size) /\ size \in Nat /\ size > 0
      BY <2>4, <2>5
    <3> HIDE DEF size
    <3>2. /\ count.left < size => ~path.ok
          /\ count.left >= size => /\ path.at = count.at + size
                                   /\ path.left = count.left - size
                                   /\ path.out = Piece(count.at, size)
                                   /\ "out" \in DOMAIN path
      BY <2>1, <2>5, <3>1, ReadsPiece
    <3> QED BY <3>2 DEF size
  <2>7. count.left >= 4 * n
    BY <2>5, <2>6
  <2>8. /\ path.out = Piece(7, 4 * n)
        /\ path.at = 7 + 4 * n /\ path.left = length - 1 - 4 * n /\ 1 + 4 * n <= length
        /\ "out" \in DOMAIN path
    BY <2>1, <2>5, <2>6, <2>7
  <2> QED BY <1>7, <2>4, <2>8 DEF n, OFFSET_CDATA
<1> QED BY <1>6, <1>7

(* What is read for a command is what its client asked for, by the command's own data: of
   what is in the buffer behind it, nothing is read, and the message to sign has 1 to 31
   bytes. *)
LEMMA RequestIsOfCommand ==
  ASSUME IsBuffer(buffer), NEW ins, NEW c,
         c.data \in Seq(BYTE), OFFSET_CDATA + Len(c.data) <= BUFFER_LENGTH,
         NEW request \in ReadRequest(Received(ins, c), c.p1, c.p2)
  PROVE  /\ HasPath(c.data) /\ request.path = PathIn(c.data)
         /\ c.p1 # P1_SIGNATURE => request.message = NONE
         /\ c.p1 = P1_SIGNATURE =>
              /\ request.message = MessageIn(c.data)
              /\ Len(request.message) \in 1..MAX_VERIFICATION_MESSAGE_LENGTH
         /\ request = AskedBy(c)
<1> DEFINE received == Received(ins, c)
           data == c.data
           n == data[1]
           path == ReadBip32Path(received, Open(Piece(OFFSET_CDATA + 1, received[OFFSET_CDATA])))
           message == ReadSubBuffer(path, path.left)
<1>1. /\ IsBuffer(received) /\ received[OFFSET_CDATA] = Len(data)
      /\ \A i \in 1..Len(data) : received[OFFSET_CDATA + i] = data[i]
  BY ReceivedCommand
<1>2. /\ path.ok
      /\ c.p1 # P1_SIGNATURE =>
           ReadRequest(received, c.p1, c.p2) = {[path |-> Bytes(received, path.out), message |-> NONE]}
      /\ c.p1 = P1_SIGNATURE =>
           /\ ~(path.left > MAX_VERIFICATION_MESSAGE_LENGTH)
           /\ HasVerificationPrefix(received, message.out)
           /\ ReadRequest(received, c.p1, c.p2)
                = {[path |-> Bytes(received, path.out), message |-> Bytes(received, message.out)]}
  <2> HIDE DEF path, message, received
  <2>1. request \in ReadRequest(received, c.p1, c.p2)
    BY DEF received
  <2>2. ReadRequest(received, c.p1, c.p2) =
          IF c.p1 \notin {0, P1_SIGNATURE} \/ c.p2 \notin {0, P2_CONFIRM} THEN {}
          ELSE IF ~path.ok \/ (c.p1 # P1_SIGNATURE /\ path.left # 0) THEN {}
          ELSE IF c.p1 # P1_SIGNATURE
          THEN {[path |-> Bytes(received, path.out), message |-> NONE]}
          ELSE IF path.left > MAX_VERIFICATION_MESSAGE_LENGTH THEN {}
          ELSE IF ~HasVerificationPrefix(received, message.out) THEN {}
          ELSE {[path |-> Bytes(received, path.out), message |-> Bytes(received, message.out)]}
    BY Zenon DEF ReadRequest, MessageOf, path, message
  <2> QED BY <2>1, <2>2
<1>3. Len(data) \in Nat /\ \A i \in 1..Len(data) : data[i] \in Nat
  <2>1. Len(data) \in Nat /\ \A i \in 1..Len(data) : data[i] \in BYTE
    OBVIOUS
  <2>2. BYTE \subseteq Nat
    BY DEF BYTE, BYTE_SIZE
  <2> QED BY <2>1, <2>2
<1> HIDE DEF received, message, path
<1>4. /\ Len(data) > 0 /\ n \in 1..10 /\ 1 + 4 * n <= Len(data)
      /\ path.out = Piece(7, 4 * n) /\ path.at = 7 + 4 * n
      /\ path.left = Len(data) - 1 - 4 * n /\ "out" \in DOMAIN path
  <2> DEFINE number == received[OFFSET_CDATA + 1]
  <2>1. Len(data) > 0 => number = n /\ number \in Nat
    BY <1>1, <1>3
  <2>2. path = ReadBip32Path(received, Open(Piece(OFFSET_CDATA + 1, Len(data))))
    BY <1>1 DEF path
  <2>3. /\ Len(data) > 0 /\ number \in 1..MAX_BIP32_PATH_LENGTH /\ 1 + 4 * number <= Len(data)
        /\ path.out = Piece(OFFSET_CDATA + 2, 4 * number)
        /\ path.at = OFFSET_CDATA + 2 + 4 * number /\ path.left = Len(data) - 1 - 4 * number
        /\ "out" \in DOMAIN path
    BY <1>2, <1>3, <2>1, <2>2, ReadsPath
  <2> HIDE DEF number, n
  <2>4. number = n /\ OFFSET_CDATA + 2 = 7 /\ MAX_BIP32_PATH_LENGTH = 10
    BY <2>1, <2>3 DEF OFFSET_CDATA, MAX_BIP32_PATH_LENGTH
  <2> QED BY <2>3, <2>4
<1> HIDE DEF n
<1>sizes. /\ n \in 1..10 /\ n \in Nat /\ Len(data) \in Nat /\ path.left \in Nat
          /\ path.left = Len(data) - 1 - 4 * n
  BY <1>3, <1>4
<1>5. /\ Bytes(received, path.out) = PathIn(data)
      /\ HasPath(data)
  <2>1. Bytes(received, path.out) = SubSeq(received, OFFSET_CDATA + 2, OFFSET_CDATA + (1 + 4 * n))
    <3>1. path.out.at = 7 /\ path.out.length = 4 * n
      BY <1>4 DEF Piece
    <3>2. 7 + 4 * n - 1 = OFFSET_CDATA + (1 + 4 * n) /\ OFFSET_CDATA + 2 = 7
      BY <1>4 DEF OFFSET_CDATA
    <3> QED BY <3>1, <3>2 DEF Bytes
  <2>2. 2 \in Nat /\ 1 + 4 * n \in Nat /\ 2 <= 1 + 4 * n + 1 /\ 1 + 4 * n <= Len(data)
    BY <1>sizes
  <2>3. SubSeq(received, OFFSET_CDATA + 2, OFFSET_CDATA + (1 + 4 * n)) = SubSeq(data, 2, 1 + 4 * n)
    <3> DEFINE to == 1 + 4 * n
           lower == 2
    <3>1. lower \in Nat /\ to \in Nat /\ lower <= to + 1 /\ to <= Len(data) /\ 1 <= lower
      BY <2>2
    <3> HIDE DEF to, lower
    <3>2. SubSeq(received, OFFSET_CDATA + lower, OFFSET_CDATA + to) = SubSeq(data, lower, to)
      BY <1>1, <1>3, <3>1, PieceOfData
    <3> QED BY <3>2 DEF to, lower
  <2> QED BY <1>4, <2>1, <2>3 DEF PathIn, HasPath, MAX_BIP32_PATH_LENGTH, n
<1>6. ASSUME c.p1 = P1_SIGNATURE
      PROVE  /\ Bytes(received, message.out) = MessageIn(data)
             /\ Len(MessageIn(data)) \in 1..MAX_VERIFICATION_MESSAGE_LENGTH
  <2> DEFINE left == path.left
             from == 2 + 4 * n
  <2>1. left = Len(data) - 1 - 4 * n /\ left \in Nat /\ left <= 31
    <3>1. ~(left > 31)
      BY <1>2, <1>6 DEF MAX_VERIFICATION_MESSAGE_LENGTH
    <3>2. left = Len(data) - 1 - 4 * n /\ left \in Nat
      BY <1>sizes
    <3> HIDE DEF left
    <3> QED BY <3>1, <3>2
  <2>2. message.out # Nothing
    BY <1>2, <1>6 DEF HasVerificationPrefix
  <2>3. message = ReadSubBuffer(path, left)
    BY DEF message
  <2>same. left = path.left
    OBVIOUS
  <2> HIDE DEF left
  <2>4. left # 0
    <3>1. left = 0 => message = [path EXCEPT !.out = Nothing]
      BY <1>2, <2>3 DEF ReadSubBuffer
    <3>2. [path EXCEPT !.out = Nothing].out = Nothing
      BY <1>4
    <3> QED BY <2>2, <3>1, <3>2
  <2>5. message.out = Piece(path.at, left)
    <3>a. left > 0
      BY <2>1, <2>4
    <3>b. path.at \in Nat
      <4>1. path.at = 7 + 4 * n
        BY <1>4
      <4> QED BY <1>sizes, <4>1
    <3>1. left > 0 /\ path.at \in Nat
      BY <3>a, <3>b
    <3>2. path.ok = TRUE /\ path.left \in Nat /\ left \in Nat /\ path.left >= left
      BY <1>2, <1>sizes, <2>same
    <3> QED BY <2>3, <3>1, <3>2, ReadsPiece
  <2>6. Bytes(received, message.out) = SubSeq(received, 7 + 4 * n, 5 + Len(data))
    <3>1. message.out.at = 7 + 4 * n /\ message.out.length = left
      BY <1>4, <2>5 DEF Piece
    <3>2. 7 + 4 * n + left - 1 = 5 + Len(data)
      <4> DEFINE size == Len(data)
      <4>1. left = size - 1 - 4 * n /\ size \in Nat /\ n \in Nat
        BY <1>sizes, <2>1
      <4> HIDE DEF size
      <4>2. 7 + 4 * n + left - 1 = 5 + size
        BY <4>1
      <4> QED BY <4>2 DEF size
    <3> QED BY <3>1, <3>2 DEF Bytes
  <2>7. SubSeq(received, OFFSET_CDATA + from, OFFSET_CDATA + Len(data))
          = SubSeq(data, from, Len(data))
    <3>1. Len(data) \in Nat /\ from \in Nat /\ 1 <= from /\ from <= Len(data) + 1
      BY <1>3, <1>4
    <3>2. Len(data) <= Len(data)
      BY <3>1
    <3> HIDE DEF from
    <3>3. /\ IsBuffer(received) /\ data \in Seq(BYTE) /\ OFFSET_CDATA + Len(data) <= BUFFER_LENGTH
          /\ \A i \in 1..Len(data) : received[OFFSET_CDATA + i] = data[i]
      BY <1>1, <1>3
    <3> QED BY <3>1, <3>2, <3>3, PieceOfData, Zenon
  <2>8. OFFSET_CDATA + from = 7 + 4 * n /\ OFFSET_CDATA + Len(data) = 5 + Len(data)
    BY <1>4 DEF OFFSET_CDATA
  <2>9. Bytes(received, message.out) = MessageIn(data)
    BY <2>6, <2>7, <2>8 DEF MessageIn, n
  <2>10. Len(MessageIn(data)) = left
    <3>1. MessageIn(data) = SubSeq(data, from, Len(data))
      BY DEF MessageIn, n
    <3>2. from \in Nat /\ from <= Len(data) + 1 /\ left = Len(data) - from + 1
      BY <1>4, <1>sizes, <2>1
    <3> HIDE DEF from
    <3>3. Len(SubSeq(data, from, Len(data))) = Len(data) - from + 1
      BY <3>2, <1>sizes
    <3> QED BY <3>1, <3>2, <3>3
  <2>11. left \in 1..MAX_VERIFICATION_MESSAGE_LENGTH
    <3>1. left > 0
      BY <2>1, <2>4
    <3>2. left <= 31
      BY <2>1
    <3>3. left \in Nat
      BY <2>1
    <3> QED BY <3>1, <3>2, <3>3 DEF MAX_VERIFICATION_MESSAGE_LENGTH
  <2> QED BY <2>9, <2>10, <2>11, Zenon
<1> HIDE DEF path
<1>7. request = [path |-> PathIn(data),
                 message |-> IF c.p1 = P1_SIGNATURE THEN MessageIn(data) ELSE NONE]
  <2>1. request \in ReadRequest(received, c.p1, c.p2)
    BY DEF received
  <2> QED BY <1>2, <1>5, <1>6, <2>1
<1>8. request = AskedBy(c)
  BY <1>5, <1>7 DEF AskedBy
<1> QED BY <1>5, <1>6, <1>7, <1>8

-----------------------------------------------------------------------------
(* Keys and replies *)

IsPoint(point) ==
  /\ point.x \in [1..KEY_LENGTH -> BYTE]
  /\ point.y \in [1..KEY_LENGTH -> BYTE]
  /\ point.y[1] < 128

(* A bit above seven others. *)
LEMMA BitAboveSeven ==
  ASSUME NEW low \in 0..127, NEW bit \in 0..1
  PROVE  /\ (low + IF bit = 1 THEN 128 ELSE 0) % 128 = low
         /\ (low + IF bit = 1 THEN 128 ELSE 0) \div 128 = bit
         /\ (low + IF bit = 1 THEN 128 ELSE 0) \in BYTE
<1>1. CASE bit = 1
  BY <1>1 DEF BYTE, BYTE_SIZE
<1>2. CASE bit = 0
  BY <1>2 DEF BYTE, BYTE_SIZE
<1> QED BY <1>1, <1>2

(* The bytes of a key are the encoding of its point. *)
LEMMA KeyIsEncoded ==
  ASSUME NEW point, IsPoint(point)
  PROVE  LET key == KeyBytes(point) IN
         key \in Seq(BYTE) /\ Len(key) = KEY_LENGTH /\ IsKeyOf(key, point)
<1> DEFINE key == KeyBytes(point)
           parity == point.x[32] % 2
<1>1. /\ \A i \in 1..32 : point.y[i] \in BYTE /\ point.x[i] \in BYTE
      /\ point.y[1] < 128
  BY DEF IsPoint, KEY_LENGTH
<1>2. BYTE = 0..255
  BY DEF BYTE, BYTE_SIZE
<1>3. point.y[1] \in 0..127 /\ parity \in 0..1
  <2>1. 1 \in 1..32 /\ 32 \in 1..32
    OBVIOUS
  <2>2. point.y[1] \in 0..255 /\ point.x[32] \in 0..255
    <3>1. point.y[1] \in BYTE /\ point.x[32] \in BYTE
      BY <1>1, <2>1, Zenon
    <3> QED BY <1>2, <3>1, Zenon
  <2>3. point.y[1] \in 0..127
    BY <1>1, <2>2
  <2> DEFINE last == point.x[32]
  <2>4. last \in 0..255
    BY <2>2
  <2> HIDE DEF last
  <2>5. last % 2 \in 0..1
    BY <2>4
  <2> QED BY <2>3, <2>5 DEF last
<1>4. /\ DOMAIN key = 1..32
      /\ key = [i \in 1..32 |-> point.y[33 - i] + IF i = 32 /\ parity = 1 THEN 128 ELSE 0]
  BY DEF KeyBytes, KEY_LENGTH
<1> HIDE DEF key
<1>5. \A i \in 1..31 : key[i] = point.y[33 - i] /\ key[i] \in BYTE
  <2> TAKE i \in 1..31
  <2>1. i \in 1..32 /\ i # 32 /\ 33 - i \in 1..32
    OBVIOUS
  <2>2. key[i] = point.y[33 - i] + 0
    BY <1>4, <2>1
  <2>3. point.y[33 - i] \in 0..255
    BY <1>1, <1>2, <2>1
  <2> QED BY <1>2, <2>2, <2>3
<1>6. key[32] = point.y[1] + IF parity = 1 THEN 128 ELSE 0
  <2>1. 32 \in 1..32 /\ 33 - 32 = 1
    OBVIOUS
  <2> QED BY <1>4, <2>1
<1> HIDE DEF parity
<1>7. key[32] % 128 = point.y[1] /\ key[32] \div 128 = parity /\ key[32] \in BYTE
  BY <1>3, <1>6, BitAboveSeven
<1>8. key \in Seq(BYTE) /\ Len(key) = 32
  <2>1. \A i \in 1..32 : key[i] \in BYTE
    BY <1>5, <1>7
  <2>2. key = [i \in 1..32 |-> key[i]]
    BY <1>4
  <2> QED BY <2>1, <2>2
<1>9. IsKeyOf(key, point)
  <2>1. \A i \in 1..(KEY_LENGTH - 1) : key[i] = point.y[KEY_LENGTH + 1 - i]
    BY <1>5 DEF KEY_LENGTH
  <2>2. key[KEY_LENGTH] % 128 = point.y[1] /\ key[KEY_LENGTH] \div 128 = point.x[KEY_LENGTH] % 2
    BY <1>7 DEF KEY_LENGTH, parity
  <2> QED BY <2>1, <2>2, Zenon DEF IsKeyOf
<1> QED BY <1>8, <1>9 DEF KEY_LENGTH, key

(* The parts of two sequences that follow each other. *)
LEMMA FrontAndBack ==
  ASSUME NEW S, NEW a \in Seq(S), NEW b \in Seq(S)
  PROVE  /\ SubSeq(a \o b, 1, Len(a)) = a
         /\ SubSeq(a \o b, Len(a) + 1, Len(a \o b)) = b
         /\ Len(a \o b) = Len(a) + Len(b)
<1>1. SubSeq(a \o b, 1, Len(a)) = a
  OBVIOUS
<1>2. SubSeq(a \o b, Len(a) + 1, Len(a \o b)) = b
  OBVIOUS
<1> QED BY <1>1, <1>2

-----------------------------------------------------------------------------
(* What is in ctx.req.pk *)

Matches(p, request) ==
  /\ p.publicKey = PointOf(request.path) /\ IsPoint(p.publicKey)
  /\ p.returnSignature = (request.message # NONE)
  /\ request.message # NONE =>
       /\ p.signature = Signature(request.path, request.message)
       /\ p.signature \in [1..SIGNATURE_LENGTH -> BYTE]
       /\ Len(request.message) \in 1..MAX_VERIFICATION_MESSAGE_LENGTH

(* As long as an address is under review, and once there was a reply, ctx.req.pk is what
   the last request asked for; and the reply is made of it. *)
PkInv ==
  /\ IsBuffer(buffer)
  /\ status = "review" \/ reply # Error => Matches(pk, asked)
  /\ reply # Error => reply = Result(pk)

\* The key is at the front of every reply.
RepliesHaveKey == reply # Error => SubSeq(reply, 1, KEY_LENGTH) = KeyBytes(PointOf(asked.path))

(* A reply made of what matches a request is of that request. *)
LEMMA ResultIsOfRequest ==
  ASSUME PkInv
  PROVE  RepliesAreOfRequest /\ RepliesHaveKey
<1> SUFFICES ASSUME reply # Error
             PROVE  /\ SubSeq(reply, 1, KEY_LENGTH) = KeyBytes(PointOf(asked.path))
                    /\ IsKeyOf(SubSeq(reply, 1, KEY_LENGTH), PointOf(asked.path))
                    /\ asked.message = NONE => Len(reply) = KEY_LENGTH
                    /\ asked.message # NONE =>
                         /\ Len(asked.message) \in 1..MAX_VERIFICATION_MESSAGE_LENGTH
                         /\ SubSeq(reply, KEY_LENGTH + 1, Len(reply))
                              = Signature(asked.path, asked.message)
  BY Zenon DEF RepliesAreOfRequest, RepliesHaveKey
<1> DEFINE key == KeyBytes(pk.publicKey)
           point == PointOf(asked.path)
           signature == Signature(asked.path, asked.message)
<1>1. Matches(pk, asked) /\ reply = Result(pk)
  BY DEF PkInv
<1>2. pk.publicKey = point /\ IsPoint(point)
  BY <1>1 DEF Matches
<1>3. key \in Seq(BYTE) /\ Len(key) = KEY_LENGTH /\ IsKeyOf(key, point)
  BY <1>2, KeyIsEncoded
<1> DEFINE asKey == KeyBytes(PointOf(asked.path))
<1>0. key = asKey
  BY <1>2, Zenon
<1> HIDE DEF asKey
<1>4. CASE asked.message = NONE
  <2>1. reply = key \o <<>>
    BY <1>1, <1>4 DEF Matches, Result
  <2> HIDE DEF key
  <2>2. reply = key
    BY <1>3, <2>1
  <2>3. SubSeq(reply, 1, KEY_LENGTH) = key
    <3>1. SubSeq(key, 1, Len(key)) = key
      BY <1>3
    <3> QED BY <1>3, <2>2, <3>1, Zenon
  <2> QED BY <1>0, <1>3, <1>4, <2>2, <2>3 DEF asKey
<1>5. CASE asked.message # NONE
  <2>1. reply = key \o pk.signature /\ pk.signature = signature
    BY <1>1, <1>5 DEF Matches, Result
  <2>2. signature \in [1..SIGNATURE_LENGTH -> BYTE]
    BY <1>1, <1>5 DEF Matches
  <2>3. signature \in Seq(BYTE)
    <3> HIDE DEF signature
    <3>1. /\ signature = [i \in 1..64 |-> signature[i]]
          /\ \A i \in 1..64 : signature[i] \in BYTE
      BY <2>2 DEF SIGNATURE_LENGTH
    <3> QED BY <3>1
  <2> HIDE DEF key, signature
  <2>4. /\ SubSeq(key \o signature, 1, Len(key)) = key
        /\ SubSeq(key \o signature, Len(key) + 1, Len(key \o signature)) = signature
    BY <1>3, <2>3, FrontAndBack
  <2>5. /\ SubSeq(reply, 1, KEY_LENGTH) = key
        /\ SubSeq(reply, KEY_LENGTH + 1, Len(reply)) = signature
    BY <1>3, <2>1, <2>4, Zenon
  <2>6. Len(asked.message) \in 1..MAX_VERIFICATION_MESSAGE_LENGTH
    BY <1>1, <1>5 DEF Matches
  <2> QED BY <1>0, <1>3, <1>5, <2>5, <2>6 DEF signature, asKey
<1> QED BY <1>4, <1>5

(* When the app starts there is no request. *)
LEMMA PkInvInitially == Init => PkInv
BY DEF Init, PkInv, Zero, IsBuffer

(* What is made for a request that was accepted matches it. *)
LEMMA MadeMatches ==
  ASSUME IsBuffer(buffer), NEW c \in Commands,
         NEW request \in ReadRequest(Received(INS_GET_PUBLIC_KEY, c), c.p1, c.p2),
         NEW made,
         made.returnSignature = (c.p1 = P1_SIGNATURE),
         made.publicKey = PointOf(request.path),
         c.p1 = P1_SIGNATURE => made.signature = Signature(request.path, request.message)
  PROVE  Matches(made, request)
<1>1. c.data \in Seq(BYTE) /\ OFFSET_CDATA + Len(c.data) <= BUFFER_LENGTH
  BY CommandAssumption
<1>2. /\ HasPath(c.data) /\ request.path = PathIn(c.data)
      /\ c.p1 # P1_SIGNATURE => request.message = NONE
      /\ c.p1 = P1_SIGNATURE =>
           /\ request.message = MessageIn(c.data)
           /\ Len(request.message) \in 1..MAX_VERIFICATION_MESSAGE_LENGTH
  BY <1>1, RequestIsOfCommand
<1>3. /\ IsPoint(PointOf(PathIn(c.data)))
      /\ Signature(PathIn(c.data), MessageIn(c.data)) \in [1..SIGNATURE_LENGTH -> BYTE]
  BY <1>2, KeyAssumption DEF IsPoint
<1>4. c.p1 = P1_SIGNATURE => request.message # NONE
  <2> SUFFICES ASSUME c.p1 = P1_SIGNATURE
               PROVE  request.message # NONE
    OBVIOUS
  <2>1. request.message = SubSeq(c.data, 2 + 4 * c.data[1], Len(c.data))
    BY <1>2 DEF MessageIn
  <2>2. 2 + 4 * c.data[1] \in Nat /\ 2 + 4 * c.data[1] >= 1
    <3> DEFINE number == c.data[1]
    <3>1. number \in Nat
      BY <1>2 DEF HasPath, MAX_BIP32_PATH_LENGTH
    <3> HIDE DEF number
    <3>2. 2 + 4 * number \in Nat /\ 2 + 4 * number >= 1
      BY <3>1
    <3> QED BY <3>2 DEF number
  <2> DEFINE from == 2 + 4 * c.data[1]
  <2> HIDE DEF from
  <2>3. SubSeq(c.data, from, Len(c.data)) \in Seq(BYTE)
    BY <1>1, <2>2 DEF from
  <2> QED BY <2>1, <2>3, CommandAssumption DEF from
<1> QED BY <1>2, <1>3, <1>4 DEF Matches

(* Every step keeps the request and what is made of it together. *)
LEMMA PkInvPreserved ==
  ASSUME PkInv, [Next]_vars
  PROVE  PkInv'
<1>1. ASSUME NEW c \in Commands, GetPublicKey(c)
      PROVE  PkInv'
  <2> DEFINE received == Received(INS_GET_PUBLIC_KEY, c)
             requests == ReadRequest(received, c.p1, c.p2)
  <2>1. IsBuffer(received)
    BY WrittenIsBuffer DEF PkInv, Received
  <2>2. CASE Fails(received)
    BY <2>1, <2>2, WrittenIsBuffer DEF Fails, PkInv
  <2>3. CASE ~Fails(received)
    <3> DEFINE Made(request) ==
                 [returnSignature |-> c.p1 = P1_SIGNATURE,
                  publicKey |-> PointOf(request.path),
                  signature |-> IF c.p1 = P1_SIGNATURE
                                THEN Signature(request.path, request.message)
                                ELSE pk.signature]
    <3>1. PICK request \in requests :
            /\ pk' = Made(request)
            /\ \/ /\ status' = "review"
                  /\ buffer' = Written(StatusWord(TRUE), received)
                  /\ reply' = Error
               \/ /\ status' = "replied"
                  /\ buffer' = Written(Result(Made(request)) \o StatusWord(TRUE), received)
                  /\ reply' = Result(Made(request))
      BY <1>1, <2>3, Zenon DEF GetPublicKey
    <3>2. asked' = request
      <4>1. asked' = AskedBy(c)
        BY <1>1 DEF GetPublicKey
      <4>2. c.data \in Seq(BYTE) /\ OFFSET_CDATA + Len(c.data) <= BUFFER_LENGTH
        BY CommandAssumption
      <4> HIDE DEF requests
      <4>3. request = AskedBy(c)
        BY <3>1, <4>2, RequestIsOfCommand DEF PkInv, requests, received
      <4> QED BY <4>1, <4>3
    <3>3. Matches(Made(request), request)
      <4> DEFINE made == Made(request)
      <4>1. /\ made.returnSignature = (c.p1 = P1_SIGNATURE)
            /\ made.publicKey = PointOf(request.path)
            /\ c.p1 = P1_SIGNATURE => made.signature = Signature(request.path, request.message)
        OBVIOUS
      <4>2. IsBuffer(buffer) /\ request \in ReadRequest(Received(INS_GET_PUBLIC_KEY, c), c.p1, c.p2)
        BY <3>1 DEF PkInv
      <4> HIDE DEF made
      <4>3. Matches(made, request)
        BY <4>1, <4>2, MadeMatches
      <4> QED BY <4>3 DEF made
    <3> HIDE DEF Made, received
    <3>4. Matches(pk, asked)'
      BY <3>1, <3>2, <3>3 DEF Matches
    <3>5. IsBuffer(buffer)'
      BY <2>1, <3>1, WrittenIsBuffer DEF IsBuffer
    <3>6. (reply # Error => reply = Result(pk))'
      BY <3>1 DEF Error
    <3> QED BY <3>4, <3>5, <3>6 DEF PkInv
  <2> QED BY <2>2, <2>3
<1>2. ASSUME NEW c \in Commands, Faults(c)
      PROVE  PkInv'
  BY <1>2 DEF Faults, PkInv, IsBuffer, Zero
<1>3. ASSUME NEW data \in OtherData, UnknownCommand(data)
      PROVE  PkInv'
  <2> DEFINE received == Received(INS_UNKNOWN, [p1 |-> 0, p2 |-> 0, data |-> data])
  <2>1. IsBuffer(received)
    BY WrittenIsBuffer DEF PkInv, Received
  <2>2. Fails(received)
    BY <1>3 DEF UnknownCommand
  <2> HIDE DEF received
  <2> QED BY <2>1, <2>2, WrittenIsBuffer DEF Fails, PkInv
<1>4. CASE OnAddressApproved
  <2>1. IsBuffer(buffer)'
    BY <1>4, WrittenIsBuffer DEF OnAddressApproved, PkInv
  <2>2. Matches(pk, asked)'
    BY <1>4 DEF OnAddressApproved, PkInv, Matches
  <2> QED BY <1>4, <2>1, <2>2 DEF OnAddressApproved, PkInv, Result
<1>5. CASE OnRejected
  BY <1>5, WrittenIsBuffer DEF OnRejected, PkInv
<1>6. CASE UNCHANGED vars
  BY <1>6 DEF vars, PkInv, Matches, Result, IsBuffer
<1> QED BY <1>1, <1>2, <1>3, <1>4, <1>5, <1>6 DEF Next

(* A reply to a request for a public key has the key of the path that was asked for and,
   if and only if it was asked for, the signature over the message that was sent with it
   (handle_get_public_key, set_result_get_public_key, on_address_approved): nothing of an
   earlier request in ctx.req.pk, nothing of what is left in G_io_apdu_buffer. *)
THEOREM RepliesAreOfTheirRequest == Spec => []RepliesAreOfRequest
<1>1. Init => PkInv
  BY PkInvInitially
<1>2. PkInv /\ [Next]_vars => PkInv'
  BY PkInvPreserved
<1>3. PkInv => RepliesAreOfRequest
  BY ResultIsOfRequest
<1> QED BY <1>1, <1>2, <1>3, PTL DEF Spec

-----------------------------------------------------------------------------
(* base32_encode *)

Address == [1..20 -> BYTE]

\* The position of a character in the alphabet.
IndexOf(c) == CHOOSE i \in 0..31 : Alphabet[i] = c

(* The alphabet has thirty-two different characters, none of them a separator. *)
LEMMA IndexOfCharacter ==
  ASSUME NEW i \in 0..31
  PROVE  IndexOf(Alphabet[i]) = i /\ Alphabet[i] \in 0..34
<1>1. \A j \in 0..31 : Alphabet[j] = Alphabet[i] => j = i
  BY DEF Alphabet
<1>2. Alphabet[i] \in 0..34
  BY DEF Alphabet
<1> HIDE DEF Alphabet
<1>3. \E j \in 0..31 : Alphabet[j] = Alphabet[i]
  OBVIOUS
<1> QED BY <1>1, <1>2, <1>3, Zenon DEF IndexOf

\* What base32_encode keeps between two characters.
EncoderStates == [buffer : Int, next : 0..20, bitsLeft : 0..12, index : Nat]

\* The bits that are left are those of r; what is above them in the buffer does not matter.
At(s, r, next, bitsLeft) ==
  s \in EncoderStates /\ s.next = next /\ s.bitsLeft = bitsLeft /\ s.buffer % 2^bitsLeft = r

EncoderRefilled(data, s) ==
  IF s.bitsLeft >= 5 THEN s
  ELSE IF s.next < Len(data)
  THEN [s EXCEPT !.buffer = ShiftedLeft(@, 8) + data[s.next + 1], !.next = @ + 1,
                 !.bitsLeft = @ + 8]
  ELSE [s EXCEPT !.buffer = ShiftedLeft(@, 5 - s.bitsLeft), !.bitsLeft = 5]
EncoderTaken(s) ==
  [s EXCEPT !.bitsLeft = @ - 5, !.index = (s.buffer \div 2^(s.bitsLeft - 5)) % 32]
Encoded(data, s) == EncoderTaken(EncoderRefilled(data, s))

(* The powers of two by which it divides. *)
LEMMA SmallPowers ==
  ASSUME NEW n \in 0..7
  PROVE  2^n \in 1..128
<1>1. /\ 2^0 = 1 /\ 2^1 = 2 /\ 2^2 = 4 /\ 2^3 = 8 /\ 2^4 = 16 /\ 2^5 = 32 /\ 2^6 = 64
      /\ 2^7 = 128
  OBVIOUS
<1>2. CASE n = 0
  BY <1>1, <1>2
<1>3. CASE n = 1
  BY <1>1, <1>3
<1>4. CASE n = 2
  BY <1>1, <1>4
<1>5. CASE n = 3
  BY <1>1, <1>5
<1>6. CASE n = 4
  BY <1>1, <1>6
<1>7. CASE n = 5
  BY <1>1, <1>7
<1>8. CASE n = 6
  BY <1>1, <1>8
<1>9. CASE n = 7
  BY <1>1, <1>9
<1> QED BY <1>2, <1>3, <1>4, <1>5, <1>6, <1>7, <1>8, <1>9

(* The elements of a sequence. *)
LEMMA ElementsOf ==
  ASSUME NEW S, NEW s \in Seq(S), NEW n, Len(s) = n
  PROVE  \A i \in 1..n : s[i] \in S
OBVIOUS

\* Two numbers have the same twelve bits at the end.
EndAlike(a, b) == (a - b) % 4096 = 0

(* A shift loses bits at the top only: of the lowest twelve bits, none. *)
LEMMA ShiftLosesTop ==
  ASSUME NEW number \in Int, NEW n \in (1..5) \cup {8}
  PROVE  ShiftedLeft(number, n) \in Int /\ EndAlike(ShiftedLeft(number, n), number * 2^n)
<1> DEFINE top == 2^(31 - n)
           low == (number % top) * 2^n
           shifted == ShiftedLeft(number, n)
           product == number * 2^n
<1>1. shifted = low \/ shifted = low - 2^30 - 2^30
  BY Zenon DEF ShiftedLeft
<1>2. product \in Int
  <2>1. 2^n \in Int
    BY SMT
  <2> QED BY <2>1, SMT
<1> HIDE DEF shifted, low, product
<1> SUFFICES shifted \in Int /\ (shifted - product) % 4096 = 0
  BY SMT DEF shifted, product, EndAlike
<1>3. ASSUME low \in Int, (low - product) % 4096 = 0
      PROVE  shifted \in Int /\ (shifted - product) % 4096 = 0
  <2>1. 2^30 + 2^30 = 2147483648
    BY SMT
  <2>2. shifted = low \/ shifted = low - 2147483648
    BY <1>1, <1>3, <2>1, SMT
  <2> QED BY <1>2, <1>3, <2>2, SMT
<1>4. CASE n = 1
  <2> DEFINE c == -524288 * (number \div 1073741824)
  <2>1. top = 1073741824 /\ 2^n = 2
    BY <1>4, SMT
  <2>2. low = product + 4096 * c /\ c \in Int
    BY <2>1, SMT DEF low, product
  <2> HIDE DEF c
  <2>3. low \in Int /\ (low - product) % 4096 = 0
    BY <1>2, <2>2, SMT
  <2> QED BY <1>3, <2>3, SMT
<1>5. CASE n = 2
  <2> DEFINE c == -524288 * (number \div 536870912)
  <2>1. top = 536870912 /\ 2^n = 4
    BY <1>5, SMT
  <2>2. low = product + 4096 * c /\ c \in Int
    BY <2>1, SMT DEF low, product
  <2> HIDE DEF c
  <2>3. low \in Int /\ (low - product) % 4096 = 0
    BY <1>2, <2>2, SMT
  <2> QED BY <1>3, <2>3, SMT
<1>6. CASE n = 3
  <2> DEFINE c == -524288 * (number \div 268435456)
  <2>1. top = 268435456 /\ 2^n = 8
    BY <1>6, SMT
  <2>2. low = product + 4096 * c /\ c \in Int
    BY <2>1, SMT DEF low, product
  <2> HIDE DEF c
  <2>3. low \in Int /\ (low - product) % 4096 = 0
    BY <1>2, <2>2, SMT
  <2> QED BY <1>3, <2>3, SMT
<1>7. CASE n = 4
  <2> DEFINE c == -524288 * (number \div 134217728)
  <2>1. top = 134217728 /\ 2^n = 16
    BY <1>7, SMT
  <2>2. low = product + 4096 * c /\ c \in Int
    BY <2>1, SMT DEF low, product
  <2> HIDE DEF c
  <2>3. low \in Int /\ (low - product) % 4096 = 0
    BY <1>2, <2>2, SMT
  <2> QED BY <1>3, <2>3, SMT
<1>8. CASE n = 5
  <2> DEFINE c == -524288 * (number \div 67108864)
  <2>1. top = 67108864 /\ 2^n = 32
    BY <1>8, SMT
  <2>2. low = product + 4096 * c /\ c \in Int
    BY <2>1, SMT DEF low, product
  <2> HIDE DEF c
  <2>3. low \in Int /\ (low - product) % 4096 = 0
    BY <1>2, <2>2, SMT
  <2> QED BY <1>3, <2>3, SMT
<1>9. CASE n = 8
  <2> DEFINE c == -524288 * (number \div 8388608)
  <2>1. top = 8388608 /\ 2^n = 256
    BY <1>9, SMT
  <2>2. low = product + 4096 * c /\ c \in Int
    BY <2>1, SMT DEF low, product
  <2> HIDE DEF c
  <2>3. low \in Int /\ (low - product) % 4096 = 0
    BY <1>2, <2>2, SMT
  <2> QED BY <1>3, <2>3, SMT
<1> QED BY <1>4, <1>5, <1>6, <1>7, <1>8, <1>9, SMT

(* So it yields a number. *)
LEMMA ShiftedIsNumber ==
  ASSUME NEW number \in Int, NEW n \in (1..5) \cup {8}
  PROVE  ShiftedLeft(number, n) \in Int
BY ShiftLosesTop, Zenon

\* A number has the lowest k bits of another one, and a byte behind them.
HasByteBehind(number, other, k, byte) ==
  number \in Int /\ number % 2^(k + 8) = (other % 2^k) * 256 + byte

(* With a byte behind them, the lowest bits are still there, eight places further up. *)
LEMMA ShiftedByByte ==
  ASSUME NEW number \in Int, NEW k \in 0..4, NEW byte \in 0..255
  PROVE  HasByteBehind(ShiftedLeft(number, 8) + byte, number, k, byte)
<1> DEFINE shifted == ShiftedLeft(number, 8)
<1>1. shifted \in Int /\ (shifted - number * 256) % 4096 = 0
  <2>1. 2^8 = 256
    OBVIOUS
  <2> QED BY <2>1, ShiftLosesTop DEF EndAlike
<1> HIDE DEF shifted
<1>2. shifted + byte \in Int
  BY <1>1
<1>3. CASE k = 0
  <2>1. 2^k = 1 /\ 2^(k + 8) = 256
    BY <1>3
  <2>2. (shifted + byte) % 256 = (number % 1) * 256 + byte
    BY <1>1
  <2> QED BY <1>2, <2>1, <2>2 DEF shifted, HasByteBehind
<1>4. CASE k = 1
  <2>1. 2^k = 2 /\ 2^(k + 8) = 512
    BY <1>4
  <2>2. (shifted + byte) % 512 = (number % 2) * 256 + byte
    BY <1>1
  <2> QED BY <1>2, <2>1, <2>2 DEF shifted, HasByteBehind
<1>5. CASE k = 2
  <2>1. 2^k = 4 /\ 2^(k + 8) = 1024
    BY <1>5
  <2>2. (shifted + byte) % 1024 = (number % 4) * 256 + byte
    BY <1>1
  <2> QED BY <1>2, <2>1, <2>2 DEF shifted, HasByteBehind
<1>6. CASE k = 3
  <2>1. 2^k = 8 /\ 2^(k + 8) = 2048
    BY <1>6
  <2>2. (shifted + byte) % 2048 = (number % 8) * 256 + byte
    BY <1>1
  <2> QED BY <1>2, <2>1, <2>2 DEF shifted, HasByteBehind
<1>7. CASE k = 4
  <2>1. 2^k = 16 /\ 2^(k + 8) = 4096
    BY <1>7
  <2>2. (shifted + byte) % 4096 = (number % 16) * 256 + byte
    BY <1>1
  <2> QED BY <1>2, <2>1, <2>2 DEF shifted, HasByteBehind
<1> QED BY <1>3, <1>4, <1>5, <1>6, <1>7

(* The five bits in front of the last ones, whatever is in front of them. *)
LEMMA BitsInFront ==
  ASSUME NEW number \in Int, NEW n \in 0..7
  PROVE  /\ (number \div 2^n) % 32 = (number % 2^(n + 5)) \div 2^n
         /\ number % 2^n = (number % 2^(n + 5)) % 2^n
<1>1. CASE n = 0
  <2>1. 2^n = 1 /\ 2^(n + 5) = 32
    BY <1>1
  <2>2. (number \div 1) % 32 = (number % 32) \div 1
    OBVIOUS
  <2>3. number % 1 = (number % 32) % 1
    OBVIOUS
  <2> QED BY <2>1, <2>2, <2>3
<1>2. CASE n = 1
  <2>1. 2^n = 2 /\ 2^(n + 5) = 64
    BY <1>2
  <2>2. (number \div 2) % 32 = (number % 64) \div 2
    OBVIOUS
  <2>3. number % 2 = (number % 64) % 2
    OBVIOUS
  <2> QED BY <2>1, <2>2, <2>3
<1>3. CASE n = 2
  <2>1. 2^n = 4 /\ 2^(n + 5) = 128
    BY <1>3
  <2>2. (number \div 4) % 32 = (number % 128) \div 4
    OBVIOUS
  <2>3. number % 4 = (number % 128) % 4
    OBVIOUS
  <2> QED BY <2>1, <2>2, <2>3
<1>4. CASE n = 3
  <2>1. 2^n = 8 /\ 2^(n + 5) = 256
    BY <1>4
  <2>2. (number \div 8) % 32 = (number % 256) \div 8
    OBVIOUS
  <2>3. number % 8 = (number % 256) % 8
    OBVIOUS
  <2> QED BY <2>1, <2>2, <2>3
<1>5. CASE n = 4
  <2>1. 2^n = 16 /\ 2^(n + 5) = 512
    BY <1>5
  <2>2. (number \div 16) % 32 = (number % 512) \div 16
    OBVIOUS
  <2>3. number % 16 = (number % 512) % 16
    OBVIOUS
  <2> QED BY <2>1, <2>2, <2>3
<1>6. CASE n = 5
  <2>1. 2^n = 32 /\ 2^(n + 5) = 1024
    BY <1>6
  <2>2. (number \div 32) % 32 = (number % 1024) \div 32
    OBVIOUS
  <2>3. number % 32 = (number % 1024) % 32
    OBVIOUS
  <2> QED BY <2>1, <2>2, <2>3
<1>7. CASE n = 6
  <2>1. 2^n = 64 /\ 2^(n + 5) = 2048
    BY <1>7
  <2>2. (number \div 64) % 32 = (number % 2048) \div 64
    OBVIOUS
  <2>3. number % 64 = (number % 2048) % 64
    OBVIOUS
  <2> QED BY <2>1, <2>2, <2>3
<1>8. CASE n = 7
  <2>1. 2^n = 128 /\ 2^(n + 5) = 4096
    BY <1>8
  <2>2. (number \div 128) % 32 = (number % 4096) \div 128
    OBVIOUS
  <2>3. number % 128 = (number % 4096) % 128
    OBVIOUS
  <2> QED BY <2>1, <2>2, <2>3
<1> QED BY <1>1, <1>2, <1>3, <1>4, <1>5, <1>6, <1>7, <1>8

(* Five bits are taken off the front of those that are left. *)
LEMMA EncoderTakes ==
  ASSUME NEW s \in EncoderStates, s.bitsLeft >= 5, NEW p, p = 2^(s.bitsLeft - 5),
         NEW t, t = EncoderTaken(s)
  PROVE  /\ t \in EncoderStates
         /\ t.index = (s.buffer \div p) % 32 /\ t.buffer = s.buffer
         /\ t.next = s.next /\ t.bitsLeft = s.bitsLeft - 5
<1>1. s.bitsLeft - 5 \in 0..7 /\ s.buffer \in Int /\ s.next \in 0..20
  BY DEF EncoderStates
<1>2. p \in 1..128
  BY <1>1, SmallPowers
<1> DEFINE index == (s.buffer \div p) % 32
<1>3. t = [s EXCEPT !.bitsLeft = s.bitsLeft - 5, !.index = index]
  BY Zenon DEF EncoderTaken
<1>4. index \in Nat
  <2> DEFINE bits == s.buffer
  <2>1. bits \in Int
    BY <1>1
  <2> HIDE DEF bits
  <2>2. bits \div p \in Int
    BY <1>2, <2>1
  <2> DEFINE shifted == bits \div p
  <2> HIDE DEF shifted
  <2>3. shifted % 32 \in Nat
    BY <2>2 DEF shifted
  <2> QED BY <2>3 DEF bits, shifted
<1> HIDE DEF index
<1>5. t = [buffer |-> s.buffer, next |-> s.next, bitsLeft |-> s.bitsLeft - 5, index |-> index]
  BY <1>3 DEF EncoderStates
<1>6. t \in EncoderStates
  BY <1>1, <1>4, <1>5 DEF EncoderStates
<1> QED BY <1>5, <1>6 DEF index

(* With less than five bits left, the next byte is taken in. *)
LEMMA EncoderRefills ==
  ASSUME NEW data \in Seq(BYTE), Len(data) = 20, NEW s, NEW r \in Nat, NEW m \in 0..19,
         NEW k \in 0..4, At(s, r, m, k)
  PROVE  At(EncoderRefilled(data, s), r * 256 + data[m + 1], m + 1, k + 8)
<1> DEFINE t == EncoderRefilled(data, s)
           byte == data[m + 1]
           number == ShiftedLeft(s.buffer, 8) + byte
<1>1. s \in EncoderStates /\ s.next = m /\ s.bitsLeft = k /\ s.buffer % 2^k = r
  BY DEF At
<1>2. byte \in 0..255
  <2>1. \A i \in 1..20 : data[i] \in BYTE
    BY ElementsOf, Zenon
  <2>2. BYTE = 0..255
    BY DEF BYTE, BYTE_SIZE
  <2>3. m + 1 \in 1..20
    OBVIOUS
  <2> QED BY <2>1, <2>2, <2>3
<1> HIDE DEF byte
<1>3. number \in Int /\ number % 2^(k + 8) = r * 256 + byte
  <2>1. s.buffer \in Int
    BY <1>1 DEF EncoderStates
  <2>2. HasByteBehind(number, s.buffer, k, byte)
    BY <1>2, <2>1, ShiftedByByte, Zenon
  <2> QED BY <1>1, <2>2, Zenon DEF HasByteBehind
<1>4. ~(s.bitsLeft >= 5) /\ s.next < Len(data)
  BY <1>1
<1>5. t = [s EXCEPT !.buffer = ShiftedLeft(s.buffer, 8) + data[s.next + 1],
                    !.next = s.next + 1, !.bitsLeft = s.bitsLeft + 8]
  BY <1>4, Zenon DEF EncoderRefilled
<1>6. t = [s EXCEPT !.buffer = number, !.next = m + 1, !.bitsLeft = k + 8]
  BY <1>1, <1>5, Zenon DEF byte
<1> HIDE DEF t, number
<1>7. t = [buffer |-> number, next |-> m + 1, bitsLeft |-> k + 8, index |-> s.index]
  BY <1>1, <1>6 DEF EncoderStates
<1>8. m + 1 \in 0..20 /\ k + 8 \in 0..12 /\ s.index \in Nat
  BY <1>1 DEF EncoderStates
<1>9. At(t, r * 256 + byte, m + 1, k + 8)
  <2>1. t \in EncoderStates
    BY <1>3, <1>7, <1>8 DEF EncoderStates
  <2>2. t.buffer = number /\ t.next = m + 1 /\ t.bitsLeft = k + 8
    BY <1>7
  <2> QED BY <1>3, <2>1, <2>2, Zenon DEF At
<1> QED BY <1>9 DEF t, byte

(* Behind the last byte, zeros are taken in. *)
LEMMA EncoderPads ==
  ASSUME NEW data, Len(data) = 20, NEW s \in EncoderStates, s.bitsLeft < 5, ~(s.next < 20),
         NEW t, t = EncoderRefilled(data, s)
  PROVE  t \in EncoderStates /\ t.bitsLeft = 5
<1>1. s.buffer \in Int /\ 5 - s.bitsLeft \in 1..5 /\ ~(s.bitsLeft >= 5) /\ ~(s.next < Len(data))
  BY DEF EncoderStates
<1> DEFINE bits == s.buffer
           n == 5 - s.bitsLeft
           number == ShiftedLeft(bits, n)
<1>2. t = [s EXCEPT !.buffer = number, !.bitsLeft = 5]
  BY <1>1, Zenon DEF EncoderRefilled
<1>3. number \in Int
  <2>1. bits \in Int /\ n \in (1..5) \cup {8}
    BY <1>1
  <2> HIDE DEF bits, n
  <2> QED BY <2>1, ShiftedIsNumber
<1> HIDE DEF number
<1>4. t = [buffer |-> number, next |-> s.next, bitsLeft |-> 5, index |-> s.index]
  BY <1>2 DEF EncoderStates
<1>5. s.next \in 0..20 /\ s.index \in Nat /\ 5 \in 0..12
  BY DEF EncoderStates
<1> QED BY <1>3, <1>4, <1>5 DEF EncoderStates

\* The function by which base32_encode goes through the states.
AreEncoderStates(f, data) ==
  /\ f \in [0..32 -> EncoderStates]
  /\ f[0] = [buffer |-> data[1], next |-> 1, bitsLeft |-> 8, index |-> 0]
  /\ \A i \in 1..32 : f[i] = Encoded(data, f[i - 1])

(* A step of the encoder leads from a state to a state. *)
LEMMA EncodedIsState ==
  ASSUME NEW data \in Seq(BYTE), Len(data) = 20, NEW s \in EncoderStates
  PROVE  Encoded(data, s) \in EncoderStates
<1> DEFINE t == EncoderRefilled(data, s)
<1>1. t \in EncoderStates /\ t.bitsLeft >= 5
  <2>1. CASE s.bitsLeft >= 5
    <3>1. t = s
      BY <2>1, Zenon DEF EncoderRefilled
    <3> QED BY <2>1, <3>1
  <2>2. CASE ~(s.bitsLeft >= 5) /\ s.next < 20
    <3> DEFINE m == s.next
               k == s.bitsLeft
               bits == s.buffer
               r == bits % 2^k
    <3>1. r \in Nat /\ m \in 0..19 /\ k \in 0..4
      <4>1. bits \in Int /\ m \in 0..19 /\ k \in 0..4
        BY <2>2 DEF EncoderStates
      <4> HIDE DEF bits, k
      <4> DEFINE p == 2^k
      <4>2. p \in 1..128
        <5>1. k \in 0..7
          BY <4>1
        <5> QED BY <5>1, SmallPowers
      <4> HIDE DEF p
      <4>3. bits % p \in Nat
        BY <4>1, <4>2
      <4> QED BY <4>1, <4>3 DEF p
    <3>2. At(s, r, m, k)
      BY Zenon DEF At
    <3> HIDE DEF r, m, k
    <3>3. At(t, r * 256 + data[m + 1], m + 1, k + 8)
      BY <3>1, <3>2, EncoderRefills
    <3> HIDE DEF t
    <3>4. t \in EncoderStates /\ t.bitsLeft = k + 8
      BY <3>3, Zenon DEF At
    <3> QED BY <3>1, <3>4
  <2>3. CASE ~(s.bitsLeft >= 5) /\ ~(s.next < 20)
    <3>1. s.bitsLeft < 5
      BY <2>3 DEF EncoderStates
    <3>2. t \in EncoderStates /\ t.bitsLeft = 5
      BY <2>3, <3>1, EncoderPads
    <3> HIDE DEF t
    <3> QED BY <3>2
  <2> QED BY <2>1, <2>2, <2>3
<1> HIDE DEF t
<1>2. EncoderTaken(t) \in EncoderStates
  BY <1>1, EncoderTakes
<1> QED BY <1>2 DEF Encoded, t

(* It starts in a state, with one byte taken in. *)
LEMMA FirstIsState ==
  ASSUME NEW data \in Seq(BYTE), Len(data) = 20
  PROVE  [buffer |-> data[1], next |-> 1, bitsLeft |-> 8, index |-> 0] \in EncoderStates
<1>1. data[1] \in BYTE
  OBVIOUS
<1>2. BYTE \subseteq Nat
  BY DEF BYTE, BYTE_SIZE
<1>3. data[1] \in Nat
  BY <1>1, <1>2
<1>4. data[1] \in Int
  BY <1>3
<1> QED BY <1>4 DEF EncoderStates

(* The states that the encoder goes through. *)
LEMMA EncoderStatesExist ==
  ASSUME NEW data \in Seq(BYTE), Len(data) = 20
  PROVE  \E f : AreEncoderStates(f, data)
<1> DEFINE first == [buffer |-> data[1], next |-> 1, bitsLeft |-> 8, index |-> 0]
           step == [i \in 1..32 |-> [s \in EncoderStates |-> Encoded(data, s)]]
<1>1. first \in EncoderStates
  BY FirstIsState
<1>2. \A i \in 1..32 : \A s \in EncoderStates : step[i][s] = Encoded(data, s)
  OBVIOUS
<1>3. \A i \in 1..32 : \A s \in EncoderStates : step[i][s] \in EncoderStates
  BY <1>2, EncodedIsState
<1> HIDE DEF first, step
<1>4. PICK f \in [0..32 -> EncoderStates] : Goes(f, first, step, 32)
  BY <1>1, <1>3, StepByStep
<1>5. \A i \in 1..32 : i - 1 \in 0..32
  OBVIOUS
<1>6. \A i \in 1..32 : f[i] = Encoded(data, f[i - 1])
  BY <1>2, <1>4, <1>5 DEF Goes
<1>7. f[0] = first
  BY <1>4 DEF Goes
<1> QED BY <1>6, <1>7 DEF AreEncoderStates, first

-----------------------------------------------------------------------------
(* Five bytes in eight characters *)

(* A division by p leaves a rest below p. *)
LEMMA DividedWithRest ==
  ASSUME NEW a \in Nat, NEW p \in 1..128
  PROVE  /\ a \div p \in Nat /\ a % p \in 0..(p - 1)
         /\ a = p * (a \div p) + (a % p)
OBVIOUS

\* A number is an index and a rest, which stays in the buffer of the state behind it.
Gives(t, number, p, next, bitsLeft) ==
  \E index \in Nat, rest \in 0..(p - 1) :
    number = p * index + rest /\ t.index = index /\ At(t, rest, next, bitsLeft)

(* A character without a new byte. *)
LEMMA WithoutByte ==
  ASSUME NEW data \in Seq(BYTE), Len(data) = 20, NEW s, NEW r \in Nat, NEW m \in 0..20,
         NEW k \in 5..12, At(s, r, m, k), NEW p \in 1..128, p = 2^(k - 5)
  PROVE  Gives(Encoded(data, s), r, p, m, k - 5)
<1> DEFINE t == Encoded(data, s)
           bits == s.buffer
           n == k - 5
<1>1. s \in EncoderStates /\ bits % 2^k = r /\ s.next = m /\ s.bitsLeft = k /\ k >= 5
  BY DEF At
<1>2. t = EncoderTaken(s)
  BY <1>1, Zenon DEF Encoded, EncoderRefilled
<1>3. s.bitsLeft >= 5 /\ p = 2^(s.bitsLeft - 5)
  BY <1>1, Zenon
<1> HIDE DEF t
<1>4. /\ t \in EncoderStates
      /\ t.index = (bits \div p) % 32 /\ t.buffer = bits
      /\ t.next = s.next /\ t.bitsLeft = s.bitsLeft - 5
  BY <1>1, <1>2, <1>3, EncoderTakes
<1>5. (bits \div p) % 32 = r \div p /\ bits % p = r % p
  <2>1. bits \in Int
    BY <1>1 DEF EncoderStates
  <2>2. n \in 0..7 /\ p = 2^n /\ n + 5 = k
    OBVIOUS
  <2>3. r = bits % 2^(n + 5)
    BY <1>1, <2>2
  <2> HIDE DEF bits, n
  <2>4. /\ (bits \div 2^n) % 32 = (bits % 2^(n + 5)) \div 2^n
        /\ bits % 2^n = (bits % 2^(n + 5)) % 2^n
    BY <2>1, <2>2, BitsInFront
  <2> QED BY <2>2, <2>3, <2>4
<1>6. /\ r \div p \in Nat /\ r % p \in 0..(p - 1)
      /\ r = p * (r \div p) + (r % p)
  BY DividedWithRest
<1>7. t.index = r \div p /\ At(t, r % p, m, k - 5)
  BY <1>1, <1>4, <1>5, Zenon DEF At
<1>8. Gives(t, r, p, m, k - 5)
  BY <1>6, <1>7, Zenon DEF Gives
<1> QED BY <1>8 DEF t

(* A character with a new byte. *)
LEMMA WithByte ==
  ASSUME NEW data \in Seq(BYTE), Len(data) = 20, NEW s, NEW r \in Nat, NEW m \in 0..19,
         NEW k \in 0..4, At(s, r, m, k), NEW p \in 1..128, p = 2^(k + 3)
  PROVE  Gives(Encoded(data, s), r * 256 + data[m + 1], p, m + 1, k + 3)
<1> DEFINE t == EncoderRefilled(data, s)
           number == r * 256 + data[m + 1]
           left == k + 8
<1>1. left \in 5..12 /\ left - 5 = k + 3 /\ m + 1 \in 0..20 /\ p = 2^(left - 5)
  OBVIOUS
<1>2. number \in Nat
  <2>1. \A i \in 1..20 : data[i] \in BYTE
    BY ElementsOf, Zenon
  <2>2. BYTE \subseteq Nat
    BY DEF BYTE, BYTE_SIZE
  <2>3. m + 1 \in 1..20
    OBVIOUS
  <2>4. data[m + 1] \in Nat
    BY <2>1, <2>2, <2>3
  <2> QED BY <2>4
<1>3. At(t, number, m + 1, left)
  BY EncoderRefills
<1> HIDE DEF t, number
<1>4. Encoded(data, s) = Encoded(data, t)
  <2>1. t.bitsLeft >= 5
    BY <1>1, <1>3 DEF At
  <2>2. EncoderRefilled(data, t) = t
    BY <2>1, Zenon DEF EncoderRefilled
  <2> QED BY <2>2, Zenon DEF Encoded, t
<1> HIDE DEF left
<1>5. Gives(Encoded(data, t), number, p, m + 1, left - 5)
  BY <1>1, <1>2, <1>3, WithoutByte
<1> QED BY <1>1, <1>4, <1>5, Zenon DEF number

\* Five bytes and the eight indices that they have.
Codes(x1, x2, x3, x4, x5, x6, x7, x8, b1, b2, b3, b4, b5) ==
  /\ {x1, x2, x3, x4, x5, x6, x7, x8} \subseteq 0..31
  /\ b1 = 8 * x1 + (x2 \div 4)
  /\ b2 = 64 * (x2 % 4) + 2 * x3 + (x4 \div 16)
  /\ b3 = 16 * (x4 % 16) + (x5 \div 2)
  /\ b4 = 128 * (x5 % 2) + 4 * x6 + (x7 \div 8)
  /\ b5 = 32 * (x7 % 8) + x8

\* The bytes behind the first m of them, and the indices.
IsGroup(x, data, m) ==
  Codes(x[1], x[2], x[3], x[4], x[5], x[6], x[7], x[8],
        data[m + 1], data[m + 2], data[m + 3], data[m + 4], data[m + 5])

\* What a character is made of, by the number of bits that are left in front of it.
ByBitsLeft(data, s, t, r, m) ==
  /\ (m < 20 /\ At(s, r, m, 0)) => Gives(t, r * 256 + data[m + 1], 8, m + 1, 3)
  /\ (m < 20 /\ At(s, r, m, 3)) => Gives(t, r * 256 + data[m + 1], 64, m + 1, 6)
  /\ (m < 20 /\ At(s, r, m, 1)) => Gives(t, r * 256 + data[m + 1], 16, m + 1, 4)
  /\ (m < 20 /\ At(s, r, m, 4)) => Gives(t, r * 256 + data[m + 1], 128, m + 1, 7)
  /\ (m < 20 /\ At(s, r, m, 2)) => Gives(t, r * 256 + data[m + 1], 32, m + 1, 5)
  /\ At(s, r, m, 6) => Gives(t, r, 2, m, 1)
  /\ At(s, r, m, 7) => Gives(t, r, 4, m, 2)
  /\ At(s, r, m, 5) => Gives(t, r, 1, m, 0)
  /\ At(s, r, m, 8) => Gives(t, r, 8, m, 3)

(* These are all the numbers of bits that are left. *)
LEMMA EncodedByBitsLeft ==
  ASSUME NEW data \in Seq(BYTE), Len(data) = 20, NEW s, NEW r \in Nat, NEW m \in 0..20
  PROVE  ByBitsLeft(data, s, Encoded(data, s), r, m)
<1> DEFINE t == Encoded(data, s)
           number == r * 256 + data[m + 1]
<1>withByte. ASSUME m < 20, NEW k \in 0..4, At(s, r, m, k), NEW p \in 1..128, p = 2^(k + 3), NEW n, n = k + 3
      PROVE  Gives(t, number, p, m + 1, n)
  <2>1. m \in 0..19
    BY <1>withByte
  <2>2. Gives(t, r * 256 + data[m + 1], p, m + 1, k + 3)
    BY <1>withByte, <2>1, WithByte
  <2> HIDE DEF t, number
  <2>3. Gives(t, number, p, m + 1, k + 3)
    BY <2>2, Zenon DEF number
  <2> QED BY <1>withByte, <2>3, Zenon
<1>withoutByte. ASSUME NEW k \in 5..12, At(s, r, m, k), NEW p \in 1..128, p = 2^(k - 5), NEW n, n = k - 5
      PROVE  Gives(t, r, p, m, n)
  <2>1. Gives(t, r, p, m, k - 5)
    BY <1>withoutByte, WithoutByte
  <2> HIDE DEF t
  <2> QED BY <1>withoutByte, <2>1, Zenon
<1> HIDE DEF t, number
<1>1. (m < 20 /\ At(s, r, m, 0)) => Gives(t, number, 8, m + 1, 3)
  <2> SUFFICES ASSUME m < 20, At(s, r, m, 0) PROVE Gives(t, number, 8, m + 1, 3)
    OBVIOUS
  <2>1. 0 \in 0..4 /\ 8 \in 1..128 /\ 8 = 2^(0 + 3) /\ 3 = 0 + 3
    OBVIOUS
  <2> QED BY <1>withByte, <2>1
<1>2. (m < 20 /\ At(s, r, m, 3)) => Gives(t, number, 64, m + 1, 6)
  <2> SUFFICES ASSUME m < 20, At(s, r, m, 3) PROVE Gives(t, number, 64, m + 1, 6)
    OBVIOUS
  <2>1. 3 \in 0..4 /\ 64 \in 1..128 /\ 64 = 2^(3 + 3) /\ 6 = 3 + 3
    OBVIOUS
  <2> QED BY <1>withByte, <2>1
<1>3. (m < 20 /\ At(s, r, m, 1)) => Gives(t, number, 16, m + 1, 4)
  <2> SUFFICES ASSUME m < 20, At(s, r, m, 1) PROVE Gives(t, number, 16, m + 1, 4)
    OBVIOUS
  <2>1. 1 \in 0..4 /\ 16 \in 1..128 /\ 16 = 2^(1 + 3) /\ 4 = 1 + 3
    OBVIOUS
  <2> QED BY <1>withByte, <2>1
<1>4. (m < 20 /\ At(s, r, m, 4)) => Gives(t, number, 128, m + 1, 7)
  <2> SUFFICES ASSUME m < 20, At(s, r, m, 4) PROVE Gives(t, number, 128, m + 1, 7)
    OBVIOUS
  <2>1. 4 \in 0..4 /\ 128 \in 1..128 /\ 128 = 2^(4 + 3) /\ 7 = 4 + 3
    OBVIOUS
  <2> QED BY <1>withByte, <2>1
<1>5. (m < 20 /\ At(s, r, m, 2)) => Gives(t, number, 32, m + 1, 5)
  <2> SUFFICES ASSUME m < 20, At(s, r, m, 2) PROVE Gives(t, number, 32, m + 1, 5)
    OBVIOUS
  <2>1. 2 \in 0..4 /\ 32 \in 1..128 /\ 32 = 2^(2 + 3) /\ 5 = 2 + 3
    OBVIOUS
  <2> QED BY <1>withByte, <2>1
<1>6. At(s, r, m, 6) => Gives(t, r, 2, m, 1)
  <2> SUFFICES ASSUME At(s, r, m, 6) PROVE Gives(t, r, 2, m, 1)
    OBVIOUS
  <2>1. 6 \in 5..12 /\ 2 \in 1..128 /\ 2 = 2^(6 - 5) /\ 1 = 6 - 5
    OBVIOUS
  <2> QED BY <1>withoutByte, <2>1
<1>7. At(s, r, m, 7) => Gives(t, r, 4, m, 2)
  <2> SUFFICES ASSUME At(s, r, m, 7) PROVE Gives(t, r, 4, m, 2)
    OBVIOUS
  <2>1. 7 \in 5..12 /\ 4 \in 1..128 /\ 4 = 2^(7 - 5) /\ 2 = 7 - 5
    OBVIOUS
  <2> QED BY <1>withoutByte, <2>1
<1>8. At(s, r, m, 5) => Gives(t, r, 1, m, 0)
  <2> SUFFICES ASSUME At(s, r, m, 5) PROVE Gives(t, r, 1, m, 0)
    OBVIOUS
  <2>1. 5 \in 5..12 /\ 1 \in 1..128 /\ 1 = 2^(5 - 5) /\ 0 = 5 - 5
    OBVIOUS
  <2> QED BY <1>withoutByte, <2>1
<1>9. At(s, r, m, 8) => Gives(t, r, 8, m, 3)
  <2> SUFFICES ASSUME At(s, r, m, 8) PROVE Gives(t, r, 8, m, 3)
    OBVIOUS
  <2>1. 8 \in 5..12 /\ 8 \in 1..128 /\ 8 = 2^(8 - 5) /\ 3 = 8 - 5
    OBVIOUS
  <2> QED BY <1>withoutByte, <2>1
<1>10. ByBitsLeft(data, s, t, r, m)
  BY <1>1, <1>2, <1>3, <1>4, <1>5, <1>6, <1>7, <1>8, <1>9, Zenon DEF ByBitsLeft, number
<1> QED BY <1>10 DEF t

\* What is in the buffer in front of a group.
InFront(f, s, m) == (s = 0 /\ m = 0) \/ At(f[s], 0, m, 0)

(* Eight characters take five bytes, and nothing is left. *)
LEMMA EightCharacters ==
  ASSUME NEW data \in Seq(BYTE), Len(data) = 20, NEW f, AreEncoderStates(f, data),
         NEW s \in 0..24, NEW m \in 0..15, InFront(f, s, m)
  PROVE  At(f[s + 8], 0, m + 5, 0) /\ IsGroup([j \in 1..8 |-> f[s + j].index], data, m)
<1> DEFINE b1 == data[m + 1]
           b2 == data[m + 2]
           b3 == data[m + 3]
           b4 == data[m + 4]
           b5 == data[m + 5]
<1>1. b1 \in 0..255 /\ b2 \in 0..255 /\ b3 \in 0..255 /\ b4 \in 0..255 /\ b5 \in 0..255
  <2>1. \A i \in 1..20 : data[i] \in BYTE
    BY ElementsOf, Zenon
  <2>2. BYTE = 0..255
    BY DEF BYTE, BYTE_SIZE
  <2>3. \A i \in 1..20 : data[i] \in 0..255
    BY <2>1, <2>2, Zenon
  <2>4. /\ m + 1 \in 1..20 /\ m + 2 \in 1..20 /\ m + 3 \in 1..20 /\ m + 4 \in 1..20
        /\ m + 5 \in 1..20
    OBVIOUS
  <2> QED BY <2>3, <2>4, Zenon
<1>2. \A i \in 1..32 : \A before : before = i - 1 => f[i] = Encoded(data, f[before])
  BY Zenon DEF AreEncoderStates
<1>3. \A i \in 1..32 : \A before : before = i - 1 =>
        \A r \in Nat : \A n \in 0..20 : ByBitsLeft(data, f[before], f[i], r, n)
  <2>1. \A t : \A r \in Nat : \A n \in 0..20 : ByBitsLeft(data, t, Encoded(data, t), r, n)
    BY EncodedByBitsLeft, Zenon
  <2>2. ASSUME NEW i \in 1..32, NEW before, before = i - 1, NEW r \in Nat, NEW n \in 0..20
        PROVE  ByBitsLeft(data, f[before], f[i], r, n)
    <3>1. f[i] = Encoded(data, f[before])
      BY <1>2, <2>2, Zenon
    <3>2. ByBitsLeft(data, f[before], Encoded(data, f[before]), r, n)
      BY <2>1, Zenon
    <3> QED BY <3>1, <3>2, Zenon
  <2> QED BY <2>2, Zenon
<1> HIDE DEF b1, b2, b3, b4, b5
<1>4. Gives(f[s + 1], b1, 8, m + 1, 3)
  <2>1. b1 \in Nat /\ 0 * 256 + b1 = b1 /\ s = (s + 1) - 1 /\ s + 1 \in 1..32
    BY <1>1
  <2>4. b1 = data[m + 1]
    BY DEF b1
  <2>2. CASE s = 0 /\ m = 0
    <3>1. At(f[s], b1, 1, 8)
      <4>1. f[s] = [buffer |-> data[1], next |-> 1, bitsLeft |-> 8, index |-> 0]
        BY <2>2, Zenon DEF AreEncoderStates
      <4>2. b1 = data[1]
        BY <2>2 DEF b1
      <4>3. f[s] \in EncoderStates
        BY <2>2 DEF AreEncoderStates
      <4>4. b1 % 2^8 = b1
        <5>1. 2^8 = 256
          OBVIOUS
        <5> QED BY <1>1, <5>1
      <4> QED BY <4>1, <4>2, <4>3, <4>4 DEF At
    <3>2. 1 \in 0..20
      OBVIOUS
    <3>3. ByBitsLeft(data, f[s], f[s + 1], b1, 1)
      BY <1>3, <2>1, <3>2, Zenon
    <3>4. Gives(f[s + 1], b1, 8, 1, 3)
      BY <3>1, <3>3, Zenon DEF ByBitsLeft
    <3> QED BY <2>2, <3>4
  <2>3. CASE At(f[s], 0, m, 0)
    <3>1. 0 \in Nat /\ m \in 0..20 /\ m < 20
      OBVIOUS
    <3>2. ByBitsLeft(data, f[s], f[s + 1], 0, m)
      BY <1>3, <2>1, <3>1, Zenon
    <3>3. Gives(f[s + 1], 0 * 256 + data[m + 1], 8, m + 1, 3)
      BY <2>3, <3>1, <3>2, Zenon DEF ByBitsLeft
    <3> QED BY <2>1, <2>4, <3>3, Zenon
  <2> QED BY <2>2, <2>3 DEF InFront
<1>5. PICK x1 \in Nat, r1 \in 0..(8 - 1) :
        b1 = 8 * x1 + r1 /\ f[s + 1].index = x1 /\ At(f[s + 1], r1, m + 1, 3)
  BY <1>4, Zenon DEF Gives
<1>6. Gives(f[s + 2], r1 * 256 + b2, 64, m + 2, 6)
  <2>1. s + 1 = (s + 2) - 1 /\ s + 2 \in 1..32 /\ m + 1 \in 0..20 /\ m + 1 < 20 /\ r1 \in Nat
    OBVIOUS
  <2>2. ByBitsLeft(data, f[s + 1], f[s + 2], r1, m + 1)
    BY <1>3, <2>1, Zenon
  <2>3. Gives(f[s + 2], r1 * 256 + data[(m + 1) + 1], 64, (m + 1) + 1, 6)
    BY <1>5, <2>1, <2>2, Zenon DEF ByBitsLeft
  <2>4. (m + 1) + 1 = m + 2
    OBVIOUS
  <2> QED BY <2>3, <2>4, Zenon DEF b2
<1>7. PICK x2 \in Nat, r2 \in 0..(64 - 1) :
        r1 * 256 + b2 = 64 * x2 + r2 /\ f[s + 2].index = x2 /\ At(f[s + 2], r2, m + 2, 6)
  BY <1>6, Zenon DEF Gives
<1>8. Gives(f[s + 3], r2, 2, m + 2, 1)
  <2>1. s + 2 = (s + 3) - 1 /\ s + 3 \in 1..32 /\ m + 2 \in 0..20 /\ r2 \in Nat
    OBVIOUS
  <2>2. ByBitsLeft(data, f[s + 2], f[s + 3], r2, m + 2)
    BY <1>3, <2>1, Zenon
  <2> QED BY <1>7, <2>2, Zenon DEF ByBitsLeft
<1>9. PICK x3 \in Nat, r3 \in 0..(2 - 1) :
        r2 = 2 * x3 + r3 /\ f[s + 3].index = x3 /\ At(f[s + 3], r3, m + 2, 1)
  BY <1>8, Zenon DEF Gives
<1>10. Gives(f[s + 4], r3 * 256 + b3, 16, m + 3, 4)
  <2>1. s + 3 = (s + 4) - 1 /\ s + 4 \in 1..32 /\ m + 2 \in 0..20 /\ m + 2 < 20 /\ r3 \in Nat
    OBVIOUS
  <2>2. ByBitsLeft(data, f[s + 3], f[s + 4], r3, m + 2)
    BY <1>3, <2>1, Zenon
  <2>3. Gives(f[s + 4], r3 * 256 + data[(m + 2) + 1], 16, (m + 2) + 1, 4)
    BY <1>9, <2>1, <2>2, Zenon DEF ByBitsLeft
  <2>4. (m + 2) + 1 = m + 3
    OBVIOUS
  <2> QED BY <2>3, <2>4, Zenon DEF b3
<1>11. PICK x4 \in Nat, r4 \in 0..(16 - 1) :
        r3 * 256 + b3 = 16 * x4 + r4 /\ f[s + 4].index = x4 /\ At(f[s + 4], r4, m + 3, 4)
  BY <1>10, Zenon DEF Gives
<1>12. Gives(f[s + 5], r4 * 256 + b4, 128, m + 4, 7)
  <2>1. s + 4 = (s + 5) - 1 /\ s + 5 \in 1..32 /\ m + 3 \in 0..20 /\ m + 3 < 20 /\ r4 \in Nat
    OBVIOUS
  <2>2. ByBitsLeft(data, f[s + 4], f[s + 5], r4, m + 3)
    BY <1>3, <2>1, Zenon
  <2>3. Gives(f[s + 5], r4 * 256 + data[(m + 3) + 1], 128, (m + 3) + 1, 7)
    BY <1>11, <2>1, <2>2, Zenon DEF ByBitsLeft
  <2>4. (m + 3) + 1 = m + 4
    OBVIOUS
  <2> QED BY <2>3, <2>4, Zenon DEF b4
<1>13. PICK x5 \in Nat, r5 \in 0..(128 - 1) :
        r4 * 256 + b4 = 128 * x5 + r5 /\ f[s + 5].index = x5 /\ At(f[s + 5], r5, m + 4, 7)
  BY <1>12, Zenon DEF Gives
<1>14. Gives(f[s + 6], r5, 4, m + 4, 2)
  <2>1. s + 5 = (s + 6) - 1 /\ s + 6 \in 1..32 /\ m + 4 \in 0..20 /\ r5 \in Nat
    OBVIOUS
  <2>2. ByBitsLeft(data, f[s + 5], f[s + 6], r5, m + 4)
    BY <1>3, <2>1, Zenon
  <2> QED BY <1>13, <2>2, Zenon DEF ByBitsLeft
<1>15. PICK x6 \in Nat, r6 \in 0..(4 - 1) :
        r5 = 4 * x6 + r6 /\ f[s + 6].index = x6 /\ At(f[s + 6], r6, m + 4, 2)
  BY <1>14, Zenon DEF Gives
<1>16. Gives(f[s + 7], r6 * 256 + b5, 32, m + 5, 5)
  <2>1. s + 6 = (s + 7) - 1 /\ s + 7 \in 1..32 /\ m + 4 \in 0..20 /\ m + 4 < 20 /\ r6 \in Nat
    OBVIOUS
  <2>2. ByBitsLeft(data, f[s + 6], f[s + 7], r6, m + 4)
    BY <1>3, <2>1, Zenon
  <2>3. Gives(f[s + 7], r6 * 256 + data[(m + 4) + 1], 32, (m + 4) + 1, 5)
    BY <1>15, <2>1, <2>2, Zenon DEF ByBitsLeft
  <2>4. (m + 4) + 1 = m + 5
    OBVIOUS
  <2> QED BY <2>3, <2>4, Zenon DEF b5
<1>17. PICK x7 \in Nat, r7 \in 0..(32 - 1) :
        r6 * 256 + b5 = 32 * x7 + r7 /\ f[s + 7].index = x7 /\ At(f[s + 7], r7, m + 5, 5)
  BY <1>16, Zenon DEF Gives
<1>18. Gives(f[s + 8], r7, 1, m + 5, 0)
  <2>1. s + 7 = (s + 8) - 1 /\ s + 8 \in 1..32 /\ m + 5 \in 0..20 /\ r7 \in Nat
    OBVIOUS
  <2>2. ByBitsLeft(data, f[s + 7], f[s + 8], r7, m + 5)
    BY <1>3, <2>1, Zenon
  <2> QED BY <1>17, <2>2, Zenon DEF ByBitsLeft
<1>19. PICK x8 \in Nat, r8 \in 0..(1 - 1) :
        r7 = 1 * x8 + r8 /\ f[s + 8].index = x8 /\ At(f[s + 8], r8, m + 5, 0)
  BY <1>18, Zenon DEF Gives
<1>20. r8 = 0 /\ r7 = x8
  BY <1>19
<1>21. At(f[s + 8], 0, m + 5, 0)
  BY <1>19, <1>20, Zenon
<1>22. Codes(x1, x2, x3, x4, x5, x6, x7, x8, b1, b2, b3, b4, b5)
  <2>1. /\ r1 \in 0..7 /\ r2 \in 0..63 /\ r3 \in 0..1 /\ r4 \in 0..15 /\ r5 \in 0..127
        /\ r6 \in 0..3 /\ r7 \in 0..31
    OBVIOUS
  <2>2. /\ b1 = 8 * x1 + r1 /\ r1 * 256 + b2 = 64 * x2 + r2 /\ r2 = 2 * x3 + r3
        /\ r3 * 256 + b3 = 16 * x4 + r4 /\ r4 * 256 + b4 = 128 * x5 + r5 /\ r5 = 4 * x6 + r6
        /\ r6 * 256 + b5 = 32 * x7 + r7
    BY <1>5, <1>7, <1>9, <1>11, <1>13, <1>15, <1>17, <1>19, Zenon
  <2>3. x1 \in 0..31 /\ x3 \in 0..31 /\ x6 \in 0..31 /\ x8 \in 0..31
    BY <1>1, <1>20, <2>1, <2>2
  <2>4. x2 \in 0..31 /\ x2 \div 4 = r1 /\ b2 = 64 * (x2 % 4) + r2
    <3>1. x2 \in 0..31 /\ x2 - 4 * r1 \in 0..3
      BY <1>1, <1>20, <2>1, <2>2
    <3>2. x2 \div 4 = r1 /\ x2 % 4 = x2 - 4 * r1
      BY <1>1, <2>1, <2>2, <3>1
    <3> QED BY <1>1, <2>2, <3>1, <3>2
  <2>5. x4 \in 0..31 /\ x4 \div 16 = r3 /\ b3 = 16 * (x4 % 16) + r4
    <3>1. x4 \in 0..31 /\ x4 - 16 * r3 \in 0..15
      BY <1>1, <1>20, <2>1, <2>2
    <3>2. x4 \div 16 = r3 /\ x4 % 16 = x4 - 16 * r3
      BY <1>1, <2>1, <2>2, <3>1
    <3> QED BY <1>1, <2>2, <3>1, <3>2
  <2>6. x5 \in 0..31 /\ x5 \div 2 = r4 /\ b4 = 128 * (x5 % 2) + r5
    <3>1. x5 \in 0..31 /\ x5 - 2 * r4 \in 0..1
      BY <1>1, <1>20, <2>1, <2>2
    <3>2. x5 \div 2 = r4 /\ x5 % 2 = x5 - 2 * r4
      BY <1>1, <2>1, <2>2, <3>1
    <3> QED BY <1>1, <2>2, <3>1, <3>2
  <2>7. x7 \in 0..31 /\ x7 \div 8 = r6 /\ b5 = 32 * (x7 % 8) + r7
    <3>1. x7 \in 0..31 /\ x7 - 8 * r6 \in 0..7
      BY <1>1, <1>20, <2>1, <2>2
    <3>2. x7 \div 8 = r6 /\ x7 % 8 = x7 - 8 * r6
      BY <1>1, <2>1, <2>2, <3>1
    <3> QED BY <1>1, <2>2, <3>1, <3>2
  <2>8. b1 = 8 * x1 + (x2 \div 4)
    BY <1>1, <1>20, <2>1, <2>2, <2>4
  <2>9. b2 = 64 * (x2 % 4) + 2 * x3 + (x4 \div 16)
    <3> DEFINE d == x2 % 4
    <3>1. b2 = 64 * d + r2 /\ d \in 0..3
      BY <1>1, <1>20, <2>1, <2>2, <2>4
    <3> HIDE DEF d
    <3>2. b2 = 64 * d + 2 * x3 + r3
      BY <1>1, <2>1, <2>2, <3>1
    <3> QED BY <2>5, <3>2 DEF d
  <2>10. b3 = 16 * (x4 % 16) + (x5 \div 2)
    BY <1>1, <1>20, <2>1, <2>2, <2>5, <2>6
  <2>11. b4 = 128 * (x5 % 2) + 4 * x6 + (x7 \div 8)
    <3> DEFINE d == x5 % 2
    <3>1. b4 = 128 * d + r5 /\ d \in 0..1
      BY <1>1, <1>20, <2>1, <2>2, <2>6
    <3> HIDE DEF d
    <3>2. b4 = 128 * d + 4 * x6 + r6
      BY <1>1, <2>1, <2>2, <3>1
    <3> QED BY <2>7, <3>2 DEF d
  <2>12. b5 = 32 * (x7 % 8) + x8
    BY <1>1, <1>20, <2>1, <2>2, <2>7
  <2>13. {x1, x2, x3, x4, x5, x6, x7, x8} \subseteq 0..31
    BY <1>1, <1>20, <2>1, <2>2, <2>3, <2>4, <2>5, <2>6, <2>7
  <2> QED BY <2>8, <2>9, <2>10, <2>11, <2>12, <2>13, Zenon DEF Codes
<1> DEFINE x == [j \in 1..8 |-> f[s + j].index]
<1>23. /\ x[1] = x1 /\ x[2] = x2 /\ x[3] = x3 /\ x[4] = x4 /\ x[5] = x5 /\ x[6] = x6
       /\ x[7] = x7 /\ x[8] = x8
  BY <1>5, <1>7, <1>9, <1>11, <1>13, <1>15, <1>17, <1>19
<1> HIDE DEF x
<1>24. IsGroup(x, data, m)
  BY <1>22, <1>23, Zenon DEF IsGroup, b1, b2, b3, b4, b5
<1> QED BY <1>21, <1>24 DEF x

(* All bytes, in groups of five. *)
LEMMA AllCharacters ==
  ASSUME NEW data \in Seq(BYTE), Len(data) = 20, NEW f, AreEncoderStates(f, data)
  PROVE  \A g \in 0..3 : IsGroup([j \in 1..8 |-> f[8 * g + j].index], data, 5 * g)
<1>1. At(f[8], 0, 5, 0) /\ IsGroup([j \in 1..8 |-> f[0 + j].index], data, 0)
  <2>1. InFront(f, 0, 0) /\ 0 \in 0..24 /\ 0 \in 0..15 /\ 0 + 8 = 8 /\ 0 + 5 = 5
    BY DEF InFront
  <2>2. At(f[0 + 8], 0, 0 + 5, 0) /\ IsGroup([j \in 1..8 |-> f[0 + j].index], data, 0)
    BY <2>1, EightCharacters
  <2> QED BY <2>1, <2>2
<1>2. At(f[16], 0, 10, 0) /\ IsGroup([j \in 1..8 |-> f[8 + j].index], data, 5)
  <2>1. InFront(f, 8, 5) /\ 8 \in 0..24 /\ 5 \in 0..15 /\ 8 + 8 = 16 /\ 5 + 5 = 10
    BY <1>1 DEF InFront
  <2>2. At(f[8 + 8], 0, 5 + 5, 0) /\ IsGroup([j \in 1..8 |-> f[8 + j].index], data, 5)
    BY <2>1, EightCharacters
  <2> QED BY <2>1, <2>2
<1>3. At(f[24], 0, 15, 0) /\ IsGroup([j \in 1..8 |-> f[16 + j].index], data, 10)
  <2>1. InFront(f, 16, 10) /\ 16 \in 0..24 /\ 10 \in 0..15 /\ 16 + 8 = 24 /\ 10 + 5 = 15
    BY <1>2 DEF InFront
  <2>2. At(f[16 + 8], 0, 10 + 5, 0) /\ IsGroup([j \in 1..8 |-> f[16 + j].index], data, 10)
    BY <2>1, EightCharacters
  <2> QED BY <2>1, <2>2
<1>4. IsGroup([j \in 1..8 |-> f[24 + j].index], data, 15)
  <2>1. InFront(f, 24, 15) /\ 24 \in 0..24 /\ 15 \in 0..15
    BY <1>3 DEF InFront
  <2> QED BY <2>1, EightCharacters
<1> SUFFICES ASSUME NEW g \in 0..3
             PROVE  IsGroup([j \in 1..8 |-> f[8 * g + j].index], data, 5 * g)
  OBVIOUS
<1>5. /\ 8 * 0 = 0 /\ 5 * 0 = 0 /\ 8 * 1 = 8 /\ 5 * 1 = 5
      /\ 8 * 2 = 16 /\ 5 * 2 = 10 /\ 8 * 3 = 24 /\ 5 * 3 = 15
  OBVIOUS
<1>6. g = 0 \/ g = 1 \/ g = 2 \/ g = 3
  OBVIOUS
<1> QED BY <1>1, <1>2, <1>3, <1>4, <1>5, <1>6, Zenon

\* The function that base32_encode defines.
IsEncoding(f, data, length) ==
  f = [count \in 0..length |->
         IF count = 0 THEN [buffer |-> data[1], next |-> 1, bitsLeft |-> 8, index |-> 0]
         ELSE Encoded(data, f[count - 1])]

(* The characters of an address are those of the indices. *)
LEMMA Base32EncodeIs ==
  ASSUME NEW data \in Seq(BYTE), Len(data) = 20
  PROVE  \E f : /\ AreEncoderStates(f, data)
                /\ Base32Encode(data) = [count \in 1..32 |-> Alphabet[f[count].index]]
<1> DEFINE e == CHOOSE f : IsEncoding(f, data, (8 * Len(data) + 4) \div 5)
<1>1. (8 * Len(data) + 4) \div 5 = 32
  BY Z3
<1>2. Base32Encode(data)
        = [count \in 1..((8 * Len(data) + 4) \div 5) |-> Alphabet[e[count].index]]
  BY Zenon DEF Base32Encode, IsEncoding, Encoded, EncoderRefilled, EncoderTaken
<1>3. \E f : IsEncoding(f, data, 32)
  <2>1. PICK f : AreEncoderStates(f, data)
    BY EncoderStatesExist
  <2>2. f = [count \in 0..32 |-> f[count]]
    BY <2>1 DEF AreEncoderStates
  <2>3. \A count \in 0..32 :
          f[count] = IF count = 0 THEN [buffer |-> data[1], next |-> 1, bitsLeft |-> 8, index |-> 0]
                     ELSE Encoded(data, f[count - 1])
    <3>1. \A count \in 0..32 : count # 0 => count \in 1..32
      OBVIOUS
    <3> QED BY <2>1, <3>1, Zenon DEF AreEncoderStates
  <2>4. IsEncoding(f, data, 32)
    BY <2>2, <2>3, Zenon DEF IsEncoding
  <2> QED BY <2>4
<1>4. IsEncoding(e, data, 32)
  BY <1>1, <1>3, Zenon
<1> HIDE DEF e
<1>5. AreEncoderStates(e, data)
  <2> DEFINE S == {count \in 0..32 : e[count] \in EncoderStates}
  <2>1. \A count \in 0..32 :
          e[count] = IF count = 0 THEN [buffer |-> data[1], next |-> 1, bitsLeft |-> 8, index |-> 0]
                     ELSE Encoded(data, e[count - 1])
    BY <1>4 DEF IsEncoding
  <2>2. e[0] = [buffer |-> data[1], next |-> 1, bitsLeft |-> 8, index |-> 0]
    BY <2>1
  <2>3. \A i \in 1..32 : e[i] = Encoded(data, e[i - 1])
    <3>1. \A i \in 1..32 : i \in 0..32 /\ i # 0
      OBVIOUS
    <3> QED BY <2>1, <3>1, Zenon
  <2>4. 0 \in S
    <3>1. e[0] \in EncoderStates
      BY <2>2, FirstIsState, Zenon
    <3> QED BY <3>1
  <2>5. ASSUME NEW n \in 0..(32 - 1), n \in S PROVE n + 1 \in S
    <3>1. n + 1 \in 1..32 /\ n + 1 \in 0..32 /\ (n + 1) - 1 = n /\ e[n] \in EncoderStates
      BY <2>5
    <3>2. e[n + 1] = Encoded(data, e[n])
      BY <2>3, <3>1
    <3>3. Encoded(data, e[n]) \in EncoderStates
      BY <3>1, EncodedIsState
    <3> QED BY <3>1, <3>2, <3>3
  <2> HIDE DEF S
  <2>6. 0..32 \subseteq S
    BY <2>4, <2>5, UpTo
  <2>7. \A count \in 0..32 : e[count] \in EncoderStates
    BY <2>6, Zenon DEF S
  <2>8. e = [count \in 0..32 |-> e[count]]
    BY <1>4, Zenon DEF IsEncoding
  <2>9. e \in [0..32 -> EncoderStates]
    BY <2>7, <2>8
  <2> QED BY <2>2, <2>3, <2>9, Zenon DEF AreEncoderStates
<1>6. Base32Encode(data) = [count \in 1..32 |-> Alphabet[e[count].index]]
  BY <1>1, <1>2, Zenon
<1> QED BY <1>5, <1>6, Zenon

-----------------------------------------------------------------------------
(* Base32Decode *)

\* The bits of an index, the most significant one first.
BitOf(c, t) == (c \div 2^(4 - t)) % 2

\* An index and its upper and lower parts, in terms of five bits.
HasBits(c, t0, t1, t2, t3, t4) ==
  /\ t0 \in 0..1 /\ t1 \in 0..1 /\ t2 \in 0..1 /\ t3 \in 0..1 /\ t4 \in 0..1
  /\ c = 16 * t0 + 8 * t1 + 4 * t2 + 2 * t3 + t4
  /\ c \div 16 = t0 /\ c % 16 = 8 * t1 + 4 * t2 + 2 * t3 + t4
  /\ c \div 8 = 2 * t0 + t1 /\ c % 8 = 4 * t2 + 2 * t3 + t4
  /\ c \div 4 = 4 * t0 + 2 * t1 + t2 /\ c % 4 = 2 * t3 + t4
  /\ c \div 2 = 8 * t0 + 4 * t1 + 2 * t2 + t3 /\ c % 2 = t4

(* A code is five bits. *)
LEMMA FiveBits ==
  ASSUME NEW c \in 0..31
  PROVE  HasBits(c, BitOf(c, 0), BitOf(c, 1), BitOf(c, 2), BitOf(c, 3), BitOf(c, 4))
<1> DEFINE t0 == BitOf(c, 0)
           t1 == BitOf(c, 1)
           t2 == BitOf(c, 2)
           t3 == BitOf(c, 3)
           t4 == BitOf(c, 4)
<1>1. 2^(4 - 0) = 16 /\ 2^(4 - 1) = 8 /\ 2^(4 - 2) = 4 /\ 2^(4 - 3) = 2 /\ 2^(4 - 4) = 1
  OBVIOUS
<1>2. /\ t0 = (c \div 16) % 2 /\ t1 = (c \div 8) % 2 /\ t2 = (c \div 4) % 2
      /\ t3 = (c \div 2) % 2 /\ t4 = (c \div 1) % 2
  BY <1>1, Zenon DEF BitOf
<1> HIDE DEF t0, t1, t2, t3, t4
<1>3. t4 = c % 2 /\ t4 \in 0..1 /\ c = 2 * (c \div 2) + t4 /\ c \div 2 \in 0..15
  BY <1>2
<1>4. t3 \in 0..1 /\ c \div 2 = 2 * (c \div 4) + t3 /\ c \div 4 \in 0..7
  BY <1>2
<1>5. t2 \in 0..1 /\ c \div 4 = 2 * (c \div 8) + t2 /\ c \div 8 \in 0..3
  BY <1>2
<1>6. t1 \in 0..1 /\ c \div 8 = 2 * (c \div 16) + t1 /\ c \div 16 \in 0..1
  BY <1>2
<1>7. t0 = c \div 16
  BY <1>2, <1>6
<1>8. c \div 8 = 2 * t0 + t1 /\ t0 \in 0..1
  BY <1>6, <1>7
<1>9. c \div 4 = 4 * t0 + 2 * t1 + t2
  BY <1>5, <1>6, <1>8
<1>10. c \div 2 = 8 * t0 + 4 * t1 + 2 * t2 + t3
  BY <1>4, <1>5, <1>6, <1>8, <1>9
<1>11. c = 16 * t0 + 8 * t1 + 4 * t2 + 2 * t3 + t4
  BY <1>3, <1>4, <1>5, <1>6, <1>8, <1>10
<1>12. c % 16 = 8 * t1 + 4 * t2 + 2 * t3 + t4
  <2>1. c % 16 = c - 16 * (c \div 16)
    OBVIOUS
  <2> QED BY <1>3, <1>4, <1>5, <1>6, <1>7, <1>8, <1>11, <2>1
<1>13. c % 8 = 4 * t2 + 2 * t3 + t4
  <2>1. c % 8 = c - 8 * (c \div 8)
    OBVIOUS
  <2> QED BY <1>3, <1>4, <1>5, <1>6, <1>8, <1>11, <2>1
<1>14. c % 4 = 2 * t3 + t4
  <2>1. c % 4 = c - 4 * (c \div 4)
    OBVIOUS
  <2> QED BY <1>3, <1>4, <1>5, <1>6, <1>8, <1>9, <1>11, <2>1
<1>15. HasBits(c, t0, t1, t2, t3, t4)
  BY <1>3, <1>4, <1>5, <1>6, <1>7, <1>8, <1>9, <1>10, <1>11, <1>12, <1>13, <1>14, Zenon DEF HasBits
<1> QED BY <1>15 DEF t0, t1, t2, t3, t4

\* The byte that eight bits make.
ByteOf(c0, c1, c2, c3, c4, c5, c6, c7) ==
  128 * c0 + 64 * c1 + 32 * c2 + 16 * c3 + 8 * c4 + 4 * c5 + 2 * c6 + c7

\* The bits of a group, byte by byte.
IsByte1(x1, x2) ==
  ByteOf(BitOf(x1, 0), BitOf(x1, 1), BitOf(x1, 2), BitOf(x1, 3),
         BitOf(x1, 4), BitOf(x2, 0), BitOf(x2, 1), BitOf(x2, 2))
    = 8 * x1 + (x2 \div 4)

(* The first byte is all bits of the first code and three of the second one. *)
LEMMA BitsOfByte1 ==
  ASSUME NEW x1 \in 0..31, NEW x2 \in 0..31
  PROVE  IsByte1(x1, x2)
<1> DEFINE u10 == BitOf(x1, 0)
           u11 == BitOf(x1, 1)
           u12 == BitOf(x1, 2)
           u13 == BitOf(x1, 3)
           u14 == BitOf(x1, 4)
           u20 == BitOf(x2, 0)
           u21 == BitOf(x2, 1)
           u22 == BitOf(x2, 2)
           u23 == BitOf(x2, 3)
           u24 == BitOf(x2, 4)
<1>1. HasBits(x1, u10, u11, u12, u13, u14)
  BY FiveBits, Zenon
<1>2. HasBits(x2, u20, u21, u22, u23, u24)
  BY FiveBits, Zenon
<1> HIDE DEF u10, u11, u12, u13, u14, u20, u21, u22, u23, u24
<1>3. ByteOf(u10, u11, u12, u13, u14, u20, u21, u22) = 8 * x1 + (x2 \div 4)
  BY <1>1, <1>2 DEF ByteOf, HasBits
<1> QED BY <1>3 DEF IsByte1, u10, u11, u12, u13, u14, u20, u21, u22

IsByte2(x2, x3, x4) ==
  ByteOf(BitOf(x2, 3), BitOf(x2, 4), BitOf(x3, 0), BitOf(x3, 1),
         BitOf(x3, 2), BitOf(x3, 3), BitOf(x3, 4), BitOf(x4, 0))
    = 64 * (x2 % 4) + 2 * x3 + (x4 \div 16)

(* The second byte is of the second, third and fourth code. *)
LEMMA BitsOfByte2 ==
  ASSUME NEW x2 \in 0..31, NEW x3 \in 0..31, NEW x4 \in 0..31
  PROVE  IsByte2(x2, x3, x4)
<1> DEFINE u20 == BitOf(x2, 0)
           u21 == BitOf(x2, 1)
           u22 == BitOf(x2, 2)
           u23 == BitOf(x2, 3)
           u24 == BitOf(x2, 4)
           u30 == BitOf(x3, 0)
           u31 == BitOf(x3, 1)
           u32 == BitOf(x3, 2)
           u33 == BitOf(x3, 3)
           u34 == BitOf(x3, 4)
           u40 == BitOf(x4, 0)
           u41 == BitOf(x4, 1)
           u42 == BitOf(x4, 2)
           u43 == BitOf(x4, 3)
           u44 == BitOf(x4, 4)
<1>1. HasBits(x2, u20, u21, u22, u23, u24)
  BY FiveBits, Zenon
<1>2. HasBits(x3, u30, u31, u32, u33, u34)
  BY FiveBits, Zenon
<1>3. HasBits(x4, u40, u41, u42, u43, u44)
  BY FiveBits, Zenon
<1> HIDE DEF u20, u21, u22, u23, u24, u30, u31, u32, u33, u34, u40, u41, u42, u43, u44
<1>4. ByteOf(u23, u24, u30, u31, u32, u33, u34, u40) = 64 * (x2 % 4) + 2 * x3 + (x4 \div 16)
  BY <1>1, <1>2, <1>3 DEF ByteOf, HasBits
<1> QED BY <1>4 DEF IsByte2, u23, u24, u30, u31, u32, u33, u34, u40

IsByte3(x4, x5) ==
  ByteOf(BitOf(x4, 1), BitOf(x4, 2), BitOf(x4, 3), BitOf(x4, 4),
         BitOf(x5, 0), BitOf(x5, 1), BitOf(x5, 2), BitOf(x5, 3))
    = 16 * (x4 % 16) + (x5 \div 2)

(* The third byte is of the fourth and fifth code. *)
LEMMA BitsOfByte3 ==
  ASSUME NEW x4 \in 0..31, NEW x5 \in 0..31
  PROVE  IsByte3(x4, x5)
<1> DEFINE u40 == BitOf(x4, 0)
           u41 == BitOf(x4, 1)
           u42 == BitOf(x4, 2)
           u43 == BitOf(x4, 3)
           u44 == BitOf(x4, 4)
           u50 == BitOf(x5, 0)
           u51 == BitOf(x5, 1)
           u52 == BitOf(x5, 2)
           u53 == BitOf(x5, 3)
           u54 == BitOf(x5, 4)
<1>1. HasBits(x4, u40, u41, u42, u43, u44)
  BY FiveBits, Zenon
<1>2. HasBits(x5, u50, u51, u52, u53, u54)
  BY FiveBits, Zenon
<1> HIDE DEF u40, u41, u42, u43, u44, u50, u51, u52, u53, u54
<1>3. ByteOf(u41, u42, u43, u44, u50, u51, u52, u53) = 16 * (x4 % 16) + (x5 \div 2)
  BY <1>1, <1>2 DEF ByteOf, HasBits
<1> QED BY <1>3 DEF IsByte3, u41, u42, u43, u44, u50, u51, u52, u53

IsByte4(x5, x6, x7) ==
  ByteOf(BitOf(x5, 4), BitOf(x6, 0), BitOf(x6, 1), BitOf(x6, 2),
         BitOf(x6, 3), BitOf(x6, 4), BitOf(x7, 0), BitOf(x7, 1))
    = 128 * (x5 % 2) + 4 * x6 + (x7 \div 8)

(* The fourth byte is of the fifth, sixth and seventh code. *)
LEMMA BitsOfByte4 ==
  ASSUME NEW x5 \in 0..31, NEW x6 \in 0..31, NEW x7 \in 0..31
  PROVE  IsByte4(x5, x6, x7)
<1> DEFINE u50 == BitOf(x5, 0)
           u51 == BitOf(x5, 1)
           u52 == BitOf(x5, 2)
           u53 == BitOf(x5, 3)
           u54 == BitOf(x5, 4)
           u60 == BitOf(x6, 0)
           u61 == BitOf(x6, 1)
           u62 == BitOf(x6, 2)
           u63 == BitOf(x6, 3)
           u64 == BitOf(x6, 4)
           u70 == BitOf(x7, 0)
           u71 == BitOf(x7, 1)
           u72 == BitOf(x7, 2)
           u73 == BitOf(x7, 3)
           u74 == BitOf(x7, 4)
<1>1. HasBits(x5, u50, u51, u52, u53, u54)
  BY FiveBits, Zenon
<1>2. HasBits(x6, u60, u61, u62, u63, u64)
  BY FiveBits, Zenon
<1>3. HasBits(x7, u70, u71, u72, u73, u74)
  BY FiveBits, Zenon
<1> HIDE DEF u50, u51, u52, u53, u54, u60, u61, u62, u63, u64, u70, u71, u72, u73, u74
<1>4. ByteOf(u54, u60, u61, u62, u63, u64, u70, u71) = 128 * (x5 % 2) + 4 * x6 + (x7 \div 8)
  BY <1>1, <1>2, <1>3 DEF ByteOf, HasBits
<1> QED BY <1>4 DEF IsByte4, u54, u60, u61, u62, u63, u64, u70, u71

IsByte5(x7, x8) ==
  ByteOf(BitOf(x7, 2), BitOf(x7, 3), BitOf(x7, 4), BitOf(x8, 0),
         BitOf(x8, 1), BitOf(x8, 2), BitOf(x8, 3), BitOf(x8, 4))
    = 32 * (x7 % 8) + x8

(* The fifth byte is of the seventh and eighth code. *)
LEMMA BitsOfByte5 ==
  ASSUME NEW x7 \in 0..31, NEW x8 \in 0..31
  PROVE  IsByte5(x7, x8)
<1> DEFINE u70 == BitOf(x7, 0)
           u71 == BitOf(x7, 1)
           u72 == BitOf(x7, 2)
           u73 == BitOf(x7, 3)
           u74 == BitOf(x7, 4)
           u80 == BitOf(x8, 0)
           u81 == BitOf(x8, 1)
           u82 == BitOf(x8, 2)
           u83 == BitOf(x8, 3)
           u84 == BitOf(x8, 4)
<1>1. HasBits(x7, u70, u71, u72, u73, u74)
  BY FiveBits, Zenon
<1>2. HasBits(x8, u80, u81, u82, u83, u84)
  BY FiveBits, Zenon
<1> HIDE DEF u70, u71, u72, u73, u74, u80, u81, u82, u83, u84
<1>3. ByteOf(u72, u73, u74, u80, u81, u82, u83, u84) = 32 * (x7 % 8) + x8
  BY <1>1, <1>2 DEF ByteOf, HasBits
<1> QED BY <1>3 DEF IsByte5, u72, u73, u74, u80, u81, u82, u83, u84

\* The bits of a text.
BitIn(text, n) == BitOf(IndexOf(text[n \div 5 + 1]), n % 5)

\* Where the bits of a group are.
IsPlace(n, g, q, t) == n \div 5 + 1 = 8 * g + (q + 1) /\ n % 5 = t

(* Of which code, and which of its bits, a bit of the whole text is. *)
LEMMA PlaceOfBit ==
  ASSUME NEW g \in 0..3, NEW q \in 0..7, NEW t \in 0..4, NEW n, n = 40 * g + 5 * q + t
  PROVE  IsPlace(n, g, q, t)
<1> DEFINE c == 8 * g + q
<1>1. n = 5 * c + t /\ c \in Nat
  OBVIOUS
<1> HIDE DEF c
<1>2. n \div 5 = c /\ n % 5 = t
  BY <1>1
<1> QED BY <1>2 DEF c, IsPlace

\* The bits of a group are those of its indices.
BitsAre(text, x, g) ==
  \A q \in 0..7, t \in 0..4 : \A n : n = 40 * g + 5 * q + t => BitIn(text, n) = BitOf(x[q + 1], t)

\* A bit of the byte behind n bits, and the byte.
IsBit(text, n, k, x, index, t) == BitIn(text, n + k) = BitOf(x[index], t)

ByteIn(text, n) ==
  ByteOf(BitIn(text, n), BitIn(text, n + 1), BitIn(text, n + 2), BitIn(text, n + 3),
         BitIn(text, n + 4), BitIn(text, n + 5), BitIn(text, n + 6), BitIn(text, n + 7))

IsByteOf(data, text, i) == ByteIn(text, 8 * (i - 1)) = data[i]

(* The five bytes of a group, from their bits. *)
LEMMA BytesOfGroup ==
  ASSUME NEW data, NEW text, NEW x, NEW g \in 0..3, IsGroup(x, data, 5 * g), BitsAre(text, x, g),
         NEW j \in 1..5, NEW i, i = 5 * g + j
  PROVE  IsByteOf(data, text, i)
<1> DEFINE n == 8 * (i - 1)
<1> DEFINE x1 == x[1]
           x2 == x[2]
           x3 == x[3]
           x4 == x[4]
           x5 == x[5]
           x6 == x[6]
           x7 == x[7]
           x8 == x[8]
           b(k) == BitIn(text, n + k)
<1>1. Codes(x1, x2, x3, x4, x5, x6, x7, x8, data[5 * g + 1], data[5 * g + 2], data[5 * g + 3],
            data[5 * g + 4], data[5 * g + 5])
  BY Zenon DEF IsGroup
<1>2. ASSUME NEW k \in 0..7, NEW q \in 0..7, NEW t \in 0..4, 8 * (j - 1) + k = 5 * q + t,
             NEW index, index = q + 1
      PROVE  IsBit(text, n, k, x, index, t)
  <2>1. n + k = 40 * g + 5 * q + t
    BY <1>2 DEF n
  <2> QED BY <1>2, <2>1, Zenon DEF BitsAre, IsBit
<1>3. n \in Nat
  OBVIOUS
<1> HIDE DEF n
<1> HIDE DEF x1, x2, x3, x4, x5, x6, x7, x8
<1>4. /\ x1 \in 0..31 /\ x2 \in 0..31 /\ x3 \in 0..31 /\ x4 \in 0..31 /\ x5 \in 0..31
      /\ x6 \in 0..31 /\ x7 \in 0..31 /\ x8 \in 0..31
  BY <1>1 DEF Codes
<1>5. ASSUME j = 1
      PROVE  ByteOf(b(0), b(1), b(2), b(3), b(4), b(5), b(6), b(7)) = data[5 * g + 1]
  <2>1. BitIn(text, n + 0) = BitOf(x1, 0)
    <3>1. /\ 0 \in 0..7 /\ 0 \in 0..7 /\ 0 \in 0..4 /\ 1 = 0 + 1
          /\ 8 * (j - 1) + 0 = 5 * 0 + 0
      BY <1>5
    <3>2. IsBit(text, n, 0, x, 1, 0)
      BY <1>2, <3>1
    <3> QED BY <3>2, Zenon DEF IsBit, x1
  <2>2. BitIn(text, n + 1) = BitOf(x1, 1)
    <3>1. /\ 1 \in 0..7 /\ 0 \in 0..7 /\ 1 \in 0..4 /\ 1 = 0 + 1
          /\ 8 * (j - 1) + 1 = 5 * 0 + 1
      BY <1>5
    <3>2. IsBit(text, n, 1, x, 1, 1)
      BY <1>2, <3>1
    <3> QED BY <3>2, Zenon DEF IsBit, x1
  <2>3. BitIn(text, n + 2) = BitOf(x1, 2)
    <3>1. /\ 2 \in 0..7 /\ 0 \in 0..7 /\ 2 \in 0..4 /\ 1 = 0 + 1
          /\ 8 * (j - 1) + 2 = 5 * 0 + 2
      BY <1>5
    <3>2. IsBit(text, n, 2, x, 1, 2)
      BY <1>2, <3>1
    <3> QED BY <3>2, Zenon DEF IsBit, x1
  <2>4. BitIn(text, n + 3) = BitOf(x1, 3)
    <3>1. /\ 3 \in 0..7 /\ 0 \in 0..7 /\ 3 \in 0..4 /\ 1 = 0 + 1
          /\ 8 * (j - 1) + 3 = 5 * 0 + 3
      BY <1>5
    <3>2. IsBit(text, n, 3, x, 1, 3)
      BY <1>2, <3>1
    <3> QED BY <3>2, Zenon DEF IsBit, x1
  <2>5. BitIn(text, n + 4) = BitOf(x1, 4)
    <3>1. /\ 4 \in 0..7 /\ 0 \in 0..7 /\ 4 \in 0..4 /\ 1 = 0 + 1
          /\ 8 * (j - 1) + 4 = 5 * 0 + 4
      BY <1>5
    <3>2. IsBit(text, n, 4, x, 1, 4)
      BY <1>2, <3>1
    <3> QED BY <3>2, Zenon DEF IsBit, x1
  <2>6. BitIn(text, n + 5) = BitOf(x2, 0)
    <3>1. /\ 5 \in 0..7 /\ 1 \in 0..7 /\ 0 \in 0..4 /\ 2 = 1 + 1
          /\ 8 * (j - 1) + 5 = 5 * 1 + 0
      BY <1>5
    <3>2. IsBit(text, n, 5, x, 2, 0)
      BY <1>2, <3>1
    <3> QED BY <3>2, Zenon DEF IsBit, x2
  <2>7. BitIn(text, n + 6) = BitOf(x2, 1)
    <3>1. /\ 6 \in 0..7 /\ 1 \in 0..7 /\ 1 \in 0..4 /\ 2 = 1 + 1
          /\ 8 * (j - 1) + 6 = 5 * 1 + 1
      BY <1>5
    <3>2. IsBit(text, n, 6, x, 2, 1)
      BY <1>2, <3>1
    <3> QED BY <3>2, Zenon DEF IsBit, x2
  <2>8. BitIn(text, n + 7) = BitOf(x2, 2)
    <3>1. /\ 7 \in 0..7 /\ 1 \in 0..7 /\ 2 \in 0..4 /\ 2 = 1 + 1
          /\ 8 * (j - 1) + 7 = 5 * 1 + 2
      BY <1>5
    <3>2. IsBit(text, n, 7, x, 2, 2)
      BY <1>2, <3>1
    <3> QED BY <3>2, Zenon DEF IsBit, x2
  <2>9. ByteOf(BitOf(x1, 0), BitOf(x1, 1), BitOf(x1, 2), BitOf(x1, 3),
               BitOf(x1, 4), BitOf(x2, 0), BitOf(x2, 1), BitOf(x2, 2))
        = data[5 * g + 1]
    <3>1. data[5 * g + 1] = 8 * x1 + (x2 \div 4)
      BY <1>1, Zenon DEF Codes
    <3>2. IsByte1(x1, x2)
      BY <1>4, BitsOfByte1
    <3> QED BY <3>1, <3>2, Zenon DEF IsByte1
  <2> QED BY <2>1, <2>2, <2>3, <2>4, <2>5, <2>6, <2>7, <2>8, <2>9, Zenon
<1>6. ASSUME j = 2
      PROVE  ByteOf(b(0), b(1), b(2), b(3), b(4), b(5), b(6), b(7)) = data[5 * g + 2]
  <2>1. BitIn(text, n + 0) = BitOf(x2, 3)
    <3>1. /\ 0 \in 0..7 /\ 1 \in 0..7 /\ 3 \in 0..4 /\ 2 = 1 + 1
          /\ 8 * (j - 1) + 0 = 5 * 1 + 3
      BY <1>6
    <3>2. IsBit(text, n, 0, x, 2, 3)
      BY <1>2, <3>1
    <3> QED BY <3>2, Zenon DEF IsBit, x2
  <2>2. BitIn(text, n + 1) = BitOf(x2, 4)
    <3>1. /\ 1 \in 0..7 /\ 1 \in 0..7 /\ 4 \in 0..4 /\ 2 = 1 + 1
          /\ 8 * (j - 1) + 1 = 5 * 1 + 4
      BY <1>6
    <3>2. IsBit(text, n, 1, x, 2, 4)
      BY <1>2, <3>1
    <3> QED BY <3>2, Zenon DEF IsBit, x2
  <2>3. BitIn(text, n + 2) = BitOf(x3, 0)
    <3>1. /\ 2 \in 0..7 /\ 2 \in 0..7 /\ 0 \in 0..4 /\ 3 = 2 + 1
          /\ 8 * (j - 1) + 2 = 5 * 2 + 0
      BY <1>6
    <3>2. IsBit(text, n, 2, x, 3, 0)
      BY <1>2, <3>1
    <3> QED BY <3>2, Zenon DEF IsBit, x3
  <2>4. BitIn(text, n + 3) = BitOf(x3, 1)
    <3>1. /\ 3 \in 0..7 /\ 2 \in 0..7 /\ 1 \in 0..4 /\ 3 = 2 + 1
          /\ 8 * (j - 1) + 3 = 5 * 2 + 1
      BY <1>6
    <3>2. IsBit(text, n, 3, x, 3, 1)
      BY <1>2, <3>1
    <3> QED BY <3>2, Zenon DEF IsBit, x3
  <2>5. BitIn(text, n + 4) = BitOf(x3, 2)
    <3>1. /\ 4 \in 0..7 /\ 2 \in 0..7 /\ 2 \in 0..4 /\ 3 = 2 + 1
          /\ 8 * (j - 1) + 4 = 5 * 2 + 2
      BY <1>6
    <3>2. IsBit(text, n, 4, x, 3, 2)
      BY <1>2, <3>1
    <3> QED BY <3>2, Zenon DEF IsBit, x3
  <2>6. BitIn(text, n + 5) = BitOf(x3, 3)
    <3>1. /\ 5 \in 0..7 /\ 2 \in 0..7 /\ 3 \in 0..4 /\ 3 = 2 + 1
          /\ 8 * (j - 1) + 5 = 5 * 2 + 3
      BY <1>6
    <3>2. IsBit(text, n, 5, x, 3, 3)
      BY <1>2, <3>1
    <3> QED BY <3>2, Zenon DEF IsBit, x3
  <2>7. BitIn(text, n + 6) = BitOf(x3, 4)
    <3>1. /\ 6 \in 0..7 /\ 2 \in 0..7 /\ 4 \in 0..4 /\ 3 = 2 + 1
          /\ 8 * (j - 1) + 6 = 5 * 2 + 4
      BY <1>6
    <3>2. IsBit(text, n, 6, x, 3, 4)
      BY <1>2, <3>1
    <3> QED BY <3>2, Zenon DEF IsBit, x3
  <2>8. BitIn(text, n + 7) = BitOf(x4, 0)
    <3>1. /\ 7 \in 0..7 /\ 3 \in 0..7 /\ 0 \in 0..4 /\ 4 = 3 + 1
          /\ 8 * (j - 1) + 7 = 5 * 3 + 0
      BY <1>6
    <3>2. IsBit(text, n, 7, x, 4, 0)
      BY <1>2, <3>1
    <3> QED BY <3>2, Zenon DEF IsBit, x4
  <2>9. ByteOf(BitOf(x2, 3), BitOf(x2, 4), BitOf(x3, 0), BitOf(x3, 1),
               BitOf(x3, 2), BitOf(x3, 3), BitOf(x3, 4), BitOf(x4, 0))
        = data[5 * g + 2]
    <3>1. data[5 * g + 2] = 64 * (x2 % 4) + 2 * x3 + (x4 \div 16)
      BY <1>1, Zenon DEF Codes
    <3>2. IsByte2(x2, x3, x4)
      BY <1>4, BitsOfByte2
    <3> QED BY <3>1, <3>2, Zenon DEF IsByte2
  <2> QED BY <2>1, <2>2, <2>3, <2>4, <2>5, <2>6, <2>7, <2>8, <2>9, Zenon
<1>7. ASSUME j = 3
      PROVE  ByteOf(b(0), b(1), b(2), b(3), b(4), b(5), b(6), b(7)) = data[5 * g + 3]
  <2>1. BitIn(text, n + 0) = BitOf(x4, 1)
    <3>1. /\ 0 \in 0..7 /\ 3 \in 0..7 /\ 1 \in 0..4 /\ 4 = 3 + 1
          /\ 8 * (j - 1) + 0 = 5 * 3 + 1
      BY <1>7
    <3>2. IsBit(text, n, 0, x, 4, 1)
      BY <1>2, <3>1
    <3> QED BY <3>2, Zenon DEF IsBit, x4
  <2>2. BitIn(text, n + 1) = BitOf(x4, 2)
    <3>1. /\ 1 \in 0..7 /\ 3 \in 0..7 /\ 2 \in 0..4 /\ 4 = 3 + 1
          /\ 8 * (j - 1) + 1 = 5 * 3 + 2
      BY <1>7
    <3>2. IsBit(text, n, 1, x, 4, 2)
      BY <1>2, <3>1
    <3> QED BY <3>2, Zenon DEF IsBit, x4
  <2>3. BitIn(text, n + 2) = BitOf(x4, 3)
    <3>1. /\ 2 \in 0..7 /\ 3 \in 0..7 /\ 3 \in 0..4 /\ 4 = 3 + 1
          /\ 8 * (j - 1) + 2 = 5 * 3 + 3
      BY <1>7
    <3>2. IsBit(text, n, 2, x, 4, 3)
      BY <1>2, <3>1
    <3> QED BY <3>2, Zenon DEF IsBit, x4
  <2>4. BitIn(text, n + 3) = BitOf(x4, 4)
    <3>1. /\ 3 \in 0..7 /\ 3 \in 0..7 /\ 4 \in 0..4 /\ 4 = 3 + 1
          /\ 8 * (j - 1) + 3 = 5 * 3 + 4
      BY <1>7
    <3>2. IsBit(text, n, 3, x, 4, 4)
      BY <1>2, <3>1
    <3> QED BY <3>2, Zenon DEF IsBit, x4
  <2>5. BitIn(text, n + 4) = BitOf(x5, 0)
    <3>1. /\ 4 \in 0..7 /\ 4 \in 0..7 /\ 0 \in 0..4 /\ 5 = 4 + 1
          /\ 8 * (j - 1) + 4 = 5 * 4 + 0
      BY <1>7
    <3>2. IsBit(text, n, 4, x, 5, 0)
      BY <1>2, <3>1
    <3> QED BY <3>2, Zenon DEF IsBit, x5
  <2>6. BitIn(text, n + 5) = BitOf(x5, 1)
    <3>1. /\ 5 \in 0..7 /\ 4 \in 0..7 /\ 1 \in 0..4 /\ 5 = 4 + 1
          /\ 8 * (j - 1) + 5 = 5 * 4 + 1
      BY <1>7
    <3>2. IsBit(text, n, 5, x, 5, 1)
      BY <1>2, <3>1
    <3> QED BY <3>2, Zenon DEF IsBit, x5
  <2>7. BitIn(text, n + 6) = BitOf(x5, 2)
    <3>1. /\ 6 \in 0..7 /\ 4 \in 0..7 /\ 2 \in 0..4 /\ 5 = 4 + 1
          /\ 8 * (j - 1) + 6 = 5 * 4 + 2
      BY <1>7
    <3>2. IsBit(text, n, 6, x, 5, 2)
      BY <1>2, <3>1
    <3> QED BY <3>2, Zenon DEF IsBit, x5
  <2>8. BitIn(text, n + 7) = BitOf(x5, 3)
    <3>1. /\ 7 \in 0..7 /\ 4 \in 0..7 /\ 3 \in 0..4 /\ 5 = 4 + 1
          /\ 8 * (j - 1) + 7 = 5 * 4 + 3
      BY <1>7
    <3>2. IsBit(text, n, 7, x, 5, 3)
      BY <1>2, <3>1
    <3> QED BY <3>2, Zenon DEF IsBit, x5
  <2>9. ByteOf(BitOf(x4, 1), BitOf(x4, 2), BitOf(x4, 3), BitOf(x4, 4),
               BitOf(x5, 0), BitOf(x5, 1), BitOf(x5, 2), BitOf(x5, 3))
        = data[5 * g + 3]
    <3>1. data[5 * g + 3] = 16 * (x4 % 16) + (x5 \div 2)
      BY <1>1, Zenon DEF Codes
    <3>2. IsByte3(x4, x5)
      BY <1>4, BitsOfByte3
    <3> QED BY <3>1, <3>2, Zenon DEF IsByte3
  <2> QED BY <2>1, <2>2, <2>3, <2>4, <2>5, <2>6, <2>7, <2>8, <2>9, Zenon
<1>8. ASSUME j = 4
      PROVE  ByteOf(b(0), b(1), b(2), b(3), b(4), b(5), b(6), b(7)) = data[5 * g + 4]
  <2>1. BitIn(text, n + 0) = BitOf(x5, 4)
    <3>1. /\ 0 \in 0..7 /\ 4 \in 0..7 /\ 4 \in 0..4 /\ 5 = 4 + 1
          /\ 8 * (j - 1) + 0 = 5 * 4 + 4
      BY <1>8
    <3>2. IsBit(text, n, 0, x, 5, 4)
      BY <1>2, <3>1
    <3> QED BY <3>2, Zenon DEF IsBit, x5
  <2>2. BitIn(text, n + 1) = BitOf(x6, 0)
    <3>1. /\ 1 \in 0..7 /\ 5 \in 0..7 /\ 0 \in 0..4 /\ 6 = 5 + 1
          /\ 8 * (j - 1) + 1 = 5 * 5 + 0
      BY <1>8
    <3>2. IsBit(text, n, 1, x, 6, 0)
      BY <1>2, <3>1
    <3> QED BY <3>2, Zenon DEF IsBit, x6
  <2>3. BitIn(text, n + 2) = BitOf(x6, 1)
    <3>1. /\ 2 \in 0..7 /\ 5 \in 0..7 /\ 1 \in 0..4 /\ 6 = 5 + 1
          /\ 8 * (j - 1) + 2 = 5 * 5 + 1
      BY <1>8
    <3>2. IsBit(text, n, 2, x, 6, 1)
      BY <1>2, <3>1
    <3> QED BY <3>2, Zenon DEF IsBit, x6
  <2>4. BitIn(text, n + 3) = BitOf(x6, 2)
    <3>1. /\ 3 \in 0..7 /\ 5 \in 0..7 /\ 2 \in 0..4 /\ 6 = 5 + 1
          /\ 8 * (j - 1) + 3 = 5 * 5 + 2
      BY <1>8
    <3>2. IsBit(text, n, 3, x, 6, 2)
      BY <1>2, <3>1
    <3> QED BY <3>2, Zenon DEF IsBit, x6
  <2>5. BitIn(text, n + 4) = BitOf(x6, 3)
    <3>1. /\ 4 \in 0..7 /\ 5 \in 0..7 /\ 3 \in 0..4 /\ 6 = 5 + 1
          /\ 8 * (j - 1) + 4 = 5 * 5 + 3
      BY <1>8
    <3>2. IsBit(text, n, 4, x, 6, 3)
      BY <1>2, <3>1
    <3> QED BY <3>2, Zenon DEF IsBit, x6
  <2>6. BitIn(text, n + 5) = BitOf(x6, 4)
    <3>1. /\ 5 \in 0..7 /\ 5 \in 0..7 /\ 4 \in 0..4 /\ 6 = 5 + 1
          /\ 8 * (j - 1) + 5 = 5 * 5 + 4
      BY <1>8
    <3>2. IsBit(text, n, 5, x, 6, 4)
      BY <1>2, <3>1
    <3> QED BY <3>2, Zenon DEF IsBit, x6
  <2>7. BitIn(text, n + 6) = BitOf(x7, 0)
    <3>1. /\ 6 \in 0..7 /\ 6 \in 0..7 /\ 0 \in 0..4 /\ 7 = 6 + 1
          /\ 8 * (j - 1) + 6 = 5 * 6 + 0
      BY <1>8
    <3>2. IsBit(text, n, 6, x, 7, 0)
      BY <1>2, <3>1
    <3> QED BY <3>2, Zenon DEF IsBit, x7
  <2>8. BitIn(text, n + 7) = BitOf(x7, 1)
    <3>1. /\ 7 \in 0..7 /\ 6 \in 0..7 /\ 1 \in 0..4 /\ 7 = 6 + 1
          /\ 8 * (j - 1) + 7 = 5 * 6 + 1
      BY <1>8
    <3>2. IsBit(text, n, 7, x, 7, 1)
      BY <1>2, <3>1
    <3> QED BY <3>2, Zenon DEF IsBit, x7
  <2>9. ByteOf(BitOf(x5, 4), BitOf(x6, 0), BitOf(x6, 1), BitOf(x6, 2),
               BitOf(x6, 3), BitOf(x6, 4), BitOf(x7, 0), BitOf(x7, 1))
        = data[5 * g + 4]
    <3>1. data[5 * g + 4] = 128 * (x5 % 2) + 4 * x6 + (x7 \div 8)
      BY <1>1, Zenon DEF Codes
    <3>2. IsByte4(x5, x6, x7)
      BY <1>4, BitsOfByte4
    <3> QED BY <3>1, <3>2, Zenon DEF IsByte4
  <2> QED BY <2>1, <2>2, <2>3, <2>4, <2>5, <2>6, <2>7, <2>8, <2>9, Zenon
<1>9. ASSUME j = 5
      PROVE  ByteOf(b(0), b(1), b(2), b(3), b(4), b(5), b(6), b(7)) = data[5 * g + 5]
  <2>1. BitIn(text, n + 0) = BitOf(x7, 2)
    <3>1. /\ 0 \in 0..7 /\ 6 \in 0..7 /\ 2 \in 0..4 /\ 7 = 6 + 1
          /\ 8 * (j - 1) + 0 = 5 * 6 + 2
      BY <1>9
    <3>2. IsBit(text, n, 0, x, 7, 2)
      BY <1>2, <3>1
    <3> QED BY <3>2, Zenon DEF IsBit, x7
  <2>2. BitIn(text, n + 1) = BitOf(x7, 3)
    <3>1. /\ 1 \in 0..7 /\ 6 \in 0..7 /\ 3 \in 0..4 /\ 7 = 6 + 1
          /\ 8 * (j - 1) + 1 = 5 * 6 + 3
      BY <1>9
    <3>2. IsBit(text, n, 1, x, 7, 3)
      BY <1>2, <3>1
    <3> QED BY <3>2, Zenon DEF IsBit, x7
  <2>3. BitIn(text, n + 2) = BitOf(x7, 4)
    <3>1. /\ 2 \in 0..7 /\ 6 \in 0..7 /\ 4 \in 0..4 /\ 7 = 6 + 1
          /\ 8 * (j - 1) + 2 = 5 * 6 + 4
      BY <1>9
    <3>2. IsBit(text, n, 2, x, 7, 4)
      BY <1>2, <3>1
    <3> QED BY <3>2, Zenon DEF IsBit, x7
  <2>4. BitIn(text, n + 3) = BitOf(x8, 0)
    <3>1. /\ 3 \in 0..7 /\ 7 \in 0..7 /\ 0 \in 0..4 /\ 8 = 7 + 1
          /\ 8 * (j - 1) + 3 = 5 * 7 + 0
      BY <1>9
    <3>2. IsBit(text, n, 3, x, 8, 0)
      BY <1>2, <3>1
    <3> QED BY <3>2, Zenon DEF IsBit, x8
  <2>5. BitIn(text, n + 4) = BitOf(x8, 1)
    <3>1. /\ 4 \in 0..7 /\ 7 \in 0..7 /\ 1 \in 0..4 /\ 8 = 7 + 1
          /\ 8 * (j - 1) + 4 = 5 * 7 + 1
      BY <1>9
    <3>2. IsBit(text, n, 4, x, 8, 1)
      BY <1>2, <3>1
    <3> QED BY <3>2, Zenon DEF IsBit, x8
  <2>6. BitIn(text, n + 5) = BitOf(x8, 2)
    <3>1. /\ 5 \in 0..7 /\ 7 \in 0..7 /\ 2 \in 0..4 /\ 8 = 7 + 1
          /\ 8 * (j - 1) + 5 = 5 * 7 + 2
      BY <1>9
    <3>2. IsBit(text, n, 5, x, 8, 2)
      BY <1>2, <3>1
    <3> QED BY <3>2, Zenon DEF IsBit, x8
  <2>7. BitIn(text, n + 6) = BitOf(x8, 3)
    <3>1. /\ 6 \in 0..7 /\ 7 \in 0..7 /\ 3 \in 0..4 /\ 8 = 7 + 1
          /\ 8 * (j - 1) + 6 = 5 * 7 + 3
      BY <1>9
    <3>2. IsBit(text, n, 6, x, 8, 3)
      BY <1>2, <3>1
    <3> QED BY <3>2, Zenon DEF IsBit, x8
  <2>8. BitIn(text, n + 7) = BitOf(x8, 4)
    <3>1. /\ 7 \in 0..7 /\ 7 \in 0..7 /\ 4 \in 0..4 /\ 8 = 7 + 1
          /\ 8 * (j - 1) + 7 = 5 * 7 + 4
      BY <1>9
    <3>2. IsBit(text, n, 7, x, 8, 4)
      BY <1>2, <3>1
    <3> QED BY <3>2, Zenon DEF IsBit, x8
  <2>9. ByteOf(BitOf(x7, 2), BitOf(x7, 3), BitOf(x7, 4), BitOf(x8, 0),
               BitOf(x8, 1), BitOf(x8, 2), BitOf(x8, 3), BitOf(x8, 4))
        = data[5 * g + 5]
    <3>1. data[5 * g + 5] = 32 * (x7 % 8) + x8
      BY <1>1, Zenon DEF Codes
    <3>2. IsByte5(x7, x8)
      BY <1>4, BitsOfByte5
    <3> QED BY <3>1, <3>2, Zenon DEF IsByte5
  <2> QED BY <2>1, <2>2, <2>3, <2>4, <2>5, <2>6, <2>7, <2>8, <2>9, Zenon
<1>10. ByteOf(b(0), b(1), b(2), b(3), b(4), b(5), b(6), b(7)) = data[5 * g + j]
  <2>1. j = 1 \/ j = 2 \/ j = 3 \/ j = 4 \/ j = 5
    OBVIOUS
  <2> QED BY <1>5, <1>6, <1>7, <1>8, <1>9, <2>1, Zenon
<1>11. n + 0 = n
  BY <1>3
<1>12. ByteIn(text, n) = data[i]
  BY <1>10, <1>11, Zenon DEF ByteIn
<1> QED BY <1>12, Zenon DEF IsByteOf, n

(* Decoding an encoded address gives it back. *)
LEMMA Base32RoundTrip ==
  ASSUME NEW data \in Seq(BYTE), Len(data) = 20
  PROVE  /\ Base32Encode(data) \in Seq(0..34) /\ Len(Base32Encode(data)) = 32
         /\ Base32Decode(Base32Encode(data)) = data
<1> DEFINE text == Base32Encode(data)
<1>1. PICK f : AreEncoderStates(f, data) /\ text = [count \in 1..32 |-> Alphabet[f[count].index]]
  BY Base32EncodeIs
<1>2. \A g \in 0..3 : IsGroup([j \in 1..8 |-> f[8 * g + j].index], data, 5 * g)
  BY <1>1, AllCharacters
<1> HIDE DEF text
<1>3. \A g \in 0..3 : \A j \in 1..8 : f[8 * g + j].index \in 0..31
  <2> SUFFICES ASSUME NEW g \in 0..3 PROVE \A j \in 1..8 : f[8 * g + j].index \in 0..31
    OBVIOUS
  <2> DEFINE x == [j \in 1..8 |-> f[8 * g + j].index]
  <2>1. {x[1], x[2], x[3], x[4], x[5], x[6], x[7], x[8]} \subseteq 0..31
    <3>1. IsGroup(x, data, 5 * g)
      BY <1>2
    <3> QED BY <3>1, Zenon DEF IsGroup, Codes
  <2>2. \A j \in 1..8 : x[j] = f[8 * g + j].index
    OBVIOUS
  <2> HIDE DEF x
  <2>3. \A j \in 1..8 : x[j] \in 0..31
    <3>1. /\ x[1] \in 0..31 /\ x[2] \in 0..31 /\ x[3] \in 0..31 /\ x[4] \in 0..31
          /\ x[5] \in 0..31 /\ x[6] \in 0..31 /\ x[7] \in 0..31 /\ x[8] \in 0..31
      BY <2>1
    <3>2. \A j \in 1..8 :
            j = 1 \/ j = 2 \/ j = 3 \/ j = 4 \/ j = 5 \/ j = 6 \/ j = 7 \/ j = 8
      OBVIOUS
    <3> QED BY <3>1, <3>2, Zenon
  <2> QED BY <2>2, <2>3, Zenon
<1>4. \A c \in 1..32 : \E g \in 0..3, j \in 1..8 : c = 8 * g + j
  <2> SUFFICES ASSUME NEW c \in 1..32 PROVE \E g \in 0..3, j \in 1..8 : c = 8 * g + j
    OBVIOUS
  <2> DEFINE g == (c - 1) \div 8
             j == c - 8 * g
  <2>1. g \in 0..3 /\ j \in 1..8 /\ c = 8 * g + j
    OBVIOUS
  <2> QED BY <2>1, Zenon
<1>5. \A c \in 1..32 : f[c].index \in 0..31
  BY <1>3, <1>4, Zenon
<1>6. \A c \in 1..32 : text[c] \in 0..34 /\ IndexOf(text[c]) = f[c].index
  <2> SUFFICES ASSUME NEW c \in 1..32
               PROVE  text[c] \in 0..34 /\ IndexOf(text[c]) = f[c].index
    OBVIOUS
  <2>1. text[c] = Alphabet[f[c].index]
    BY <1>1
  <2> QED BY <1>5, <2>1, IndexOfCharacter, Zenon
<1>7. text \in Seq(0..34) /\ Len(text) = 32
  <2>1. text = [c \in 1..32 |-> text[c]]
    BY <1>1
  <2> QED BY <1>6, <2>1
<1>8. Base32Decode(text) = [i \in 1..20 |-> ByteIn(text, 8 * (i - 1))]
  BY Zenon DEF Base32Decode, ByteIn, ByteOf, BitIn, BitOf, IndexOf
<1>9. ASSUME NEW i \in 1..20
      PROVE  ByteIn(text, 8 * (i - 1)) = data[i]
  <2> DEFINE g == (i - 1) \div 5
             j == i - 5 * g
             x == [k \in 1..8 |-> f[8 * g + k].index]
  <2>1. g \in 0..3 /\ j \in 1..5 /\ i = 5 * g + j
    OBVIOUS
  <2> HIDE DEF g, j
  <2>2. IsGroup(x, data, 5 * g)
    BY <1>2, <2>1
  <2>3. BitsAre(text, x, g)
    <3>1. ASSUME NEW q \in 0..7, NEW t \in 0..4, NEW m, m = 40 * g + 5 * q + t
          PROVE  BitIn(text, m) = BitOf(x[q + 1], t)
      <4>1. IsPlace(m, g, q, t)
        BY <2>1, <3>1, PlaceOfBit
      <4>2. q + 1 \in 1..8 /\ 8 * g + (q + 1) \in 1..32
        BY <2>1
      <4>3. IndexOf(text[8 * g + (q + 1)]) = x[q + 1]
        BY <1>6, <4>2
      <4> QED BY <4>1, <4>3, Zenon DEF BitIn, IsPlace
    <3> QED BY <3>1, Zenon DEF BitsAre
  <2> HIDE DEF x
  <2>4. IsByteOf(data, text, i)
    BY <2>1, <2>2, <2>3, BytesOfGroup
  <2> QED BY <2>4, Zenon DEF IsByteOf
<1>10. Base32Decode(text) = [i \in 1..20 |-> data[i]]
  BY <1>8, <1>9, Zenon
<1>11. data = [i \in 1..20 |-> data[i]]
  OBVIOUS
<1> QED BY <1>7, <1>10, <1>11, Zenon DEF text

-----------------------------------------------------------------------------
(* Texts as numbers *)

Digit == 0..9

\* The digits of a character.
CharacterDigits(c) == IF c < 10 THEN <<c>> ELSE <<c \div 10, c % 10>>

(* A digit has one, a letter two of them. *)
LEMMA OneOrTwoDigits ==
  ASSUME NEW c \in 0..35
  PROVE  CharacterDigits(c) \in Seq(Digit) /\ Len(CharacterDigits(c)) \in 1..2
<1>1. CASE c < 10
  <2>1. CharacterDigits(c) = <<c>> /\ c \in Digit
    BY <1>1 DEF CharacterDigits, Digit
  <2> QED BY <2>1
<1>2. CASE ~(c < 10)
  <2>1. CharacterDigits(c) = <<c \div 10, c % 10>>
    BY <1>2, Zenon DEF CharacterDigits
  <2>2. c \div 10 \in Digit /\ c % 10 \in Digit
    BY DEF Digit
  <2> HIDE DEF Digit
  <2> QED BY <2>1, <2>2
<1> QED BY <1>1, <1>2

\* The function that Decimals defines, and what it comes to.
IsDecimals(f, text, length) ==
  f = [n \in 0..length |-> IF n = 0 THEN <<>> ELSE f[n - 1] \o CharacterDigits(text[n])]

AreDecimals(f, text, length) ==
  /\ f[0] = <<>>
  /\ \A n \in 1..length : f[n] = f[n - 1] \o CharacterDigits(text[n])
  /\ \A n \in 0..length : f[n] \in Seq(Digit) /\ Len(f[n]) <= 2 * n

HaveDecimals(f, text) == AreDecimals(f, text, Len(text)) /\ Decimals(text) = f[Len(text)]

(* The digits of a text are those of its characters, at most two of each. *)
LEMMA DecimalsAre ==
  ASSUME NEW text \in Seq(0..35)
  PROVE  \E f : HaveDecimals(f, text)
<1> DEFINE length == Len(text)
           e == CHOOSE f : IsDecimals(f, text, length)
           step == [n \in 1..length |-> [s \in Seq(Digit) |-> s \o CharacterDigits(text[n])]]
<1>1. length \in Nat /\ \A n \in 1..length : text[n] \in 0..35
  <2> HIDE DEF step, e
  <2>1. \A n \in 1..length : text[n] \in 0..35
    BY ElementsOf, Zenon
  <2> QED BY <2>1
<1>2. Decimals(text) = e[length]
  BY Zenon DEF Decimals, IsDecimals, CharacterDigits
<1> HIDE DEF length
<1>3. \A n \in 1..length : /\ CharacterDigits(text[n]) \in Seq(Digit)
                           /\ Len(CharacterDigits(text[n])) \in 1..2
  BY <1>1, OneOrTwoDigits
<1>4. \E f : IsDecimals(f, text, length)
  <2>1. \A n \in 1..length : \A s \in Seq(Digit) : step[n][s] = s \o CharacterDigits(text[n])
    OBVIOUS
  <2>2. \A n \in 1..length : \A s \in Seq(Digit) : step[n][s] \in Seq(Digit)
    <3>1. \A s, t \in Seq(Digit) : s \o t \in Seq(Digit)
      OBVIOUS
    <3> HIDE DEF step
    <3> QED BY <1>3, <2>1, <3>1
  <2>3. <<>> \in Seq(Digit)
    OBVIOUS
  <2> HIDE DEF step
  <2>4. PICK f \in [0..length -> Seq(Digit)] : Goes(f, <<>>, step, length)
    BY <1>1, <2>2, <2>3, StepByStep
  <2>5. \A n \in 0..length : f[n] = IF n = 0 THEN <<>> ELSE f[n - 1] \o CharacterDigits(text[n])
    <3>1. \A n \in 0..length : n # 0 => n \in 1..length /\ n - 1 \in 0..length
      BY <1>1
    <3> QED BY <2>1, <2>4, <3>1 DEF Goes
  <2>6. f = [n \in 0..length |-> f[n]]
    OBVIOUS
  <2>7. IsDecimals(f, text, length)
    BY <2>5, <2>6, Zenon DEF IsDecimals
  <2> QED BY <2>7
<1>5. IsDecimals(e, text, length)
  BY <1>4, Zenon
<1> HIDE DEF e
<1>6. e[0] = <<>> /\ \A n \in 1..length : e[n] = e[n - 1] \o CharacterDigits(text[n])
  <2>1. \A n \in 0..length : e[n] = IF n = 0 THEN <<>> ELSE e[n - 1] \o CharacterDigits(text[n])
    BY <1>5 DEF IsDecimals
  <2>2. 0 \in 0..length /\ \A n \in 1..length : n \in 0..length /\ n # 0
    BY <1>1
  <2> QED BY <2>1, <2>2, Zenon
<1>7. \A n \in 0..length : e[n] \in Seq(Digit) /\ Len(e[n]) <= 2 * n
  <2> DEFINE S == {n \in 0..length : e[n] \in Seq(Digit) /\ Len(e[n]) <= 2 * n}
  <2>1. 0 \in S
    <3>1. <<>> \in Seq(Digit) /\ Len(<<>>) <= 2 * 0 /\ 0 \in 0..length
      BY <1>1
    <3> QED BY <1>6, <3>1, Zenon
  <2>2. ASSUME NEW n \in 0..(length - 1), n \in S PROVE n + 1 \in S
    <3>1. n + 1 \in 1..length /\ n + 1 \in 0..length /\ (n + 1) - 1 = n
      BY <1>1
    <3>2. e[n] \in Seq(Digit) /\ Len(e[n]) <= 2 * n
      BY <2>2
    <3> DEFINE t == CharacterDigits(text[n + 1])
    <3>3. e[n + 1] = e[n] \o t /\ t \in Seq(Digit) /\ Len(t) \in 1..2
      BY <1>3, <1>6, <3>1
    <3> HIDE DEF t
    <3>4. e[n + 1] \in Seq(Digit) /\ Len(e[n + 1]) = Len(e[n]) + Len(t)
      BY <3>2, <3>3
    <3>5. Len(e[n]) \in Nat
      BY <3>2
    <3>6. Len(e[n]) + Len(t) <= 2 * (n + 1)
      <4> DEFINE before == Len(e[n])
                 more == Len(t)
      <4>1. before \in Nat /\ before <= 2 * n /\ more \in 1..2 /\ n \in Nat
        BY <3>2, <3>3, <3>5
      <4> HIDE DEF before, more
      <4>2. before + more <= 2 * (n + 1)
        BY <4>1
      <4> QED BY <4>2 DEF before, more
    <3>7. Len(e[n + 1]) <= 2 * (n + 1)
      BY <3>4, <3>6, Zenon
    <3> QED BY <3>1, <3>4, <3>7, Zenon
  <2> HIDE DEF S
  <2>3. 0..length \subseteq S
    BY <1>1, <2>1, <2>2, UpTo
  <2> QED BY <2>3 DEF S
<1> QED BY <1>2, <1>6, <1>7, Zenon DEF AreDecimals, HaveDecimals, length

\* What is compared.
StartSame(s, t) == \A i \in 1..34 : s[i] = t[i]
AreAllDecimals(f, text) == AreDecimals(f, text, 36)
AreSame(a, b) == a[34] = b[34]

(* The digits of the same characters are the same, whatever is behind them. *)
LEMMA SameDecimals ==
  ASSUME NEW a, NEW b, NEW s, NEW t, AreAllDecimals(a, s), AreAllDecimals(b, t), StartSame(s, t)
  PROVE  AreSame(a, b)
<1> DEFINE S == {i \in 0..34 : a[i] = b[i]}
<1>1. 0 \in S
  <2>1. a[0] = <<>> /\ b[0] = <<>>
    BY Zenon DEF AreDecimals, AreAllDecimals
  <2>2. 0 \in 0..34
    OBVIOUS
  <2> QED BY <2>1, <2>2, Zenon
<1>2. ASSUME NEW i \in 0..(34 - 1), i \in S PROVE i + 1 \in S
  <2>1. i + 1 \in 1..34 /\ i + 1 \in 1..36 /\ i + 1 \in 0..34 /\ (i + 1) - 1 = i /\ a[i] = b[i]
    BY <1>2
  <2>2. a[i + 1] = a[i] \o CharacterDigits(s[i + 1]) /\ b[i + 1] = b[i] \o CharacterDigits(t[i + 1])
    BY <2>1 DEF AreDecimals, AreAllDecimals
  <2>3. s[i + 1] = t[i + 1]
    BY <2>1, Zenon DEF StartSame
  <2> QED BY <2>1, <2>2, <2>3
<1> HIDE DEF S
<1>3. 0..34 \subseteq S
  BY <1>1, <1>2, UpTo
<1>4. 34 \in S
  BY <1>3
<1> QED BY <1>4 DEF S, AreSame

\* A text behind a text.
IsConcatenation(text, h, d) ==
  /\ Len(text) = Len(h) + Len(d)
  /\ \A i \in 1..Len(h) : text[i] = h[i]
  /\ \A i \in 1..Len(d) : text[Len(h) + i] = d[i]

(* The elements of one sequence behind another. *)
LEMMA Concatenation ==
  ASSUME NEW S, NEW h \in Seq(S), NEW d \in Seq(S)
  PROVE  h \o d \in Seq(S) /\ IsConcatenation(h \o d, h, d)
<1>1. h \o d \in Seq(S) /\ Len(h \o d) = Len(h) + Len(d)
  OBVIOUS
<1>2. \A i \in 1..Len(h) : (h \o d)[i] = h[i]
  OBVIOUS
<1>3. \A i \in 1..Len(d) : (h \o d)[Len(h) + i] = d[i]
  OBVIOUS
<1> QED BY <1>1, <1>2, <1>3, Zenon DEF IsConcatenation

\* An address, and country code and check digits behind it.
Rearranged(base32, c1, c2) == base32 \o <<23, 26, c1, c2>>

IsRearranged(text, base32, c1, c2) ==
  /\ text \in Seq(0..35) /\ Len(text) = 36
  /\ \A i \in 1..32 : text[i] = base32[i]
  /\ text[33] = 23 /\ text[34] = 26 /\ text[35] = c1 /\ text[36] = c2

(* The characters of an address with country code and check digits behind it. *)
LEMMA RearrangedIs ==
  ASSUME NEW base32 \in Seq(0..34), Len(base32) = 32, NEW c1 \in Digit, NEW c2 \in Digit
  PROVE  IsRearranged(Rearranged(base32, c1, c2), base32, c1, c2)
<1> DEFINE t == <<23, 26, c1, c2>>
           text == base32 \o t
<1>1. /\ t \in Seq(0..35) /\ Len(t) = 4
      /\ t[1] = 23 /\ t[2] = 26 /\ t[3] = c1 /\ t[4] = c2
  BY DEF Digit
<1>2. base32 \in Seq(0..35)
  OBVIOUS
<1> HIDE DEF t
<1>3. /\ text \in Seq(0..35) /\ Len(text) = Len(base32) + Len(t)
      /\ \A i \in 1..Len(base32) : text[i] = base32[i]
      /\ \A i \in 1..Len(t) : text[Len(base32) + i] = t[i]
  <2>1. text \in Seq(0..35) /\ IsConcatenation(text, base32, t)
    BY <1>1, <1>2, Concatenation, Zenon
  <2> HIDE DEF text
  <2> QED BY <2>1, Zenon DEF IsConcatenation
<1> HIDE DEF text
<1>4. text \in Seq(0..35) /\ Len(text) = 36 /\ \A i \in 1..32 : text[i] = base32[i]
  BY <1>1, <1>3
<1>5. \A i \in 1..4 : text[32 + i] = t[i]
  BY <1>1, <1>3
<1>6. text[33] = 23 /\ text[34] = 26 /\ text[35] = c1 /\ text[36] = c2
  BY <1>1, <1>5
<1> QED BY <1>4, <1>6, Zenon DEF IsRearranged, Rearranged, t, text

(* Its digits end in the check digits, and the digits in front of them are those of *)
(* the address and the country code only.                                           *)
LEMMA DecimalsOfRearranged ==
  ASSUME NEW base32 \in Seq(0..34), Len(base32) = 32
  PROVE  \E d \in Seq(Digit) :
           /\ Len(d) <= 68
           /\ \A c1, c2 \in Digit : Decimals(Rearranged(base32, c1, c2)) = (d \o <<c1>>) \o <<c2>>
<1> DEFINE zero == Rearranged(base32, 0, 0)
<1>1. /\ zero \in Seq(0..35) /\ Len(zero) = 36 /\ \A i \in 1..32 : zero[i] = base32[i]
      /\ zero[33] = 23 /\ zero[34] = 26
  <2>1. 0 \in Digit
    BY DEF Digit
  <2>2. IsRearranged(zero, base32, 0, 0)
    BY <2>1, RearrangedIs, Zenon
  <2> QED BY <2>2, Zenon DEF IsRearranged
<1> HIDE DEF zero
<1>2. PICK f : AreDecimals(f, zero, 36)
  <2>1. PICK f : HaveDecimals(f, zero)
    BY <1>1, DecimalsAre, Zenon
  <2> QED BY <1>1, <2>1, Zenon DEF HaveDecimals
<1> DEFINE d == f[34]
<1>3. d \in Seq(Digit) /\ Len(d) <= 68
  <2>1. 34 \in 0..36 /\ 2 * 34 = 68
    OBVIOUS
  <2> QED BY <1>2, <2>1 DEF AreDecimals
<1>4. ASSUME NEW c1 \in Digit, NEW c2 \in Digit
      PROVE  Decimals(Rearranged(base32, c1, c2)) = (d \o <<c1>>) \o <<c2>>
  <2> DEFINE text == Rearranged(base32, c1, c2)
  <2>1. /\ text \in Seq(0..35) /\ Len(text) = 36 /\ \A i \in 1..32 : text[i] = base32[i]
        /\ text[33] = 23 /\ text[34] = 26 /\ text[35] = c1 /\ text[36] = c2
    <3>1. IsRearranged(text, base32, c1, c2)
      BY RearrangedIs, Zenon
    <3> QED BY <3>1, Zenon DEF IsRearranged
  <2> HIDE DEF text
  <2>2. PICK g : AreDecimals(g, text, 36) /\ Decimals(text) = g[36]
    <3>1. PICK g : HaveDecimals(g, text)
      BY <2>1, DecimalsAre, Zenon
    <3> QED BY <2>1, <3>1, Zenon DEF HaveDecimals
  <2>3. g[34] = d
    <3>1. \A i \in 1..34 : i \in 1..32 \/ i = 33 \/ i = 34
      OBVIOUS
    <3>2. \A i \in 1..34 : text[i] = zero[i]
      BY <1>1, <2>1, <3>1, Zenon
    <3>3. StartSame(text, zero)
      BY <3>2, Zenon DEF StartSame
    <3>4. AreAllDecimals(g, text) /\ AreAllDecimals(f, zero)
      BY <1>2, <2>2 DEF AreAllDecimals
    <3>5. AreSame(g, f)
      BY <3>3, <3>4, SameDecimals
    <3> QED BY <3>5 DEF AreSame
  <2>4. g[35] = g[34] \o CharacterDigits(c1) /\ g[36] = g[35] \o CharacterDigits(c2)
    <3>1. \A n \in 1..36 : g[n] = g[n - 1] \o CharacterDigits(text[n])
      BY <2>2, Zenon DEF AreDecimals
    <3>2. ASSUME NEW n \in 1..36, NEW before, before = n - 1
          PROVE  g[n] = g[before] \o CharacterDigits(text[n])
      BY <3>1, <3>2, Zenon
    <3>3. g[35] = g[34] \o CharacterDigits(text[35])
      <4>1. 35 \in 1..36 /\ 34 = 35 - 1
        OBVIOUS
      <4> QED BY <3>2, <4>1
    <3>4. g[36] = g[35] \o CharacterDigits(text[36])
      <4>1. 36 \in 1..36 /\ 35 = 36 - 1
        OBVIOUS
      <4> QED BY <3>2, <4>1
    <3> QED BY <2>1, <3>3, <3>4
  <2>5. CharacterDigits(c1) = <<c1>> /\ CharacterDigits(c2) = <<c2>>
    BY DEF CharacterDigits, Digit
  <2>6. Decimals(text) = (d \o <<c1>>) \o <<c2>>
    BY <2>2, <2>3, <2>4, <2>5, Zenon
  <2> QED BY <2>6, Zenon DEF text
<1> HIDE DEF d
<1> QED BY <1>3, <1>4, Zenon

-----------------------------------------------------------------------------
(* Remainders *)

\* Each digit that is appended to a number.
IsAppended(f, number, digits, length) ==
  f = [n \in 0..length |-> IF n = 0 THEN number ELSE 10 * f[n - 1] + digits[n]]

\* The remainders of the numbers that the first digits make.
HaveRemainders(h, d) ==
  /\ h[0] = 0
  /\ \A n \in 1..Len(d) : h[n] = (10 * h[n - 1] + d[n]) % 97
  /\ \A n \in 0..Len(d) : h[n] \in 0..96

IsRemainders(h, d, length) ==
  h = [n \in 0..length |-> IF n = 0 THEN 0 ELSE (10 * h[n - 1] + d[n]) % 97]

\* The remainder of a number with a digit more.
IsOfMore(v, r, d) == 10 * v + d \in Nat /\ (10 * v + d) % 97 = (10 * r + d) % 97

(* It follows from the remainder of the number. *)
LEMMA RemainderOfMore ==
  ASSUME NEW v \in Nat, NEW r, r = v % 97, NEW d \in Digit
  PROVE  IsOfMore(v, r, d)
<1> DEFINE q == v \div 97
           x == 10 * r + d
<1>1. q \in Nat /\ r \in 0..96 /\ v = 97 * q + r /\ d \in Nat
  BY DEF Digit
<1>2. x \in Nat
  BY <1>1
<1>3. 10 * v + d = 97 * (10 * q) + x
  BY <1>1
<1> HIDE DEF q, x
<1>4. (97 * (10 * q) + x) % 97 = x % 97
  BY <1>1, <1>2
<1>5. 10 * v + d \in Nat
  BY <1>1
<1>6. (10 * v + d) % 97 = x % 97
  BY <1>3, <1>4
<1> QED BY <1>5, <1>6, Zenon DEF x, IsOfMore

(* The remainders exist. *)
LEMMA RemaindersExist ==
  ASSUME NEW d \in Seq(Digit)
  PROVE  \E h : IsRemainders(h, d, Len(d))
<1> DEFINE length == Len(d)
           step == [n \in 1..length |-> [r \in 0..96 |-> (10 * r + d[n]) % 97]]
<1>1. length \in Nat /\ \A n \in 1..length : d[n] \in Digit
  <2>1. length \in Nat
    OBVIOUS
  <2>2. \A n \in 1..length : d[n] \in Digit
    BY ElementsOf, Zenon
  <2> QED BY <2>1, <2>2
<1> HIDE DEF length
<1>2. \A n \in 1..length : \A r \in 0..96 : step[n][r] = (10 * r + d[n]) % 97
  OBVIOUS
<1>3. \A n \in 1..length : \A r \in 0..96 : step[n][r] \in 0..96
  <2> SUFFICES ASSUME NEW n \in 1..length, NEW r \in 0..96 PROVE step[n][r] \in 0..96
    OBVIOUS
  <2> DEFINE x == d[n]
  <2>1. x \in Nat
    BY <1>1 DEF Digit
  <2> HIDE DEF x
  <2>2. (10 * r + x) % 97 \in 0..96
    BY <2>1
  <2> QED BY <1>2, <2>2, Zenon DEF x
<1> HIDE DEF step
<1>4. PICK h \in [0..length -> 0..96] : Goes(h, 0, step, length)
  <2>1. 0 \in 0..96
    OBVIOUS
  <2> QED BY <1>1, <1>3, <2>1, StepByStep
<1>5. \A n \in 0..length : h[n] = IF n = 0 THEN 0 ELSE (10 * h[n - 1] + d[n]) % 97
  <2>1. \A n \in 0..length : n # 0 => n \in 1..length /\ n - 1 \in 0..length
    BY <1>1
  <2>2. h[0] = 0 /\ \A n \in 1..length : h[n] = step[n][h[n - 1]]
    BY <1>4, Zenon DEF Goes
  <2>3. \A n \in 0..length : n # 0 => h[n - 1] \in 0..96
    BY <2>1
  <2>4. ASSUME NEW n \in 0..length, n # 0 PROVE h[n] = (10 * h[n - 1] + d[n]) % 97
    <3>1. n \in 1..length /\ h[n - 1] \in 0..96
      BY <2>1, <2>3, <2>4
    <3>2. h[n] = step[n][h[n - 1]]
      BY <2>2, <3>1
    <3> QED BY <1>2, <3>1, <3>2, Zenon
  <2> QED BY <2>2, <2>4, Zenon
<1>6. h = [n \in 0..length |-> h[n]]
  OBVIOUS
<1> QED BY <1>5, <1>6, Zenon DEF IsRemainders, length

(* What they are, digit by digit. *)
LEMMA RemaindersAre ==
  ASSUME NEW d \in Seq(Digit), NEW h, IsRemainders(h, d, Len(d))
  PROVE  HaveRemainders(h, d)
<1>1. Len(d) \in Nat /\ \A n \in 1..Len(d) : d[n] \in Digit
  <2>1. Len(d) \in Nat
    OBVIOUS
  <2>2. \A n \in 1..Len(d) : d[n] \in Digit
    BY ElementsOf, Zenon
  <2> QED BY <2>1, <2>2
<1> DEFINE length == Len(d)
<1> HIDE DEF length
<1>2. length \in Nat /\ \A n \in 1..length : d[n] \in Digit
  BY <1>1 DEF length
<1>3. \A n \in 0..length : h[n] = IF n = 0 THEN 0 ELSE (10 * h[n - 1] + d[n]) % 97
  BY Zenon DEF IsRemainders, length
<1>4. h[0] = 0
  BY <1>2, <1>3
<1>5. \A n \in 1..length : h[n] = (10 * h[n - 1] + d[n]) % 97
  <2>1. \A n \in 1..length : n \in 0..length /\ n # 0
    BY <1>2
  <2> QED BY <1>3, <2>1, Zenon
<1>6. \A n \in 0..length : h[n] \in 0..96
  <2> DEFINE S == {n \in 0..length : h[n] \in 0..96}
  <2>1. 0 \in S
    BY <1>2, <1>4
  <2>2. ASSUME NEW n \in 0..(length - 1), n \in S PROVE n + 1 \in S
    <3> DEFINE r == h[n]
               x == d[n + 1]
    <3>1. n + 1 \in 1..length /\ n + 1 \in 0..length /\ (n + 1) - 1 = n
      BY <1>2
    <3>2. r \in 0..96 /\ x \in Nat
      BY <1>2, <2>2, <3>1 DEF Digit
    <3>3. h[n + 1] = (10 * r + x) % 97
      BY <1>5, <3>1
    <3> HIDE DEF r, x
    <3>4. (10 * r + x) % 97 \in 0..96
      BY <3>2
    <3> QED BY <3>1, <3>3, <3>4, Zenon
  <2> HIDE DEF S
  <2>3. 0..length \subseteq S
    BY <1>2, <2>1, <2>2, UpTo
  <2> QED BY <2>3 DEF S
<1> QED BY <1>4, <1>5, <1>6, Zenon DEF HaveRemainders, length

(* The numbers that digits make, one after the other. *)
LEMMA AppendedExists ==
  ASSUME NEW number \in Nat, NEW digits \in Seq(Digit)
  PROVE  \E f : IsAppended(f, number, digits, Len(digits))
<1> DEFINE length == Len(digits)
           step == [n \in 1..length |-> [v \in Nat |-> 10 * v + digits[n]]]
<1>1. length \in Nat /\ \A n \in 1..length : digits[n] \in Nat
  <2>1. length \in Nat
    OBVIOUS
  <2>2. \A n \in 1..length : digits[n] \in Digit
    BY ElementsOf, Zenon
  <2>3. Digit \subseteq Nat
    BY DEF Digit
  <2> HIDE DEF length
  <2> QED BY <2>1, <2>2, <2>3
<1> HIDE DEF length
<1>2. \A n \in 1..length : \A v \in Nat : step[n][v] = 10 * v + digits[n]
  OBVIOUS
<1>3. \A n \in 1..length : \A v \in Nat : step[n][v] \in Nat
  <2> SUFFICES ASSUME NEW n \in 1..length, NEW v \in Nat PROVE step[n][v] \in Nat
    OBVIOUS
  <2>1. 10 * v + digits[n] \in Nat
    BY <1>1
  <2> QED BY <1>2, <2>1, Zenon
<1> HIDE DEF step
<1>4. PICK f \in [0..length -> Nat] : Goes(f, number, step, length)
  BY <1>1, <1>3, StepByStep
<1>5. \A n \in 0..length : f[n] = IF n = 0 THEN number ELSE 10 * f[n - 1] + digits[n]
  <2>1. \A n \in 0..length : n # 0 => n \in 1..length /\ n - 1 \in 0..length
    BY <1>1
  <2>2. f[0] = number /\ \A n \in 1..length : f[n] = step[n][f[n - 1]]
    BY <1>4, Zenon DEF Goes
  <2>3. ASSUME NEW n \in 0..length, n # 0 PROVE f[n] = 10 * f[n - 1] + digits[n]
    <3>1. n \in 1..length /\ f[n - 1] \in Nat
      BY <2>1, <2>3
    <3>2. f[n] = step[n][f[n - 1]]
      BY <2>2, <3>1
    <3> QED BY <1>2, <3>1, <3>2, Zenon
  <2> QED BY <2>2, <2>3, Zenon
<1>6. f = [n \in 0..length |-> f[n]]
  OBVIOUS
<1> QED BY <1>5, <1>6, Zenon DEF IsAppended, length

\* A piece of the digits.
IsPiece(digits, d, a, b) ==
  /\ digits \in Seq(Digit) /\ Len(digits) = b - a
  /\ \A i \in 1..(b - a) : digits[i] = d[a + i]

\* A number that has the remainder of the first n digits.
HasRemainder(number, h, n) == number \in Nat /\ number % 97 = h[n]

(* Appending a piece of the digits to a number that has the remainder of those in front *)
(* of it leads to one that has the remainder of all of them.                            *)
LEMMA AppendedHasRemainder ==
  ASSUME NEW d \in Seq(Digit), NEW h, HaveRemainders(h, d), NEW a \in Nat, NEW b \in Nat,
         a <= b, b <= Len(d), NEW digits, IsPiece(digits, d, a, b),
         NEW number, HasRemainder(number, h, a)
  PROVE  HasRemainder(Appended(number, digits), h, b)
<1> DEFINE length == Len(digits)
           e == CHOOSE f : IsAppended(f, number, digits, length)
<1>1. /\ digits \in Seq(Digit) /\ length = b - a
      /\ \A i \in 1..(b - a) : digits[i] = d[a + i]
      /\ number \in Nat /\ number % 97 = h[a]
  BY Zenon DEF IsPiece, HasRemainder
<1>2. length \in Nat
  BY <1>1
<1>3. Appended(number, digits) = e[length]
  BY Zenon DEF Appended, IsAppended
<1>4. IsAppended(e, number, digits, length)
  BY <1>1, AppendedExists, Zenon
<1> HIDE DEF length, e
<1>5. \A n \in 0..length : e[n] = IF n = 0 THEN number ELSE 10 * e[n - 1] + digits[n]
  BY <1>4, Zenon DEF IsAppended
<1>6. \A n \in 1..length : digits[n] \in Digit
  <2>1. digits \in Seq(Digit)
    BY <1>1
  <2> QED BY <2>1, ElementsOf, Zenon DEF length
<1> DEFINE S == {n \in 0..length : e[n] \in Nat /\ e[n] % 97 = h[a + n]}
<1>7. 0 \in S
  <2>1. 0 \in 0..length /\ a + 0 = a
    BY <1>2
  <2>2. e[0] = number
    BY <1>5, <2>1, Zenon
  <2> QED BY <1>1, <2>1, <2>2
<1>8. ASSUME NEW n \in 0..(length - 1), n \in S PROVE n + 1 \in S
  <2> DEFINE v == e[n]
             r == h[a + n]
             x == digits[n + 1]
  <2>1. /\ n + 1 \in 1..length /\ n + 1 \in 0..length /\ (n + 1) - 1 = n /\ n + 1 # 0
        /\ n + 1 \in 1..(b - a)
    BY <1>1, <1>2
  <2>2. v \in Nat /\ r = v % 97
    BY <1>8
  <2>3. x \in Digit /\ x = d[a + (n + 1)]
    BY <1>1, <1>6, <2>1
  <2>4. e[n + 1] = 10 * v + x
    BY <1>5, <2>1
  <2>5. h[a + (n + 1)] = (10 * r + x) % 97
    <3>1. a + (n + 1) \in 1..Len(d) /\ (a + (n + 1)) - 1 = a + n
      <4>1. Len(d) \in Nat
        OBVIOUS
      <4> QED BY <1>1, <2>1, <4>1
    <3>2. h[a + (n + 1)] = (10 * h[(a + (n + 1)) - 1] + d[a + (n + 1)]) % 97
      BY <3>1, Zenon DEF HaveRemainders
    <3> QED BY <2>3, <3>1, <3>2
  <2> HIDE DEF v, r, x
  <2>6. IsOfMore(v, r, x)
    BY <2>2, <2>3, RemainderOfMore
  <2>7. e[n + 1] \in Nat /\ e[n + 1] % 97 = h[a + (n + 1)]
    BY <2>4, <2>5, <2>6, Zenon DEF IsOfMore
  <2> QED BY <2>1, <2>7
<1> HIDE DEF S
<1>9. 0..length \subseteq S
  BY <1>2, <1>7, <1>8, UpTo
<1>10. length \in S /\ a + length = b
  BY <1>1, <1>2, <1>9 DEF length
<1>11. e[length] \in Nat /\ e[length] % 97 = h[b]
  BY <1>10 DEF S
<1> QED BY <1>3, <1>11, Zenon DEF HasRemainder

\* As far as there are digits.
AtMostOf(n, length) == IF n <= length THEN n ELSE length

\* The function that iban_check defines.
IsModulo(e, total) ==
  e = [piece \in 0..PIECES |->
         IF piece = 0 THEN 0
         ELSE IF piece = 1 THEN Appended(0, DigitsOf(total, 1, 9)) % 97
         ELSE Appended(e[piece - 1], DigitsOf(total, 7 * piece - 4, 7 * piece + 2)) % 97]

(* A sequence without elements. *)
LEMMA NoElements ==
  ASSUME NEW S, NEW s \in Seq(S), Len(s) = 0
  PROVE  s = <<>>
<1>1. \A i \in 1..0 : FALSE
  OBVIOUS
<1> QED BY <1>1

(* What DigitsOf cuts out is a piece of the digits, as far as there are any. *)
LEMMA DigitsOfIsPiece ==
  ASSUME NEW d \in Seq(Digit), NEW a \in Nat, NEW first, first = a + 1, NEW last \in Nat, a <= last
  PROVE  /\ AtMostOf(a, Len(d)) \in Nat /\ AtMostOf(last, Len(d)) \in Nat
         /\ AtMostOf(a, Len(d)) <= AtMostOf(last, Len(d)) /\ AtMostOf(last, Len(d)) <= Len(d)
         /\ IsPiece(DigitsOf(d, first, last), d, AtMostOf(a, Len(d)), AtMostOf(last, Len(d)))
<1> DEFINE length == Len(d)
           from == AtMostOf(a, length)
           to == AtMostOf(last, length)
           s == SubSeq(d, first, to)
<1>1. length \in Nat
  OBVIOUS
<1>2. DigitsOf(d, first, last) = s
  BY Zenon DEF DigitsOf, AtMostOf
<1> HIDE DEF length
<1>3. from \in Nat /\ to \in Nat /\ from <= to /\ to <= length
  BY <1>1 DEF AtMostOf
<1>4. CASE a <= length
  <2>1. from = a
    BY <1>4 DEF AtMostOf
  <2> HIDE DEF from, to
  <2>2. /\ s \in Seq(Digit) /\ Len(s) = to - a
        /\ \A i \in 1..(to - a) : s[i] = d[a + i]
    <3>1. s \in Seq(Digit)
      BY <1>1, <1>3 DEF length
    <3>2. Len(s) = to - a
      BY <1>1, <1>3, <2>1 DEF length
    <3>3. ASSUME NEW i \in 1..(to - a) PROVE s[i] = d[a + i]
      <4>1. s[i] = d[i + first - 1]
        BY <1>1, <1>3, <2>1 DEF length
      <4>2. i + first - 1 = a + i
        OBVIOUS
      <4> QED BY <4>1, <4>2
    <3> QED BY <3>1, <3>2, <3>3
  <2> QED BY <1>2, <1>3, <2>1, <2>2, Zenon DEF IsPiece, length, from, to
<1>5. CASE ~(a <= length)
  <2>1. from = length /\ to = length /\ length < first
    BY <1>1, <1>5 DEF AtMostOf
  <2>2. s = <<>>
    <3> HIDE DEF to
    <3>1. s = SubSeq(d, first, length) /\ SubSeq(d, first, length) \in Seq(Digit)
      BY <1>1, <2>1 DEF length
    <3>2. Len(SubSeq(d, first, length)) = 0
      BY <1>1, <2>1 DEF length
    <3> HIDE DEF s
    <3>3. s \in Seq(Digit) /\ Len(s) = 0
      BY <3>1, <3>2, Zenon
    <3> QED BY <3>3, NoElements, Zenon
  <2> HIDE DEF from, to, s
  <2>3. IsPiece(<<>>, d, length, length)
    <3>1. \A i \in 1..(length - length) : <<>>[i] = d[length + i]
      <4>1. 1..(length - length) = {}
        BY <1>1
      <4> QED BY <4>1
    <3>2. <<>> \in Seq(Digit) /\ Len(<<>>) = length - length
      BY <1>1
    <3> QED BY <3>1, <3>2, Zenon DEF IsPiece
  <2> QED BY <1>2, <1>3, <2>1, <2>2, <2>3, Zenon DEF length, from, to
<1> QED BY <1>4, <1>5, Zenon

ModuloStep(m, piece, total) ==
  IF piece = 1 THEN Appended(0, DigitsOf(total, 1, 9)) % 97
  ELSE Appended(m, DigitsOf(total, 7 * piece - 4, 7 * piece + 2)) % 97

\* The remainder of all digits up to a piece.
UpToPiece(h, total, piece) ==
  IF piece = 0 THEN 0 ELSE h[AtMostOf(7 * piece + 2, Len(total))]

(* A piece more. *)
LEMMA NextPiece ==
  ASSUME NEW total \in Seq(Digit), NEW h, HaveRemainders(h, total), NEW piece \in 1..10
  PROVE  ModuloStep(UpToPiece(h, total, piece - 1), piece, total) = UpToPiece(h, total, piece)
<1> DEFINE length == Len(total)
           to == AtMostOf(7 * piece + 2, length)
<1>1. \A n \in 0..length : h[n] \in 0..96
  BY Zenon DEF HaveRemainders
<1>2. length \in Nat
  OBVIOUS
<1> HIDE DEF length
<1>3. UpToPiece(h, total, piece) = h[to]
  <2>1. piece # 0
    OBVIOUS
  <2> QED BY <2>1, Zenon DEF UpToPiece, length
<1> HIDE DEF to
<1>4. CASE piece = 1
  <2> DEFINE s == DigitsOf(total, 1, 9)
  <2>1. AtMostOf(0, length) = 0 /\ to = AtMostOf(9, length)
    BY <1>2, <1>4 DEF AtMostOf, to
  <2>2. /\ 0 \in Nat /\ to \in Nat /\ 0 <= to /\ to <= Len(total)
        /\ IsPiece(s, total, 0, to)
    <3>1. 0 \in Nat /\ 1 = 0 + 1 /\ 9 \in Nat /\ 0 <= 9
      OBVIOUS
    <3> HIDE DEF s
    <3>2. /\ AtMostOf(0, Len(total)) \in Nat /\ AtMostOf(9, Len(total)) \in Nat
          /\ AtMostOf(0, Len(total)) <= AtMostOf(9, Len(total)) /\ AtMostOf(9, Len(total)) <= Len(total)
          /\ IsPiece(s, total, AtMostOf(0, Len(total)), AtMostOf(9, Len(total)))
      BY <3>1, DigitsOfIsPiece DEF s
    <3> QED BY <2>1, <3>2 DEF length
  <2>3. HasRemainder(0, h, 0)
    <3>1. 0 % 97 = 0 /\ h[0] = 0
      BY DEF HaveRemainders
    <3> QED BY <3>1 DEF HasRemainder
  <2> HIDE DEF s
  <2>4. HasRemainder(Appended(0, s), h, to)
    BY <2>2, <2>3, AppendedHasRemainder
  <2>5. ModuloStep(UpToPiece(h, total, piece - 1), piece, total) = Appended(0, s) % 97
    BY <1>4, Zenon DEF ModuloStep, s
  <2> QED BY <1>3, <2>4, <2>5, Zenon DEF HasRemainder
<1>5. CASE piece # 1
  <2> DEFINE a == 7 * piece - 5
             from == AtMostOf(a, length)
             s == DigitsOf(total, 7 * piece - 4, 7 * piece + 2)
             m == UpToPiece(h, total, piece - 1)
  <2>1. a \in Nat /\ 7 * piece - 4 = a + 1 /\ 7 * piece + 2 \in Nat /\ a <= 7 * piece + 2
    BY <1>5
  <2>2. /\ from \in Nat /\ to \in Nat /\ from <= to /\ to <= Len(total)
        /\ IsPiece(s, total, from, to)
    <3> HIDE DEF a
    <3> DEFINE first == 7 * piece - 4
               last == 7 * piece + 2
    <3>1. first = a + 1 /\ last \in Nat /\ a <= last
      BY <2>1
    <3> HIDE DEF first, last
    <3>2. /\ AtMostOf(a, Len(total)) \in Nat /\ AtMostOf(last, Len(total)) \in Nat
          /\ AtMostOf(a, Len(total)) <= AtMostOf(last, Len(total)) /\ AtMostOf(last, Len(total)) <= Len(total)
          /\ IsPiece(DigitsOf(total, first, last), total, AtMostOf(a, Len(total)), AtMostOf(last, Len(total)))
      BY <2>1, <3>1, DigitsOfIsPiece
    <3> QED BY <3>2, Zenon DEF length, to, first, last
  <2>3. m = h[from]
    <3>1. piece - 1 # 0 /\ 7 * (piece - 1) + 2 = a
      BY <1>5
    <3> HIDE DEF a
    <3> QED BY <3>1, Zenon DEF UpToPiece, length
  <2>4. ModuloStep(m, piece, total) = Appended(m, s) % 97
    BY <1>5, Zenon DEF ModuloStep
  <2> HIDE DEF s, from, m
  <2>5. HasRemainder(m, h, from)
    <3>1. from \in 0..length
      BY <1>2, <2>2 DEF length
    <3>2. m \in 0..96
      BY <1>1, <2>3, <3>1
    <3>3. m \in Nat /\ m % 97 = m
      BY <3>2
    <3> QED BY <2>3, <3>3, Zenon DEF HasRemainder
  <2>6. HasRemainder(Appended(m, s), h, to)
    BY <2>2, <2>5, AppendedHasRemainder
  <2>7. ModuloStep(m, piece, total) = h[to]
    BY <2>4, <2>6, Zenon DEF HasRemainder
  <2> QED BY <1>3, <2>7, Zenon DEF m
<1> QED BY <1>4, <1>5

\* What iban_check starts from.
IsCheckOf(base32, total, h, check) ==
  /\ total = Decimals(base32 \o CountryCode)
  /\ total \in Seq(Digit) /\ Len(total) <= 72
  /\ HaveRemainders(h, total) /\ check = 98 - h[Len(total)]

(* The check digits are 98 less the remainder of the digits with zeros in their places. *)
LEMMA IbanCheckIs ==
  ASSUME NEW base32, NEW total, NEW h, NEW check, IsCheckOf(base32, total, h, check)
  PROVE  IbanCheck(base32) = <<check \div 10, check % 10>>
<1>0. /\ total = Decimals(base32 \o CountryCode)
      /\ total \in Seq(Digit) /\ Len(total) <= 72
      /\ HaveRemainders(h, total) /\ check = 98 - h[Len(total)]
  BY Zenon DEF IsCheckOf
<1> DEFINE e == CHOOSE f : IsModulo(f, total)
           witness == [piece \in 0..PIECES |-> UpToPiece(h, total, piece)]
           CheckOf(text) ==
             LET f == CHOOSE g : IsModulo(g, text)
             IN <<(98 - f[PIECES]) \div 10, (98 - f[PIECES]) % 10>>
<1>1. IbanCheck(base32) = <<(98 - e[PIECES]) \div 10, (98 - e[PIECES]) % 10>>
  <2>1. IbanCheck(base32) = CheckOf(Decimals(base32 \o CountryCode))
    BY Zenon DEF IbanCheck, IsModulo
  <2>2. CheckOf(total) = <<(98 - e[PIECES]) \div 10, (98 - e[PIECES]) % 10>>
    OBVIOUS
  <2> HIDE DEF CheckOf, e
  <2> QED BY <1>0, <2>1, <2>2, Zenon
<1>2. IsModulo(witness, total)
  <2>1. \A piece \in 0..PIECES :
          UpToPiece(h, total, piece)
            = IF piece = 0 THEN 0 ELSE ModuloStep(witness[piece - 1], piece, total)
    <3> HIDE DEF witness
    <3> SUFFICES ASSUME NEW piece \in 0..PIECES
                 PROVE  UpToPiece(h, total, piece)
                          = IF piece = 0 THEN 0 ELSE ModuloStep(witness[piece - 1], piece, total)
      BY Zenon
    <3>1. CASE piece = 0
      BY <3>1, Zenon DEF UpToPiece
    <3>2. CASE piece # 0
      <4>1. piece \in 1..10 /\ piece - 1 \in 0..PIECES
        BY <3>2 DEF PIECES
      <4>2. witness[piece - 1] = UpToPiece(h, total, piece - 1)
        BY <4>1 DEF witness
      <4>3. ModuloStep(UpToPiece(h, total, piece - 1), piece, total) = UpToPiece(h, total, piece)
        BY <1>0, <4>1, NextPiece
      <4> QED BY <3>2, <4>2, <4>3, Zenon
    <3> QED BY <3>1, <3>2
  <2>2. witness = [piece \in 0..PIECES |->
                     IF piece = 0 THEN 0 ELSE ModuloStep(witness[piece - 1], piece, total)]
    BY <2>1, Zenon
  <2> HIDE DEF witness
  <2> QED BY <2>2, Zenon DEF IsModulo, ModuloStep
<1>3. IsModulo(e, total)
  BY <1>2, Zenon
<1> HIDE DEF e, witness
<1>4. \A piece \in 0..PIECES :
        e[piece] = IF piece = 0 THEN 0 ELSE ModuloStep(e[piece - 1], piece, total)
  BY <1>3, Zenon DEF IsModulo, ModuloStep
<1> DEFINE S == {piece \in 0..10 : e[piece] = UpToPiece(h, total, piece)}
<1>5. 0 \in S
  <2>1. 0 \in 0..10 /\ 0 \in 0..PIECES
    BY DEF PIECES
  <2>2. e[0] = 0
    BY <1>4, <2>1, Zenon
  <2>3. UpToPiece(h, total, 0) = 0
    BY Zenon DEF UpToPiece
  <2> QED BY <2>1, <2>2, <2>3
<1>6. ASSUME NEW n \in 0..(10 - 1), n \in S PROVE n + 1 \in S
  <2> DEFINE piece == n + 1
  <2>1. piece \in 1..10 /\ piece \in 0..10 /\ piece \in 0..PIECES /\ piece # 0 /\ piece - 1 = n
    BY DEF PIECES
  <2> HIDE DEF piece
  <2>2. e[piece - 1] = UpToPiece(h, total, piece - 1)
    BY <1>6, <2>1
  <2>3. e[piece] = ModuloStep(e[piece - 1], piece, total)
    BY <1>4, <2>1, Zenon
  <2>4. ModuloStep(UpToPiece(h, total, piece - 1), piece, total) = UpToPiece(h, total, piece)
    BY <1>0, <2>1, NextPiece
  <2>5. e[piece] = UpToPiece(h, total, piece)
    BY <2>2, <2>3, <2>4, Zenon
  <2> QED BY <2>1, <2>5 DEF piece
<1> HIDE DEF S
<1>7. 0..10 \subseteq S
  BY <1>5, <1>6, UpTo
<1>8. e[10] = UpToPiece(h, total, 10)
  BY <1>7 DEF S
<1>9. UpToPiece(h, total, 10) = h[Len(total)]
  <2> DEFINE length == Len(total)
  <2>1. length \in Nat /\ length <= 72
    BY <1>0
  <2> HIDE DEF length
  <2>2. AtMostOf(72, length) = length
    BY <2>1 DEF AtMostOf
  <2>3. 10 # 0 /\ 7 * 10 + 2 = 72
    OBVIOUS
  <2>4. UpToPiece(h, total, 10) = h[AtMostOf(7 * 10 + 2, length)]
    BY <2>3 DEF UpToPiece, length
  <2> QED BY <2>2, <2>3, <2>4 DEF length
<1>10. PIECES = 10
  BY DEF PIECES
<1> QED BY <1>0, <1>1, <1>8, <1>9, <1>10

\* The remainder of a number with two digits more.
AreTwoMore(all, h, length, r, c1, c2) ==
  /\ all \in Seq(Digit) /\ Len(all) = length + 2
  /\ h[length + 2] = (10 * ((10 * r + c1) % 97) + c2) % 97

(* The remainder with check digits follows from the one without. *)
LEMMA TwoMoreDigits ==
  ASSUME NEW d \in Seq(Digit), NEW g, HaveRemainders(g, d), NEW c1 \in Digit, NEW c2 \in Digit,
         NEW h, HaveRemainders(h, (d \o <<c1>>) \o <<c2>>)
  PROVE  AreTwoMore((d \o <<c1>>) \o <<c2>>, h, Len(d), g[Len(d)], c1, c2)
<1> DEFINE all == (d \o <<c1>>) \o <<c2>>
           length == Len(d)
<1>1. /\ all \in Seq(Digit) /\ Len(all) = length + 2 /\ length \in Nat
      /\ \A i \in 1..length : all[i] = d[i]
      /\ all[length + 1] = c1 /\ all[length + 2] = c2
  <2> DEFINE more == d \o <<c1>>
  <2>1. /\ more \in Seq(Digit) /\ Len(more) = length + 1
        /\ \A i \in 1..length : more[i] = d[i]
        /\ more[length + 1] = c1
    OBVIOUS
  <2> HIDE DEF more
  <2> DEFINE most == more \o <<c2>>
  <2>2. most \in Seq(Digit) /\ Len(most) = Len(more) + 1
    BY <2>1
  <2>3. \A i \in 1..Len(more) : most[i] = more[i]
    BY <2>1
  <2>4. most[Len(more) + 1] = c2
    BY <2>1
  <2>5. length \in Nat
    OBVIOUS
  <2>6. most = all
    BY Zenon DEF more
  <2> HIDE DEF most, all, length
  <2>7. most \in Seq(Digit) /\ Len(most) = length + 2 /\ most[length + 2] = c2
    BY <2>1, <2>2, <2>4, <2>5
  <2>8. \A i \in 1..length : most[i] = d[i]
    BY <2>1, <2>3, <2>5
  <2>9. most[length + 1] = c1
    BY <2>1, <2>3, <2>5
  <2> QED BY <2>5, <2>6, <2>7, <2>8, <2>9, Zenon
<1> HIDE DEF all, length
<1>2. /\ h[0] = 0 /\ \A n \in 1..(length + 2) : h[n] = (10 * h[n - 1] + all[n]) % 97
      /\ g[0] = 0 /\ \A n \in 1..length : g[n] = (10 * g[n - 1] + d[n]) % 97
  <2>1. h[0] = 0 /\ \A n \in 1..Len(all) : h[n] = (10 * h[n - 1] + all[n]) % 97
    BY Zenon DEF HaveRemainders, all
  <2>2. g[0] = 0 /\ \A n \in 1..length : g[n] = (10 * g[n - 1] + d[n]) % 97
    BY Zenon DEF HaveRemainders, length
  <2> QED BY <1>1, <2>1, <2>2, Zenon
<1>3. \A n \in 1..(length + 2) : \A before : before = n - 1 => h[n] = (10 * h[before] + all[n]) % 97
  BY <1>2, Zenon
<1> DEFINE S == {n \in 0..length : h[n] = g[n]}
<1>4. 0 \in S
  BY <1>1, <1>2
<1>5. ASSUME NEW n \in 0..(length - 1), n \in S PROVE n + 1 \in S
  <2>1. n + 1 \in 1..length /\ n + 1 \in 1..(length + 2) /\ (n + 1) - 1 = n /\ n + 1 \in 0..length
    BY <1>1
  <2>2. h[n] = g[n] /\ all[n + 1] = d[n + 1]
    BY <1>1, <1>5, <2>1
  <2>3. h[n + 1] = (10 * h[n] + all[n + 1]) % 97 /\ g[n + 1] = (10 * g[n] + d[n + 1]) % 97
    BY <1>2, <2>1
  <2> QED BY <2>1, <2>2, <2>3
<1> HIDE DEF S
<1>6. 0..length \subseteq S
  BY <1>1, <1>4, <1>5, UpTo
<1>7. h[length] = g[length]
  <2>1. length \in S
    BY <1>1, <1>6
  <2> QED BY <2>1 DEF S
<1>8. h[length + 1] = (10 * h[length] + all[length + 1]) % 97
  <2>1. length + 1 \in 1..(length + 2) /\ length = (length + 1) - 1
    BY <1>1
  <2> QED BY <1>3, <2>1, Zenon
<1>9. h[length + 2] = (10 * h[length + 1] + all[length + 2]) % 97
  <2>1. length + 2 \in 1..(length + 2) /\ length + 1 = (length + 2) - 1
    BY <1>1
  <2> QED BY <1>3, <2>1, Zenon
<1>10. h[length + 2] = (10 * ((10 * g[length] + c1) % 97) + c2) % 97
  BY <1>1, <1>7, <1>8, <1>9, Zenon
<1> QED BY <1>1, <1>10, Zenon DEF AreTwoMore, all, length

\* Check digits that make the remainder 1.
AreCheckDigits(r, c1, c2) ==
  c1 \in Digit /\ c2 \in Digit /\ (10 * ((10 * r + c1) % 97) + c2) % 97 = 1

(* 98 less the remainder with zeros in their places makes such digits. *)
LEMMA CheckDigits ==
  ASSUME NEW r \in 0..96, NEW check, check = 98 - ((10 * ((10 * r + 0) % 97) + 0) % 97)
  PROVE  AreCheckDigits(r, check \div 10, check % 10)
<1> DEFINE a == 10 * r
           s == a % 97
           q == a \div 97
           b == 10 * s
           m == b % 97
           p == b \div 97
           c1 == check \div 10
           c2 == check % 10
           e == 10 * r + c1
           t == e % 97
           v == e \div 97
           f == 10 * t + c2
           u == f % 97
           w == f \div 97
<1>1. q \in Nat /\ s \in 0..96 /\ 10 * r = 97 * q + s
  OBVIOUS
<1>2. p \in Nat /\ m \in 0..96 /\ 10 * s = 97 * p + m
  <2> HIDE DEF s
  <2> QED BY <1>1
<1>3. check = 98 - m
  <2>1. 10 * r + 0 = a /\ 10 * s + 0 = b
    <3> HIDE DEF s
    <3> QED BY <1>1
  <2> QED BY <2>1
<1> HIDE DEF m
<1>4. c1 \in Digit /\ c2 \in Digit /\ 10 * c1 + c2 = check
  BY <1>2, <1>3 DEF Digit
<1> HIDE DEF a, s, q, b, p, c1, c2
<1>5. v \in Nat /\ t \in 0..96 /\ 10 * r + c1 = 97 * v + t
  <2>1. 10 * r + c1 \in Nat
    BY <1>4 DEF Digit
  <2> HIDE DEF e
  <2>2. e \in Nat
    BY <2>1 DEF e
  <2>3. v \in Nat /\ t \in 0..96 /\ e = 97 * v + t
    BY <2>2
  <2> QED BY <2>3, Zenon DEF e
<1> HIDE DEF e, t, v
<1>6. w \in Nat /\ u \in 0..96 /\ 10 * t + c2 = 97 * w + u
  <2>1. f \in Nat
    BY <1>4, <1>5 DEF Digit
  <2> HIDE DEF f
  <2>2. w \in Nat /\ u \in 0..96 /\ f = 97 * w + u
    BY <2>1
  <2> QED BY <2>2, Zenon DEF f
<1> HIDE DEF f, w
<1>7. (10 * ((10 * r + c1) % 97) + c2) % 97 = u
  BY Zenon DEF u, f, t, e
<1> HIDE DEF u
<1>8. u = 1
  <2>1. c1 \in Nat /\ c2 \in Nat
    BY <1>4 DEF Digit
  <2>2. 100 * r = 97 * (10 * q + p) + m
    BY <1>1, <1>2
  <2>3. 100 * r + 10 * c1 + c2 = 97 * (10 * v + w) + u
    BY <1>5, <1>6, <2>1
  <2>4. 97 * (10 * q + p) + 98 = 97 * (10 * v + w) + u
    BY <1>1, <1>2, <1>3, <1>4, <1>5, <1>6, <2>1, <2>2, <2>3
  <2> DEFINE x == 10 * q + p
             y == 10 * v + w
  <2>5. x \in Nat /\ y \in Nat
    BY <1>1, <1>2, <1>5, <1>6
  <2> HIDE DEF x, y
  <2>6. 97 * x + 98 = 97 * y + u
    BY <2>4 DEF x, y
  <2> QED BY <1>6, <2>5, <2>6
<1> QED BY <1>4, <1>7, <1>8, Zenon DEF AreCheckDigits, c1, c2

\* The function that IsValidIban defines, for the digits.
IsOneModulo97(digits) == (CHOOSE h : IsRemainders(h, digits, Len(digits)))[Len(digits)] = 1

(* An address whose digits have remainders, with those of its check digits. *)
LEMMA RemaindersOfDigits ==
  ASSUME NEW digits \in Seq(Digit)
  PROVE  \E h : HaveRemainders(h, digits) /\ (IsOneModulo97(digits) <=> h[Len(digits)] = 1)
<1> DEFINE h == CHOOSE f : IsRemainders(f, digits, Len(digits))
<1>1. IsRemainders(h, digits, Len(digits))
  BY RemaindersExist, Zenon
<1>2. IsOneModulo97(digits) <=> h[Len(digits)] = 1
  BY Zenon DEF IsOneModulo97
<1> HIDE DEF h
<1>3. HaveRemainders(h, digits)
  BY <1>1, RemaindersAre, Zenon
<1> QED BY <1>2, <1>3, Zenon

(* Whether a text is valid depends on the digits of the text with its front moved to the end. *)
LEMMA ValidByDigits ==
  ASSUME NEW text, NEW length, Len(text) = length
  PROVE  IsValidIban(text)
           <=> IsOneModulo97(Decimals(SubSeq(text, 5, length) \o SubSeq(text, 1, 4)))
<1> DEFINE IsValidDigits(digits) ==
             LET h == CHOOSE f : IsRemainders(f, digits, Len(digits)) IN h[Len(digits)] = 1
           digits == Decimals(SubSeq(text, 5, length) \o SubSeq(text, 1, 4))
<1>1. IsValidIban(text) <=> IsValidDigits(Decimals(SubSeq(text, 5, Len(text)) \o SubSeq(text, 1, 4)))
  BY Zenon DEF IsValidIban, IsRemainders
<1>2. IsValidDigits(digits) <=> IsOneModulo97(digits)
  BY Zenon DEF IsOneModulo97
<1> HIDE DEF IsValidDigits
<1>3. IsValidIban(text) <=> IsValidDigits(digits)
  BY <1>1, Zenon
<1> QED BY <1>2, <1>3, Zenon

\* The check digits that iban_check computes.
HasCheckDigits(base32, c1, c2) ==
  /\ c1 \in Digit /\ c2 \in Digit /\ IbanCheck(base32) = <<c1, c2>>
  /\ IsOneModulo97(Decimals(Rearranged(base32, c1, c2)))

(* The check digits that iban_check computes make the remainder 1. *)
LEMMA CheckDigitsOfAddress ==
  ASSUME NEW base32 \in Seq(0..34), Len(base32) = 32
  PROVE  \E c1, c2 : HasCheckDigits(base32, c1, c2)
<1>1. PICK d \in Seq(Digit) :
        /\ Len(d) <= 68
        /\ \A c1, c2 \in Digit : Decimals(Rearranged(base32, c1, c2)) = (d \o <<c1>>) \o <<c2>>
  BY DecimalsOfRearranged, Zenon
<1>2. PICK g : HaveRemainders(g, d)
  BY RemaindersOfDigits, Zenon
<1> DEFINE length == Len(d)
           r == g[length]
           total == Decimals(Rearranged(base32, 0, 0))
           check == 98 - ((10 * ((10 * r + 0) % 97) + 0) % 97)
           c1 == check \div 10
           c2 == check % 10
           all == (d \o <<c1>>) \o <<c2>>
<1>3. length \in Nat /\ length <= 68 /\ r \in 0..96
  <2>1. length \in Nat /\ length <= 68
    BY <1>1
  <2> HIDE DEF length
  <2>2. \A n \in 0..length : g[n] \in 0..96
    BY <1>2, Zenon DEF HaveRemainders, length
  <2> QED BY <2>1, <2>2
<1>4. 0 \in Digit
  BY DEF Digit
<1>5. total = (d \o <<0>>) \o <<0>> /\ total = Decimals(base32 \o CountryCode)
  BY <1>1, <1>4, Zenon DEF Rearranged, CountryCode
<1> HIDE DEF length, r, total, check
<1>6. AreCheckDigits(r, c1, c2)
  BY <1>3, CheckDigits DEF check
<1> HIDE DEF c1, c2
<1>7. c1 \in Digit /\ c2 \in Digit /\ (10 * ((10 * r + c1) % 97) + c2) % 97 = 1
  BY <1>6, Zenon DEF AreCheckDigits
<1>8. PICK h : AreTwoMore(total, h, length, r, 0, 0) /\ HaveRemainders(h, total)
  <2>1. \E h : HaveRemainders(h, total)
    <3>1. total \in Seq(Digit)
      BY <1>4, <1>5
    <3> QED BY <3>1, RemaindersOfDigits, Zenon
  <2>2. ASSUME NEW h, HaveRemainders(h, total) PROVE AreTwoMore(total, h, length, r, 0, 0)
    <3>1. HaveRemainders(h, (d \o <<0>>) \o <<0>>)
      BY <1>5, <2>2, Zenon
    <3>2. AreTwoMore((d \o <<0>>) \o <<0>>, h, Len(d), g[Len(d)], 0, 0)
      BY <1>2, <1>4, <3>1, TwoMoreDigits
    <3> QED BY <1>5, <3>2, Zenon DEF length, r
  <2> QED BY <2>1, <2>2, Zenon
<1>9. IbanCheck(base32) = <<c1, c2>>
  <2>1. /\ total \in Seq(Digit) /\ Len(total) = length + 2
        /\ h[length + 2] = (10 * ((10 * r + 0) % 97) + 0) % 97
    BY <1>8, Zenon DEF AreTwoMore
  <2>2. Len(total) <= 72 /\ check = 98 - h[Len(total)]
    <3>1. Len(total) <= 72
      BY <1>3, <2>1
    <3> QED BY <2>1, <3>1, Zenon DEF check
  <2>3. IbanCheck(base32) = <<check \div 10, check % 10>>
    <3>1. IsCheckOf(base32, total, h, check)
      BY <1>5, <1>8, <2>1, <2>2, Zenon DEF IsCheckOf
    <3> QED BY <3>1, IbanCheckIs
  <2> QED BY <2>3, Zenon DEF c1, c2
<1>10. IsOneModulo97(Decimals(Rearranged(base32, c1, c2)))
  <2>1. Decimals(Rearranged(base32, c1, c2)) = all
    BY <1>1, <1>7, Zenon
  <2>2. all \in Seq(Digit)
    BY <1>7
  <2> HIDE DEF all
  <2>3. PICK k : HaveRemainders(k, all) /\ (IsOneModulo97(all) <=> k[Len(all)] = 1)
    BY <2>2, RemaindersOfDigits, Zenon
  <2>4. AreTwoMore(all, k, length, r, c1, c2)
    BY <1>2, <1>7, <2>3, TwoMoreDigits DEF all, length, r
  <2>5. k[Len(all)] = 1
    BY <1>7, <2>4, Zenon DEF AreTwoMore
  <2> QED BY <2>1, <2>3, <2>5, Zenon
<1> QED BY <1>7, <1>9, <1>10, Zenon DEF HasCheckDigits

(* Two elements behind two others. *)
LEMMA FourElements ==
  ASSUME NEW a \in Nat, NEW b \in Nat, NEW c \in Nat, NEW d \in Nat
  PROVE  <<a, b>> \o <<c, d>> = <<a, b, c, d>>
<1> DEFINE front == <<a, b>>
           back == <<c, d>>
           s == front \o back
           t == <<a, b, c, d>>
<1>1. /\ front \in Seq(Nat) /\ Len(front) = 2 /\ front[1] = a /\ front[2] = b
      /\ back \in Seq(Nat) /\ Len(back) = 2 /\ back[1] = c /\ back[2] = d
      /\ t \in Seq(Nat) /\ Len(t) = 4 /\ t[1] = a /\ t[2] = b /\ t[3] = c /\ t[4] = d
  OBVIOUS
<1> HIDE DEF front, back, t
<1>2. s \in Seq(Nat) /\ IsConcatenation(s, front, back)
  BY <1>1, Concatenation, Zenon
<1> HIDE DEF s
<1>3. /\ Len(s) = Len(front) + Len(back)
      /\ \A i \in 1..Len(front) : s[i] = front[i]
      /\ \A i \in 1..Len(back) : s[Len(front) + i] = back[i]
  BY <1>2, Zenon DEF IsConcatenation
<1>4. Len(s) = 4 /\ s[1] = a /\ s[2] = b
  BY <1>1, <1>3
<1>5. s[2 + 1] = c /\ s[2 + 2] = d
  BY <1>1, <1>3
<1>6. s[3] = c /\ s[4] = d
  BY <1>5
<1>7. s = [i \in 1..4 |-> s[i]] /\ t = [i \in 1..4 |-> t[i]]
  BY <1>1, <1>2, <1>4
<1>8. \A i \in 1..4 : s[i] = t[i]
  BY <1>1, <1>4, <1>6
<1>9. s = t
  BY <1>7, <1>8, Zenon
<1> QED BY <1>9 DEF s, t, front, back

(* The country code, and what is in front of an address. *)
LEMMA CountryIs == SubSeq(CountryCode, 1, 2) = <<23, 26>>
<1> DEFINE s == SubSeq(CountryCode, 1, 2)
<1>1. CountryCode \in Seq(Nat) /\ Len(CountryCode) = 4 /\ CountryCode[1] = 23 /\ CountryCode[2] = 26
  BY DEF CountryCode
<1>2. s \in Seq(Nat) /\ Len(s) = 2
  BY <1>1
<1>3. s[1] = CountryCode[1] /\ s[2] = CountryCode[2]
  BY <1>1
<1> HIDE DEF s
<1>4. s = [i \in 1..2 |-> s[i]] /\ <<23, 26>> = [i \in 1..2 |-> IF i = 1 THEN 23 ELSE 26]
  BY <1>2
<1>5. \A i \in 1..2 : s[i] = IF i = 1 THEN 23 ELSE 26
  BY <1>1, <1>3
<1>6. s = <<23, 26>>
  BY <1>4, <1>5, Zenon
<1> QED BY <1>6 DEF s

(* Country code and check digits are four characters. *)
LEMMA FrontIs ==
  ASSUME NEW base32, NEW c1, NEW c2, HasCheckDigits(base32, c1, c2)
  PROVE  SubSeq(CountryCode, 1, 2) \o IbanCheck(base32) = <<23, 26, c1, c2>>
<1>1. c1 \in Digit /\ c2 \in Digit /\ IbanCheck(base32) = <<c1, c2>>
  BY Zenon DEF HasCheckDigits
<1>2. <<23, 26>> \o <<c1, c2>> = <<23, 26, c1, c2>>
  <2>1. c1 \in Nat /\ c2 \in Nat
    BY <1>1 DEF Digit
  <2> QED BY <2>1, FourElements
<1> QED BY <1>1, <1>2, CountryIs, Zenon

\* The text of an address without its separators: country code, check digits, address.
IsCompactAddress(text, base32) ==
  /\ Len(text) = 36
  /\ SubSeq(text, 1, 4) = SubSeq(CountryCode, 1, 2) \o IbanCheck(base32)
  /\ SubSeq(text, 5, 36) = base32

(* It is valid as an IBAN. *)
LEMMA CompactAddressIsValid ==
  ASSUME NEW base32 \in Seq(0..34), Len(base32) = 32, NEW text, IsCompactAddress(text, base32)
  PROVE  IsValidIban(text)
<1>1. PICK c1, c2 : HasCheckDigits(base32, c1, c2)
  BY CheckDigitsOfAddress, Zenon
<1>2. SubSeq(CountryCode, 1, 2) \o IbanCheck(base32) = <<23, 26, c1, c2>>
  BY <1>1, FrontIs
<1>3. SubSeq(text, 5, 36) \o SubSeq(text, 1, 4) = Rearranged(base32, c1, c2)
  BY <1>2, Zenon DEF IsCompactAddress, Rearranged
<1>4. IsOneModulo97(Decimals(SubSeq(text, 5, 36) \o SubSeq(text, 1, 4)))
  BY <1>1, <1>3, Zenon DEF HasCheckDigits
<1> QED BY <1>4, ValidByDigits, Zenon DEF IsCompactAddress

-----------------------------------------------------------------------------
(* Groups of four *)

\* Each group is a separator, and four characters.
IsGrouped(g, front, base32) ==
  g = [n \in 0..8 |->
         IF n = 0 THEN front
         ELSE g[n - 1] \o <<SPACE>> \o SubSeq(base32, 4 * n - 3, 4 * n)]

\* Characters with a separator behind every four of them.
IsSpaced(s, flat, length) ==
  /\ s \in Seq(Nat) /\ Len(s) = length
  /\ \A k \in 1..length : k % 5 # 0 => s[k] = flat[k - (k \div 5)]
  /\ \A k \in 1..length : k % 5 = 0 => s[k] = SPACE

\* A group more.
WithGroup(s, base32, n) == s \o <<SPACE>> \o SubSeq(base32, 4 * n - 3, 4 * n)

IsFlat(flat, front, base32) ==
  /\ front \in Seq(0..35) /\ Len(front) = 4
  /\ base32 \in Seq(0..35) /\ Len(base32) = 32
  /\ flat \in Seq(0..35) /\ Len(flat) = 36
  /\ \A i \in 1..4 : flat[i] = front[i]
  /\ \A i \in 1..32 : flat[4 + i] = base32[i]

(* Characters in front of the address, and those of the address. *)
LEMMA FlatExists ==
  ASSUME NEW front \in Seq(0..35), Len(front) = 4, NEW base32 \in Seq(0..35), Len(base32) = 32
  PROVE  IsFlat(front \o base32, front, base32)
<1> DEFINE flat == front \o base32
<1>1. flat \in Seq(0..35) /\ IsConcatenation(flat, front, base32)
  BY Concatenation, Zenon
<1> HIDE DEF flat
<1>2. /\ Len(flat) = Len(front) + Len(base32)
      /\ \A i \in 1..Len(front) : flat[i] = front[i]
      /\ \A i \in 1..Len(base32) : flat[Len(front) + i] = base32[i]
  BY <1>1, Zenon DEF IsConcatenation
<1>3. Len(flat) = 36
  BY <1>2
<1>4. \A i \in 1..4 : flat[i] = front[i]
  BY <1>2
<1>5. \A i \in 1..32 : flat[4 + i] = base32[i]
  BY <1>2
<1> QED BY <1>1, <1>3, <1>4, <1>5, Zenon DEF IsFlat, flat

(* A sequence over a set is one over any larger set. *)
LEMMA InLargerSet ==
  ASSUME NEW S, NEW T, S \subseteq T, NEW s \in Seq(S)
  PROVE  s \in Seq(T)
<1>1. \A i \in 1..Len(s) : s[i] \in S
  BY ElementsOf, Zenon
<1>2. \A i \in 1..Len(s) : s[i] \in T
  BY <1>1
<1>3. Len(s) \in Nat /\ s = [i \in 1..Len(s) |-> s[i]]
  OBVIOUS
<1>4. s \in [1..Len(s) -> T]
  BY <1>2, <1>3
<1> QED BY <1>3, <1>4

\* A part of a sequence.
IsPart(t, S, s, first, last) ==
  /\ t \in Seq(S) /\ Len(t) = (last - first) + 1
  /\ \A j \in 1..((last - first) + 1) : t[j] = s[(first + j) - 1]

(* It is what SubSeq cuts out. *)
LEMMA PartOfSequence ==
  ASSUME NEW S, NEW s \in Seq(S), NEW first \in Nat, NEW last \in Nat,
         1 <= first, first <= last, last <= Len(s)
  PROVE  IsPart(SubSeq(s, first, last), S, s, first, last)
<1>1. SubSeq(s, first, last) \in Seq(S)
  OBVIOUS
<1>2. Len(SubSeq(s, first, last)) = (last - first) + 1
  OBVIOUS
<1>3. \A j \in 1..((last - first) + 1) : SubSeq(s, first, last)[j] = s[(first + j) - 1]
  <2> SUFFICES ASSUME NEW j \in 1..((last - first) + 1) PROVE SubSeq(s, first, last)[j] = s[(first + j) - 1]
    OBVIOUS
  <2>1. SubSeq(s, first, last)[j] = s[first + j - 1]
    OBVIOUS
  <2> QED BY <2>1
<1> QED BY <1>1, <1>2, <1>3, Zenon DEF IsPart

\* A text with a group more.
IsWithGroup(t, s, base32, n) ==
  /\ t \in Seq(Nat) /\ Len(t) = Len(s) + 5
  /\ \A k \in 1..Len(s) : t[k] = s[k]
  /\ t[Len(s) + 1] = SPACE
  /\ \A j \in 1..4 : t[(Len(s) + 1) + j] = base32[4 * n - 4 + j]

(* A separator and four characters of the address are appended. *)
LEMMA GroupIs ==
  ASSUME NEW s \in Seq(Nat), NEW base32 \in Seq(0..35), Len(base32) = 32, NEW n \in 1..8
  PROVE  IsWithGroup(WithGroup(s, base32, n), s, base32, n)
<1> DEFINE first == 4 * n - 3
           last == 4 * n
           group == SubSeq(base32, first, last)
           more == s \o <<SPACE>>
           length == Len(s)
           all == more \o group
<1>1. first \in 1..32 /\ last \in 1..32 /\ first <= last /\ (last - first) + 1 = 4 /\ length \in Nat
  OBVIOUS
<1>2. base32 \in Seq(Nat)
  <2>1. 0..35 \subseteq Nat
    OBVIOUS
  <2> QED BY <2>1, InLargerSet, Zenon
<1>3. group \in Seq(Nat) /\ Len(group) = 4 /\ \A j \in 1..4 : group[j] = base32[4 * n - 4 + j]
  <2>1. 32 = Len(base32)
    OBVIOUS
  <2> HIDE DEF first, last
  <2>2. group \in Seq(Nat) /\ Len(group) = (last - first) + 1
        /\ \A j \in 1..((last - first) + 1) : group[j] = base32[(first + j) - 1]
    <3>1. first \in Nat /\ last \in Nat /\ 1 <= first /\ last <= Len(base32)
      BY <1>1, <2>1
    <3>2. IsPart(group, Nat, base32, first, last)
      BY <1>1, <1>2, <3>1, PartOfSequence DEF group
    <3> QED BY <3>2, Zenon DEF IsPart
  <2>3. \A j \in 1..4 : (first + j) - 1 = 4 * n - 4 + j
    BY DEF first
  <2>4. \A j \in 1..4 : group[j] = base32[(first + j) - 1]
    BY <1>1, <2>2
  <2>5. \A j \in 1..4 : group[j] = base32[4 * n - 4 + j]
    BY <2>3, <2>4, Zenon
  <2> QED BY <1>1, <2>2, <2>5
<1> HIDE DEF group
<1>4. more \in Seq(Nat) /\ Len(more) = length + 1 /\ more[length + 1] = SPACE
      /\ \A k \in 1..length : more[k] = s[k]
  BY DEF SPACE
<1> HIDE DEF more
<1>5. all \in Seq(Nat) /\ IsConcatenation(all, more, group)
  BY <1>3, <1>4, Concatenation, Zenon
<1>6. all = WithGroup(s, base32, n)
  BY Zenon DEF WithGroup, more, group
<1> HIDE DEF all, length
<1>7. /\ Len(all) = Len(more) + Len(group)
      /\ \A k \in 1..Len(more) : all[k] = more[k]
      /\ \A j \in 1..Len(group) : all[Len(more) + j] = group[j]
  BY <1>5, Zenon DEF IsConcatenation
<1>8. Len(all) = length + 5
  BY <1>1, <1>3, <1>4, <1>7
<1>9. \A k \in 1..length : all[k] = s[k]
  BY <1>1, <1>4, <1>7
<1>10. all[length + 1] = SPACE
  BY <1>1, <1>4, <1>7
<1>11. \A j \in 1..4 : all[(length + 1) + j] = base32[4 * n - 4 + j]
  <2>1. \A j \in 1..4 : all[(length + 1) + j] = group[j]
    BY <1>3, <1>4, <1>7
  <2> QED BY <1>3, <2>1, Zenon
<1> QED BY <1>5, <1>6, <1>8, <1>9, <1>10, <1>11, Zenon DEF length, IsWithGroup

(* With a group more, there is one behind every four characters still. *)
LEMMA SpacedWithGroup ==
  ASSUME NEW front, NEW base32, NEW flat, IsFlat(flat, front, base32),
         NEW n \in 1..8, NEW s, IsSpaced(s, flat, 5 * n - 1)
  PROVE  IsSpaced(WithGroup(s, base32, n), flat, 5 * n + 4)
<1> DEFINE t == WithGroup(s, base32, n)
           length == 5 * n - 1
<1>1. /\ s \in Seq(Nat) /\ Len(s) = length
      /\ \A k \in 1..length : k % 5 # 0 => s[k] = flat[k - (k \div 5)]
      /\ \A k \in 1..length : k % 5 = 0 => s[k] = SPACE
  BY Zenon DEF IsSpaced
<1>2. /\ base32 \in Seq(0..35) /\ Len(base32) = 32
      /\ \A i \in 1..32 : flat[4 + i] = base32[i]
  BY Zenon DEF IsFlat
<1>3. /\ t \in Seq(Nat) /\ Len(t) = Len(s) + 5
      /\ \A k \in 1..Len(s) : t[k] = s[k]
      /\ t[Len(s) + 1] = SPACE
      /\ \A j \in 1..4 : t[(Len(s) + 1) + j] = base32[4 * n - 4 + j]
  <2>1. IsWithGroup(t, s, base32, n)
    BY <1>1, <1>2, GroupIs
  <2> QED BY <2>1, Zenon DEF IsWithGroup
<1> HIDE DEF t
<1>4. Len(t) = 5 * n + 4 /\ t[5 * n] = SPACE
  <2>1. length + 5 = 5 * n + 4 /\ length + 1 = 5 * n
    OBVIOUS
  <2> QED BY <1>1, <1>3, <2>1
<1>5. \A k \in 1..length : t[k] = s[k]
  BY <1>1, <1>3
<1>6. \A j \in 1..4 : t[5 * n + j] = flat[4 * n + j]
  <2> SUFFICES ASSUME NEW j \in 1..4 PROVE t[5 * n + j] = flat[4 * n + j]
    OBVIOUS
  <2>1. length + 1 = 5 * n
    OBVIOUS
  <2> HIDE DEF length
  <2>2. t[5 * n + j] = base32[4 * n - 4 + j]
    BY <1>1, <1>3, <2>1
  <2> DEFINE i == 4 * n - 4 + j
  <2>3. i \in 1..32 /\ 4 + i = 4 * n + j
    OBVIOUS
  <2> HIDE DEF i
  <2>4. flat[4 + i] = base32[i]
    BY <1>2, <2>3
  <2> QED BY <2>2, <2>3, <2>4 DEF i
<1>7. ASSUME NEW k \in 1..(5 * n + 4)
      PROVE  (k % 5 # 0 => t[k] = flat[k - (k \div 5)]) /\ (k % 5 = 0 => t[k] = SPACE)
  <2>1. CASE k \in 1..length
    BY <1>1, <1>5, <2>1, Zenon
  <2>2. CASE k = 5 * n
    <3>1. k % 5 = 0
      BY <2>2
    <3> QED BY <1>4, <2>2, <3>1
  <2>3. ASSUME NEW j \in 1..4, k = 5 * n + j
        PROVE  (k % 5 # 0 => t[k] = flat[k - (k \div 5)]) /\ (k % 5 = 0 => t[k] = SPACE)
    <3>1. k % 5 = j /\ k \div 5 = n
      BY <2>3
    <3>2. k - (k \div 5) = 4 * n + j
      BY <2>3, <3>1
    <3>3. k % 5 # 0
      BY <3>1
    <3>4. t[k] = flat[k - (k \div 5)]
      BY <1>6, <2>3, <3>2, Zenon
    <3> QED BY <3>3, <3>4, Zenon
  <2>4. k \in 1..length \/ k = 5 * n \/ \E j \in 1..4 : k = 5 * n + j
    <3>1. CASE k > 5 * n
      <4>1. k - 5 * n \in 1..4 /\ k = 5 * n + (k - 5 * n)
        BY <3>1
      <4> QED BY <4>1
    <3>2. CASE k <= 5 * n
      BY <3>2
    <3> QED BY <3>1, <3>2
  <2> QED BY <2>1, <2>2, <2>3, <2>4
<1> HIDE DEF length
<1>8. /\ \A k \in 1..(5 * n + 4) : k % 5 # 0 => t[k] = flat[k - (k \div 5)]
      /\ \A k \in 1..(5 * n + 4) : k % 5 = 0 => t[k] = SPACE
  BY <1>7, Zenon
<1> QED BY <1>3, <1>4, <1>8, Zenon DEF IsSpaced, t

(* The groups that print_address writes, one after the other. *)
LEMMA GroupedExists ==
  ASSUME NEW front \in Seq(0..35), NEW base32 \in Seq(0..35), Len(base32) = 32
  PROVE  \E g : IsGrouped(g, front, base32)
<1> DEFINE step == [n \in 1..8 |-> [s \in Seq(Nat) |-> WithGroup(s, base32, n)]]
<1>1. front \in Seq(Nat)
  <2>1. 0..35 \subseteq Nat
    OBVIOUS
  <2> QED BY <2>1, InLargerSet, Zenon
<1>2. \A n \in 1..8 : \A s \in Seq(Nat) : step[n][s] = WithGroup(s, base32, n)
  BY Zenon
<1>3. \A n \in 1..8 : \A s \in Seq(Nat) : step[n][s] \in Seq(Nat)
  <2> SUFFICES ASSUME NEW n \in 1..8, NEW s \in Seq(Nat) PROVE step[n][s] \in Seq(Nat)
    OBVIOUS
  <2>1. IsWithGroup(WithGroup(s, base32, n), s, base32, n)
    BY GroupIs
  <2> HIDE DEF step
  <2> QED BY <1>2, <2>1, Zenon DEF IsWithGroup
<1> HIDE DEF step
<1>4. PICK g \in [0..8 -> Seq(Nat)] : Goes(g, front, step, 8)
  <2>1. 8 \in Nat
    OBVIOUS
  <2> QED BY <1>1, <1>3, <2>1, StepByStep
<1>5. \A n \in 0..8 : g[n] = IF n = 0 THEN front ELSE WithGroup(g[n - 1], base32, n)
  <2>1. \A n \in 0..8 : n # 0 => n \in 1..8 /\ n - 1 \in 0..8
    OBVIOUS
  <2>2. g[0] = front /\ \A n \in 1..8 : g[n] = step[n][g[n - 1]]
    BY <1>4, Zenon DEF Goes
  <2>3. ASSUME NEW n \in 0..8, n # 0 PROVE g[n] = WithGroup(g[n - 1], base32, n)
    <3>1. n \in 1..8 /\ g[n - 1] \in Seq(Nat)
      BY <2>1, <2>3
    <3> QED BY <1>2, <2>2, <3>1, Zenon
  <2> QED BY <2>2, <2>3, Zenon
<1>6. g = [n \in 0..8 |-> g[n]]
  OBVIOUS
<1> QED BY <1>5, <1>6, Zenon DEF IsGrouped, WithGroup

(* The groups are what print_address promises. *)
LEMMA GroupsAreSpaced ==
  ASSUME NEW front, NEW base32, NEW flat, IsFlat(flat, front, base32),
         NEW g, IsGrouped(g, front, base32)
  PROVE  IsSpaced(g[8], flat, 44)
<1>1. \A n \in 0..8 : g[n] = IF n = 0 THEN front ELSE WithGroup(g[n - 1], base32, n)
  BY Zenon DEF IsGrouped, WithGroup
<1> DEFINE S == {n \in 0..8 : IsSpaced(g[n], flat, 5 * n + 4)}
<1>2. 0 \in S
  <2>1. front \in Seq(0..35) /\ Len(front) = 4 /\ \A i \in 1..4 : flat[i] = front[i]
    BY Zenon DEF IsFlat
  <2>2. front \in Seq(Nat)
    <3>1. 0..35 \subseteq Nat
      OBVIOUS
    <3> QED BY <2>1, <3>1, InLargerSet, Zenon
  <2>3. \A k \in 1..4 : k % 5 # 0 /\ k - (k \div 5) = k
    OBVIOUS
  <2>4. IsSpaced(front, flat, 4)
    BY <2>1, <2>2, <2>3, Zenon DEF IsSpaced
  <2>5. 0 \in 0..8 /\ 5 * 0 + 4 = 4
    OBVIOUS
  <2>6. g[0] = front
    BY <1>1, <2>5, Zenon
  <2> QED BY <2>4, <2>5, <2>6
<1>3. ASSUME NEW n \in 0..(8 - 1), n \in S PROVE n + 1 \in S
  <2> DEFINE m == n + 1
  <2>1. m \in 1..8 /\ m \in 0..8 /\ m # 0 /\ m - 1 = n /\ 5 * n + 4 = 5 * m - 1
    OBVIOUS
  <2>2. IsSpaced(g[n], flat, 5 * n + 4)
    BY <1>3
  <2> HIDE DEF m
  <2>3. IsSpaced(g[n], flat, 5 * m - 1)
    BY <2>1, <2>2, Zenon
  <2>4. IsSpaced(WithGroup(g[n], base32, m), flat, 5 * m + 4)
    BY <2>1, <2>3, SpacedWithGroup, Zenon
  <2>5. g[m] = WithGroup(g[n], base32, m)
    BY <1>1, <2>1, Zenon
  <2>6. IsSpaced(g[m], flat, 5 * m + 4)
    BY <2>4, <2>5, Zenon
  <2> QED BY <2>1, <2>6 DEF m
<1> HIDE DEF S
<1>4. 0..8 \subseteq S
  <2>1. 8 \in Nat
    OBVIOUS
  <2> QED BY <1>2, <1>3, <2>1, UpTo
<1>5. 8 \in S /\ 5 * 8 + 4 = 44
  BY <1>4
<1> QED BY <1>5 DEF S

(* So is the text that print_address writes. *)
LEMMA PrintedIsSpaced ==
  ASSUME NEW address, NEW base32, base32 = Base32Encode(address),
         NEW front, front = SubSeq(CountryCode, 1, 2) \o IbanCheck(base32),
         NEW flat, IsFlat(flat, front, base32)
  PROVE  IsSpaced(PrintAddress(address), flat, 44)
<1> DEFINE g == CHOOSE f : IsGrouped(f, front, base32)
           GroupsOf(f, b) == (CHOOSE h : IsGrouped(h, f, b))[8]
<1>1. PrintAddress(address)
        = GroupsOf(SubSeq(CountryCode, 1, 2) \o IbanCheck(Base32Encode(address)), Base32Encode(address))
  BY Zenon DEF PrintAddress, IsGrouped
<1>2. GroupsOf(front, base32) = g[8]
  OBVIOUS
<1> HIDE DEF GroupsOf
<1>3. PrintAddress(address) = g[8]
  BY <1>1, <1>2, Zenon
<1>4. IsGrouped(g, front, base32)
  <2>1. front \in Seq(0..35) /\ base32 \in Seq(0..35) /\ Len(base32) = 32
    BY Zenon DEF IsFlat
  <2> QED BY <2>1, GroupedExists, Zenon
<1> HIDE DEF g
<1> QED BY <1>3, <1>4, GroupsAreSpaced, Zenon

-----------------------------------------------------------------------------
(* A page of the address, and its characters without separators *)

IsPage(p, flat) ==
  /\ Len(p) = 44
  /\ \A k \in 1..44 : k % 5 # 0 => p[k] = flat[k - (k \div 5)]
  /\ \A k \in 1..44 : k % 5 = 0 => p[k] \in {SPACE, NEWLINE}

(* The lines of a page are broken at separators only. *)
LEMMA PagesAre ==
  ASSUME NEW s, NEW flat, IsSpaced(s, flat, 44), NEW p \in Pages(s)
  PROVE  IsPage(p, flat)
<1>1. /\ s \in Seq(Nat) /\ Len(s) = 44
      /\ \A k \in 1..44 : k % 5 # 0 => s[k] = flat[k - (k \div 5)]
      /\ \A k \in 1..44 : k % 5 = 0 => s[k] = SPACE
  BY Zenon DEF IsSpaced
<1>2. CASE p = s
  <2>1. Len(p) = 44
    BY <1>1, <1>2
  <2>2. \A k \in 1..44 : k % 5 # 0 => p[k] = flat[k - (k \div 5)]
    BY <1>1, <1>2, Zenon
  <2>3. \A k \in 1..44 : k % 5 = 0 => p[k] \in {SPACE, NEWLINE}
    BY <1>1, <1>2, Zenon
  <2> QED BY <2>1, <2>2, <2>3, Zenon DEF IsPage
<1>3. CASE p = [s EXCEPT ![15] = NEWLINE, ![30] = NEWLINE]
  <2>1. s = [k \in 1..44 |-> s[k]]
    BY <1>1
  <2>2. p = [k \in 1..44 |-> IF k \in {15, 30} THEN NEWLINE ELSE s[k]]
    BY <1>3, <2>1
  <2>3. \A k \in 1..44 : p[k] = IF k \in {15, 30} THEN NEWLINE ELSE s[k]
    BY <2>2, Zenon
  <2>4. Len(p) = 44
    BY <2>2
  <2>5. \A k \in {15, 30} : k % 5 = 0
    OBVIOUS
  <2>6. \A k \in 1..44 : k % 5 # 0 => p[k] = flat[k - (k \div 5)]
    BY <1>1, <2>3, <2>5, Zenon
  <2>7. \A k \in 1..44 : k % 5 = 0 => p[k] \in {SPACE, NEWLINE}
    BY <1>1, <2>3, Zenon
  <2> QED BY <2>4, <2>6, <2>7, Zenon DEF IsPage
<1> QED BY <1>2, <1>3, Zenon DEF Pages

\* The first characters of a text.
Start(text, n) == SubSeq(text, 1, n)

(* They grow by a character. *)
LEMMA StartGrows ==
  ASSUME NEW S, NEW text \in Seq(S), NEW n \in Nat, n < Len(text)
  PROVE  Append(Start(text, n), text[n + 1]) = Start(text, n + 1)
<1> DEFINE s == Start(text, n)
           c == text[n + 1]
           t == Start(text, n + 1)
           u == Append(s, c)
<1>1. s \in Seq(S) /\ Len(s) = n
  BY DEF Start
<1>2. \A i \in 1..n : s[i] = text[i]
  BY DEF Start
<1>3. t \in Seq(S) /\ Len(t) = n + 1
  BY DEF Start
<1>4. \A i \in 1..(n + 1) : t[i] = text[i]
  BY DEF Start
<1>5. c \in S
  OBVIOUS
<1> HIDE DEF s, t, c
<1>6. u \in Seq(S) /\ Len(u) = n + 1
  BY <1>1, <1>5
<1>7. \A i \in 1..n : u[i] = s[i]
  BY <1>1, <1>5
<1>8. u[n + 1] = c
  BY <1>1, <1>5
<1>9. \A i \in 1..(n + 1) : u[i] = t[i]
  <2> SUFFICES ASSUME NEW i \in 1..(n + 1) PROVE u[i] = t[i]
    OBVIOUS
  <2> HIDE DEF u
  <2>1. CASE i \in 1..n
    BY <1>2, <1>4, <1>7, <2>1
  <2>2. CASE i = n + 1
    BY <1>4, <1>8, <2>2, Zenon DEF c
  <2> QED BY <2>1, <2>2
<1> HIDE DEF u
<1>10. u = [i \in 1..(n + 1) |-> u[i]] /\ t = [i \in 1..(n + 1) |-> t[i]]
  BY <1>3, <1>6
<1>11. u = t
  BY <1>9, <1>10, Zenon
<1> QED BY <1>11, Zenon DEF u, t, s, c

(* All of them are the text. *)
LEMMA WholeStart ==
  ASSUME NEW S, NEW text \in Seq(S), NEW length, length = Len(text)
  PROVE  Start(text, length) = text
<1> DEFINE t == Start(text, length)
<1>1. t \in Seq(S) /\ Len(t) = length
  BY DEF Start
<1>2. \A i \in 1..length : t[i] = text[i]
  BY DEF Start
<1>3. length \in Nat
  OBVIOUS
<1> HIDE DEF t
<1>4. t = [i \in 1..length |-> t[i]] /\ text = [i \in 1..length |-> text[i]]
  BY <1>1
<1>5. t = text
  BY <1>2, <1>4, Zenon
<1> QED BY <1>5, Zenon DEF t

(* There are none at first. *)
LEMMA EmptyStart ==
  ASSUME NEW S, NEW text \in Seq(S)
  PROVE  Start(text, 0) = <<>>
<1> DEFINE t == Start(text, 0)
<1>1. t \in Seq(S) /\ Len(t) = 0
  BY DEF Start
<1> HIDE DEF t
<1> QED BY <1>1, NoElements, Zenon DEF t

\* The function that Compact defines.
IsCompact(e, p, length) ==
  e = [n \in 0..length |->
         IF n = 0 THEN <<>>
         ELSE IF p[n] \in {SPACE, NEWLINE} THEN e[n - 1]
         ELSE Append(e[n - 1], p[n])]

CompactStep(before, c) == IF c \in {SPACE, NEWLINE} THEN before ELSE Append(before, c)

(* A character more. *)
LEMMA CharacterMore ==
  ASSUME NEW p, NEW flat \in Seq(0..35), Len(flat) = 36, IsPage(p, flat), NEW k \in 1..44,
         NEW before, before = k - 1
  PROVE  CompactStep(Start(flat, before - (before \div 5)), p[k]) = Start(flat, k - (k \div 5))
<1>1. /\ \A i \in 1..44 : i % 5 # 0 => p[i] = flat[i - (i \div 5)]
      /\ \A i \in 1..44 : i % 5 = 0 => p[i] \in {SPACE, NEWLINE}
  BY Zenon DEF IsPage
<1> DEFINE m == before - (before \div 5)
           n == k - (k \div 5)
<1>2. CASE k % 5 = 0
  <2>1. m = n
    BY <1>2
  <2>2. p[k] \in {SPACE, NEWLINE}
    BY <1>1, <1>2, Zenon
  <2> HIDE DEF m, n
  <2>3. CompactStep(Start(flat, m), p[k]) = Start(flat, n)
    BY <2>1, <2>2, Zenon DEF CompactStep
  <2> QED BY <2>3, Zenon DEF m, n
<1>3. CASE k % 5 # 0
  <2>1. n = m + 1 /\ m \in Nat /\ m < 36
    BY <1>3
  <2>2. p[k] = flat[n]
    BY <1>1, <1>3, Zenon
  <2> HIDE DEF m, n
  <2>3. n \in 1..Len(flat) /\ m < Len(flat)
    BY <2>1
  <2>4. flat[n] \in 0..35
    BY <2>3, ElementsOf
  <2>5. p[k] \notin {SPACE, NEWLINE}
    <3>1. \A c \in 0..35 : c # SPACE /\ c # NEWLINE
      BY DEF SPACE, NEWLINE
    <3> QED BY <2>2, <2>4, <3>1, Zenon
  <2>6. Append(Start(flat, m), flat[m + 1]) = Start(flat, m + 1)
    BY <2>1, <2>3, StartGrows
  <2>7. CompactStep(Start(flat, m), p[k]) = Start(flat, n)
    BY <2>1, <2>2, <2>5, <2>6, Zenon DEF CompactStep
  <2> QED BY <2>7, Zenon DEF m, n
<1> QED BY <1>2, <1>3, Zenon

(* Without separators, a page is the text in front of the grouping. *)
LEMMA CompactIs ==
  ASSUME NEW p, NEW flat \in Seq(0..35), Len(flat) = 36, IsPage(p, flat)
  PROVE  Compact(p) = flat
<1> DEFINE e == CHOOSE f : IsCompact(f, p, 44)
           upTo(n) == Start(flat, n - (n \div 5))
           witness == [n \in 0..44 |-> upTo(n)]
<1>1. Compact(p) = e[44]
  <2> DEFINE CompactOf(length) == (CHOOSE f : IsCompact(f, p, length))[length]
  <2>1. Compact(p) = CompactOf(Len(p))
    BY Zenon DEF Compact, IsCompact
  <2>2. Len(p) = 44
    BY Zenon DEF IsPage
  <2>3. CompactOf(44) = e[44]
    OBVIOUS
  <2> HIDE DEF CompactOf, e
  <2> QED BY <2>1, <2>2, <2>3, Zenon
<1>2. upTo(0) = <<>>
  <2>1. 0 - (0 \div 5) = 0
    OBVIOUS
  <2> QED BY <2>1, EmptyStart, Zenon
<1> HIDE DEF e
<1>3. \A k \in 1..44 : \A before : before = k - 1 => CompactStep(upTo(before), p[k]) = upTo(k)
  BY CharacterMore, Zenon
<1> HIDE DEF upTo
<1>4. IsCompact(witness, p, 44)
  <2>1. \A n \in 0..44 : upTo(n) = IF n = 0 THEN <<>> ELSE CompactStep(witness[n - 1], p[n])
    <3> SUFFICES ASSUME NEW n \in 0..44
                 PROVE  upTo(n) = IF n = 0 THEN <<>> ELSE CompactStep(witness[n - 1], p[n])
      BY Zenon
    <3>1. CASE n = 0
      BY <1>2, <3>1, Zenon
    <3>2. CASE n # 0
      <4>1. n \in 1..44 /\ n - 1 \in 0..44
        BY <3>2
      <4>2. witness[n - 1] = upTo(n - 1)
        BY <4>1
      <4> HIDE DEF witness
      <4>3. CompactStep(upTo(n - 1), p[n]) = upTo(n)
        BY <1>3, <4>1, Zenon
      <4> QED BY <3>2, <4>2, <4>3, Zenon
    <3> QED BY <3>1, <3>2
  <2>2. witness = [n \in 0..44 |-> IF n = 0 THEN <<>> ELSE CompactStep(witness[n - 1], p[n])]
    BY <2>1, Zenon
  <2> HIDE DEF witness
  <2> QED BY <2>2, Zenon DEF IsCompact, CompactStep
<1> HIDE DEF witness
<1>5. IsCompact(e, p, 44)
  BY <1>4, Zenon DEF e
<1>6. \A n \in 0..44 : e[n] = IF n = 0 THEN <<>> ELSE CompactStep(e[n - 1], p[n])
  BY <1>5, Zenon DEF IsCompact, CompactStep
<1> DEFINE S == {n \in 0..44 : e[n] = upTo(n)}
<1>7. 0 \in S
  <2>1. 0 \in 0..44
    OBVIOUS
  <2>2. e[0] = <<>>
    BY <1>6, <2>1, Zenon
  <2> QED BY <1>2, <2>1, <2>2
<1>8. ASSUME NEW n \in 0..(44 - 1), n \in S PROVE n + 1 \in S
  <2> DEFINE k == n + 1
  <2>1. k \in 1..44 /\ k \in 0..44 /\ k # 0 /\ n = k - 1
    OBVIOUS
  <2>2. e[n] = upTo(n)
    BY <1>8
  <2> HIDE DEF k
  <2>3. e[k] = CompactStep(e[n], p[k])
    BY <1>6, <2>1, Zenon
  <2>4. CompactStep(upTo(n), p[k]) = upTo(k)
    BY <1>3, <2>1, Zenon
  <2>5. e[k] = upTo(k)
    BY <2>2, <2>3, <2>4, Zenon
  <2> QED BY <2>1, <2>5 DEF k
<1> HIDE DEF S
<1>9. 0..44 \subseteq S
  <2>1. 44 \in Nat
    OBVIOUS
  <2> QED BY <1>7, <1>8, <2>1, UpTo
<1>10. e[44] = upTo(44)
  BY <1>9 DEF S
<1>11. upTo(44) = flat
  <2>1. 44 - (44 \div 5) = 36
    OBVIOUS
  <2>2. Start(flat, 36) = flat
    BY WholeStart
  <2> QED BY <2>1, <2>2, Zenon DEF upTo
<1> QED BY <1>1, <1>10, <1>11, Zenon

-----------------------------------------------------------------------------
(* The address on the screen *)

IsAddress(address) == address \in Seq(BYTE) /\ Len(address) = 20

\* What ShownAddressIsOfRepliedKey says of a page.
IsPageOf(page, address) ==
  LET text == Compact(page) IN
  /\ Len(page) = 44 /\ \A i \in 1..8 : page[5 * i] \in {SPACE, NEWLINE}
  /\ Len(text) = 36 /\ SubSeq(text, 1, 2) = SubSeq(CountryCode, 1, 2)
  /\ IsValidIban(text)
  /\ Base32Decode(SubSeq(text, 5, 36)) = address

(* The parts of a text of an address. *)
LEMMA PartsOfFlat ==
  ASSUME NEW front, NEW base32, NEW flat, IsFlat(flat, front, base32)
  PROVE  SubSeq(flat, 1, 4) = front /\ SubSeq(flat, 5, 36) = base32
<1>1. /\ front \in Seq(0..35) /\ Len(front) = 4
      /\ base32 \in Seq(0..35) /\ Len(base32) = 32
      /\ flat \in Seq(0..35) /\ Len(flat) = 36
      /\ \A i \in 1..4 : flat[i] = front[i]
      /\ \A i \in 1..32 : flat[4 + i] = base32[i]
  BY Zenon DEF IsFlat
<1>2. SubSeq(flat, 1, 4) = front
  <2> DEFINE s == SubSeq(flat, 1, 4)
  <2>1. IsPart(s, 0..35, flat, 1, 4)
    <3>1. 1 \in Nat /\ 4 \in Nat /\ 1 <= 1 /\ 1 <= 4 /\ 4 <= Len(flat)
      BY <1>1
    <3> QED BY <1>1, <3>1, PartOfSequence
  <2> HIDE DEF s
  <2>2. s \in Seq(0..35) /\ Len(s) = (4 - 1) + 1 /\ \A j \in 1..((4 - 1) + 1) : s[j] = flat[(1 + j) - 1]
    BY <2>1, Zenon DEF IsPart
  <2>3. Len(s) = 4
    BY <2>2
  <2>4. \A j \in 1..4 : s[j] = flat[j]
    BY <2>2
  <2>5. \A j \in 1..4 : s[j] = front[j]
    BY <1>1, <2>4, Zenon
  <2>6. s = [j \in 1..4 |-> s[j]] /\ front = [j \in 1..4 |-> front[j]]
    BY <1>1, <2>2, <2>3
  <2>7. s = front
    BY <2>5, <2>6, Zenon
  <2> QED BY <2>7, Zenon DEF s
<1>3. SubSeq(flat, 5, 36) = base32
  <2> DEFINE s == SubSeq(flat, 5, 36)
  <2>1. IsPart(s, 0..35, flat, 5, 36)
    <3>1. 5 \in Nat /\ 36 \in Nat /\ 1 <= 5 /\ 5 <= 36 /\ 36 <= Len(flat)
      BY <1>1
    <3> QED BY <1>1, <3>1, PartOfSequence
  <2> HIDE DEF s
  <2>2. s \in Seq(0..35) /\ Len(s) = (36 - 5) + 1 /\ \A j \in 1..((36 - 5) + 1) : s[j] = flat[(5 + j) - 1]
    BY <2>1, Zenon DEF IsPart
  <2>3. Len(s) = 32
    BY <2>2
  <2>4. \A j \in 1..32 : s[j] = flat[4 + j]
    <3>1. ASSUME NEW j \in 1..32, NEW k, k = 4 + j PROVE s[j] = flat[k]
      <4>1. j \in 1..((36 - 5) + 1) /\ k = (5 + j) - 1
        BY <3>1
      <4> QED BY <2>2, <4>1
    <3> QED BY <3>1, Zenon
  <2>5. \A j \in 1..32 : s[j] = base32[j]
    BY <1>1, <2>4, Zenon
  <2>6. s = [j \in 1..32 |-> s[j]] /\ base32 = [j \in 1..32 |-> base32[j]]
    BY <1>1, <2>2, <2>3
  <2>7. s = base32
    BY <2>5, <2>6, Zenon
  <2> QED BY <2>7, Zenon DEF s
<1> QED BY <1>2, <1>3

(* Of a page that is printed for an address, however it is broken into lines. *)
LEMMA PageIsOfAddress ==
  ASSUME NEW address, IsAddress(address), NEW page \in Pages(PrintAddress(address))
  PROVE  IsPageOf(page, address)
<1> DEFINE base32 == Base32Encode(address)
           front == SubSeq(CountryCode, 1, 2) \o IbanCheck(base32)
           flat == front \o base32
<1>1. base32 \in Seq(0..34) /\ Len(base32) = 32 /\ Base32Decode(base32) = address
  BY Base32RoundTrip DEF IsAddress
<1> HIDE DEF base32
<1>2. PICK c1, c2 : front = <<23, 26, c1, c2>> /\ c1 \in Digit /\ c2 \in Digit
  <2>1. PICK c1, c2 : HasCheckDigits(base32, c1, c2)
    BY <1>1, CheckDigitsOfAddress, Zenon
  <2>2. front = <<23, 26, c1, c2>>
    BY <2>1, FrontIs DEF HasCheckDigits
  <2> QED BY <2>1, <2>2, Zenon DEF HasCheckDigits
<1> HIDE DEF front
<1>3. front \in Seq(0..35) /\ Len(front) = 4
  BY <1>2 DEF Digit
<1>4. base32 \in Seq(0..35)
  <2>1. 0..34 \subseteq 0..35
    OBVIOUS
  <2> QED BY <1>1, <2>1, InLargerSet
<1>5. IsFlat(flat, front, base32)
  BY <1>1, <1>3, <1>4, FlatExists
<1> HIDE DEF flat
<1>6. IsSpaced(PrintAddress(address), flat, 44)
  BY <1>5, PrintedIsSpaced, Zenon DEF front, base32
<1>7. IsPage(page, flat)
  BY <1>6, PagesAre, Zenon
<1>8. flat \in Seq(0..35) /\ Len(flat) = 36
  BY <1>5, Zenon DEF IsFlat
<1>9. Compact(page) = flat
  BY <1>7, <1>8, CompactIs, Zenon
<1>10. SubSeq(flat, 1, 4) = front /\ SubSeq(flat, 5, 36) = base32
  BY <1>5, PartsOfFlat, Zenon
<1>11. IsValidIban(flat)
  <2>1. IsCompactAddress(flat, base32)
    BY <1>8, <1>10, Zenon DEF IsCompactAddress, front
  <2> QED BY <1>1, <2>1, CompactAddressIsValid, Zenon
<1>12. SubSeq(flat, 1, 2) = SubSeq(CountryCode, 1, 2)
  <2> DEFINE s == SubSeq(flat, 1, 2)
             t == SubSeq(CountryCode, 1, 2)
  <2>1. flat[1] = 23 /\ flat[2] = 26
    <3>1. flat[1] = front[1] /\ flat[2] = front[2]
      BY <1>5 DEF IsFlat
    <3> QED BY <1>2, <3>1
  <2>2. t = <<23, 26>>
    BY CountryIs
  <2> HIDE DEF t
  <2>3. s \in Seq(0..35) /\ Len(s) = 2 /\ s[1] = flat[1] /\ s[2] = flat[2]
    <3>1. IsPart(s, 0..35, flat, 1, 2)
      <4>1. 1 \in Nat /\ 2 \in Nat /\ 1 <= 1 /\ 1 <= 2 /\ 2 <= Len(flat)
        BY <1>8
      <4> QED BY <1>8, <4>1, PartOfSequence
    <3> HIDE DEF s
    <3>2. s \in Seq(0..35) /\ Len(s) = (2 - 1) + 1 /\ \A j \in 1..((2 - 1) + 1) : s[j] = flat[(1 + j) - 1]
      BY <3>1, Zenon DEF IsPart
    <3>3. \A j \in 1..2 : s[j] = flat[j]
      BY <3>2
    <3> QED BY <3>2, <3>3
  <2> HIDE DEF s
  <2>5. s = [i \in 1..2 |-> s[i]] /\ <<23, 26>> = [i \in 1..2 |-> IF i = 1 THEN 23 ELSE 26]
    BY <2>3
  <2>6. \A i \in 1..2 : s[i] = IF i = 1 THEN 23 ELSE 26
    BY <2>1, <2>3
  <2>7. s = t
    BY <2>2, <2>5, <2>6, Zenon
  <2> QED BY <2>7, Zenon DEF s, t
<1>13. Len(page) = 44 /\ \A i \in 1..8 : page[5 * i] \in {SPACE, NEWLINE}
  <2>1. /\ Len(page) = 44
        /\ \A k \in 1..44 : k % 5 = 0 => page[k] \in {SPACE, NEWLINE}
    BY <1>7, Zenon DEF IsPage
  <2>2. \A i \in 1..8 : 5 * i \in 1..44 /\ (5 * i) % 5 = 0
    OBVIOUS
  <2> QED BY <2>1, <2>2, Zenon
<1>14. Base32Decode(base32) = address
  BY <1>1
<1> QED BY <1>8, <1>9, <1>10, <1>11, <1>12, <1>13, <1>14, Zenon DEF IsPageOf

(* The address on the screen is of the key that was asked for, and that has a proper
   address as its command had a path. *)
ShownInv ==
  shown # NONE =>
    /\ IsAddress(AddressOf(KeyBytes(PointOf(asked.path))))
    /\ shown \in Pages(PrintAddress(AddressOf(KeyBytes(PointOf(asked.path)))))

(* Every step keeps the address on the screen that of the key. *)
LEMMA ShownInvPreserved ==
  ASSUME PkInv, ShownInv, [Next]_vars
  PROVE  ShownInv'
<1>1. ASSUME NEW c \in Commands, GetPublicKey(c)
      PROVE  ShownInv'
  <2> DEFINE received == Received(INS_GET_PUBLIC_KEY, c)
             requests == ReadRequest(received, c.p1, c.p2)
  <2>1. CASE Fails(received)
    BY <2>1 DEF Fails, ShownInv
  <2>2. CASE ~Fails(received)
    <3>1. PICK request \in requests :
            \/ shown' \in Pages(PrintAddress(AddressOf(KeyBytes(PointOf(request.path)))))
            \/ shown' = NONE
      BY <1>1, <2>2, Zenon DEF GetPublicKey
    <3>2. c.data \in Seq(BYTE) /\ OFFSET_CDATA + Len(c.data) <= BUFFER_LENGTH
      BY CommandAssumption
    <3>3. asked' = AskedBy(c)
      BY <1>1 DEF GetPublicKey
    <3> HIDE DEF requests
    <3>4. asked' = request /\ HasPath(c.data) /\ request.path = PathIn(c.data)
      BY <3>1, <3>2, <3>3, RequestIsOfCommand DEF PkInv, requests
    <3>5. IsAddress(AddressOf(KeyBytes(PointOf(request.path))))
      <4>1. AddressOf(KeyBytes(PointOf(PathIn(c.data)))) \in [1..ADDRESS_LENGTH -> BYTE]
        BY <3>4, AddressAssumption
      <4> DEFINE address == AddressOf(KeyBytes(PointOf(PathIn(c.data))))
      <4> HIDE DEF address
      <4>2. address \in [1..20 -> BYTE]
        BY <4>1 DEF address, ADDRESS_LENGTH
      <4>3. address \in Seq(BYTE) /\ Len(address) = 20
        <5>1. address = [i \in 1..20 |-> address[i]] /\ \A i \in 1..20 : address[i] \in BYTE
          BY <4>2
        <5> QED BY <5>1
      <4> QED BY <3>4, <4>3, Zenon DEF IsAddress, address
    <3> QED BY <3>1, <3>4, <3>5, Zenon DEF ShownInv
  <2> QED BY <2>1, <2>2
<1>2. ASSUME NEW c \in Commands, Faults(c)
      PROVE  ShownInv'
  BY <1>2 DEF Faults, ShownInv
<1>3. ASSUME NEW data \in OtherData, UnknownCommand(data)
      PROVE  ShownInv'
  BY <1>3 DEF UnknownCommand, Fails, ShownInv
<1>4. CASE OnAddressApproved
  BY <1>4 DEF OnAddressApproved, ShownInv
<1>5. CASE OnRejected
  BY <1>5 DEF OnRejected, ShownInv
<1>6. CASE UNCHANGED vars
  BY <1>6 DEF vars, ShownInv
<1> QED BY <1>1, <1>2, <1>3, <1>4, <1>5, <1>6 DEF Next

(* A reply begins with the key. *)
LEMMA ReplyHasKey ==
  ASSUME PkInv, reply # Error
  PROVE  SubSeq(reply, 1, KEY_LENGTH) = KeyBytes(PointOf(asked.path))
BY ResultIsOfRequest DEF RepliesHaveKey

(* The address on the screen, in either layout, is well-formed, a valid IBAN, and the
   encoding of the address of the key that was asked for (print_address, iban_check,
   base32_encode); and a reply has that key (handle_get_public_key, on_address_approved). *)
THEOREM ShownAddressIsOfTheRepliedKey == Spec => []ShownAddressIsOfRepliedKey
<1>1. Init => PkInv /\ ShownInv
  <2>1. Init => ShownInv
    BY DEF Init, ShownInv
  <2> QED BY <2>1, PkInvInitially
<1>2. (PkInv /\ ShownInv) /\ [Next]_vars => (PkInv /\ ShownInv)'
  BY PkInvPreserved, ShownInvPreserved
<1>3. PkInv /\ ShownInv => ShownAddressIsOfRepliedKey
  <2> SUFFICES ASSUME PkInv, ShownInv, shown # NONE
               PROVE  /\ IsPageOf(shown, AddressOf(KeyBytes(PointOf(asked.path))))
                      /\ reply # Error => SubSeq(reply, 1, KEY_LENGTH) = KeyBytes(PointOf(asked.path))
    BY Zenon DEF ShownAddressIsOfRepliedKey, IsPageOf
  <2>1. IsPageOf(shown, AddressOf(KeyBytes(PointOf(asked.path))))
    BY PageIsOfAddress, Zenon DEF ShownInv
  <2>2. reply # Error => SubSeq(reply, 1, KEY_LENGTH) = KeyBytes(PointOf(asked.path))
    BY ReplyHasKey
  <2> QED BY <2>1, <2>2
<1> QED BY <1>1, <1>2, <1>3, PTL DEF Spec
=============================================================================
