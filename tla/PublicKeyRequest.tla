-------------------------- MODULE PublicKeyRequest --------------------------
(***************************************************************************)
(* Requests of public keys, in bytes: handle_get_public_key,               *)
(* set_result_get_public_key and on_address_approved (src/main.c), the     *)
(* page of the address (src/nimiq_ux_bagl.c, src/nimiq_ux_nbgl.c), and     *)
(* the buffer that commands are received into and replies are written to,  *)
(* G_io_apdu_buffer.  It is never cleared: behind a command there is what  *)
(* earlier commands and replies have left there.                           *)
(*                                                                         *)
(* Commands that arrive while an address is under review are the subject   *)
(* of module NimiqApp; here a client waits for the decision.               *)
(***************************************************************************)
EXTENDS BufferReader, Printing, FiniteSets

CONSTANTS
  Commands,      \* INS_GET_PUBLIC_KEY: [p1, p2, data], data being bytes
  OtherData,     \* the data of commands with an unknown instruction
  PointOf(_),    \* the point on the curve that a path leads to (external): two
                 \* coordinates of 32 bytes, the most significant byte first
  Signature(_, _), \* the signature by a path's key over a message (external)
  AddressOf(_),  \* blake2b of a public key: its address (external)
  MaxCommands,   \* bound: how many commands are received
  BUFFER_LENGTH, \* the part of G_io_apdu_buffer that is looked at
  NONE

KEY_LENGTH == 32
SIGNATURE_LENGTH == 64
ADDRESS_LENGTH == 20
MAX_VERIFICATION_MESSAGE_LENGTH == 31
OFFSET_CDATA == 5
CLA == 224
INS_GET_PUBLIC_KEY == 2
INS_UNKNOWN == 6
P1_SIGNATURE == 1
P2_CONFIRM == 1
BYTE == 0..(BYTE_SIZE - 1)

\* "dummy-data:"
VERIFICATION_PREFIX == <<100, 117, 109, 109, 121, 45, 100, 97, 116, 97, 58>>

\* The path in the data of a command, and what is behind it.
PathIn(data) == SubSeq(data, 2, 1 + 4 * data[1])
MessageIn(data) == SubSeq(data, 2 + 4 * data[1], Len(data))

HasPath(data) ==
  Len(data) > 0 /\ data[1] \in 1..MAX_BIP32_PATH_LENGTH /\ 1 + 4 * data[1] <= Len(data)

\* y in the opposite order, the topmost bit of it being the parity of x.
KeyBytes(point) ==
  [i \in 1..KEY_LENGTH |->
     point.y[KEY_LENGTH + 1 - i]
     + IF i = KEY_LENGTH /\ point.x[KEY_LENGTH] % 2 = 1 THEN 128 ELSE 0]

\* Commands are bytes and fit into the buffer.  Points have coordinates below 2^255, and
\* signatures are bytes.
ASSUME CommandAssumption ==
  /\ BUFFER_LENGTH \in Nat /\ NONE \notin Seq(BYTE)
  /\ \A data \in {c.data : c \in Commands} \cup OtherData :
       data \in Seq(BYTE) /\ OFFSET_CDATA + Len(data) <= BUFFER_LENGTH
ASSUME KeyAssumption ==
  \A c \in Commands :
    HasPath(c.data) =>
      LET point == PointOf(PathIn(c.data)) IN
      /\ {point.x, point.y} \subseteq [1..KEY_LENGTH -> BYTE] /\ point.y[1] < 128
      /\ Signature(PathIn(c.data), MessageIn(c.data)) \in [1..SIGNATURE_LENGTH -> BYTE]
\* Addresses are the first bytes of a hash.
ASSUME AddressAssumption ==
  \A c \in Commands :
    HasPath(c.data) => AddressOf(KeyBytes(PointOf(PathIn(c.data)))) \in [1..ADDRESS_LENGTH -> BYTE]

VARIABLES
  status,  \* "idle", "review", or "replied"
  buffer,  \* G_io_apdu_buffer
  pk,      \* ctx.req.pk
  asked,   \* path and message that the last command was sent with (history)
  shown,   \* the address that was put on the screen for it (history)
  reply,   \* what was replied to it: an error, or bytes (history)
  commands \* how many commands were received (history)

vars == <<status, buffer, pk, asked, shown, reply, commands>>

Zero(length) == [i \in 1..length |-> 0]
ZeroPoint == [x |-> Zero(KEY_LENGTH), y |-> Zero(KEY_LENGTH)]
NoPk == [returnSignature |-> FALSE, publicKey |-> ZeroPoint,
         signature |-> Zero(SIGNATURE_LENGTH)]
Error == <<>>

-----------------------------------------------------------------------------
(* The buffer *)

\* A command is received, or a reply is written, at the front of the buffer.
Written(bytes, over) ==
  [i \in DOMAIN over |-> IF i <= Len(bytes) THEN bytes[i] ELSE over[i]]

\* Status words, as far as they are left in the buffer: SW_OK, or those of errors.
StatusWord(ok) == IF ok THEN <<144, 0>> ELSE <<106, 128>>
Received(ins, c) ==
  Written(<<CLA, ins, c.p1, c.p2, Len(c.data)>> \o c.data, buffer)

-----------------------------------------------------------------------------
(* Taking a request apart *)

\* memcmp looks at as many bytes as the prefix has, however many the message has.
\* A message of no bytes is NULL, where there is anything but the prefix.
HasVerificationPrefix(received, message) ==
  /\ message # Nothing
  /\ Bytes(received, Piece(message.at, Len(VERIFICATION_PREFIX))) = VERIFICATION_PREFIX

\* Faulty variant: as long as a message can be, with what is behind the command.
LongestMessage(received, piece) ==
  Bytes(received, Piece(piece.at, MAX_VERIFICATION_MESSAGE_LENGTH))

MessageOf(received, piece) == Bytes(received, piece)

\* The pieces of the data in the buffer; a message is read only if there is to be a
\* signature.  The set is empty on an error.
ReadRequest(received, p1, p2) ==
  LET data == Piece(OFFSET_CDATA + 1, received[OFFSET_CDATA])
      path == ReadBip32Path(received, Open(data))
      message == ReadSubBuffer(path, path.left)
  IN IF p1 \notin {0, P1_SIGNATURE} \/ p2 \notin {0, P2_CONFIRM} THEN {}
     ELSE IF ~path.ok \/ (p1 # P1_SIGNATURE /\ path.left # 0) THEN {}
     ELSE IF p1 # P1_SIGNATURE THEN {[path |-> Bytes(received, path.out), message |-> NONE]}
     ELSE IF path.left > MAX_VERIFICATION_MESSAGE_LENGTH THEN {}
     ELSE IF ~HasVerificationPrefix(received, message.out) THEN {}
     ELSE {[path |-> Bytes(received, path.out), message |-> MessageOf(received, message.out)]}

\* set_result_get_public_key
\* Faulty variant: the signature is always returned.
AlwaysWithSignature(p) == KeyBytes(p.publicKey) \o p.signature

Result(p) ==
  KeyBytes(p.publicKey) \o IF p.returnSignature THEN p.signature ELSE <<>>

-----------------------------------------------------------------------------
(* Steps *)

Init ==
  /\ status = "idle"
  /\ buffer = Zero(BUFFER_LENGTH)
  /\ pk = NoPk
  /\ asked = NONE
  /\ shown = NONE
  /\ reply = Error
  /\ commands = 0

ReceivesCommand ==
  /\ status # "review"
  /\ commands < MaxCommands
  /\ commands' = commands + 1

\* An error wipes ctx, and is replied.
Fails(received) ==
  /\ status' = "replied"
  /\ buffer' = Written(StatusWord(FALSE), received)
  /\ pk' = NoPk
  /\ shown' = NONE
  /\ reply' = Error

\* The page of the address: NBGL has line breaks at two of the spaces.
Pages(address) == {address, [address EXCEPT ![15] = NEWLINE, ![30] = NEWLINE]}

\* What a client asks for, by the bytes that it sends and no others.
AskedBy(c) ==
  IF HasPath(c.data)
  THEN [path |-> PathIn(c.data),
        message |-> IF c.p1 = P1_SIGNATURE THEN MessageIn(c.data) ELSE NONE]
  ELSE NONE

\* handle_get_public_key.  Deriving the key, generating the pair, signing and hashing
\* can fail for a proper request, too.
GetPublicKey(c) ==
  LET received == Received(INS_GET_PUBLIC_KEY, c)
      requests == ReadRequest(received, c.p1, c.p2)
  IN /\ ReceivesCommand
     /\ asked' = AskedBy(c)
     /\ \/ Fails(received)
        \/ \E request \in requests :
             LET made == [returnSignature |-> c.p1 = P1_SIGNATURE,
                          publicKey |-> PointOf(request.path),
                          signature |-> IF c.p1 = P1_SIGNATURE
                                        THEN Signature(request.path, request.message)
                                        ELSE pk.signature]
             IN /\ pk' = made
                /\ IF c.p2 = P2_CONFIRM
                   THEN /\ status' = "review"
                        /\ buffer' = Written(StatusWord(TRUE), received)
                        /\ shown' \in Pages(PrintAddress(AddressOf(KeyBytes(made.publicKey))))
                        /\ reply' = Error
                   ELSE /\ status' = "replied"
                        /\ buffer' = Written(Result(made) \o StatusWord(TRUE), received)
                        /\ shown' = NONE
                        /\ reply' = Result(made)

\* A command with an unknown instruction leaves its data behind.
UnknownCommand(data) ==
  /\ ReceivesCommand
  /\ asked' = NONE
  /\ Fails(Received(INS_UNKNOWN, [p1 |-> 0, p2 |-> 0, data |-> data]))

\* Reading at NULL may fault, which ends the app; its memory is cleared when it is
\* started again.
Faults(c) ==
  /\ ReceivesCommand
  /\ c.p1 = P1_SIGNATURE
  /\ LET received == Received(INS_GET_PUBLIC_KEY, c)
         path == ReadBip32Path(received, Open(Piece(OFFSET_CDATA + 1, Len(c.data))))
     IN path.ok /\ path.left = 0
  /\ status' = "idle"
  /\ buffer' = Zero(BUFFER_LENGTH)
  /\ pk' = NoPk
  /\ asked' = NONE
  /\ shown' = NONE
  /\ reply' = Error

\* on_address_approved
OnAddressApproved ==
  /\ status = "review"
  /\ status' = "replied"
  /\ buffer' = Written(Result(pk) \o StatusWord(TRUE), buffer)
  /\ reply' = Result(pk)
  /\ UNCHANGED <<pk, asked, shown, commands>>

OnRejected ==
  /\ status = "review"
  /\ status' = "replied"
  /\ buffer' = Written(StatusWord(FALSE), buffer)
  /\ UNCHANGED <<pk, asked, shown, reply, commands>>

Next ==
  \/ \E c \in Commands : GetPublicKey(c)
  \/ \E c \in Commands : Faults(c)
  \/ \E data \in OtherData : UnknownCommand(data)
  \/ OnAddressApproved
  \/ OnRejected

Spec == Init /\ [][Next]_vars

-----------------------------------------------------------------------------
(* Properties *)

\* The address on the screen is well-formed, valid as an IBAN, and the address of the
\* key that is replied when it is approved, in whatever way it is broken into lines.
ShownAddressIsOfRepliedKey ==
  shown # NONE =>
    LET text == Compact(shown)
        key == KeyBytes(PointOf(asked.path))
    IN /\ Len(shown) = 44 /\ \A i \in 1..8 : shown[5 * i] \in {SPACE, NEWLINE}
       /\ Len(text) = 36 /\ SubSeq(text, 1, 2) = SubSeq(CountryCode, 1, 2)
       /\ IsValidIban(text)
       /\ Base32Decode(SubSeq(text, 5, 36)) = AddressOf(key)
       /\ reply # Error => SubSeq(reply, 1, KEY_LENGTH) = key

\* The compressed encoding of a point (RFC 8032): y without its topmost bit, least
\* significant byte first, and the parity of x as that bit.
IsKeyOf(key, point) ==
  /\ \A i \in 1..(KEY_LENGTH - 1) : key[i] = point.y[KEY_LENGTH + 1 - i]
  /\ key[KEY_LENGTH] % 128 = point.y[1]
  /\ key[KEY_LENGTH] \div 128 = point.x[KEY_LENGTH] % 2

\* A reply has the key of the path that was asked for and, if and only if that was
\* asked for, the signature of that key over the message as it was sent, whatever
\* earlier commands and replies have left behind it in the buffer; nothing of an earlier
\* request, and no signature over what could be a digest or a transaction.
RepliesAreOfRequest ==
  reply # Error =>
    /\ IsKeyOf(SubSeq(reply, 1, KEY_LENGTH), PointOf(asked.path))
    /\ IF asked.message = NONE THEN Len(reply) = KEY_LENGTH
       ELSE /\ Len(asked.message) \in 1..MAX_VERIFICATION_MESSAGE_LENGTH
            /\ SubSeq(reply, KEY_LENGTH + 1, Len(reply)) = Signature(asked.path, asked.message)

\* "the message must start with the suffix \"dummy-data:\"" (main.c, on the signature
\* with which a public key can be verified).
VerificationPrefix ==
  reply # Error /\ asked.message # NONE =>
    /\ Len(asked.message) >= Len(VERIFICATION_PREFIX)
    /\ SubSeq(asked.message, 1, Len(VERIFICATION_PREFIX)) = VERIFICATION_PREFIX
=============================================================================
