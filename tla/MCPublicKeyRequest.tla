------------------------- MODULE MCPublicKeyRequest -------------------------
(* Constant values for model-checking PublicKeyRequest. *)
EXTENDS PublicKeyRequest

Fill(byte, length) == [i \in 1..length |-> byte]

\* Paths of one, two or ten numbers, as bytes.  The last of them tells them apart.
Path(number, length) == Fill(128, 4 * length - 1) \o <<number>>
Number(path) == path[Len(path)]

\* The keys have coordinates of both parities, and no byte twice.
MCPointOf(path) ==
  [x |-> [i \in 1..32 |-> Number(path) + i], y |-> [i \in 1..32 |-> 2 * i + Number(path)]]
MCSignature(path, message) ==
  Fill((Number(path) + IF message \in {NONE, <<>>} THEN 200
                       ELSE 7 * Len(message) + message[1] + message[Len(message)]) % 256,
       SIGNATURE_LENGTH)

\* Addresses without letters, of letters only, and between: with as few and as many
\* digits as an IBAN can have.
Patterns ==
  <<Fill(0, 20), Fill(255, 20), Fill(82, 20), <<66, 16>> \o Fill(132, 18),
    [i \in 1..20 |-> 12 * i], [i \in 1..20 |-> 256 - 11 * i]>>
MCAddressOf(key) ==
  LET number == (key[KEY_LENGTH] % 128) - 2 IN
  IF number \in DOMAIN Patterns THEN Patterns[number]
  ELSE [i \in 1..20 |-> (number * i * i + key[i]) % 256]

Messages ==
  LET prefix == VERIFICATION_PREFIX IN
  {<<>>, prefix, SubSeq(prefix, 1, 5), prefix \o Fill(7, 20), prefix \o Fill(7, 21),
   <<68>> \o prefix}

Command(p1, p2, data) == [p1 |-> p1, p2 |-> p2, data |-> data]
MCCommands ==
  {Command(0, 1, <<1>> \o Path(n, 1)) : n \in 1..24}
  \cup {Command(1, p2, <<1 + p2>> \o Path(2 + p2, 1 + p2) \o message) :
          p2 \in {0, 1}, message \in Messages}
  \cup {Command(0, 0, <<2>> \o Path(2, 2)), Command(0, 0, <<2>> \o Path(2, 2) \o <<1>>),
        Command(2, 0, <<1>> \o Path(1, 1)), Command(0, 2, <<1>> \o Path(1, 1)),
        Command(0, 0, <<0>>), Command(0, 0, <<11>> \o Path(1, 11)),
        Command(1, 0, <<2>> \o Path(1, 1) \o <<1, 2>>), Command(0, 0, <<>>)}

\* Data that has the prefix where the message of a command is.
MCOtherData == {Fill(9, 5) \o VERIFICATION_PREFIX}
=============================================================================
