------------------------------ MODULE Printing ------------------------------
(***************************************************************************)
(* Amounts and addresses as text (src/nimiq_utils.c, src/base32.c).        *)
(*                                                                         *)
(* Text is a sequence of characters.  A digit or letter is the number that *)
(* it stands for in an IBAN: 0..9 and 10..35 for A..Z.  A printer is the   *)
(* set of its results, which is empty on an error.                         *)
(***************************************************************************)
EXTENDS Integers, Sequences

POINT == 36
SPACE == 37
NEWLINE == 38

-----------------------------------------------------------------------------
(* parse_amount: numbers of 64 bits, which are beyond TLC, are eight bytes, *)
(* the most significant byte first.                                         *)

DECIMALS == 5
STRING_LENGTH_NIM_AMOUNT == 18

\* 2^53 - 1, the largest integer of JavaScript.
MAX_SAFE_LUNA_AMOUNT == <<0, 31, 255, 255, 255, 255, 255, 255>>

AtMost(a, b) ==
  a = b \/ \E i \in DOMAIN a : a[i] < b[i] /\ \A j \in 1..(i - 1) : a[j] = b[j]
IsSafeAmount(bytes) == AtMost(bytes, MAX_SAFE_LUNA_AMOUNT)

\* dVal / 10 and dVal % 10, by long division.
DividedBy10(bytes) ==
  LET division[i \in 0..Len(bytes)] ==
        IF i = 0 THEN [quotient |-> <<>>, remainder |-> 0]
        ELSE LET before == division[i - 1]
                 dividend == before.remainder * 256 + bytes[i]
             IN [quotient |-> Append(before.quotient, dividend \div 10),
                 remainder |-> dividend % 10]
  IN division[Len(bytes)]

IsZero(bytes) == \A i \in DOMAIN bytes : bytes[i] = 0

\* How often dVal is divided at most: 2^64 has 20 digits.
MAX_DIGITS == 20

\* Faulty variant: the zero in front of the point is left out.
FewerDigits == DECIMALS
LeastDigits == DECIMALS + 1

\* The decimal digits of a number, the last one first, and at least LeastDigits.
ReversedDigits(bytes) ==
  LET loop[n \in 0..MAX_DIGITS] ==
        IF n = 0 THEN [dVal |-> bytes, digits |-> <<>>]
        ELSE LET before == loop[n - 1]
                 division == DividedBy10(before.dVal)
             IN IF n > LeastDigits /\ IsZero(before.dVal) THEN before
                ELSE [dVal |-> division.quotient,
                      digits |-> Append(before.digits, division.remainder)]
  IN loop[MAX_DIGITS].digits

\* The trailing zeros, and then a trailing point, are stripped.
Stripped(text) ==
  LET length == CHOOSE n \in 0..Len(text) :
                  /\ \A i \in (n + 1)..Len(text) : text[i] = 0
                  /\ n > 0 => text[n] # 0
  IN SubSeq(text, 1, IF length > 0 /\ text[length] = POINT THEN length - 1 ELSE length)

\* An assertion on the length of the buffer ends the program, and a text that does not
\* leave room for its terminator is an error; no number that passed the check in front
\* of them brings either about.
ParseAmount(bytes) ==
  IF ~IsSafeAmount(bytes) THEN {}
  ELSE LET digits == ReversedDigits(bytes)
           digit(n) == digits[Len(digits) + 1 - n]
           whole == Len(digits) - DECIMALS
           text == [i \in 1..(Len(digits) + 1) |->
                      IF i <= whole THEN digit(i) ELSE IF i = whole + 1 THEN POINT ELSE digit(i - 1)]
       IN IF \/ Len(text) > STRING_LENGTH_NIM_AMOUNT
             \/ Len(Stripped(text)) >= STRING_LENGTH_NIM_AMOUNT
          THEN {} ELSE {Stripped(text)}

-----------------------------------------------------------------------------
(* base32_encode *)

\* "0123456789ABCDEFGHJKLMNPQRSTUVXY": the digits and letters without I, O, W and Z.
Alphabet ==
  [index \in 0..31 |->
     index + (IF index >= 18 THEN 1 ELSE 0) + (IF index >= 23 THEN 1 ELSE 0)
           + (IF index >= 30 THEN 1 ELSE 0)]

\* Faulty variant: the buffer has as many bits as a byte.
ShiftedLeftInByte(number, n) == (number * 2^n) % 256

\* buffer <<= n, of an int of 32 bits.  The bits that leave it at the top are lost, and
\* the one that gets there is the sign (what overflow is with the compilers in use).
ShiftedLeft(number, n) ==
  LET low == (number % 2^(31 - n)) * 2^n IN
  IF (number \div 2^(31 - n)) % 2 = 0 THEN low ELSE low - 2^30 - 2^30

\* The bits that were taken in and not yet encoded are in the lowest bitsLeft bits of
\* buffer, which is shifted and never cleared.
Base32Encode(data) ==
  LET Refilled(s) ==
        IF s.bitsLeft >= 5 THEN s
        ELSE IF s.next < Len(data)
        THEN [s EXCEPT !.buffer = ShiftedLeft(@, 8) + data[s.next + 1], !.next = @ + 1,
                       !.bitsLeft = @ + 8]
        ELSE [s EXCEPT !.buffer = ShiftedLeft(@, 5 - s.bitsLeft), !.bitsLeft = 5]
      Taken(s) ==
        [s EXCEPT !.bitsLeft = @ - 5, !.index = (s.buffer \div 2^(s.bitsLeft - 5)) % 32]
      length == (8 * Len(data) + 4) \div 5
      state[count \in 0..length] ==
        IF count = 0 THEN [buffer |-> data[1], next |-> 1, bitsLeft |-> 8, index |-> 0]
        ELSE Taken(Refilled(state[count - 1]))
  IN [count \in 1..length |-> Alphabet[state[count].index]]

-----------------------------------------------------------------------------
(* iban_check and print_address *)

\* The characters as digits: letters have two of them.
Decimals(text) ==
  LET digits[n \in 0..Len(text)] ==
        IF n = 0 THEN <<>>
        ELSE digits[n - 1] \o IF text[n] < 10 THEN <<text[n]>>
                              ELSE <<text[n] \div 10, text[n] % 10>>
  IN digits[Len(text)]

\* The number that digits make when they are appended to a number.
Appended(number, digits) ==
  LET value[n \in 0..Len(digits)] ==
        IF n = 0 THEN number ELSE 10 * value[n - 1] + digits[n]
  IN value[Len(digits)]

\* The digits of a piece, up to the end of the digits.
DigitsOf(digits, first, last) ==
  SubSeq(digits, first, IF last <= Len(digits) THEN last ELSE Len(digits))

\* Faulty variant: the digits of addresses with many letters do not fit.
FewerPieces == 9
PIECES == 10

\* "NQ00"
CountryCode == <<23, 26, 0, 0>>

\* The number is taken modulo 97 in pieces of nine digits, the first two of which are
\* the remainder so far.  The copy of the last piece reads one byte behind
\* total_number; as the byte in front of it is never a digit, it is not looked at.
IbanCheck(base32) ==
  LET total == Decimals(base32 \o CountryCode)
      modulo[piece \in 0..PIECES] ==
        IF piece = 0 THEN 0
        ELSE IF piece = 1 THEN Appended(0, DigitsOf(total, 1, 9)) % 97
        ELSE Appended(modulo[piece - 1], DigitsOf(total, 7 * piece - 4, 7 * piece + 2)) % 97
      check == 98 - modulo[PIECES]
  IN <<check \div 10, check % 10>>

\* "NQ", the check digits, and eight groups of four.
PrintAddress(address) ==
  LET base32 == Base32Encode(address)
      front == SubSeq(CountryCode, 1, 2) \o IbanCheck(base32)
      groups[n \in 0..8] ==
        IF n = 0 THEN front ELSE groups[n - 1] \o <<SPACE>> \o SubSeq(base32, 4 * n - 3, 4 * n)
  IN groups[8]

-----------------------------------------------------------------------------
(* What the texts mean to a reader *)

\* The bytes of 10 times a number plus a digit.
Times10Plus(bytes, digit) ==
  LET product[i \in 0..Len(bytes)] ==
        IF i = 0 THEN [bytes |-> <<>>, carry |-> digit]
        ELSE LET before == product[i - 1]
                 sum == bytes[Len(bytes) + 1 - i] * 10 + before.carry
             IN [bytes |-> <<sum % 256>> \o before.bytes, carry |-> sum \div 256]
  IN product[Len(bytes)].bytes

\* The number of luna, in eight bytes, that is written with at most five decimals.
ReadAmount(text) ==
  LET point == CHOOSE i \in 1..(Len(text) + 1) :
                 /\ i <= Len(text) => text[i] = POINT
                 /\ \A j \in 1..(i - 1) : text[j] # POINT
      fraction == SubSeq(text, point + 1, Len(text))
      digits == SubSeq(text, 1, point - 1)
                \o [i \in 1..DECIMALS |-> IF i <= Len(fraction) THEN fraction[i] ELSE 0]
      value[n \in 0..Len(digits)] ==
        IF n = 0 THEN [i \in 1..8 |-> 0] ELSE Times10Plus(value[n - 1], digits[n])
  IN value[Len(digits)]

\* Written without a zero or a point too much.
IsCanonicalAmount(text) ==
  /\ text # <<>> /\ text[1] # POINT
  /\ \A i, j \in DOMAIN text : text[i] = POINT /\ text[j] = POINT => i = j
  /\ Len(text) > 1 /\ text[1] = 0 => text[2] = POINT
  /\ \A i \in DOMAIN text : text[i] = POINT => text[Len(text)] \notin {0, POINT}

\* An address without its separators.
Compact(text) ==
  LET compact[n \in 0..Len(text)] ==
        IF n = 0 THEN <<>>
        ELSE IF text[n] \in {SPACE, NEWLINE} THEN compact[n - 1]
        ELSE Append(compact[n - 1], text[n])
  IN compact[Len(text)]

\* As IBANs are validated: with country code and check digits moved to the end, the
\* number is 1 modulo 97.
IsValidIban(text) ==
  LET digits == Decimals(SubSeq(text, 5, Len(text)) \o SubSeq(text, 1, 4))
      modulo[n \in 0..Len(digits)] ==
        IF n = 0 THEN 0 ELSE (10 * modulo[n - 1] + digits[n]) % 97
  IN modulo[Len(digits)] = 1

\* Bit by bit, the twenty bytes that 32 characters encode.
Base32Decode(text) ==
  LET index(c) == CHOOSE i \in 0..31 : Alphabet[i] = c
      bit(n) == (index(text[n \div 5 + 1]) \div 2^(4 - (n % 5))) % 2
      byte(n) == 128 * bit(n) + 64 * bit(n + 1) + 32 * bit(n + 2) + 16 * bit(n + 3)
                 + 8 * bit(n + 4) + 4 * bit(n + 5) + 2 * bit(n + 6) + bit(n + 7)
  IN [i \in 1..20 |-> byte(8 * (i - 1))]
=============================================================================
