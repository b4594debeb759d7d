-------------------------------- MODULE Base64 --------------------------------
(***************************************************************************)
(* base64_encode of util.c, the base64 that clients write, and what        *)
(* base64_decode makes of a text as a whole.  Module Base64Decode has its  *)
(* loop.  base64_encode has no caller in the repository.                   *)
(*                                                                         *)
(* A text is a sequence of symbols: the digits by their values, '=' and    *)
(* any other character.  Three bytes have the bits of four digits.         *)
(***************************************************************************)
EXTENDS Integers, Sequences

CONSTANTS
  DigitBits,   \* 6
  ByteBits     \* 8

ASSUME BitsAssumption ==
  DigitBits \in Nat \ {0} /\ ByteBits \in Nat \ {0} /\ 4 * DigitBits = 3 * ByteBits

Digit == 0 .. 2^DigitBits - 1
Byte == 0 .. 2^ByteBits - 1
Pad == -1   \* '='
Bad == -2   \* a character outside the alphabet
Symbol == Digit \cup {Pad, Bad}

\* The field of the given width that starts above the lowest bits of n.
Field(n, shift, width) == (n \div 2^shift) % 2^width

\* Group g of the bytes as one number; bytes past the end count as 0.
Triple(bytes, g) ==
  LET byte(k) == IF 3 * g + k <= Len(bytes) THEN bytes[3 * g + k] ELSE 0
  IN byte(1) * 2^(2 * ByteBits) + byte(2) * 2^ByteBits + byte(3)

\* Mutant: the bytes of an incomplete group are left out.
EncodedLen_WholeGroups(n) == 4 * (n \div 3)
EncodedLen(n) == 4 * ((n + 2) \div 3)

\* The text of the bytes, when i(g) is the value of i after group g.
EncodedWith(bytes, i(_)) ==
  [j \in 1 .. EncodedLen(Len(bytes)) |->
    LET g == (j - 1) \div 4
        k == (j - 1) % 4
    IN IF (k = 2 /\ i(g) > Len(bytes) + 1) \/ (k = 3 /\ i(g) > Len(bytes))
       THEN Pad
       ELSE Field(Triple(bytes, g), (3 - k) * DigitBits, DigitBits)]

\* What clients write: '=' stands where a group has no byte.
Padded(bytes) == EncodedWith(bytes, LAMBDA g : 3 * g + 3)

\* i stops at the end of the input, so no '=' is ever written.
base64_encode(bytes) ==
  EncodedWith(bytes, LAMBDA g : IF 3 * g + 3 < Len(bytes) THEN 3 * g + 3 ELSE Len(bytes))

-----------------------------------------------------------------------------
\* Mutants: only the last character is looked at; the '=' of the whole text
\* are counted.
PaddingOf_Last(input) == IF Len(input) > 0 /\ input[Len(input)] = Pad THEN 1 ELSE 0
PaddingOf_All(input) == Len(SelectSeq(input, LAMBDA c : c = Pad))

\* Each of the last two characters is looked at by itself.
PaddingOf(input) ==
  IF Len(input) < 2 THEN 0
  ELSE (IF input[Len(input)] = Pad THEN 1 ELSE 0)
       + (IF input[Len(input) - 1] = Pad THEN 1 ELSE 0)

DecodedLen(input) == 3 * (Len(input) \div 4) - PaddingOf(input)

\* The table's entry: '=' counts as the digit 0.
DigitOf(c) == IF c = Pad THEN 0 ELSE c

Decodes(input) == Len(input) % 4 = 0 /\ \A k \in DOMAIN input : input[k] # Bad

\* Byte j of a text that decodes: group g has the bytes 3g + 1 .. 3g + 3.
DecodedByte(input, j) ==
  LET g == (j - 1) \div 3
      digit(k) == DigitOf(input[4 * g + k])
      group == ((digit(1) * 2^DigitBits + digit(2)) * 2^DigitBits + digit(3))
                 * 2^DigitBits + digit(4)
  IN Field(group, (2 - ((j - 1) % 3)) * ByteBits, ByteBits)

Decoded(input) == [j \in 1 .. DecodedLen(input) |-> DecodedByte(input, j)]

\* What a C function sees of bytes that end in a NUL.
CString(bytes) ==
  LET nuls == {k \in DOMAIN bytes : bytes[k] = 0}
  IN IF nuls = {} THEN bytes
     ELSE SubSeq(bytes, 1, (CHOOSE k \in nuls : \A m \in nuls : k <= m) - 1)
=============================================================================
