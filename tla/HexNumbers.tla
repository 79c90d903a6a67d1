------------------------------- MODULE HexNumbers -------------------------------
(***************************************************************************)
(* The files of numbers of lab3: generate_hex128.c writes them, main.c     *)
(* reads them back, with the conversions of string_utils.c.                *)
(*                                                                         *)
(* A number has Digits digits instead of 32, and 4 * Digits bits.  A       *)
(* shift, a mask and an `or' into bits that are zero are arithmetic.       *)
(***************************************************************************)
EXTENDS Integers, Sequences

CONSTANTS
  Digits,        \* MAX_128_HEX_BYTES
  Randoms,       \* what drand48, scaled to the range asked for, may give
  MaxNumbers     \* bound: numbers written

\* How many numbers n digits can write; the width of a number is that of all
\* its digits.
Power[n \in Nat] == IF n = 0 THEN 1 ELSE 16 * Power[n - 1]

ASSUME HexNumbersAssumption ==
  Digits \in Nat \ {0} /\ Randoms \subseteq 0..(Power[Digits] - 1) /\ MaxNumbers \in Nat

VARIABLES
  numbers,       \* history: what has been generated
  number_file    \* its characters

hexVars == <<numbers, number_file>>

Char == <<"0", "1", "2", "3", "4", "5", "6", "7", "8", "9", "A", "B", "C", "D", "E", "F">>
Separator == " "

\* int_to_hex of what fits into 4 bits.
IntToHex(n) == Char[n + 1]

\* Any other character counts as a zero, a small letter too.
HexToInt(c) == IF \E n \in 0..15 : Char[n + 1] = c
               THEN CHOOSE n \in 0..15 : Char[n + 1] = c
               ELSE 0

\* Variant: the number is shifted after its last digit as well.
Shifted(number, n) == ((number + n) * 16) % Power[Digits]

\* The number once its last digit is in.
LastDigit(number, n) == number + n

\* hex_to_int128: every digit but the last one is followed by a shift.
HexToInt128(text) ==
  LET number[i \in 0..(Digits - 1)] ==
        IF i = 0 THEN 0 ELSE ((number[i - 1] + HexToInt(text[i])) * 16) % Power[Digits]
  IN  LastDigit(number[Digits - 1], HexToInt(text[Digits]))

\* int128_to_hex: digit by digit from the lowest one, which goes to the end;
\* left[i] is what i shifts have left of the number.
Int128ToHex(number) ==
  LET left[i \in 0..Digits] == IF i = 0 THEN number ELSE left[i - 1] \div 16
  IN  [i \in 1..Digits |-> IntToHex(left[Digits - i] % 16)]

HexInit == numbers = <<>> /\ number_file = <<>>

Generate ==
  /\ Len(numbers) < MaxNumbers
  /\ \E number \in Randoms :
       /\ numbers' = Append(numbers, number)
       /\ number_file' = Append(number_file \o Int128ToHex(number), Separator)

HexSpec == HexInit /\ [][Generate]_hexVars

-----------------------------------------------------------------------------
\* What a file is made of.
Symbols == {Char[d] : d \in 1..16} \cup {Separator}

HexTypeOK == numbers \in Seq(Randoms) /\ number_file \in Seq(Symbols)

\* Every record of the file, taken where number_worker takes it, is the number
\* that was written there (main.c:91).
ReadBack ==
  \A k \in 1..Len(numbers) :
    LET start == (Digits + 1) * (k - 1)
    IN  HexToInt128(SubSeq(number_file, start + 1, start + Digits)) = numbers[k]
=============================================================================
