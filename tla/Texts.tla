-------------------------------- MODULE Texts --------------------------------
(***************************************************************************)
(* A text is the sequence of its bytes.  What the parsers of the program   *)
(* share: bytes, their characters, and the numbers digits stand for.       *)
(***************************************************************************)
EXTENDS Integers, SequencesExt

CONSTANT IntWrap            \* the number of values of an int, 2^32

ASSUME TextsAssumption == IntWrap \in Nat \ {0} /\ IntWrap % 2 = 0

Byte == 0 .. 255

\* The characters 32 to 126, without the backquote, which no text here has.
Printable == " !\"#$%&'()*+,-./0123456789:;<=>?@ABCDEFGHIJKLMNOPQRSTUVWXYZ[\\]^_\t"
               \o "abcdefghijklmnopqrstuvwxyz{|}~"
Code == [c \in {SubSeq(Printable, n, n) : n \in 1 .. 95} |->
            31 + CHOOSE n \in 1 .. 95 : SubSeq(Printable, n, n) = c]

\* The bytes of a string of printable characters.
Bytes(s) == [i \in 1 .. Len(s) |-> Code[SubSeq(s, i, i)]]

LF == 10
CR == 13
EOF == -1
Digits == 48 .. 57

\* The byte at place i, for a reader that may go beyond the end.
get(text, i) == IF i \in 1 .. Len(text) THEN text[i] ELSE EOF

\* strtoull, strtoll, strtod and std::stringstream: the number of digits, and
\* the decimal <<m, e>>, m * 10^e, of a number with a point or an exponent.
Natural(digits) == LET Shift(n, d) == 10 * n + d - 48 IN FoldLeft(Shift, 0, digits)
Decimal(m, e) ==
    IF m = 0 THEN <<0, 0>>
    ELSE LET k == CHOOSE k \in 0 .. 9 : m % 10^k = 0 /\ (k = 9 \/ m % 10^(k + 1) # 0)
         IN  <<m \div 10^k, e + k>>

=============================================================================
