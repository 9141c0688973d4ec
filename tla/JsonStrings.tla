----------------------------- MODULE JsonStrings -----------------------------
(***************************************************************************)
(* A string in a JSON text, as json.hpp writes and reads it: the escapes   *)
(* and the checks of UTF-8.                                                *)
(***************************************************************************)
EXTENDS Texts

Quote == 34
Backslash == 92
Slash == 47

-----------------------------------------------------------------------------
(* lexer *)

Token(type, value, next) == [type |-> type, value |-> value, next |-> next]
ParseError == Token("parse_error", <<>>, 0)

\* 0 to 9, A to F and a to f.
Hex(c) == CASE c \in Digits -> c - 48
            [] c \in 65 .. 70 -> c - 55
            [] c \in 97 .. 102 -> c - 87
            [] OTHER -> -1

get_codepoint(text, i) ==
    LET digit == [k \in 0 .. 3 |-> Hex(get(text, i + k))]
    IN  IF \E k \in 0 .. 3 : digit[k] = -1 THEN -1
        ELSE 4096 * digit[0] + 256 * digit[1] + 16 * digit[2] + digit[3]

\* translate code point to bytes
Utf8(codepoint) ==
    LET continued(n) == 128 + ((codepoint \div n) % 64)
    IN  CASE codepoint < 128 -> <<codepoint>>
          [] codepoint >= 128 /\ codepoint < 2048 ->
                <<192 + codepoint \div 64, continued(1)>>
          [] codepoint >= 2048 /\ codepoint < 65536 ->
                <<224 + codepoint \div 4096, continued(64), continued(1)>>
          [] OTHER -> <<240 + codepoint \div 262144, continued(4096), continued(64),
                        continued(1)>>

High == 55296 .. 56319      \* D800 .. DBFF
Low == 56320 .. 57343       \* DC00 .. DFFF

\* What a piece of a string stands for, and the place behind it.
Piece(bytes, next) == [ok |-> TRUE, bytes |-> bytes, next |-> next]
NoPiece == [ok |-> FALSE, bytes |-> <<>>, next |-> 0]

\* \uxxxx or a pair of surrogates; i is the place after the u (117).
UnicodeEscape(text, i) ==
    LET second == IF get(text, i + 4) = Backslash /\ get(text, i + 5) = 117
                  THEN get_codepoint(text, i + 6) ELSE -1
        Unit(first) ==
          CASE first \in High /\ second \in Low ->
                Piece(Utf8(1024 * (first - 55296) + (second - 56320) + 65536), i + 10)
            [] first \notin High \union Low \union {-1} -> Piece(Utf8(first), i + 4)
            [] OTHER -> NoPiece
    IN  Unit(get_codepoint(text, i))

\* The byte that b, f, n, r, t and the characters that are escaped as they are
\* stand for behind a backslash.
Meant(letter) ==
    CASE letter = 98 -> 8
      [] letter = 102 -> 12
      [] letter = 110 -> LF
      [] letter = 114 -> CR
      [] letter = 116 -> 9
      [] letter \in {Quote, Backslash, Slash} -> letter
      [] OTHER -> -1

Escape(text, i) ==
    LET letter == get(text, i)
    IN  CASE Meant(letter) # -1 -> Piece(<<Meant(letter)>>, i + 1)
          [] letter = 117 -> UnicodeEscape(text, i + 1)
          [] OTHER -> NoPiece

\* Characters that must be escaped, and those that stand for themselves.
Control == 0 .. 31
Plain == (32 .. 127) \ {Quote, Backslash}

\* The ranges of the bytes that must follow c in well-formed UTF-8; control
\* characters, the end of the text and the other bytes are errors.
Following(c) ==
    LET tail == 128 .. 191
    IN  CASE c \in Plain -> <<>>
          [] c \in Control \union {EOF} -> <<{}>>
          [] c \in 194 .. 223 -> <<tail>>
          [] c = 224 -> <<160 .. 191, tail>>
          [] c \in (225 .. 239) \ {237} -> <<tail, tail>>
          [] c = 237 -> <<128 .. 159, tail>>
          [] c = 240 -> <<144 .. 191, tail, tail>>
          [] c \in 241 .. 243 -> <<tail, tail, tail>>
          [] c = 244 -> <<128 .. 143, tail, tail>>
          [] OTHER -> <<{}>>

Character(text, i) ==
    LET ranges == Following(get(text, i))
        next == i + Len(ranges) + 1
    IN  IF \A k \in 1 .. Len(ranges) : get(text, i + k) \in ranges[k]
        THEN Piece(SubSeq(text, i, next - 1), next)
        ELSE NoPiece

\* One round of the loop in scan_string, at place i, other than at the quote.
PieceAt(text, i) ==
    IF get(text, i) = Backslash THEN Escape(text, i + 1) ELSE Character(text, i)

\* The rounds of the loop from place i to the quote: yytext, and the place
\* behind the quote.
scan_string(text, first) ==
    LET InFront(bytes, rest) ==
            IF rest.type = "parse_error" THEN ParseError
            ELSE Token("value_string", bytes \o rest.value, rest.next)
        string[i \in 1 .. Len(text) + 1] ==
            LET From(piece) == IF piece.ok THEN InFront(piece.bytes, string[piece.next])
                               ELSE ParseError
            IN  IF get(text, i) = Quote THEN Token("value_string", <<>>, i + 1)
                ELSE From(PieceAt(text, i))
    IN  string[first]

-----------------------------------------------------------------------------
(* serializer *)

\* The letter behind the backslash for c, or -1.
Letter(c) ==
    CASE c = 8 -> 98
      [] c = 12 -> 102
      [] c = LF -> 110
      [] c = CR -> 114
      [] c = 9 -> 116
      [] c \in {Quote, Backslash} -> c
      [] OTHER -> -1

\* Mutant: control characters without a letter of their own are copied.
EscapeLetters(c) == IF Letter(c) = -1 THEN <<c>> ELSE <<Backslash, Letter(c)>>

\* One byte of a string; the control characters become \u00xx, bytes above 127
\* are copied as they are.
EscapeByte(c) ==
    LET hex(n) == IF n < 10 THEN 48 + n ELSE 87 + n
    IN  CASE Letter(c) # -1 -> <<Backslash, Letter(c)>>
          [] Letter(c) = -1 /\ c \in Control ->
                <<Backslash, 117, 48, 48, hex(c \div 16), hex(c % 16)>>
          [] OTHER -> <<c>>

\* The number of bytes that escaping adds.
extra_space(s) ==
    LET Extra(c) == CASE Letter(c) # -1 -> 1
                      [] Letter(c) = -1 /\ c \in Control -> 5
                      [] OTHER -> 0
        res[i \in 0 .. Len(s)] == IF i = 0 THEN 0 ELSE res[i - 1] + Extra(s[i])
    IN  res[Len(s)]

Escaped(s) == FlattenSeq([i \in DOMAIN s |-> EscapeByte(s[i])])

dump_escaped(s) ==
    <<Quote>> \o (IF extra_space(s) = 0 THEN s ELSE Escaped(s)) \o <<Quote>>

=============================================================================
