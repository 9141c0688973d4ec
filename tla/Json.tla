-------------------------------- MODULE Json --------------------------------
(***************************************************************************)
(* json.hpp as far as the program uses it: parse, dump without             *)
(* indentation, operator[], get and initializer lists.                     *)
(*                                                                         *)
(* A value is a pair of its type and its contents: an object is a function *)
(* from keys (texts), an array a sequence, a float the exact decimal       *)
(* <<m, e>>, m * 10^e.  Signed and unsigned integers are one type, they    *)
(* differ in their range alone.                                            *)
(***************************************************************************)
EXTENDS JsonStrings

CONSTANTS MaxUnsigned,      \* the largest unsigned integer, 2^64 - 1
          MaxExponent10,    \* no float is 10 to a larger power, 308
          Digits10          \* the decimal digits a float keeps, 15

ASSUME JsonAssumption == {MaxUnsigned, MaxExponent10, Digits10} \subseteq Nat

-----------------------------------------------------------------------------
(* lexer: strings are those of JsonStrings *)

\* The state machine of scan_number: the state after c.  It may end in the
\* states zero, any1, decimal2 and any2.
Otherwise(state) ==
    IF state \in {"zero", "any1", "decimal2", "any2"} THEN "done" ELSE "error"

IntegerState(state, c) ==
    CASE state = "init" /\ c = Code["-"] -> "minus"
      [] state \in {"init", "minus"} /\ c = Code["0"] -> "zero"
      [] state \in {"init", "minus"} /\ c \in Digits \ {Code["0"]} -> "any1"
      [] state = "any1" /\ c \in Digits -> "any1"
      [] state \in {"zero", "any1"} /\ c = Code["."] -> "decimal1"
      [] state \in {"zero", "any1"} /\ c \in {Code["e"], Code["E"]} -> "exponent"
      [] OTHER -> Otherwise(state)

FractionState(state, c) ==
    CASE c \in Digits -> "decimal2"
      [] state = "decimal2" /\ c \in {Code["e"], Code["E"]} -> "exponent"
      [] OTHER -> Otherwise(state)

ExponentState(state, c) ==
    CASE c \in Digits -> "any2"
      [] state = "exponent" /\ c \in {Code["+"], Code["-"]} -> "sign"
      [] OTHER -> Otherwise(state)

NumberState(state, c) ==
    CASE state \in {"init", "minus", "zero", "any1"} -> IntegerState(state, c)
      [] state \in {"decimal1", "decimal2"} -> FractionState(state, c)
      [] state \in {"exponent", "sign", "any2"} -> ExponentState(state, c)

\* The place after the number, 0 after an error.
RECURSIVE NumberEnd(_, _, _)
NumberEnd(text, i, state) ==
    LET next == NumberState(state, get(text, i))
    IN  CASE next = "done" -> i
          [] next = "error" -> 0
          [] OTHER -> NumberEnd(text, i + 1, next)

\* An integer that does not fit becomes a float.
ReadNumber(number) ==
    LET Position(chars) == Min({i \in DOMAIN number : number[i] \in chars} \union {Len(number) + 1})
        isDigit(c) == c \in Digits
        sign == IF number[1] = Code["-"] THEN -1 ELSE 1
        exp == Position({Code["e"], Code["E"]})
        dot == Min({Position({Code["."]}), exp})
        decimals == IF dot = exp THEN 0 ELSE exp - dot - 1
        scaled == Natural(SelectSeq(SubSeq(number, 1, exp - 1), isDigit))
        power == LET digits == SelectSeq(SubSeq(number, exp, Len(number)), isDigit)
                 IN  IF get(number, exp + 1) = Code["-"] THEN -Natural(digits) ELSE Natural(digits)
        isInteger == {Code["."], Code["e"], Code["E"]} \intersect Range(number) = {}
        fits == IF sign = 1 THEN scaled <= MaxUnsigned ELSE scaled <= MaxUnsigned \div 2 + 1
    IN  IF isInteger /\ fits THEN <<"integer", sign * scaled>>
        ELSE <<"float", Decimal(sign * scaled, power - decimals)>>

scan_number(text, i) ==
    LET Number(end) == IF end = 0 THEN ParseError
                       ELSE Token("value_number", ReadNumber(SubSeq(text, i, end - 1)), end)
    IN  Number(NumberEnd(text, i, "init"))

scan_literal(text, i, literal, value) ==
    IF \A k \in 1 .. Len(literal) : get(text, i + k - 1) = Bytes(literal)[k]
    THEN Token("literal", value, i + Len(literal))
    ELSE ParseError

RECURSIVE scan(_, _)
scan(text, i) ==
    LET c == get(text, i)
    IN  CASE c \in {Code[" "], 9, LF, CR} -> scan(text, i + 1)
          [] c \in {Code[s] : s \in {"[", "]", "{", "}", ":", ","}} ->
                Token("structural", c, i + 1)
          [] c = Code["t"] -> scan_literal(text, i, "true", <<"boolean", TRUE>>)
          [] c = Code["f"] -> scan_literal(text, i, "false", <<"boolean", FALSE>>)
          [] c = Code["n"] -> scan_literal(text, i, "null", <<"null", 0>>)
          [] c = Quote -> scan_string(text, i + 1)
          [] c \in Digits \union {Code["-"]} -> scan_number(text, i)
          [] c \in {EOF, 0} -> Token("end_of_input", <<>>, i + 1)
          [] OTHER -> ParseError

-----------------------------------------------------------------------------
(* parser *)

Is(token, s) == token.type = "structural" /\ token.value = Code[s]

Parsed(value, next) == [ok |-> TRUE, value |-> value, next |-> next]
Failed == [ok |-> FALSE]

\* An integer that does not fit became a float; a float that does not is an
\* exception.
NumberOverflow(value) ==
    value[1] = "float" /\ LET magnitude == IF value[2][1] < 0 THEN -value[2][1] ELSE value[2][1]
                          IN  Len(ToString(magnitude)) + value[2][2] - 1 > MaxExponent10

End(value) == IF value[1] = "object" THEN "}" ELSE "]"

\* The value that starts with a token; Contents goes on with the next member of
\* an object or element of an array, of which value was read.
RECURSIVE parse_internal(_, _), Contents(_, _, _)
parse_internal(text, token) ==
    LET Open(value, first) == IF Is(first, End(value)) THEN Parsed(value, first.next)
                              ELSE Contents(text, first, value)
        empty == <<IF Is(token, "{") THEN "object" ELSE "array", <<>>>>
    IN  CASE Is(token, "{") \/ Is(token, "[") -> Open(empty, scan(text, token.next))
          [] token.type = "value_string" -> Parsed(<<"string", token.value>>, token.next)
          [] token.type = "literal" -> Parsed(token.value, token.next)
          [] token.type = "value_number" /\ ~NumberOverflow(token.value) ->
                Parsed(token.value, token.next)
          [] OTHER -> Failed

\* emplace keeps the first value of a key.
Contents(text, token, value) ==
    LET isObject == value[1] = "object"
        AfterKey(colon) == IF token.type = "value_string" /\ Is(colon, ":")
                           THEN scan(text, colon.next) ELSE ParseError
        More(result, comma) ==
            CASE Is(comma, ",") -> Contents(text, scan(text, comma.next), result)
              [] Is(comma, End(value)) -> Parsed(result, comma.next)
              [] OTHER -> Failed
        Add(element) ==
            IF ~element.ok THEN Failed
            ELSE More(<<value[1], IF isObject THEN value[2] @@ (token.value :> element.value)
                                  ELSE Append(value[2], element.value)>>,
                      scan(text, element.next))
    IN  Add(parse_internal(text, IF isObject THEN AfterKey(scan(text, token.next)) ELSE token))

\* Every exception, of the parser or of the access to a value.
Thrown == <<"thrown", 0>>

\* A byte order mark is skipped.
Start(text) == IF Len(text) >= 3 /\ SubSeq(text, 1, 3) = <<239, 187, 191>> THEN 4 ELSE 1

\* Mutant: what follows the value is not looked at.
ParseNotStrict(text) ==
    LET Whole(result) == IF result.ok THEN result.value ELSE Thrown
    IN  Whole(parse_internal(text, scan(text, Start(text))))

\* basic_json::parse, strict: nothing may follow the value.
parse(text) ==
    LET Whole(result) ==
            IF result.ok /\ scan(text, result.next).type = "end_of_input" THEN result.value
            ELSE Thrown
    IN  Whole(parse_internal(text, scan(text, Start(text))))

-----------------------------------------------------------------------------
(* serializer *)

\* "%.15g" and ".0" for what looks like an integer.
dump_float(decimal) ==
    LET m == decimal[1]
        sign == IF m < 0 THEN Bytes("-") ELSE <<>>
        digits == Bytes(ToString(IF m < 0 THEN -m ELSE m))
        n == Len(digits)
        exponent == n - 1 + decimal[2]
        zeros(k) == [i \in 1 .. k |-> Code["0"]]
        point(k) == SubSeq(digits, 1, k) \o (IF k < n THEN Bytes(".") ELSE <<>>)
                                         \o SubSeq(digits, k + 1, n)
        fixed == IF exponent < 0 THEN Bytes("0.") \o zeros(-exponent - 1) \o digits
                 ELSE IF exponent >= n THEN digits \o zeros(exponent + 1 - n)
                 ELSE point(exponent + 1)
        scientific ==
            LET power == Bytes(ToString(IF exponent < 0 THEN -exponent ELSE exponent))
            IN  point(1) \o Bytes(IF exponent < 0 THEN "e-" ELSE "e+")
                         \o zeros(IF Len(power) = 1 THEN 1 ELSE 0) \o power
        text == IF exponent \in -4 .. Digits10 - 1 THEN fixed ELSE scientific
        intLike == {Code["."], Code["e"]} \intersect Range(text) = {}
    IN  sign \o text \o (IF intLike THEN Bytes(".0") ELSE <<>>)

\* std::map keeps the keys in the order of their bytes.
Before(s, t) == \/ Len(s) < Len(t) /\ s = SubSeq(t, 1, Len(s))
                \/ \E i \in DOMAIN s \intersect DOMAIN t :
                        s[i] < t[i] /\ SubSeq(s, 1, i - 1) = SubSeq(t, 1, i - 1)
Sorted(keys) == [i \in 1 .. Cardinality(keys) |->
                    CHOOSE k \in keys : Cardinality({j \in keys : Before(j, k)}) = i - 1]

Separated(texts) ==
    FlattenSeq([i \in DOMAIN texts |-> (IF i = 1 THEN <<>> ELSE Bytes(",")) \o texts[i]])

RECURSIVE dump(_)
dump(value) ==
    LET contents == value[2]
        keys == Sorted(DOMAIN contents)
        member(key) == dump_escaped(key) \o Bytes(":") \o dump(contents[key])
    IN  CASE value[1] = "object" ->
                Bytes("{") \o Separated([i \in DOMAIN keys |-> member(keys[i])]) \o Bytes("}")
          [] value[1] = "array" ->
                Bytes("[") \o Separated([i \in DOMAIN contents |-> dump(contents[i])])
                           \o Bytes("]")
          [] value[1] = "string" -> dump_escaped(contents)
          [] value[1] = "boolean" -> Bytes(IF contents THEN "true" ELSE "false")
          [] value[1] = "integer" -> Bytes(ToString(contents))
          [] value[1] = "float" -> dump_float(contents)
          [] value[1] = "null" -> Bytes("null")

-----------------------------------------------------------------------------
(* basic_json *)

\* The constructor from an initializer list: an object if every element is a
\* pair whose first element is a string.
FromList(list) ==
    LET isMember(v) == v[1] = "array" /\ Len(v[2]) = 2 /\ v[2][1][1] = "string"
        AddMember(object, v) == object @@ (v[2][1][2] :> v[2][2])
    IN  IF \A i \in DOMAIN list : isMember(list[i])
        THEN <<"object", FoldLeft(AddMember, <<>>, list)>>
        ELSE <<"array", list>>

\* operator[] with a key: null becomes an object, a new key null.
At(value, key) ==
    CASE value[1] = "object" /\ key \in DOMAIN value[2] -> value[2][key]
      [] value[1] \in {"object", "null"} /\ ~(value[1] = "object" /\ key \in DOMAIN value[2]) ->
            <<"null", 0>>
      [] OTHER -> Thrown

GetString(value) == IF value[1] = "string" THEN value ELSE Thrown

\* Mutant: get_arithmetic_value, which refuses a boolean.
GetNumber(value) ==
    CASE value[1] = "integer" -> <<"int", value[2]>>
      [] OTHER -> Thrown

\* get<int>: static_cast from 64 bits or a float, which is cut off.
ToInt(n) == ((n + IntWrap \div 2) % IntWrap) - IntWrap \div 2
GetInt(value) ==
    CASE value[1] = "integer" -> <<"int", ToInt(value[2])>>
      [] value[1] = "float" ->
            LET m == value[2][1]
                e == value[2][2]
                cut == IF e >= 0 THEN m * 10^e
                       ELSE IF m >= 0 THEN m \div 10^(-e) ELSE -((-m) \div 10^(-e))
            IN  <<"int", ToInt(cut)>>
      [] value[1] = "boolean" -> <<"int", IF value[2] THEN 1 ELSE 0>>
      [] OTHER -> Thrown

=============================================================================
