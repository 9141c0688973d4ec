------------------------------ MODULE JsonBinary ------------------------------
(***************************************************************************)
(* binary_writer and binary_reader of json.hpp: values as CBOR and as      *)
(* MessagePack.                                                            *)
(*                                                                         *)
(* A value is the pair of module Json, except for its numbers: the         *)
(* contents of a number_unsigned, a number_integer and a number_float are  *)
(* the 8 bytes of the uint64_t, int64_t or double, the most significant    *)
(* first.  A NaN of fewer bytes is read as the quiet NaN.                  *)
(***************************************************************************)
EXTENDS Json

-----------------------------------------------------------------------------
(* Numbers of 8 bytes *)

Fill(n, byte) == [i \in 1 .. n |-> byte]

\* A std::size_t from a number, and back; every text is shorter than MaxSize.
Uint64(n) == Fill(4, 0) \o [i \in 1 .. 4 |-> (n \div 256^(4 - i)) % 256]
MaxSize == 256^3
Size(number) == IF SubSeq(number, 1, 5) = Fill(5, 0)
                THEN 65536 * number[6] + 256 * number[7] + number[8]
                ELSE MaxSize

isNegative(number) == number[1] >= 128
Complement(number) == [i \in 1 .. 8 |-> 255 - number[i]]      \* -1 - number

\* The cast to an integer of n bytes, and whether it keeps the number.
Cast(number, n) == SubSeq(number, 9 - n, 8)
FitsUnsigned(number, n) == SubSeq(number, 1, 8 - n) = Fill(8 - n, 0)

\* Mutant: the sign bit of the smaller integer is not looked at.
FitsMagnitude(number, n) == SubSeq(number, 1, 8 - n) = Fill(8 - n, 255)

\* A negative number is not below the smallest integer of n bytes.
FitsSigned(number, n) ==
    SubSeq(number, 1, 8 - n) = Fill(8 - n, 255) /\ number[9 - n] >= 128

\* The control byte with a size or number: in the byte itself up to limit, else
\* in the bytes that follow the first control byte of codes with enough of them.
ControlByte(small, limit, codes, number) ==
    LET Fits(code) == FitsUnsigned(number, code[1])
        fitting == SelectSeq(codes, Fits)
    IN  CASE FitsUnsigned(number, 1) /\ number[8] <= limit -> <<small + number[8]>>
          [] fitting # <<>> -> <<fitting[1][2]>> \o Cast(number, fitting[1][1])
          [] OTHER -> <<>>

-----------------------------------------------------------------------------
(* binary_writer *)

CborHead(major, number) ==
    ControlByte(major, 23, [k \in 1 .. 4 |-> <<2^(k - 1), major + 23 + k>>], number)

CborInteger(number) == IF isNegative(number) THEN CborHead(32, Complement(number))
                       ELSE CborHead(0, number)

CborString(s) == CborHead(96, Uint64(Len(s))) \o s

\* std::map iterates over its keys in their order.
RECURSIVE write_cbor(_), CborArray(_), CborObject(_)
CborArray(items) ==
    CborHead(128, Uint64(Len(items))) \o FlattenSeq([i \in DOMAIN items |-> write_cbor(items[i])])

CborObject(members) ==
    LET keys == Sorted(DOMAIN members)
        Member(key) == CborString(key) \o write_cbor(members[key])
    IN  CborHead(160, Uint64(Len(keys))) \o FlattenSeq([i \in DOMAIN keys |-> Member(keys[i])])

write_cbor(j) ==
    CASE j[1] = "null" -> <<246>>
      [] j[1] = "boolean" -> <<IF j[2] THEN 245 ELSE 244>>
      [] j[1] = "number_integer" -> CborInteger(j[2])
      [] j[1] = "number_unsigned" -> CborHead(0, j[2])
      [] j[1] = "number_float" -> <<251>> \o j[2]
      [] j[1] = "string" -> CborString(j[2])
      [] j[1] = "array" -> CborArray(j[2])
      [] j[1] = "object" -> CborObject(j[2])

MsgpackUnsigned(number) ==
    ControlByte(0, 127, <<<<1, 204>>, <<2, 205>>, <<4, 206>>, <<8, 207>>>>, number)

\* Negative: in one byte from -32, else the smallest integer it fits.
MsgpackInteger(number) ==
    LET Fits(code) == FitsSigned(number, code[1])
        fitting == SelectSeq(<<<<1, 208>>, <<2, 209>>, <<4, 210>>, <<8, 211>>>>, Fits)
    IN  CASE ~isNegative(number) -> MsgpackUnsigned(number)
          [] isNegative(number) /\ FitsSigned(number, 1) /\ number[8] >= 224 -> <<number[8]>>
          [] OTHER -> <<fitting[1][2]>> \o Cast(number, fitting[1][1])

MsgpackString(s) ==
    ControlByte(160, 31, <<<<1, 217>>, <<2, 218>>, <<4, 219>>>>, Uint64(Len(s))) \o s

RECURSIVE write_msgpack(_), MsgpackArray(_), MsgpackObject(_)
MsgpackArray(items) ==
    ControlByte(144, 15, <<<<2, 220>>, <<4, 221>>>>, Uint64(Len(items)))
    \o FlattenSeq([i \in DOMAIN items |-> write_msgpack(items[i])])

MsgpackObject(members) ==
    LET keys == Sorted(DOMAIN members)
        Member(key) == MsgpackString(key) \o write_msgpack(members[key])
    IN  ControlByte(128, 15, <<<<2, 222>>, <<4, 223>>>>, Uint64(Len(keys)))
        \o FlattenSeq([i \in DOMAIN keys |-> Member(keys[i])])

write_msgpack(j) ==
    CASE j[1] = "null" -> <<192>>
      [] j[1] = "boolean" -> <<IF j[2] THEN 195 ELSE 194>>
      [] j[1] = "number_integer" -> MsgpackInteger(j[2])
      [] j[1] = "number_unsigned" -> MsgpackUnsigned(j[2])
      [] j[1] = "number_float" -> <<203>> \o j[2]
      [] j[1] = "string" -> MsgpackString(j[2])
      [] j[1] = "array" -> MsgpackArray(j[2])
      [] j[1] = "object" -> MsgpackObject(j[2])

-----------------------------------------------------------------------------
(* binary_reader: i is the place of the next byte. *)

As(type, result) == IF result.ok THEN Parsed(<<type, result.value>>, result.next) ELSE Failed

\* The next n bytes; the end of the text is an exception.
get_bytes(text, i, n) ==
    IF i + n <= Len(text) + 1 THEN Parsed(SubSeq(text, i, i + n - 1), i + n) ELSE Failed

\* An integer of n bytes as one of 8.
get_number(text, i, n, signed) ==
    LET Extended(result) ==
            IF ~result.ok THEN Failed
            ELSE Parsed(Fill(8 - n, IF signed /\ result.value[1] >= 128 THEN 255 ELSE 0)
                            \o result.value, result.next)
    IN  Extended(get_bytes(text, i, n))

get_string(text, length) ==
    IF length.ok THEN As("string", get_bytes(text, length.next, Size(length.value))) ELSE Failed

\* significand * 2^power as a double; no significand has more than 24 bits.
Double(negative, significand, power) ==
    LET sign == IF negative THEN 128 ELSE 0
        k == CHOOSE k \in 0 .. 23 : significand \in 2^k .. 2^(k + 1) - 1
        exponent == k + power + 1023
        fraction == (significand - 2^k) * 2^(28 - k)
    IN  IF significand = 0 THEN <<sign>> \o Fill(7, 0)
        ELSE <<sign + exponent \div 16, 16 * (exponent % 16) + fraction \div 2^24>>
             \o [i \in 1 .. 3 |-> (fraction \div 256^(3 - i)) % 256] \o Fill(3, 0)

\* infinity and quiet_NaN
Special(negative, isNaN) ==
    <<IF negative THEN 255 ELSE 127, IF isNaN THEN 248 ELSE 240>> \o Fill(6, 0)

HalfPrecision(bytes) ==
    LET negative == bytes[1] >= 128
        exp == (bytes[1] \div 4) % 32
        mant == 256 * (bytes[1] % 4) + bytes[2]
    IN  CASE exp = 0 -> Double(negative, mant, -24)
          [] exp \in 1 .. 30 -> Double(negative, mant + 1024, exp - 25)
          [] exp = 31 -> Special(negative, mant # 0)

\* external: the conversion from float to double.
SinglePrecision(bytes) ==
    LET negative == bytes[1] >= 128
        exp == 2 * (bytes[1] % 128) + bytes[2] \div 128
        mant == 65536 * (bytes[2] % 128) + 256 * bytes[3] + bytes[4]
    IN  CASE exp = 0 -> Double(negative, mant, -149)
          [] exp \in 1 .. 254 -> Double(negative, mant + 2^23, exp - 150)
          [] exp = 255 -> Special(negative, mant # 0)

get_float(text, i, n) ==
    LET Widened(bytes) == CASE n = 2 -> HalfPrecision(bytes)
                            [] n = 4 -> SinglePrecision(bytes)
                            [] n = 8 -> bytes
        Converted(result) == IF result.ok THEN Parsed(Widened(result.value), result.next) ELSE Failed
    IN  As("number_float", Converted(get_bytes(text, i, n)))

CborArgument(text, i) ==
    LET info == get(text, i) % 32
    IN  CASE info <= 23 -> Parsed(Uint64(info), i + 1)
          [] info \in 24 .. 27 -> get_number(text, i + 1, 2^(info - 24), FALSE)
          [] OTHER -> Failed

\* A string of indefinite length are the bytes up to the next 0xff.
get_cbor_string(text, i) ==
    LET c == get(text, i)
        ends == {k \in i + 1 .. Len(text) : text[k] = 255}
    IN  CASE c \in 96 .. 123 -> get_string(text, CborArgument(text, i))
          [] c = 127 /\ ends # {} ->
                Parsed(<<"string", SubSeq(text, i + 1, Min(ends) - 1)>>, Min(ends) + 1)
          [] OTHER -> Failed

get_msgpack_string(text, i) ==
    LET c == get(text, i)
    IN  CASE c \in 160 .. 191 -> get_string(text, Parsed(Uint64(c % 32), i + 1))
          [] c \in 217 .. 219 -> get_string(text, get_number(text, i + 1, 2^(c - 217), FALSE))
          [] OTHER -> Failed

Cbor == "CBOR"
Msgpack == "MessagePack"
Indefinite == -1

RECURSIVE parse_cbor_internal(_, _), parse_msgpack_internal(_, _),
          Items(_, _, _, _, _), Members(_, _, _, _, _)
get_key(format, text, i) ==
    IF format = Cbor THEN get_cbor_string(text, i) ELSE get_msgpack_string(text, i)
get_value(format, text, i) ==
    IF format = Cbor THEN parse_cbor_internal(text, i) ELSE parse_msgpack_internal(text, i)

\* n more elements, or those up to a break.
Items(format, text, i, n, items) ==
    LET More(item) == IF item.ok THEN Items(format, text, item.next, IF n > 0 THEN n - 1 ELSE n,
                                            Append(items, item.value))
                      ELSE Failed
    IN  CASE n = 0 -> Parsed(<<"array", items>>, i)
          [] n = Indefinite /\ get(text, i) = 255 -> Parsed(<<"array", items>>, i + 1)
          [] OTHER -> More(get_value(format, text, i))

\* n more members, the first of a key counts; or those up to a break, the last
\* of a key counts.
Members(format, text, i, n, members) ==
    LET More(key, value) ==
            IF ~value.ok THEN Failed
            ELSE Members(format, text, value.next, IF n > 0 THEN n - 1 ELSE n,
                         IF n > 0 THEN members @@ (key :> value.value)
                         ELSE (key :> value.value) @@ members)
        Keyed(key) == IF key.ok THEN More(key.value[2], get_value(format, text, key.next)) ELSE Failed
    IN  CASE n = 0 -> Parsed(<<"object", members>>, i)
          [] n = Indefinite /\ get(text, i) = 255 -> Parsed(<<"object", members>>, i + 1)
          [] OTHER -> Keyed(get_key(format, text, i))

Array(format, text, size) ==
    IF size.ok THEN Items(format, text, size.next, Size(size.value), <<>>) ELSE Failed
Object(format, text, size) ==
    IF size.ok THEN Members(format, text, size.next, Size(size.value), <<>>) ELSE Failed

CborNegative(argument) ==
    IF argument.ok THEN As("number_integer", Parsed(Complement(argument.value), argument.next))
    ELSE Failed
CborContainer(text, i) ==
    LET c == text[i]
    IN  CASE c = 159 -> Items(Cbor, text, i + 1, Indefinite, <<>>)
          [] c = 191 -> Members(Cbor, text, i + 1, Indefinite, <<>>)
          [] c \in 128 .. 155 -> Array(Cbor, text, CborArgument(text, i))
          [] c \in 160 .. 187 -> Object(Cbor, text, CborArgument(text, i))
          [] OTHER -> Failed

parse_cbor_internal(text, i) ==
    LET c == get(text, i)
    IN  CASE c \in 0 .. 27 -> As("number_unsigned", CborArgument(text, i))
          [] c \in 32 .. 59 -> CborNegative(CborArgument(text, i))
          [] c \in 96 .. 127 -> get_cbor_string(text, i)
          [] c \in 128 .. 191 -> CborContainer(text, i)
          [] c \in {244, 245} -> Parsed(<<"boolean", c = 245>>, i + 1)
          [] c = 246 -> Parsed(<<"null", 0>>, i + 1)
          [] c \in 249 .. 251 -> get_float(text, i + 1, 2^(c - 248))
          [] OTHER -> Failed

MsgpackNumber(text, i) ==
    LET c == text[i]
    IN  CASE c \in 0 .. 127 -> As("number_unsigned", Parsed(Uint64(c), i + 1))
          [] c \in 204 .. 207 -> As("number_unsigned", get_number(text, i + 1, 2^(c - 204), FALSE))
          [] c \in 208 .. 211 -> As("number_integer", get_number(text, i + 1, 2^(c - 208), TRUE))
          [] c \in 224 .. 255 -> As("number_integer", get_number(text, i, 1, TRUE))

MsgpackContainer(text, i) ==
    LET c == text[i]
    IN  CASE c \in 128 .. 143 -> Object(Msgpack, text, Parsed(Uint64(c % 16), i + 1))
          [] c \in 144 .. 159 -> Array(Msgpack, text, Parsed(Uint64(c % 16), i + 1))
          [] c \in 220 .. 221 -> Array(Msgpack, text, get_number(text, i + 1, 2^(c - 219), FALSE))
          [] c \in 222 .. 223 -> Object(Msgpack, text, get_number(text, i + 1, 2^(c - 221), FALSE))

parse_msgpack_internal(text, i) ==
    LET c == get(text, i)
    IN  CASE c \in (0 .. 127) \union (204 .. 211) \union (224 .. 255) -> MsgpackNumber(text, i)
          [] c \in (128 .. 159) \union (220 .. 223) -> MsgpackContainer(text, i)
          [] c \in (160 .. 191) \union (217 .. 219) -> get_msgpack_string(text, i)
          [] c \in {194, 195} -> Parsed(<<"boolean", c = 195>>, i + 1)
          [] c = 192 -> Parsed(<<"null", 0>>, i + 1)
          [] c \in 202 .. 203 -> get_float(text, i + 1, 2^(c - 200))
          [] OTHER -> Failed

\* from_cbor and from_msgpack, strict: nothing may follow the value.
Strict(text, result) == IF result.ok /\ result.next > Len(text) THEN result.value ELSE Thrown
from_cbor(text) == Strict(text, parse_cbor_internal(text, Start(text)))
from_msgpack(text) == Strict(text, parse_msgpack_internal(text, Start(text)))

=============================================================================
