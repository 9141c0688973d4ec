----------------------------- MODULE Conversions -----------------------------
(***************************************************************************)
(* Everything that is converted at the borders of the program, on inputs   *)
(* that grow piece by piece: the address in a message to the server, the   *)
(* members of a line from it, the fields of an event of telldus-core, and  *)
(* the times of a thread; and the values that json.hpp writes in binary    *)
(* and compares, which the program does not do yet.                        *)
(***************************************************************************)
EXTENDS Messages, RadioEvents, ThreadTimes, JsonBinary, JsonPatch

CONSTANTS Chunks,          \* pieces of an address: a character each, in UTF-8
          MaxChunks,
          Numbers, Decimals,   \* the numbers in messages to the server
          CommandTypes, Values, Others,   \* what a line of the server may have as a
                           \* member, <<text, meaning>>
          MaxMembers,
          Binaries,        \* the values in a binary text, with numbers of 8 bytes
          Sizes,           \* of arrays and objects in binary
          ShortFloats,     \* <<half or single precision, double precision>>
          Documents,       \* the documents that are compared
          MaxValues        \* values in a binary text, documents compared

VARIABLES kind,     \* of the input
          parts     \* its pieces so far

vars == <<kind, parts, given, fields>>

Init == /\ kind \in {"message", "line", "event", "times", "binary", "document"}
        /\ parts = <<>>
        /\ TimesInit
        /\ EventInit

\* external: the address of a device in the configuration file.
AddChunk(chunk) ==
    /\ kind = "message" /\ Len(parts) < MaxChunks
    /\ parts' = Append(parts, chunk)
    /\ UNCHANGED <<kind, given, fields>>

\* external: the server writes a line with the members in any order, and some
\* of them twice.
AddMember(key, value) ==
    /\ kind = "line" /\ Len(parts) < MaxMembers
    /\ parts' = Append(parts, <<key, value>>)
    /\ UNCHANGED <<kind, given, fields>>

\* The fields of an event.
NextField(class, field) ==
    /\ kind = "event"
    /\ AddField(class, field)
    /\ UNCHANGED <<kind, parts, given>>

\* The times of a thread, which are no parts of a text.
AddTime(ms) ==
    /\ kind = "times"
    /\ GiveTime(ms)
    /\ UNCHANGED <<kind, parts, fields>>

\* external: the values that are put into a JSON value and written in binary.
AddBinary(value) ==
    /\ kind = "binary" /\ Len(parts) < MaxValues
    /\ parts' = Append(parts, value)
    /\ UNCHANGED <<kind, given, fields>>

\* external: a document, then one it is compared to.
AddDocument(document) ==
    /\ kind = "document" /\ Len(parts) < MaxValues
    /\ parts' = Append(parts, document)
    /\ UNCHANGED <<kind, given, fields>>

Next == \/ \E chunk \in Chunks : AddChunk(chunk)
        \/ \E value \in CommandTypes : AddMember("CommandType", value)
        \/ \E value \in Values : AddMember("Value", value)
        \/ \E value \in Others : AddMember("Destination", value)
        \/ \E class \in DOMAIN Fields : \E field \in FieldsOf(class) : NextField(class, field)
        \/ \E ms \in Times \union {-1} : AddTime(ms)
        \/ \E value \in Binaries : AddBinary(value)
        \/ \E document \in Documents : AddDocument(document)

Spec == Init /\ [][Next]_vars

-----------------------------------------------------------------------------
(* Properties *)

Address == FlattenSeq(parts)

\* The messages that are sent for one address.
Sent ==
    {BluetoothDeviceMessage(n, Address, n > 0) : n \in Numbers}
    \union {ArctechSwitch(n, n, 0, n > 0) : n \in Numbers}
    \union {MandolynSensor(1, d, 45) : d \in Decimals}
    \union {SubscribeToMessage(TELLDUSDEVICE_SET_STATE), AliveMessage(TRUE)}

\* Two messages sent one after the other are two lines, and each is read back
\* as the value it was made of: whatever an address holds, its quotes, line
\* ends and control characters neither end a line (TCPManager.cpp:20) nor the
\* string they are in, and a number keeps its value and its type.
SentIsRead ==
    kind = "message" =>
        \A json \in Sent :
            LET stream == SendLine(json) \o SendLine(AliveMessage(FALSE))
                first == ReceiveLine(stream, 1)
                second == ReceiveLine(stream, first.next)
            IN  /\ parse(first.line) = json
                /\ parse(second.line) = AliveMessage(FALSE)
                /\ second.next = Len(stream) + 1

\* The line the server writes: its members in the order of parts.
LineText ==
    LET member(i) == dump_escaped(Bytes(parts[i][1])) \o Bytes(": ") \o Bytes(parts[i][2][1])
    IN  Bytes("{") \o Separated([i \in DOMAIN parts |-> member(i)]) \o Bytes(" }")

\* What the first member with this key means.
Meaning(key) ==
    LET places == {i \in DOMAIN parts : parts[i][1] = key}
    IN  IF places = {} THEN NoCommand ELSE parts[Min(places)][2][2]

\* RunReceive passes on the command a line of the server means, with its id and
\* state, and none for every line that is incomplete, of another type or has
\* members of other types than expected; also behind a '\n' that came too late
\* for the line before (TCPClient.cpp:176).
CommandAsSent ==
    kind = "line" =>
        \A late \in {<<>>, <<LF>>} :
            CommandOf(late \o LineText) =
                IF Meaning("CommandType") = <<"TELLDUSDEVICE_SET_STATE">> THEN Meaning("Value")
                ELSE NoCommand

\* After a timeout ReceiveLine takes the rest of a line for a line of its own
\* (TCPClient.cpp:189): the rest is never a command, whatever is nested in it.
RestIsNoCommand ==
    LET NoRestIsCommand(text) ==
            \A k \in 2 .. Len(text) : CommandOf(SubSeq(text, k, Len(text))) = NoCommand
    IN  kind = "line" => NoRestIsCommand(LineText)

\* What is read back: an integer that is not negative comes back unsigned.
Canonical(value) ==
    IF value[1] = "number_integer" /\ ~isNegative(value[2]) THEN <<"number_unsigned", value[2]>>
    ELSE value

\* A value made of others; the keys are "", "a", "aa" and so on.
Built(form, values) ==
    LET named == [key \in {Fill(i - 1, 97) : i \in DOMAIN values} |-> values[Len(key) + 1]]
    IN  CASE form = "value" -> Last(values)
          [] form = "array" -> <<"array", values>>
          [] form = "object" -> <<"object", named>>
          [] form = "nested" -> <<"array", <<<<"object", named>>, <<"array", values>>, Last(values)>>>>

\* The parts, and null many times.
Lists == {parts} \union {Fill(n, Null) : n \in IF parts = <<Null>> THEN Sizes ELSE {}}

\* An array as CBOR may also be written, up to a break.
IndefiniteArray(values) ==
    <<159>> \o FlattenSeq([i \in DOMAIN values |-> write_cbor(values[i])]) \o <<255>>

\* "Any CBOR output created to_cbor can be successfully parsed by from_cbor"
\* (json.hpp:13374) and the same of MessagePack (json.hpp:13272): as the value
\* that was written, whatever its integers, at the limits of every size, and how
\* many bytes, elements or members it has.  A text that is cut off is refused,
\* and a float of fewer bytes is read as its exact value.
BinaryIsRead ==
    kind = "binary" =>
        /\ parts # <<>> =>
              \A form \in {"value", "array", "object", "nested"}, values \in Lists :
                  LET j == Built(form, values)
                      read == Built(form, [i \in DOMAIN values |-> Canonical(values[i])])
                      cbor == write_cbor(j)
                      msgpack == write_msgpack(j)
                  IN  /\ from_cbor(cbor) = read
                      /\ from_msgpack(msgpack) = read
                      /\ form = "array" => from_cbor(IndefiniteArray(values)) = read
                      /\ Len(values) = 1 =>
                            /\ \A k \in 0 .. Len(cbor) - 1 : from_cbor(SubSeq(cbor, 1, k)) = Thrown
                            /\ \A k \in 0 .. Len(msgpack) - 1 :
                                    from_msgpack(SubSeq(msgpack, 1, k)) = Thrown
        /\ parts = <<>> =>
              \A float \in ShortFloats :
                  from_cbor(<<IF Len(float[1]) = 2 THEN 249 ELSE 250>> \o float[1])
                      = <<"number_float", float[2]>>

\* Operations that leave j as it is: every primitive is tested where flatten
\* says it is, then the first element or member is copied, removed and moved back.
Tests(j) ==
    LET flat == flatten(j)[2]
        keys == Sorted({key \in DOMAIN flat : flat[key][1] # "null"})
    IN  [i \in DOMAIN keys |-> Operation("test", keys[i], <<flat[keys[i]]>>)]

Relocate(op, from, to) ==
    <<"object", (Bytes("from") :> <<"string", from>>) @@ Operation(op, to, <<>>)[2]>>
Moves(j) ==
    LET Through(first, spare, last) ==
            <<Relocate("copy", first, spare), Operation("remove", first, <<>>),
              Relocate("move", last, first)>>
        firstKey == Child(<<>>, escape(Sorted(DOMAIN j[2])[1]))
        lastIndex == Child(<<>>, Index(Len(j[2])))
    IN  IF j[1] \notin {"array", "object"} THEN <<>>
        ELSE CASE DOMAIN j[2] = {} -> <<>>
               [] j[1] = "array" /\ j[2] # <<>> -> Through(Bytes("/0"), Bytes("/-"), lastIndex)
               [] OTHER -> Through(firstKey, Bytes("/spare"), Bytes("/spare"))

\* "source.patch(diff(source, target)) == target" (json.hpp:14049): the operations
\* come in an order in which every index still means the element it was made for,
\* whatever is removed and added before, and every key finds its way through the
\* escapes of a pointer.  So do those that diff does not generate: the patch ends
\* with some that leave the target as it is.
DiffIsPatch ==
    kind = "document" /\ Len(parts) = 2 =>
        LET operations == diff(parts[1], parts[2], <<>>) \o Tests(parts[2]) \o Moves(parts[2])
        IN  Equal(patch(parts[1], <<"array", operations>>), parts[2])

\* Whether flatten keeps what j is made of: no empty array or object, and no
\* object whose first key is "0", which unflatten takes for an array.
RECURSIVE isRestorable(_)
isRestorable(j) ==
    j[1] \in {"array", "object"} =>
        /\ DOMAIN j[2] # {}
        /\ j[1] = "object" => Sorted({escape(key) : key \in DOMAIN j[2]})[1] # Bytes("0")
        /\ \A place \in DOMAIN j[2] : isRestorable(j[2][place])

\* "j == j.flatten().unflatten()" (json.hpp:13705): the pointers of any other
\* value name each of its elements once, and create it again whatever order the
\* keys "/1", "/10" and "/2" come in.
FlatIsRestored ==
    kind = "document" /\ Len(parts) = 1 /\ isRestorable(parts[1]) =>
        Equal(unflatten(flatten(parts[1])), parts[1])

=============================================================================
