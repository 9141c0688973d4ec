----------------------------- MODULE RadioEvents -----------------------------
(***************************************************************************)
(* The events of telldus-core, "key:value;key:value;...", field by field,  *)
(* and what TelldusParser makes of them.                                   *)
(***************************************************************************)
EXTENDS TelldusParser

CONSTANT Fields          \* the fields of the events of each class,
                         \* <<key, text, meaning>>

\* What Parse asks for, and the texts it knows.
NumberKeys == {"id", "humidity", "house", "unit", "group"}
Keys == {"class", "protocol", "model", "method", "temp"} \union NumberKeys
Names == {"sensor", "command", "mandolyn", "arctech", "temperaturehumidity", "selflearning",
          "turnon"}

FieldsOf(class) == Fields[class] \union {<<"class", class, class>>}

\* What separates the fields is not in them, no key ends in one that is asked
\* for, and the meaning of a field is that of its text alone.
IsFree(text) == text \in Seq(Byte \ {Colon, Semicolon})
MeaningOf(key, text) ==
    IF key \in NumberKeys THEN ToInteger(Bytes(text))
    ELSE IF key = "temp" THEN ToFloat(Bytes(text)) ELSE text

ASSUME TextsOfParse ==
    \A text \in Keys \union Names : Bytes(text) # <<>> /\ IsFree(Bytes(text))

ASSUME FieldsAssumption ==
    \A class \in DOMAIN Fields : \A field \in FieldsOf(class) :
        /\ IsFree(Bytes(field[1])) /\ IsFree(Bytes(field[2]))
        /\ \A key \in Keys : IsSuffix(Bytes(key), Bytes(field[1])) => field[1] = key
        /\ \A name \in Names : Bytes(field[2]) = Bytes(name) => field[2] = name
        /\ field[3] = MeaningOf(field[1], field[2])
        /\ field[1] = "humidity" => field[3] >= 0

VARIABLE fields          \* of the event so far

EventInit == fields = <<>>

\* external: telldus-core writes class and protocol first and each key once.
AddField(class, field) ==
    /\ IF fields = <<>> THEN field = <<"class", class, class>>
       ELSE /\ fields[1][2] = class /\ field \in Fields[class]
            /\ \A i \in DOMAIN fields : fields[i][1] # field[1]
            /\ Len(fields) = 1 <=> field[1] = "protocol"
    /\ fields' = Append(fields, field)

EventNext == \E class \in DOMAIN Fields : \E field \in FieldsOf(class) : AddField(class, field)

EventSpec == EventInit /\ [][EventNext]_fields

-----------------------------------------------------------------------------
(* Properties *)

FieldText(field) == Bytes(field[1]) \o <<Colon>> \o Bytes(field[2]) \o <<Semicolon>>
EventText == FlattenSeq([i \in DOMAIN fields |-> FieldText(fields[i])])

\* What a field of the event means, or a default.
Field(key, default) ==
    LET named == {fields[i] : i \in {j \in DOMAIN fields : fields[j][1] = key}}
    IN  IF named = {} THEN default ELSE (CHOOSE f \in named : TRUE)[3]

\* An event is reported with the values of its own fields, in whatever order
\* they come and whichever are missing: no key is found in another one, no
\* value reaches into the next field, and a number that does not fit is 0.
EventAsReceived ==
    Parse(EventText) =
        CASE Field("class", "") = "sensor" /\ Field("protocol", "") = "mandolyn" ->
                <<"MANDOLYN_SENSOR", Field("id", 0), Field("temp", <<0, 0>>)>> \o
                (IF Field("model", "") = "temperaturehumidity"
                 THEN <<"TEMPHUMIDITY", Field("humidity", 0)>> ELSE <<"TEMP", 0>>)
          [] /\ Field("class", "") = "command" /\ Field("protocol", "") = "arctech"
             /\ Field("model", "") = "selflearning" ->
                <<"ARCTECH_SWITCH", Field("house", 0), Field("unit", 0), Field("group", 0),
                  Field("method", "") = "turnon">>
          [] OTHER -> NoMessage

=============================================================================
