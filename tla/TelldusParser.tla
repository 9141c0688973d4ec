---------------------------- MODULE TelldusParser ----------------------------
(***************************************************************************)
(* TelldusParser: what a raw event of telldus-core,                        *)
(* "key:value;key:value;...", becomes.                                     *)
(***************************************************************************)
EXTENDS StringTools

Colon == 58
Semicolon == 59

StringOf(data, key) == GetStringByToken(data, Bytes(key) \o <<Colon>>, <<Semicolon>>)
IntOf(data, key) == ToInteger(AfterToken(data, Bytes(key) \o <<Colon>>))
FloatOf(data, key) == ToFloat(AfterToken(data, Bytes(key) \o <<Colon>>))

NoMessage == <<>>

ParseSensor(protocol, data) ==
    IF protocol # Bytes("mandolyn") THEN NoMessage
    ELSE LET temp == FloatOf(data, "temp")
             humidity == IntOf(data, "humidity") % IntWrap
         IN  IF StringOf(data, "model") = Bytes("temperaturehumidity")
             THEN <<"MANDOLYN_SENSOR", IntOf(data, "id"), temp, "TEMPHUMIDITY", humidity>>
             ELSE <<"MANDOLYN_SENSOR", IntOf(data, "id"), temp, "TEMP", 0>>

ParseCommand(protocol, data) ==
    IF protocol = Bytes("arctech") /\ StringOf(data, "model") = Bytes("selflearning")
    THEN <<"ARCTECH_SWITCH", IntOf(data, "house"), IntOf(data, "unit"),
           IntOf(data, "group"), StringOf(data, "method") = Bytes("turnon")>>
    ELSE NoMessage

Parse(data) ==
    LET classtype == StringOf(data, "class")
        protocol == StringOf(data, "protocol")
    IN  CASE classtype = Bytes("sensor") -> ParseSensor(protocol, data)
          [] classtype = Bytes("command") -> ParseCommand(protocol, data)
          [] OTHER -> NoMessage

=============================================================================
