------------------------------ MODULE Messages ------------------------------
(***************************************************************************)
(* The lines between the program and the home control server: what toJson  *)
(* and SendLine make of a message, and what RunReceive makes of a line.    *)
(***************************************************************************)
EXTENDS Json, Lines

\* The numbers of MESSAGE::ID, MESSAGE::CMD and ThreadID that lines carry.
SUBSCRIBE == 0
BLUETOOTHDEVICE_IN_RANGE == 6
ALIVE_MESSAGE == 15
ARCTECH_SWITCH == 16
MANDOLYN_SENSOR == 17
TELLDUSDEVICE_SET_STATE == 18
SET == 0
ALL_SUBSCRIBERS == IntWrap - 2

String(s) == <<"string", Bytes(s)>>
Number(n) == <<"integer", n>>
Bool(b) == <<"boolean", b>>
Member(key, value) == FromList(<<String(key), value>>)

\* The members every message has behind its value; the version in the name of
\* its type is left out.
Envelope(Value, CommandType) ==
    <<Member("Value", Value), Member("Destination", Number(ALL_SUBSCRIBERS)),
      Member("Source", Number(0)), Member("RemoteHandle", Number(0)),
      Member("Command", Number(SET)), Member("CommandType", Number(CommandType))>>

Message(type, Value, CommandType, ObjectType) ==
    FromList(<<Member("$type", String(type))>> \o Envelope(Value, CommandType)
                \o <<Member("ObjectType", String(ObjectType))>>)

SetMessage(type, members, CommandType) ==
    Message("Messanger.Msg, Messanger",
            FromList(<<Member("$type", String(type))>> \o members), CommandType, type)

ArctechSwitch(house, unit, group, on) ==
    SetMessage("Messanger.ArctechSwitch, Messanger",
               <<Member("HouseId", Number(house)), Member("UnitId", Number(unit)),
                 Member("GroupId", Number(group)), Member("State", Bool(on))>>,
               ARCTECH_SWITCH)

MandolynSensor(id, temp, humidity) ==
    SetMessage("Messanger.MandolynSensor, Messanger",
               <<Member("Temp", <<"float", temp>>), Member("Humidity", Number(humidity)),
                 Member("Id", Number(id))>>,
               MANDOLYN_SENSOR)

BluetoothDeviceMessage(deviceId, address, inRange) ==
    SetMessage("Messanger.BluetoothDevMessage, Messanger",
               <<Member("InRange", Bool(inRange)), Member("BTMacAddr", <<"string", address>>),
                 Member("DeviceId", Number(deviceId))>>,
               BLUETOOTHDEVICE_IN_RANGE)

SubscribeToMessage(id) ==
    Message("Messanger.SubscribeToMsg, Messanger", Number(id), SUBSCRIBE,
            "Messanger.CommandType, Messanger")

AliveMessage(alive) ==
    FromList(Envelope(FromList(<<Member("alive", Bool(alive))>>), ALIVE_MESSAGE)
                \o <<Member("MsgType", String("Messanger.AliveMessage, Messanger"))>>)

\* sendMessage: what is dumped is one line.
SendLine(json) == Line(dump(json))

\* The command RunReceive finds in a line: an id and whether to switch on.
NoCommand == <<>>
CommandOf(receivedLine) ==
    LET SetState(id, on) == IF Thrown \in {id, on} THEN NoCommand
                            ELSE <<id[2] % IntWrap, on[2] = 1>>
        Command(cmdType, Value) ==
            IF /\ GetString(At(Value, Bytes("$type")))
                    = String("Messanger.LightMessage, Messanger")
               /\ cmdType = <<"int", TELLDUSDEVICE_SET_STATE>>
            THEN SetState(GetInt(At(Value, Bytes("ID"))), GetInt(At(Value, Bytes("LightState"))))
            ELSE NoCommand
        Received(json) == Command(GetInt(At(json, Bytes("CommandType"))),
                                  At(json, Bytes("Value")))
    IN  Received(parse(receivedLine))

=============================================================================
