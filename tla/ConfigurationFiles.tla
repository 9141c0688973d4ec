------------------------- MODULE ConfigurationFiles -------------------------
(***************************************************************************)
(* Configuration files for TLC: LinuxClientConfig.xml as it is shipped,    *)
(* and others.                                                             *)
(***************************************************************************)
EXTENDS Naturals, Sequences, TLC

Element(tag, keys, numbered) ==
    [tag |-> tag, keys |-> keys, numbered |-> numbered, children |-> <<>>]

Logging == Element("Logger", [DbgLvl |-> 3, LogLvl |-> 3], <<>>)
Client == Element("TCPClient", [IP |-> "10.0.1.127", Port |-> 5005],
                  [MsgID |-> <<"ARCTECH_SWITCH", "BLUETOOTHDEVICE_IN_RANGE",
                               "MANDOLYN_SENSOR">>])
FirstPerson(keys) == Element("Person", [Name |-> "Phone of 123", BTDeviceAddr |-> "12"] @@ keys,
                             <<>>)
SecondPerson == Element("Person", [DeviceId |-> 1, Name |-> "Phone of ABC",
                                   BTDeviceAddr |-> "AA"], <<>>)
AllThreads == Element("Threads", <<>>,
                      [ThreadID |-> <<"TELLDUSMANAGER", "BLUETOOTHMANAGER", "TCPMANAGER">>,
                       CycleTime |-> <<50, 3000, 1>>, HystereseTime |-> <<5, 500, 0>>])
MsgMap(id, msgs) == Element("MsgMap", [ThreadID |-> id], [MsgID |-> msgs])

ShippedDocument ==
    << Logging, Client, FirstPerson(<<>>), SecondPerson, AllThreads,
       MsgMap("TELLDUSMANAGER", <<"TELLDUSDEVICE_SET_STATE">>),
       MsgMap("TCPMANAGER", <<"ARCTECH_SWITCH", "BLUETOOTHDEVICE_IN_RANGE",
                              "MANDOLYN_SENSOR">>) >>

\* Two threads, an entry for a thread that is not listed, a gap in the list of
\* threads, rules for lights that nothing uses, and one outside Logic, which is
\* passed over whatever it lacks.
TwoThreadsDocument ==
    << Client, FirstPerson([DeviceId |-> 0]), Element("LightSensor", <<>>, <<>>),
       [Element("Logic", <<>>, <<>>) EXCEPT !.children =
            << Element("LightSensor", [NameArctech |-> "a", ArctechSwitch |-> 1,
                                       ArctechSwitchUnit |-> 1], <<>>) >>],
       Element("Threads", <<>>,
               [ThreadID |-> (1 :> "TCPMANAGER" @@ 2 :> "LIGHTS" @@ 3 :> "TELLDUSMANAGER"
                                @@ 5 :> "TCPMANAGER"),
                CycleTime |-> (3 :> 150)]),
       MsgMap("BLUETOOTHMANAGER", <<"MANDOLYN_SENSOR">>),
       MsgMap("TELLDUSMANAGER", <<"TELLDUSDEVICE_SET_STATE">>),
       MsgMap("TCPMANAGER", <<"MANDOLYN_SENSOR">>) >>

\* The shipped file with the key that it lacks.
RepairedDocument == [ShippedDocument EXCEPT ![3] = FirstPerson([DeviceId |-> 0])]

=============================================================================
