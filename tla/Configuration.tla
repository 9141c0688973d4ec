---------------------------- MODULE Configuration ----------------------------
(***************************************************************************)
(* What the program makes of LinuxClientConfig.xml: XMLParser reads the    *)
(* elements one after the other into a Config, the first missing key ends  *)
(* it, and ConfigureSystem makes threads, Bluetooth devices and            *)
(* subscriptions of what was read.                                         *)
(*                                                                         *)
(* An element is [tag, keys, numbered, children]: its keys, the lists of   *)
(* its numbered keys (Str1, Str2, ...) by number, and the children of a    *)
(* Logic.  A key whose text does not convert counts as missing: the        *)
(* property tree throws for either.                                        *)
(***************************************************************************)
EXTENDS Timing, SequencesExt

CONSTANTS Document,       \* the elements of Configuration, in the file's order
          Null            \* a nullptr

\* A file is finite; numbers begin at 1.
ASSUME DocumentAssumption ==
    /\ Len(Document) \in Nat /\ DOMAIN Document = 1 .. Len(Document)
    /\ \A i \in DOMAIN Document : \A Str \in DOMAIN Document[i].numbered :
           LET numbers == DOMAIN Document[i].numbered[Str]
           IN  IsFiniteSet(numbers) /\ numbers \subseteq Nat \ {0}

\* The keys that are read with get, of an element of Configuration and of one
\* of Logic: a missing one throws.
Required == [Person |-> {"DeviceId", "Name", "BTDeviceAddr"},
             Logger |-> {"DbgLvl", "LogLvl"},
             TCPClient |-> {"IP", "Port"},
             MsgMap |-> {"ThreadID"}]
RequiredInLogic ==
    [HueLight |-> {"Name", "Lamp", "Brightness", "ArctechSwitch", "ArctechSwitchUnit",
                   "ArctechSwitchGroup"},
     LightSensor |-> {"NameArctech", "ArctechSwitch", "ArctechSwitchUnit"}]

\* Elements of other names are passed over.
Throws(element, required) == /\ element.tag \in DOMAIN required
                             /\ ~(required[element.tag] \subseteq DOMAIN element.keys)

Numbered(element, Str) ==
    IF Str \in DOMAIN element.numbered THEN element.numbered[Str] ELSE <<>>

\* Mutant: the last of the numbered keys is not found.
GetAllSubKeysButLast(element, Str) ==
    LET values == Numbered(element, Str)
        n == Max({i \in 0 .. Cardinality(DOMAIN values) : 1 .. i \subseteq DOMAIN values})
    IN  [i \in 1 .. n - 1 |-> values[i]]

\* The values of Str1, Str2, ... up to the first number that is not there.
GetAllSubKeysOf(element, Str) ==
    LET values == Numbered(element, Str)
        n == Max({i \in 0 .. Cardinality(DOMAIN values) : 1 .. i \subseteq DOMAIN values})
    IN  [i \in 1 .. n |-> values[i]]

TimeOf(element, Str, i) ==
    IF i \in DOMAIN Numbered(element, Str) THEN Numbered(element, Str)[i] ELSE -1

ConfThreads(element) ==
    LET ids == GetAllSubKeysOf(element, "ThreadID")
    IN  [i \in DOMAIN ids |->
            [ThreadID |-> ids[i],
             CycleTime |-> TimeOf(element, "CycleTime", i),
             HystereseTime |-> TimeOf(element, "HystereseTime", i)]]

ConfMsgMap(element) ==
    LET ids == GetAllSubKeysOf(element, "MsgID")
    IN  [i \in DOMAIN ids |-> [ThreadID |-> element.keys["ThreadID"], MsgID |-> ids[i]]]

\* The children read for a Logic element: always those of the first one.
FirstLogic == Document[Min({i \in DOMAIN Document : Document[i].tag = "Logic"})].children

\* The rules for lights, up to one that throws.  Nobody uses the two vectors
\* they are read into, kept as one here.
ReadLogic(conf) ==
    LET n == Max({k \in 0 .. Len(FirstLogic) :
                     \A i \in 1 .. k : ~Throws(FirstLogic[i], RequiredInLogic)})
    IN  [conf EXCEPT !.ok = (n = Len(FirstLogic)), !.m_Logic = @ \o SubSeq(FirstLogic, 1, n)]

\* GetConfigurationFromXML: one element, or nothing any more after an exception.
Read(conf, element) ==
    IF ~conf.ok THEN conf
    ELSE IF Throws(element, Required) THEN [conf EXCEPT !.ok = FALSE]
    ELSE CASE element.tag = "Person" ->
                [conf EXCEPT !.m_ConfPersons = Append(@, element.keys)]
           [] element.tag = "Logger" -> [conf EXCEPT !.Logger = element.keys]
           [] element.tag = "TCPClient" ->
                [conf EXCEPT !.TCPClient =
                    [keys |-> element.keys, MsgIDs |-> GetAllSubKeysOf(element, "MsgID")]]
           [] element.tag = "Threads" ->
                [conf EXCEPT !.m_Threads = @ \o ConfThreads(element)]
           [] element.tag = "MsgMap" ->
                [conf EXCEPT !.m_MsgMap = @ \o ConfMsgMap(element)]
           [] element.tag = "Logic" -> ReadLogic(conf)
           [] OTHER -> conf

\* The members of Config that have no constructor are not initialized.
EmptyConfig == [ok |-> TRUE, Logger |-> Null, TCPClient |-> Null, m_ConfPersons |-> <<>>,
                m_Threads |-> <<>>, m_MsgMap |-> <<>>, m_Logic |-> <<>>]

\* ReadFile: its result, which is not looked at, is Config.ok.
Config ==
    LET upTo[i \in 0 .. Len(Document)] ==
            IF i = 0 THEN EmptyConfig ELSE Read(upTo[i - 1], Document[i])
    IN  upTo[Len(Document)]

-----------------------------------------------------------------------------
(* ConfigureSystem *)

\* The threads GenerateThread can make, in the order of their ids, with the
\* sleep time and hysteresis their constructors pass.
Generated == <<"BLUETOOTHMANAGER", "TELLDUSMANAGER", "TCPMANAGER">>

ASSUME NullAssumption == Null \notin ToSet(Generated)

ConstructedTimes(ThreadId) ==
    CASE ThreadId = "BLUETOOTHMANAGER" -> Constructed(30000, 1000)
      [] ThreadId = "TELLDUSMANAGER" -> Constructed(500, 100)
      [] ThreadId = "TCPMANAGER" -> Constructed(1, 0)

Listed(id) == {i \in DOMAIN Config.m_Threads : Config.m_Threads[i].ThreadID = id}

\* The ids for which GenerateThread is called; it makes a thread of a known one.
ListedIds == {Thread.ThreadID : Thread \in ToSet(Config.m_Threads)}
GenerateThread(id, ids) == IF id \in ids THEN <<id>> ELSE <<>>

\* m_pThreads after GenerateThread, in map order.
InMapOrder(ids) ==
    GenerateThread("BLUETOOTHMANAGER", ids) \o GenerateThread("TELLDUSMANAGER", ids)
        \o GenerateThread("TCPMANAGER", ids)
Threads == InMapOrder(ListedIds)

\* A thread that is listed again is deleted, before it was ever started: join
\* throws in the destructor, which ends the process.
Terminates == \E id \in ToSet(Generated) : Cardinality(Listed(id)) > 1

\* The times of a thread that is listed once.
TimesOf(id) == LET c == Config.m_Threads[CHOOSE i \in Listed(id) : TRUE]
               IN  Set(ConstructedTimes(id), c.CycleTime, c.HystereseTime)

\* m_vpBTDevice: one device per person, if there is a BluetoothManager.
RegisteredDevices ==
    IF Listed("BLUETOOTHMANAGER") = {} THEN <<>>
    ELSE [i \in DOMAIN Config.m_ConfPersons |->
            <<Config.m_ConfPersons[i].DeviceId, Config.m_ConfPersons[i].BTDeviceAddr>>]

\* MESSAGE::IdFromString: an unknown id is (ID)0.
IdFromString(id) ==
    IF id \in {"INVALID", "TELLDUSDEVICE_SET_STATE", "MANDOLYN_SENSOR", "ARCTECH_SWITCH",
               "BLUETOOTHDEVICE_IN_RANGE"} THEN id ELSE "SUBSCRIBE"

\* FindThreadById: the thread, or the nullptr that operator[] has put under
\* BROADCAST.
FindThreadById(id) == IF id \in ToSet(Threads) THEN id ELSE Null

\* m_pSubscribers: a multimap keeps the order of insertion.
Subscriptions(MsgMap) == [i \in DOMAIN MsgMap |->
                             [id |-> IdFromString(MsgMap[i].MsgID),
                              thread |-> FindThreadById(MsgMap[i].ThreadID)]]
Subscribers == Subscriptions(Config.m_MsgMap)

\* FindThreadById was asked for an unknown thread: BROADCAST is a key of
\* m_pThreads, with a nullptr.
BroadcastIsNull == \E s \in ToSet(Subscribers) : s.thread = Null

-----------------------------------------------------------------------------
\* The threads the file asks for, in any of its Threads elements.
Wanted ==
    {t \in ToSet(Generated) :
        \E i \in DOMAIN Document :
            LET ids == Numbered(Document[i], "ThreadID")
            IN  /\ Document[i].tag = "Threads"
                /\ \E n \in DOMAIN ids : ids[n] = t /\ 1 .. n \subseteq DOMAIN ids}

=============================================================================
