--------------------------- MODULE TelldusManager ---------------------------
(***************************************************************************)
(* TelldusManager: radio events come in on a thread of telldus-core, which *)
(* pushes them to a raw queue; the worker parses them into messages for    *)
(* m_TxQueue and turns devices on and off as the messages of m_RxQueue     *)
(* say.  The main thread constructs the object, takes and delivers         *)
(* messages, and deletes it: stop the worker, delete the devices, tdClose. *)
(*                                                                         *)
(* External: telldus-core.  It calls back on one thread, from the          *)
(* registration until tdClose returns, and tdClose waits for a callback    *)
(* that is under way.                                                      *)
(***************************************************************************)
EXTENDS MessageQueue, FiniteSets

CONSTANTS TELLDUS_ACTIVE,            \* build with telldus-core
          Devices,                   \* the ids telldus-core knows
          RawSize,                   \* TELLDUSMANAGER::NR_OF_MESSAGES_IN_A_QUEUE
          Size,                      \* THREAD::NR_OF_MESSAGES_IN_A_QUEUE
          RAW_MESSAGES_PER_RUN,      \* TELLDUSMANAGER::MESSAGES_PER_RUN
          MESSAGES_PER_RUN,          \* THREAD::MESSAGES_PER_RUN
          TELLDUSDEVICE_RETRANSMIT,
          Unparsable,                \* raw events Parse knows nothing about
          Commands,                  \* what main delivers: [id, on, typed]
          MaxEvents                  \* bound: radio events

ASSUME SizesAssumption ==
    /\ RawSize \in Nat \ {0} /\ Size \in Nat \ {0}
    /\ RAW_MESSAGES_PER_RUN \in Nat \ {0} /\ MESSAGES_PER_RUN \in Nat \ {0}
    /\ TELLDUSDEVICE_RETRANSMIT \in Nat \ {0} /\ MaxEvents \in Nat
ASSUME ActiveAssumption == TELLDUS_ACTIVE \in BOOLEAN
ASSUME CommandsAssumption ==
    /\ Len(Commands) \in Nat /\ DOMAIN Commands = 1 .. Len(Commands)
    /\ \A i \in DOMAIN Commands : Commands[i].on \in BOOLEAN /\ Commands[i].typed \in BOOLEAN

VARIABLES
    m_RawDeviceQueue,   \* numbers of raw events
    m_TxQueue,          \* numbers of the events the messages report
    m_RxQueue,          \* numbers of commands, 0 is STOP_ALL
    callback,           \* <<n>> while telldus-core is in RawDeviceEvent, or <<>>
    wpc,                \* where the worker is in RunThread, "unborn" before RequestRun
    handled,            \* messages or events taken in this loop
    data,               \* <<n>>: the event Run has popped and parsed, or <<>>
    setting,            \* the command SetState carries out, 0 for none
    transmitted,        \* how often SetState has sent it
    m_RequestStop,
    m_vpTelldusDevices, \* the ids of the device objects
    mainPc,             \* where the main thread is in the life of the object
    deviceState,        \* external: what the devices were told last
    offered,            \* ghost: events telldus-core has pushed, taken or refused
    gone,               \* ghost: those refused by a full queue or not parsable
    received,           \* ghost: last event of a message taken by the main thread
    delivered,          \* commands main has tried to deliver
    accepted,           \* ghost: those its m_RxQueue has taken
    sends               \* ghost: how often each command was transmitted

worker == <<wpc, handled, data, setting, transmitted, m_RequestStop>>
radio == <<deviceState, sends>>
events == <<m_RawDeviceQueue, m_TxQueue, offered, gone, received>>
commandVars == <<delivered, accepted>>
vars == <<events, callback, m_RxQueue, worker, m_vpTelldusDevices, mainPc, radio,
          commandVars>>

StopAll == 0

\* The constructor has run: devices collected, callback registered.
Init ==
    /\ m_RawDeviceQueue = <<>> /\ m_TxQueue = <<>> /\ m_RxQueue = <<>>
    /\ callback = <<>>
    /\ wpc = "unborn" /\ handled = 0 /\ data = <<>> /\ setting = 0 /\ transmitted = 0
    /\ m_RequestStop = FALSE
    /\ m_vpTelldusDevices = IF TELLDUS_ACTIVE THEN Devices ELSE {}
    /\ mainPc = "configure"
    /\ deviceState = [d \in Devices |-> "unknown"]
    /\ offered = 0 /\ gone = {} /\ received = 0
    /\ delivered = 0 /\ accepted = {}
    /\ sends = [c \in DOMAIN Commands |-> 0]

-----------------------------------------------------------------------------
(* telldus-core *)

Registered == TELLDUS_ACTIVE /\ mainPc # "destroyed"

\* A radio event: telldus-core calls RawDeviceEvent.
RawDeviceEvent ==
    /\ Registered
    /\ callback = <<>>
    /\ offered < MaxEvents
    /\ callback' = <<offered + 1>>
    /\ UNCHANGED <<events, m_RxQueue, worker, m_vpTelldusDevices, mainPc, radio, commandVars>>

\* Mutant: a full raw queue forgets its oldest event for the new one.
OverwriteOldest ==
    /\ callback # <<>>
    /\ m_RawDeviceQueue' = IF HasSpace(m_RawDeviceQueue, RawSize)
                             THEN Append(m_RawDeviceQueue, callback[1])
                             ELSE Append(Tail(m_RawDeviceQueue), callback[1])
    /\ gone' = IF HasSpace(m_RawDeviceQueue, RawSize) THEN gone
                ELSE gone \union {Head(m_RawDeviceQueue)}
    /\ offered' = callback[1]
    /\ callback' = <<>>
    /\ UNCHANGED <<m_TxQueue, received, m_RxQueue, worker, m_vpTelldusDevices, mainPc,
                   radio, commandVars>>

\* ParseRawDeviceEvent pushes the event; the result of Push is not looked at.
ParseRawDeviceEvent ==
    /\ callback # <<>>
    /\ m_RawDeviceQueue' = Push(m_RawDeviceQueue, RawSize, callback[1])
    /\ gone' = IF HasSpace(m_RawDeviceQueue, RawSize) THEN gone ELSE gone \union {callback[1]}
    /\ offered' = callback[1]
    /\ callback' = <<>>
    /\ UNCHANGED <<m_TxQueue, received, m_RxQueue, worker, m_vpTelldusDevices, mainPc,
                   radio, commandVars>>

-----------------------------------------------------------------------------
(* The worker: RunThread, HandleQueue, ParseMessage *)

LoopTest ==
    /\ wpc = "test"
    /\ wpc' = IF m_RequestStop THEN "done" ELSE "handle"
    /\ handled' = 0
    /\ UNCHANGED <<events, callback, m_RxQueue, data, setting, transmitted, m_RequestStop,
                   m_vpTelldusDevices, mainPc, radio, commandVars>>

\* GetSpecificDevice finds no device: SetState does nothing.
Known(c) == Commands[c].typed /\ Commands[c].id \in m_vpTelldusDevices

\* Mutant: the newest message first.
HandleNewestFirst ==
    /\ wpc = "handle"
    /\ handled < MESSAGES_PER_RUN
    /\ ~IsEmpty(m_RxQueue)
    /\ LET c == m_RxQueue[Len(m_RxQueue)] IN
        /\ m_RequestStop' = (m_RequestStop \/ c = StopAll)
        /\ IF c # StopAll /\ Known(c)
             THEN wpc' = "transmit" /\ setting' = c /\ transmitted' = 0
             ELSE UNCHANGED <<wpc, setting, transmitted>>
    /\ m_RxQueue' = SubSeq(m_RxQueue, 1, Len(m_RxQueue) - 1)
    /\ handled' = handled + 1
    /\ UNCHANGED <<events, callback, data, m_vpTelldusDevices, mainPc, radio, commandVars>>

\* One round of HandleQueue: STOP_ALL, a command for a device that is known, or
\* a message that has no effect (wrong type, another id, unknown device).
HandleMessage ==
    /\ wpc = "handle"
    /\ handled < MESSAGES_PER_RUN
    /\ ~IsEmpty(m_RxQueue)
    /\ LET c == Head(m_RxQueue) IN
        /\ m_RequestStop' = (m_RequestStop \/ c = StopAll)
        /\ IF c # StopAll /\ Known(c)
             THEN wpc' = "transmit" /\ setting' = c /\ transmitted' = 0
             ELSE UNCHANGED <<wpc, setting, transmitted>>
    /\ m_RxQueue' = Tail(m_RxQueue)
    /\ handled' = handled + 1
    /\ UNCHANGED <<events, callback, data, m_vpTelldusDevices, mainPc, radio, commandVars>>

\* TelldusDevice::SetState: one transmission of TELLDUSDEVICE_RETRANSMIT, with
\* the sleep behind it, whatever happens meanwhile.
Transmit ==
    /\ wpc = "transmit"
    /\ transmitted < TELLDUSDEVICE_RETRANSMIT
    /\ transmitted' = transmitted + 1
    /\ IF TELLDUS_ACTIVE
         THEN /\ deviceState' = [deviceState EXCEPT ![Commands[setting].id] =
                                    IF Commands[setting].on THEN "on" ELSE "off"]
              /\ sends' = [sends EXCEPT ![setting] = @ + 1]
         ELSE UNCHANGED radio
    /\ UNCHANGED <<events, callback, m_RxQueue, wpc, handled, data, setting, m_RequestStop,
                   m_vpTelldusDevices, mainPc, commandVars>>

TransmitEnd ==
    /\ wpc = "transmit"
    /\ transmitted >= TELLDUSDEVICE_RETRANSMIT
    /\ wpc' = "handle"
    /\ setting' = 0 /\ transmitted' = 0
    /\ UNCHANGED <<events, callback, m_RxQueue, handled, data, m_RequestStop,
                   m_vpTelldusDevices, mainPc, radio, commandVars>>

HandleEnd ==
    /\ wpc = "handle"
    /\ handled >= MESSAGES_PER_RUN \/ IsEmpty(m_RxQueue)
    /\ wpc' = "run"
    /\ handled' = 0
    /\ UNCHANGED <<events, callback, m_RxQueue, data, setting, transmitted, m_RequestStop,
                   m_vpTelldusDevices, mainPc, radio, commandVars>>

-----------------------------------------------------------------------------
(* The worker: Run *)

\* Mutant: Run waits for a second event.
RunPopSecond ==
    /\ wpc = "run"
    /\ handled < RAW_MESSAGES_PER_RUN
    /\ Len(m_RawDeviceQueue) > 1
    /\ data' = <<Head(m_RawDeviceQueue)>> /\ wpc' = "publish"
    /\ m_RawDeviceQueue' = Tail(m_RawDeviceQueue)
    /\ handled' = handled + 1
    /\ UNCHANGED <<m_TxQueue, offered, gone, received, callback, m_RxQueue, setting, transmitted,
                   m_RequestStop, m_vpTelldusDevices, mainPc, radio, commandVars>>

\* Pop a raw event and Parse it; what Parse does not know is dropped.
RunPop ==
    /\ wpc = "run"
    /\ handled < RAW_MESSAGES_PER_RUN
    /\ ~IsEmpty(m_RawDeviceQueue)
    /\ LET n == Head(m_RawDeviceQueue) IN
       IF n \in Unparsable
         THEN gone' = gone \union {n} /\ UNCHANGED <<wpc, data>>
         ELSE data' = <<n>> /\ wpc' = "publish" /\ UNCHANGED gone
    /\ m_RawDeviceQueue' = Tail(m_RawDeviceQueue)
    /\ handled' = handled + 1
    /\ UNCHANGED <<m_TxQueue, offered, received, callback, m_RxQueue, setting, transmitted,
                   m_RequestStop, m_vpTelldusDevices, mainPc, radio, commandVars>>

\* Mutant: Run publishes the event it has popped in front of the others.
RunPushFront ==
    /\ wpc = "publish"
    /\ m_TxQueue' = IF HasSpace(m_TxQueue, Size) THEN data \o m_TxQueue ELSE m_TxQueue
    /\ gone' = IF HasSpace(m_TxQueue, Size) THEN gone ELSE gone \union {data[1]}
    /\ data' = <<>>
    /\ wpc' = "run"
    /\ UNCHANGED <<m_RawDeviceQueue, offered, received, callback, m_RxQueue, handled, setting,
                   transmitted, m_RequestStop, m_vpTelldusDevices, mainPc, radio, commandVars>>

\* Mutant: a message that found no space stays in the hands of Run.
RunPushRetry ==
    /\ wpc = "publish"
    /\ m_TxQueue' = Push(m_TxQueue, Size, data[1])
    /\ gone' = gone
    /\ data' = IF HasSpace(m_TxQueue, Size) THEN <<>> ELSE data
    /\ wpc' = IF HasSpace(m_TxQueue, Size) THEN "run" ELSE "publish"
    /\ UNCHANGED <<m_RawDeviceQueue, offered, received, callback, m_RxQueue, handled, setting,
                   transmitted, m_RequestStop, m_vpTelldusDevices, mainPc, radio, commandVars>>

\* Push the message; a full m_TxQueue refuses it and nobody looks.
RunPush ==
    /\ wpc = "publish"
    /\ m_TxQueue' = Push(m_TxQueue, Size, data[1])
    /\ gone' = IF HasSpace(m_TxQueue, Size) THEN gone ELSE gone \union {data[1]}
    /\ data' = <<>>
    /\ wpc' = "run"
    /\ UNCHANGED <<m_RawDeviceQueue, offered, received, callback, m_RxQueue, handled, setting,
                   transmitted, m_RequestStop, m_vpTelldusDevices, mainPc, radio, commandVars>>

RunEnd ==
    /\ wpc = "run"
    /\ handled >= RAW_MESSAGES_PER_RUN \/ IsEmpty(m_RawDeviceQueue)
    /\ wpc' = "test"
    /\ UNCHANGED <<events, callback, m_RxQueue, handled, data, setting, transmitted,
                   m_RequestStop, m_vpTelldusDevices, mainPc, radio, commandVars>>

Worker == \/ LoopTest \/ HandleMessage \/ Transmit \/ TransmitEnd \/ HandleEnd
          \/ RunPop \/ RunPush \/ RunEnd

-----------------------------------------------------------------------------
(* The main thread *)

RequestRun ==
    /\ mainPc = "configure"
    /\ mainPc' = "forward"
    /\ wpc' = "test"
    /\ UNCHANGED <<events, callback, m_RxQueue, handled, data, setting, transmitted,
                   m_RequestStop, m_vpTelldusDevices, radio, commandVars>>

\* ProgramManager::Run takes a message of this thread ...
Take ==
    /\ mainPc = "forward"
    /\ ~IsEmpty(m_TxQueue)
    /\ received' = Head(m_TxQueue)
    /\ m_TxQueue' = Tail(m_TxQueue)
    /\ UNCHANGED <<m_RawDeviceQueue, offered, gone, callback, m_RxQueue, worker,
                   m_vpTelldusDevices, mainPc, radio, commandVars>>

\* ... or delivers one to it, which a full m_RxQueue refuses.
Deliver ==
    /\ mainPc = "forward"
    /\ delivered < Len(Commands)
    /\ delivered' = delivered + 1
    /\ m_RxQueue' = Push(m_RxQueue, Size, delivered + 1)
    /\ accepted' = IF HasSpace(m_RxQueue, Size) THEN accepted \union {delivered + 1}
                                                ELSE accepted
    /\ UNCHANGED <<events, callback, worker, m_vpTelldusDevices, mainPc, radio>>

\* Mutant: RequestStop raises the flag itself.
RequestStopByFlag ==
    /\ mainPc = "forward"
    /\ mainPc' = "join"
    /\ m_RequestStop' = TRUE
    /\ UNCHANGED <<events, callback, m_RxQueue, wpc, handled, data, setting, transmitted,
                   m_vpTelldusDevices, radio, commandVars>>

\* Mutant: the devices are deleted before the thread is stopped.
RequestStopAfterDelete ==
    /\ mainPc = "forward"
    /\ mainPc' = "join"
    /\ m_vpTelldusDevices' = {}
    /\ m_RxQueue' = Push(m_RxQueue, Size, StopAll)
    /\ UNCHANGED <<events, callback, worker, radio, commandVars>>

\* The destructor: RequestStop, "first wait for stopping our thread and then
\* kill all things".
RequestStop ==
    /\ mainPc = "forward"
    /\ mainPc' = "join"
    /\ m_RxQueue' = Push(m_RxQueue, Size, StopAll)
    /\ UNCHANGED <<events, callback, worker, m_vpTelldusDevices, radio, commandVars>>

Join ==
    /\ mainPc = "join"
    /\ wpc = "done"
    /\ mainPc' = "deleteDevices"
    /\ UNCHANGED <<events, callback, m_RxQueue, worker, m_vpTelldusDevices, radio, commandVars>>

DeleteDevices ==
    /\ mainPc = "deleteDevices"
    /\ m_vpTelldusDevices' = {}
    /\ mainPc' = "close"
    /\ UNCHANGED <<events, callback, m_RxQueue, worker, radio, commandVars>>

\* Mutant: the destructor does not close the connection to telldus-core.
TdCloseForgotten ==
    /\ mainPc = "close"
    /\ mainPc' = "destroyed"
    /\ UNCHANGED <<events, callback, m_RxQueue, worker, m_vpTelldusDevices, radio, commandVars>>

\* tdClose, and the end of the destructor, which takes the queues with it.
TdClose ==
    /\ mainPc = "close"
    /\ callback = <<>>
    /\ mainPc' = "destroyed"
    /\ UNCHANGED <<events, callback, m_RxQueue, worker, m_vpTelldusDevices, radio, commandVars>>

Main == Take \/ Join \/ DeleteDevices \/ TdClose

Next == \/ RawDeviceEvent \/ ParseRawDeviceEvent
        \/ Worker
        \/ Main \/ RequestRun \/ Deliver \/ RequestStop

\* The worker and the main thread are scheduled, telldus-core finishes a
\* callback it has begun; events, commands and the stop need not come.
Fairness == WF_vars(Worker) /\ WF_vars(Main) /\ WF_vars(RequestRun)
            /\ WF_vars(ParseRawDeviceEvent)

Spec == Init /\ [][Next]_vars /\ Fairness

-----------------------------------------------------------------------------
(* Properties *)

\* The events between telldus-core and the main thread, oldest first.
Transit == m_TxQueue \o data \o m_RawDeviceQueue

Elements(s) == {s[i] : i \in 1 .. Len(s)}

TypeOK ==
    /\ m_RawDeviceQueue \in Seq(1 .. MaxEvents) /\ Len(m_RawDeviceQueue) <= RawSize
    /\ m_TxQueue \in Seq(1 .. MaxEvents) /\ Len(m_TxQueue) <= Size
    /\ m_RxQueue \in Seq(0 .. Len(Commands)) /\ Len(m_RxQueue) <= Size
    /\ callback \in {<<>>} \union {<<n>> : n \in 1 .. MaxEvents}
    /\ wpc \in {"unborn", "test", "handle", "transmit", "run", "publish", "done"}
    /\ handled \in Nat
    /\ data \in {<<>>} \union {<<n>> : n \in 1 .. MaxEvents}
    /\ setting \in 0 .. Len(Commands)
    /\ transmitted \in 0 .. TELLDUSDEVICE_RETRANSMIT
    /\ m_RequestStop \in BOOLEAN
    /\ m_vpTelldusDevices \subseteq Devices
    /\ mainPc \in {"configure", "forward", "join", "deleteDevices", "close", "destroyed"}
    /\ deviceState \in [Devices -> {"unknown", "on", "off"}]
    /\ offered \in 0 .. MaxEvents /\ gone \subseteq 1 .. MaxEvents
    /\ received \in 0 .. MaxEvents
    /\ delivered \in 0 .. Len(Commands) /\ accepted \subseteq 1 .. delivered
    /\ sends \in [DOMAIN Commands -> 0 .. TELLDUSDEVICE_RETRANSMIT]

\* Every radio event is somewhere: reported to the main thread, on its way in
\* order, refused by a full queue or dropped because Parse does not know it.
EventsAccounted ==
    /\ \A i, j \in 1 .. Len(Transit) : i < j => Transit[i] < Transit[j]
    /\ Elements(Transit) = (received + 1 .. offered) \ gone

\* The invariant behind EventsAccounted: what the two threads hold in their
\* hands, and the types the sequences need.
EventsInv ==
    /\ m_RawDeviceQueue \in Seq(Nat) /\ m_TxQueue \in Seq(Nat) /\ data \in Seq(Nat)
    /\ Len(data) = IF wpc = "publish" THEN 1 ELSE 0
    /\ mainPc = "configure" => wpc = "unborn"
    /\ callback \in {<<>>, <<offered + 1>>}
    /\ offered \in Nat /\ received \in Nat /\ received <= offered
    /\ gone \subseteq 1 .. offered
    /\ EventsAccounted

\* A full queue loses events, but only behind those that wait in it: the raw
\* queue and m_TxQueue together are an EventChannel that loses nothing while
\* fewer events are under way than the smaller of the two holds.
Load == IF RawSize < Size THEN RawSize ELSE Size
Channel == INSTANCE EventChannel WITH transit <- Transit, Meaningless <- Unparsable
ImplementsChannel == Channel!Spec

\* The worker touches a device object only while it exists: the destructor
\* deletes the devices when nobody can be in SetState any more.
NoDeletedDevice ==
    wpc = "transmit" => Commands[setting].id \in m_vpTelldusDevices

\* telldus-core is in a callback into this object only while the object exists,
\* although it calls until the very end of the destructor.
NoLateCallback == callback # <<>> => mainPc # "destroyed"

\* The invariant behind both: which part of the destructor excludes whom.
LifeInv ==
    /\ mainPc \in {"deleteDevices", "close", "destroyed"} => wpc = "done"
    /\ mainPc = "destroyed" => callback = <<>>
    /\ NoDeletedDevice

\* The commands the worker still has to carry out, oldest first, which of them are
\* for a device, and the last command that was accepted for it.
ToDo == <<setting>> \o m_RxQueue
ForDevice(c, d) == c \in DOMAIN Commands /\ Commands[c].typed /\ Commands[c].id = d
LastAccepted(d) ==
    LET cs == {c \in accepted : ForDevice(c, d)}
    IN  IF cs = {} THEN 0 ELSE CHOOSE c \in cs : \A e \in cs : e <= c
StateOf(c) == IF c = 0 THEN "unknown" ELSE IF Commands[c].on THEN "on" ELSE "off"

\* A device ends in the state of the last command that was accepted for it: that
\* command is still waiting, or the device has been told nothing else since.
DevicesFollow ==
    TELLDUS_ACTIVE =>
        \A d \in Devices :
            LET waiting == {i \in 1 .. Len(ToDo) : ForDevice(ToDo[i], d)}
            IN  IF waiting = {} THEN deviceState[d] = StateOf(LastAccepted(d))
                ELSE \E i \in waiting : /\ \A j \in waiting : j <= i
                                        /\ ToDo[i] = LastAccepted(d)

\* A stop does not cut a command short: when the worker has ended, every accepted
\* command for a known device was sent TELLDUSDEVICE_RETRANSMIT times.
StopFinishesCommands ==
    TELLDUS_ACTIVE /\ wpc = "done" =>
        \A c \in accepted : \A d \in Devices :
            ForDevice(c, d) => sends[c] = TELLDUSDEVICE_RETRANSMIT

\* A radio event the raw queue has taken is reported to the main thread, unless
\* it is dropped on the way or the program stops meanwhile.
EventuallyReported ==
    \A n \in 1 .. MaxEvents :
        (n \in Elements(m_RawDeviceQueue))
            ~> (received >= n \/ n \in gone \/ mainPc \notin {"configure", "forward"})

\* The destructor ends although events keep coming in and commands are waiting,
\* each with its transmissions; unless STOP_ALL was refused.
DestructorEnds ==
    (mainPc = "join" /\ (m_RequestStop \/ StopAll \in Elements(m_RxQueue)))
        ~> (mainPc = "destroyed")

=============================================================================
