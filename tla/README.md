# Homecontrol-Client: verification models

TLA+ models of the Linux client in `src/`: the lock-free queue its threads talk
through, the configuration, the threads and the main thread that routes their
messages, the connection to the home control server, the Bluetooth presence
detection, the connection to telldus-core and the conversions at the borders of
the program. TLC checks the models on small instances; TLAPS proves the most
important properties of every component for every instance.

## 1. The system

One process. `main()` owns a `ProgramManager`, which reads the configuration,
creates one object per configured thread, and then, on the main thread, carries
messages between them until a signal arrives. Every thread object runs
`while (!stop) { HandleQueue(); Run(); Sleep(); }`.

```
 hci  ->  BluetoothManager --Tx-->                   --Rx--> TCPManager worker --> server
 telldus callback -> TelldusManager --Tx--> main thread --Rx--> TelldusManager -> telldus
 server -> receive thread of TCPManager --Tx-->  (ProgramManager::Run)
 SIGINT/SIGUSR1 -> main: delete every thread object, then exit or start again
```

| Component | State | Operations | Interaction | Correct if |
|---|---|---|---|---|
| `Queue` (Queue.h) | two atomic indices, a ring of slots | Push, Pop, IsEmpty | shared memory, one producer thread, one consumer thread | no slot is accessed twice at once; a bounded FIFO |
| `thread` (thread.h/.cpp) | `m_RequestStop`, Tx and Rx queue, sleep times | RunThread, HandleQueue, RequestRun, RequestStop | Rx filled and Tx emptied by the main thread | messages are handled in order; stopping ends the thread and forgets nothing |
| `ProgramManager` | `m_pThreads`, `m_pSubscribers` | ConfigureSystem, Run, destructor | all queues | each message reaches exactly its subscribers, in order |
| `main`, `SigFunc` | `gSigStopflag`, `gSigStatus` | main loop, reload, exit | signal handler on any thread | SIGINT ends the program, SIGUSR1 restarts it |
| `TCPManager` | `m_State` 0/1/2, `m_MsgToSendQueue`, alive timer, receive thread | ParseMessage, Run, RunReceive, destructor | worker and receive thread share socket and `m_ReceiveState` | one connection and one receive thread at a time; messages in order, and no gap in what the server has of a connection; loss of a connection noticed |
| `TCPClient` | `m_Sock` | Connect, Disconnect, SendLine, ReceiveLine | kernel, server | lines are not mixed up, sockets are not leaked |
| `BluetoothManager`, `BluetoothDevice`, `Debouncer` | devices, counter and state of each | Run, DebounceIsInRange, Increment, Decrement | hci library, Tx queue | a phone is out of range after five missed polls; subscribers know the state |
| `TelldusManager`, `TelldusDevice` | raw event queue, devices | ParseRawDeviceEvent (callback thread), Run, SetState, destructor | a thread of telldus-core | events become messages in order; devices end in the state commanded last; nothing meets a deleted object |
| `XMLParser`, `Configuration` | the configuration read | ReadFile, GetConfigurationFromXML | ProgramManager | the threads and subscriptions of the file are set up |
| Message values, `TelldusParser`, `StringTools`, json.hpp as the program uses it | - | toJson, Parse, RunReceive's parsing | server, telldus-core | what is sent is read back; what is received means what its sender meant |
| timer, util | - | GetRandom, Elapsed, `thread::Sleep` | clock | a sleep stays within its hysteresis for the times that allow it |
| `Logger` | the log file | open, close, write | every thread | open as long as a thread runs |
| the rest of json.hpp (vendored) | - | CBOR, MessagePack, pointers, patch, diff, flatten, unflatten | none yet | its documented promises hold |
| `Handle` | - | - | - | - |

What is hard about it: the two-thread queue without locks; three queues and a
round-robin main thread between a sender and a receiver; full queues whose
refusal nobody looks at; a stop message that must be the last one; signals at any
moment; a connection that may break between any two steps, with a second thread
reading the same socket; a destructor in any state of the connection; callbacks
that go on until the end of a destructor; a configuration whose reading stops in
the middle; text of unknown contents, cut at unknown places. The
`hazards` of `PROJECT.json` list each of these at its line, with the properties
that cover it.

## 2. Modules

| Module | Models | Role |
|---|---|---|
| `MessageQueue` | what Push and Pop do to a queue | operators used by all modules with queues |
| `BoundedFifo` | what Queue.h promises | abstract specification |
| `SpscQueue` | Queue.h, one step per atomic access | implements `BoundedFifo` |
| `Timing` | times of the constructor and the setters, `Sleep`, GetRandom, Elapsed | operators on unsigned numbers |
| `ThreadTimes` | the times a thread is constructed and configured with, one after the other | state machine over inputs, part of `Conversions` |
| `Configuration` | XMLParser, Configuration.h, `ConfigureSystem` | operators from a file's elements to the system |
| `ConfigurationFiles` | LinuxClientConfig.xml and variants | data for TLC |
| `MessageBus` | thread, ProgramManager, main, SigFunc; extends `Configuration` | composition of all threads, each left open inside |
| `TcpManager` | TCPManager, TCPClient, server and network | one thread in detail, with its receive thread |
| `RangeDetection` | what debouncing is for | abstract specification |
| `Presence` | BluetoothManager, BluetoothDevice, Debouncer, its Tx queue | implements `RangeDetection` for the configured devices |
| `EventChannel` | a chain of bounded queues whose refusals nobody looks at | abstract specification |
| `TelldusManager` | TelldusManager, TelldusDevice, telldus-core | implements `EventChannel` |
| `Texts` | bytes, characters, the numbers digits stand for | operators on bytes, used by all that follow |
| `JsonStrings` | json.hpp: how a string is written and read | operators on bytes |
| `Json` | the rest of json.hpp as far as it is used: parse, dump, operator[], get | operators on bytes |
| `JsonBinary` | json.hpp: CBOR and MessagePack | operators on bytes |
| `JsonPatch` | json.hpp: comparison, pointers, flatten, unflatten, patch, diff | operators on values |
| `Lines` | the end of a line in sendMessage, ReceiveLine | operators on bytes |
| `Messages` | toJson of every message sent, RunReceive's parsing | operators on bytes |
| `StringTools` | StringTools.cpp: what stands behind a token, numbers | operators on bytes |
| `TelldusParser` | TelldusParser | operators on bytes |
| `RadioEvents` | the events of telldus-core, put together field by field | state machine over inputs, part of `Conversions` |
| `Conversions` | inputs for these operators, with `ThreadTimes` and `RadioEvents`, piece by piece | state machine over inputs |
| `*Proofs`, `SequenceLemmas` | - | theorems, and the lemmas about numbers and sequences they share |
| `MC*` | - | instances for TLC |

**SpscQueue.** Variables are the members of `Queue` and the locals of Push; a
program counter per side says which access comes next. `std::atomic` with the
default order is sequentially consistent, so one access is one step. A slot is a
plain object: the copy into it (`pushPc = "write"`) and the copy out of it
(`popPc = "read"`) are intervals, and `NoDataRace` says they never overlap in one
slot. The consumer is the loop all clients have, `IsEmpty` and then `Pop` with
its result ignored. The refinement maps the ring to the sequence from head to
tail; a push takes effect at the store of the tail, a refused one at its test.

**Configuration.** An element is its tag, its keys, its numbered keys (`ThreadID1`,
`ThreadID2`, ...) and its children. `Config` is a recursive function that applies `Read` to
the elements in the file's order; the first missing key throws out of the loop and what was read stays
(the result of ReadFile is not looked at). `GetAllSubKeysOf` stops at the first
number that is not there. The keys that an element must have are those of `Required`,
within `Logic` those of `RequiredInLogic`; a light outside `Logic` is passed over. `Threads`, `TimesOf`, `RegisteredDevices` and
`Subscribers` are what `ConfigureSystem` makes of it: `Threads` in map order,
unknown ids ignored, a subscription of an unknown thread a null pointer, a thread
listed twice the end of the process (its destructor joins a thread that was never
started). `MessageBus` and `Presence` run with the result, not with constants.

**MessageBus.** Because `SpscQueue` is a FIFO queue, the queues are sequences
here and a Push or Pop is one step. `RunThread` is a cycle test - handle - run;
`HandleMessage` is one round of `HandleQueue`. What a thread's own `Run` does is
left open: it publishes any number of messages up to the bound, in `Run` or, for the
pushes of TCPManager's receive thread, wherever the worker is (`Publishing`; before the
first connect there is no such thread, so this is a little more than it can do).
`mainPc` follows the main thread from `Construct` (open the log, read the
configuration, generate the threads) over `RequestRun`, thread by thread while
those already started publish, to `Take` (one thread's turn in
`ProgramManager::Run`), `Forward` (one delivery of the message in hand),
`RequestStop` and `Join` (the two halves of a thread's destructor, in map order),
`Stop`, and main's test and two stores after a signal. `Recipients` is the routing
of lines 200-241, with the null pointer `FindThreadById` creates when it is asked
for an unknown thread. `Signal` and `SignalFlag` are the two stores of `SigFunc`;
signals are not blocked, so each may come between any two steps and inside the
other's handler.

**TcpManager.** `wpc` is the place of the worker in `RunThread` and in the three
states of `Run`; `rpc` is the place of each receive thread in `RunReceive`,
`ReceiveLine` and `Receive`. The model has as many receive threads as could
exist, so that "only one" is a result and not an assumption; threads are
interchangeable, and a new one is any that is dead. The socket is
`None` or `"socket"`, `openFds` counts what the process holds. The network is
external: `peer` is up, closed by the server, resetting (a line was sent to the closed
connection and the answer is under way; the kernel goes on to accept lines until
`ResetArrives`), reset (reported by the next recv or refused by the next send) or dead;
`inbox` holds characters that arrived. A line of the server
is two text characters, `\r` and `\n`; that is enough to cut it at every kind of
place. `recv` on a socket that is closed meanwhile finishes as a timeout does.
The ghost `sentHere` records each message that is popped on a connection with its
`Result`: refused by send, accepted while the server was there, accepted when it was
gone ("unheard"), or skipped. `CostOfConnection` says what a connection can cost: these
are consecutive messages, only the last can be refused, and nothing the server may have
was popped after a message it cannot have. How many are unheard depends on how
long the reset takes and has no bound in the code.
A refused Push (full `m_MsgToSendQueue`) changes nothing, as in the code.
Whether the server is reachable matters only to `connect` and changes only there.

**Presence.** One `Poll` is `DebounceIsInRange` of the current device with the
test for a change in `Run`; `SendRangeChange` pushes; `Take` is the main thread.
The counters are the unsigned ones of Debouncer.cpp; the ghost `missed` counts
the polls in a row that missed a device, apart from the counters, for the
refinement of `RangeDetection`. `known` is what the subscribers were told, at first that a
device is out of range as `m_InRange` has it (the comment beside it says "in range"), and
`Announced(d)` what they will know when the queue has been delivered.

**TelldusManager.** Three threads: the callback of telldus-core, external, which
may come at any moment from the registration in the constructor until `tdClose`
returns; the worker in `RunThread`, with `Run` and its parsed event in hand
(`data`) and `SetState` with each of its transmissions a step; and the main thread
from construction to the end of the destructor. Radio events and commands are
numbers; which events Parse drops and what a command asks for are constants, the
text is the business of `TelldusParser` and `Messages`. `TELLDUS_ACTIVE = FALSE`
is the build without telldus-core. The refinement of `EventChannel` maps the
message queue, the event in hand and the raw queue, in this order, to one sequence
of events on their way: an event may be lost only where `Load` events wait in
front of it, `Load` being the smaller of the two queue sizes.

**Texts, JsonStrings, Json, Lines, Messages, StringTools, TelldusParser, RadioEvents,
Conversions.** Texts are sequences of bytes, since
`SentIsRead`, `CommandAsSent`, `RestIsNoCommand` and `EventAsReceived` are about
what is in them: escapes, UTF-8, numbers and their types, repeated members, lines
cut anywhere. `parse` is json.hpp's recursive descent with its failures as the value
`discarded`; `dump` its unindented output; `get` its conversions with the width of an
int. `JsonStrings`, `Lines` and `StringTools` are modules of their own because they are
proved about: `scan_string` is a recursive function of the place in the text, one value
for one round of its loop (`PieceAt`). `CommandOf` is what `RunReceive` makes of a line,
`Parse` what TelldusParser makes of an event. An event of `RadioEvents` is class,
protocol and any other `Fields` of the class, each key once; `FieldsAssumption` says
what is assumed of telldus-core's fields: no colon or semicolon in a key or a text, no
key that ends in one that is asked for, no negative humidity (which the code would make
an unsigned number of), and that what a field means is what its text means by itself.
`Conversions` only builds the inputs: one character of an address, one member of a line,
one field of an event, one configured time, one value or one document per step.

**JsonBinary, JsonPatch.** The part of the vendored library that the program does not
call yet, checked against the promises of its comments. In `JsonBinary` the contents of
a number are its 8 bytes, so that "fits in n bytes" and the sign bit are what they are
in the code; the reader returns a value and the next place, or `Failed`, and one `Items`
and one `Members` serve both formats, with the format a parameter. In `JsonPatch` a
pointer is the sequence of its tokens. The three ways to follow one (`get_and_create`,
`get_unchecked`, `get_checked`) each say, for one token, what a null becomes and which
place is meant; `Walk` is the loop over the tokens. Every operation of a patch is one or
two `Edit`s. `ReadFirst` is the order in which the compiler evaluates
`result[ptr] = result.at(from_ptr)` (json.hpp:14001), which C++ leaves open before
C++17: read before the target was created, or after. An element that is inserted below
a primitive parent fails an assertion in the code and is `Thrown` here.

## 3. Runs

| Run | Instance | Shows |
|---|---|---|
| `spsc_queue` | 3 usable slots, 2 elements | race freedom, guarded Pop, refinement of the FIFO queue |
| `message_bus` | 2 threads from a file with a gap in its thread list and a subscriber that does not exist; queues of 2, up to 3 messages of a sender, 1 message per HandleQueue, both signals | startup, order and exactly-once, nothing behind STOP_ALL, the log outlives the threads; messages are handled, signals obeyed |
| `message_bus_shipped` | the shipped LinuxClientConfig.xml | **violated**: no thread is started |
| `message_bus_join` | queues of 1, SIGUSR1 | **violated**: join may wait for ever |
| `message_bus_sigint` | SIGINT and SIGUSR1 | **violated**: a SIGINT can be forgotten |
| `tcp_manager` | 2 receive threads, 2 messages, 2 lines, 2 sockets | life cycle of the connection, what it costs, order of messages and commands, a lost connection is noticed |
| `tcp_manager_loss` | 1 receive thread | **violated**: the message whose send fails is lost |
| `tcp_manager_reload` | 1 receive thread | **violated**: std::terminate when deleted while connected |
| `tcp_manager_reconnect` | 1 receive thread, 2 sockets | **violated**: no reconnect after too many failures |
| `presence` | the 2 devices of the shipped file with its missing key added, counters 10/10/2, queue of 2 | range detection, subscribers know the state |
| `telldus_manager` | 5 events (one meaningless), 4 commands, 2 devices, queues of 2 | every event accounted for, devices follow, nothing meets a deleted object, the destructor ends, refinement of the channel |
| `conversions` | see below | what is sent is read back, what is received means what it should, which times make a sleep wrap around; binary formats are read back, a diff patches, what was flattened is restored |

The violated runs each show a disagreement between the code and one of its own
comments or documents, or an outright bug; `findings` of `PROJECT.json` quotes
them. At real scale the queue of `message_bus_join` has 128 places and
`tcp_manager_reconnect` takes as many failed connects as the process may have
descriptors (typically 1024, one per second).

**Times.** `thread.cpp:25` says of the hysteresis that it "is not allowed to be higher"
than the sleep time, but only the constructor sees to it; `SetCycleTime` and
`SetHystereseTime` set whatever the file has, each without the other. `SleepsInRange`
therefore leaves no configuration out: it states which pairs of times keep the sleep
within its limits and which do not, and shows that those of the constructor do. A
configuration breaks the rule of the comment with a cycle time alone: TELLDUSMANAGER, made
with 500 and 100 and given a `CycleTime` of 50, sleeps for 49 days when rand takes off
more than 50, and whoever stops it waits for that.

**Bounds.** `spsc_queue` has no bound on the run: three slots and a spare make
the indices wrap and every fill level occur. `MaxPublished` in the bus is chosen
so that one thread sends one message more than a queue holds; each signal arrives
once; a queue of 2 and one message per `HandleQueue` make a thread leave messages
behind at the end of a round. In `tcp_manager`, `MaxMessages` and `MaxLines` are 2
because every property there compares two messages or two lines; connections are
not bounded except by `MaxFds`, the sockets that may leak. `Unsendable` (messages
whose id has an empty case in `Run`) is empty in the runs: no such message is
forwarded by the shipped configuration; the theorems hold for any. In
`telldus_manager`, `MaxEvents` is one more than the two queues hold together, so
both overflow; the commands switch a lamp on and off, name an unknown device and
have a value of the wrong type. In `conversions` integers are small
(`MaxUnsigned` 9999, `IntWrap` 1000, `Digits10` 6, `MaxExponent10` 30, `Wrap` 11),
so that numbers at and above every limit are among the inputs: addresses of up to
two characters out of ten kinds, lines of up to three members of which each may
be repeated, missing or mistyped, events with all their fields in any order, four
times from 0 to 5 ms with every result of `rand` up to 7. Binary values have their real
8 bytes, at and next to every limit of 1, 2, 4 and 8 bytes; they are written alone, in
arrays and objects of up to two, nested, and as lists of 15, 16, 23 and 24 elements, the
limits of the short forms. Documents are pairs, so that each changes into each: nested
arrays and objects of different lengths, keys with `~`, `/` and digits, eleven elements so
that an index has two digits. The configuration checks `ReadFirst = TRUE`; with
`FALSE` the same properties hold.

**Deadlock** is checked for `spsc_queue` and `presence`, which never stop.
The others may end: the program exits, is destroyed, or the input is complete.

**Fairness.** Weak fairness for the main thread, each thread's own loop and the
second store of a signal handler: the operating system schedules every thread
that can run, and no `Run` of the program loops for ever by itself. Publishing is
not fair: a thread need not have anything to say. In `TcpManager` the worker is fair and
so is the receive thread, of which there is one at most (`OneReceiver`). `Timer` is the
moment at which 5000 ms have passed; it is enabled only where the worker looks at it, so it
is strongly fair: time passes, and a worker that looks again and again finds it due.
`ResetArrives` is weakly fair, since TCP gives up in the end on data that nobody takes.
Nothing else of the network, the server or a stop request is fair. In `TelldusManager`
telldus-core finishes a callback it has begun (`tdClose` waits for it), but events, commands and the stop need not come. `presence`,
`spsc_queue` and `conversions` check safety only and assume none.

## 4. Proofs

`SpscQueueProofs`, for every `Size` > 0 and every set of elements. The properties
are not inductive: that the producer's slot is free rests on a test it made some
steps ago. `IInv` adds what each side knows at each place: the producer, that
`NextTailIdx` is the successor of the tail and, after the test, differs from the
head; the consumer, that the queue is not empty while it is in Pop, and that
what it copied is still in the head's slot. The producer can only invalidate the
consumer's knowledge by writing the head's slot or by making tail and head
equal, the consumer the producer's only by moving the head to `NextTailIdx`; the
spare slot and the injectivity of `IncrementIndex` exclude these. From it follow
`TypeCorrect`, `RaceFreedom`, `PopSucceeds`, and `Refinement`: `PushPublish`
appends to `Contents` (`PublishAppends`), `PopAdvance` takes its head
(`AdvanceTakesHead`), the write of a slot is hidden (`WriteIsHidden`), the rest
stutters.

`ConfigurationProofs`, for any file. The library's induction theorems take an operator
as a parameter, which the provers cannot instantiate; `SequenceLemmas` therefore
derives induction for a set of numbers (`Induction`) from the library's theorem that
`<` is well-founded (`LeastElement`), and a recursive function is unfolded by an
induction on its domain (`ReadInOrder`). `ReadUpTo` is what is true of the `Config`
after i elements; `ConfigRead` is its induction along the file. Hence
`WantedAreGenerated`, every thread the file lists is generated if the file was read to
its end, and `ThreadsGenerated`, the threads are those of the three that are listed, in
map order and each once.

`MessageBusProofs`, for any configuration file, queue size, number of messages and
sequence of signals. `SubscribersAreThreads` (induction over the subscriptions) says
that a message goes to threads and to each once. `ControlInv` ties the phases of the
main thread to those of the threads: one runs only between its `RequestRun` and the
`Join` in its destructor, and the log is open for longer; hence `LogStaysOpen`.
`MessageInv` numbers what is on its way: the messages in a queue come from threads, and
nobody has handled, holds or is sent a number its sender has not published; with it
`TypeCorrect`. `StopInv` says that STOP_ALL is the last message of its queue and is only
there once the main thread is beyond `Forward`; hence `StopIsLast`. `FlowInv` locates
every message: those in an `m_TxQueue` carry the last numbers published, without gaps
(`TxNumbered`); the deliveries in the main thread's hand are all of the one message
taken last, one for each receiver, none of which has it yet (`HandNumbered`); the numbers
of a sender in an `m_RxQueue` increase, are above what was handled and were not refused
(`RxNumbered`); and every number taken for a subscriber is handled, refused, in its queue
or in the main thread's hand (`Located`, `NothingMissing`). From these parts `FlowInOrder` derives `InOrderExactlyOnce`, hence
`DeliveryInOrder`. `StartInv` follows `RequestRun` along the threads; with
`WantedAreGenerated` it gives `AllThreadsRun`, under the two hypotheses that the file was
read to its end (the shipped one is not, see `message_bus_shipped`) and lists no thread
twice.

`TcpManagerProofs`, for every set of receive threads, every size and bound and
any behaviour of the network. `ConnectionInv` ties `wpc`, `m_State` and
`m_ReceiveThread` together: the worker is in state 0 when it connects and then
has joined the receive thread; it is in state 1 from the subscription to the end
of a round; a connection that did not take the SUBSCRIBE takes nothing else,
since a connection only gets worse. Hence `SingleReceiver` and `SubscriptionFirst`.
`QueueInv` (the queue holds the messages queued last, all newer than `lastSent`) gives the
action property `SendOrder`. `CostInv` adds to `CostOfConnection` what makes it inductive:
in state 0 nothing has been popped on the connection to come, and once a line was unheard
the peer is up no more, so nothing popped later is accepted; with `QueueInv`, which says
that the head of the queue is the next number, it gives `ConnectionCost`.

The second half of the module is about the other direction, for any number of lines and of
receive threads. It numbers the characters the server sends, four to a line:
what is not received yet are the last ones that were sent (`InboxInv`), what a
receive thread has of its line are the ones before those, with a gap of one while
it waits for the character after `\r` (`LineInv`), and a command was complete
before what is in hand began (`CommandsInv`). A timeout, a reset and a new
connection only move the front forward. A line without gaps and without `\r` lies
within one line of the server (`SameLine`), hence `LinesNotSpliced`; numbers that
grow give `CommandOrder`. `TypeInv` adds where the socket is open, so that
`Disconnect` closes only what was opened; with the others it gives `TypeCorrect`.

`PresenceProofs`, for any devices, counter limits and queue size. `LimitMeaning`
shows that a counter at its maximum reaches 0 after exactly `Limit` counts down;
`CounterInv` ties a counter to the number of misses in a row, which gives
`RangeDetected`, the refinement of `RangeDetection`. `KnownInv` says what the
subscribers will know of a device once the queue is delivered: its state, unless
its last change was refused or is still in `Run`'s hand; hence
`SubscribersInformed` and `ChangesOnly`.

`TelldusManagerProofs`, for every set of devices, list of commands and pair of
queue sizes. `LifeInv`: which part of the destructor excludes which thread; hence
`DevicesAlive` and `CallbacksAlive`. `EventsInv`: what callback and worker hold in
their hands and that `Transit` is the increasing sequence of all events neither
received nor gone; hence `EventAccounting` and, with the lemmas of
`SequenceLemmas` on concatenation, `ChannelRefinement`. `CommandsInv` is about the
commands: what waits in the queue or in the worker's hand was accepted after everything
that was carried out, in order, and nothing comes behind STOP_ALL (`QueueInv`); the
devices are there until the worker has ended (`DevicesInv`); a command was transmitted as
often as it must be once it waits no more, not at all while it is in the queue
(`SendsInv`); and a device was told last what the last command for it that was sent says
(`ToldInv`), where there is a last one (`LastInv`). Nothing waits at the end, which gives
`DevicesFollowCommands` and `StopIsComplete`; with `BoundsInv`, the bounds of the
queues and counters, it gives `TypeCorrect`.

`ConversionProofs`, about the borders of the program, for inputs of any length.

- *Times*, for every width of unsigned: `SleepInRange` (no wraparound when the
  hysteresis is at most one above the sleep time: rand takes off less than the hysteresis),
  `SleepWraps` (some rand makes every larger one wrap), `ConstructorClamps`, their
  consequence `ConstructedSleeps`, and `TimesInRange`: for every sequence of times a thread
  can be given (`ThreadTimes`), either of the two configured or not, the sleep is as
  configured exactly below that limit, and always with the times of the constructor.
- *Radio events*: `EventSpecAsReceived`, for any fields and any order of them. `EventInv`,
  the inductive invariant, says that no key comes twice (`KeysOnce`); the first place at
  which `key:` is found is then the field of that key, since a token cannot begin in
  another field: it has a colon, which only separates a key from its text, and no other
  key ends in it (`NoToken`, `FirstToken`). Its text ends at the next semicolon
  (`GetStringByToken`); a number ends there too, although `GetNumberByToken` hands over
  the whole rest, since a semicolon is none of its characters (`SameInteger`,
  `SameFloat`).
- *Strings*: `EscapedFits`, that `extra_space` counts the bytes that escaping adds, so
  that the buffer `dump_escaped` makes is full and not overrun (what its assertion says),
  by induction over the text; `NoControlByte`, that no written string has a byte below
  32, so none ends the line it is in; `StringIsRead`, that `scan_string` reads back what
  `dump_escaped` wrote, in any line, for every text that is the UTF-8 of code points
  other than surrogates. Each character is written and read alike (`ReadAs`: an escape
  with its letter, `\u00xx`, or the bytes themselves, which lie in the ranges of
  `Following`), and induction over the characters puts them together (`ReadInFront`).
- *Lines*: `LineIsReceived`, that `ReceiveLine` takes exactly the text of a line
  `sendMessage` sent from a stream without pauses, whatever is around it.
  With `NoControlByte` and `StringIsRead` this is the kernel of `SentIsRead`; how
  `TcpManager` cuts lines into pieces is the business of `LinesNotSpliced`.

Assumptions are those named in the modules: positive sizes; `None`, `Blank` and `Null`
different from real values; a file is finite and its numbered keys begin at 1
(`DocumentAssumption`); one entry per subscription (`SubscribersAssumption`); no
thread's own code sends STOP_ALL (`PublishesAssumption`); the commands are a finite
sequence (`CommandsAssumption`); two configured times do not add up to 2^32 ms
and are below `RAND_MAX` (`TimesAssumption`); an int has an even number of values (`TextsAssumption`); the fields
of telldus-core are as above (`FieldsAssumption`); and the names that `Parse` asks for
are not empty and have no separators (`TextsOfParse`). The last is a fact about string
literals: tlapm knows nothing of the characters of a string, so it is assumed there,
and TLC evaluates it.

Only model-checked: liveness (`SignalObeyed`, `EventuallyHandled`, `LossNoticed`,
`EventuallyReported`, `DestructorEnds`), which is out of the prover's reach; and, of
`Conversions`, what is about whole JSON documents (`SentIsRead`, `CommandAsSent`,
`RestIsNoCommand`, `BinaryIsRead`, `DiffIsPatch`, `FlatIsRestored`): parse, dump and the
other operators of `Json`, `JsonBinary` and `JsonPatch` follow the recursive descent of
the code with RECURSIVE operators, for which tlapm has no SMT backend. Their strings and
lines are proved about as said above. Of the configuration, the times and
the Bluetooth devices are only checked with the runs that use them. The inductive
invariants of the proofs are not part of a run any more.

## 5. Not modelled

Not modelled:

- of json.hpp: iterators, the containers' interface, the serializer's indentation, the
  SAX-like callbacks of the parser, user-defined conversions and type traits, which are
  C++ machinery or unused and hold no state of their own. About half of its 14722
  lines (of 18613 under `src/`) are comments or empty. `telldus-core.h` only declares
  functions;
- two promises of json.hpp that its code keeps only in part, so that the properties
  exclude the rest: `j == j.flatten().unflatten()` "is always true" apart from empty
  arrays and objects (json.hpp:13705), but an object whose first key is "0" comes back
  as an array; and the chunks of a CBOR string of indefinite length are not read as
  strings, their bytes up to the next 0xff are taken as they are (json.hpp:5351). The
  program uses neither;
- the `from_json` functions of the message values, which only commented-out code
  calls; string functions nobody calls; `FindBtDevice`; `Handle`;
- floats other than as exact decimals of at most `Digits10` digits: a temperature
  that a float does not hold is sent with the digits of the nearest one; there is
  no underflow. Texts contain no backquote and addresses are valid UTF-8 (for
  others dump throws, which `RunThread` catches);
- what is written to the log and how lines of several threads mix in it; date
  strings;
- host name lookup as a step of its own, out-of-memory, exceptions in general
  (`RunThread` catches all; none of the modelled operations throws in a reachable
  state), and the re-use of a closed descriptor number by another thread;
- in a run, a configuration that lists a thread twice: `Construct` takes it to
  "terminated", where nothing can happen any more;
- XML: boost's property tree is external. The rules for lights are read into
  `Config` and, as in the code, used by nobody;
- one run that composes `MessageBus` with `TcpManager` and `TelldusManager` in place of
  the open `Publish`: the product of their states is beyond TLC. What the bus assumes of
  them is only that they publish and take messages.
