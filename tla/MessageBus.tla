----------------------------- MODULE MessageBus -----------------------------
(***************************************************************************)
(* The threads of the client and the main thread that carries messages     *)
(* between them: thread::RunThread (thread.h), ProgramManager, which       *)
(* starts the threads the configuration asks for and forwards messages,    *)
(* and main.cpp, where a signal makes the main thread delete the           *)
(* ProgramManager, and with it every thread, to exit or to start again.    *)
(*                                                                         *)
(* Every thread owns two queues of Queue.h: the main thread pops m_TxQueue *)
(* and pushes m_RxQueue.  Both are sequences here, changed in one step;    *)
(* SpscQueue proves that the ring behaves so for one producer and one      *)
(* consumer.  What a thread's own Run and ParseMessage do is left open:    *)
(* Run publishes any messages the thread is able to publish.               *)
(***************************************************************************)
EXTENDS MessageQueue, Configuration

CONSTANTS Publishes,         \* the message id each thread's own code sends: one stands
                             \* for all that go to the same subscribers
          Size,              \* NR_OF_MESSAGES_IN_A_QUEUE
          MESSAGES_PER_RUN,
          Signals,           \* of "SIGINT" and "SIGUSR1", those that may arrive
          MaxPublished       \* bound: messages each thread publishes

ALL_SUBSCRIBERS == "ALL_SUBSCRIBERS"
BROADCAST == "BROADCAST"
STOP_ALL == "STOP_ALL"

ThreadIDs == ToSet(Threads)

\* every (message, thread) pair is configured once
ASSUME SubscribersAssumption == IsInjective(Subscribers)
ASSUME SignalsAssumption == Signals \subseteq {"SIGINT", "SIGUSR1"}
ASSUME SizeAssumption == Size \in Nat \ {0} /\ MESSAGES_PER_RUN \in Nat \ {0}
\* only RequestStop sends STOP_ALL
ASSUME PublishesAssumption ==
    \A t \in ThreadIDs : Publishes[t] # STOP_ALL /\ MaxPublished[t] \in Nat

VARIABLES
    m_TxQueue, m_RxQueue,  \* the queues of every thread
    pc,                    \* where a thread is in RunThread
    parsed,                \* messages taken in this HandleQueue
    m_RequestStop,         \* the thread has parsed STOP_ALL
    mainPc,                \* "construct" and "start" in the constructor of
                           \* ProgramManager, "run" and "forward" in Run, "delete",
                           \* "join" in its destructor, "check", "clearFlag" and
                           \* "clearStatus" in main(), "exit", "terminated"
    current,               \* index of the thread the main thread is at
    pending,               \* [msg, to]: deliveries of the message in hand
    logOpen,               \* Logger's m_FileStream is open
    gSigStopflag,          \* a signal asks the main thread to stop the threads
    gSigStatus,            \* the last signal, or "none"
    arrived,               \* signals that arrived, each at most once
    inHandler,             \* signals whose SigFunc is between its two stores
    published,             \* ghost: messages accepted by each m_TxQueue
    handled,               \* ghost: number of the last message handled, per sender
    lost                   \* ghost: [msg, to] refused by a full m_RxQueue

workerVars == <<pc, parsed, m_RequestStop, handled>>
signalVars == <<gSigStopflag, gSigStatus, arrived, inHandler>>
mainVars == <<mainPc, current, pending, logOpen, lost>>
vars == <<m_TxQueue, m_RxQueue, workerVars, mainVars, signalVars, published>>

-----------------------------------------------------------------------------
(* Messages.  n numbers what a thread publishes; STOP_ALL has no number.   *)

Published(t, n) == [src |-> t, dest |-> ALL_SUBSCRIBERS, id |-> Publishes[t], n |-> n]
StopMessage(t) == [src |-> t, dest |-> t, id |-> STOP_ALL, n |-> 0]

Messages == UNION {{Published(t, n) : n \in 1 .. MaxPublished[t]} : t \in ThreadIDs}
StopMessages == {StopMessage(t) : t \in ThreadIDs}

\* The threads in m_pSubscribers.equal_range(id), nullptr skipped.
EqualRange(subscribers, id) ==
    LET upTo[i \in 0 .. Len(subscribers)] ==
            IF i = 0 THEN <<>>
            ELSE IF subscribers[i].id = id /\ subscribers[i].thread # Null
            THEN Append(upTo[i - 1], subscribers[i].thread)
            ELSE upTo[i - 1]
    IN  upTo[Len(subscribers)]
SubscribersOf(id) == EqualRange(Subscribers, id)

\* Where ProgramManager::Run forwards a message: to its destination, if that
\* is a key of m_pThreads (one with a nullptr swallows the message), to the
\* subscribers of its id, or to every thread.
Recipients(msg) ==
    IF msg.dest \in ThreadIDs THEN <<msg.dest>>
    ELSE IF msg.dest = BROADCAST /\ BroadcastIsNull THEN <<>>
    ELSE IF msg.dest = ALL_SUBSCRIBERS THEN SubscribersOf(msg.id)
    ELSE Threads

\* The same for every thread GenerateThread makes.
Each(value) == [t \in ThreadIDs |-> value]

\* main() is about to construct the ProgramManager.
Init ==
    /\ m_TxQueue = Each(<<>>) /\ m_RxQueue = Each(<<>>)
    /\ pc = Each("unborn") /\ parsed = Each(0)
    /\ m_RequestStop = Each(FALSE)
    /\ published = Each(0) /\ handled = Each(Each(0))
    /\ mainPc = "construct" /\ current = 1 /\ pending = <<>> /\ lost = {}
    /\ logOpen = FALSE
    /\ gSigStopflag = FALSE /\ gSigStatus = "none"
    /\ arrived = {} /\ inHandler = {}

-----------------------------------------------------------------------------
(* A thread: RunThread *)

\* Mutant: the loop has no end.
LoopForever(t) ==
    /\ pc[t] = "test"
    /\ pc' = [pc EXCEPT ![t] = "handle"]
    /\ parsed' = [parsed EXCEPT ![t] = 0]
    /\ UNCHANGED <<m_TxQueue, m_RxQueue, m_RequestStop, handled, published,
                   signalVars, mainVars>>

\* while (!m_RequestStop); the sleep at the end of a round is part of the
\* time a thread stays here.
LoopTest(t) ==
    /\ pc[t] = "test"
    /\ pc' = [pc EXCEPT ![t] = IF m_RequestStop[t] THEN "done" ELSE "handle"]
    /\ parsed' = [parsed EXCEPT ![t] = 0]
    /\ UNCHANGED <<m_TxQueue, m_RxQueue, m_RequestStop, handled, published,
                   signalVars, mainVars>>

\* Mutant: HandleQueue takes the newest message first.
HandleNewestFirst(t) ==
    /\ pc[t] = "handle"
    /\ parsed[t] < MESSAGES_PER_RUN
    /\ ~IsEmpty(m_RxQueue[t])
    /\ LET msg == Last(m_RxQueue[t])
       IN  IF msg.id = STOP_ALL
             THEN m_RequestStop' = [m_RequestStop EXCEPT ![t] = TRUE] /\ UNCHANGED handled
             ELSE handled' = [handled EXCEPT ![t][msg.src] = msg.n] /\ UNCHANGED m_RequestStop
    /\ m_RxQueue' = [m_RxQueue EXCEPT ![t] = Front(@)]
    /\ parsed' = [parsed EXCEPT ![t] = @ + 1]
    /\ UNCHANGED <<m_TxQueue, pc, published, signalVars, mainVars>>

\* One round of the loop in HandleQueue: pop, ParseMessageGeneral, and if that
\* does not take the message the thread's own ParseMessage.
HandleMessage(t) ==
    /\ pc[t] = "handle"
    /\ parsed[t] < MESSAGES_PER_RUN
    /\ ~IsEmpty(m_RxQueue[t])
    /\ LET msg == Head(m_RxQueue[t])
       IN  IF msg.id = STOP_ALL
             THEN m_RequestStop' = [m_RequestStop EXCEPT ![t] = TRUE] /\ UNCHANGED handled
             ELSE handled' = [handled EXCEPT ![t][msg.src] = msg.n] /\ UNCHANGED m_RequestStop
    /\ m_RxQueue' = [m_RxQueue EXCEPT ![t] = Tail(@)]
    /\ parsed' = [parsed EXCEPT ![t] = @ + 1]
    /\ UNCHANGED <<m_TxQueue, pc, published, signalVars, mainVars>>

\* The end of HandleQueue: its share is done or the queue is empty.
HandleEnd(t) ==
    /\ pc[t] = "handle"
    /\ parsed[t] >= MESSAGES_PER_RUN \/ IsEmpty(m_RxQueue[t])
    /\ pc' = [pc EXCEPT ![t] = "run"]
    /\ UNCHANGED <<m_TxQueue, m_RxQueue, parsed, m_RequestStop, handled, published,
                   signalVars, mainVars>>

\* Where the worker of a thread is while the thread's code pushes: in its Run;
\* the receive thread of TCPManager pushes wherever the worker is.
Publishing(t) == IF t = "TCPMANAGER" THEN {"test", "handle", "run"} ELSE {"run"}

\* A message of the thread itself.  Nobody looks at the result of Push: a full
\* queue refuses the message and nothing else happens.
Publish(t) ==
    /\ pc[t] \in Publishing(t)
    /\ published[t] < MaxPublished[t]
    /\ m_TxQueue' = [m_TxQueue EXCEPT ![t] =
                        Push(@, Size, Published(t, published[t] + 1))]
    /\ published' = [published EXCEPT ![t] =
                        IF HasSpace(m_TxQueue[t], Size) THEN @ + 1 ELSE @]
    /\ UNCHANGED <<m_RxQueue, workerVars, signalVars, mainVars>>

\* Run returns.
RunEnd(t) ==
    /\ pc[t] = "run"
    /\ pc' = [pc EXCEPT ![t] = "test"]
    /\ UNCHANGED <<m_TxQueue, m_RxQueue, parsed, m_RequestStop, handled, published,
                   signalVars, mainVars>>

RunThread(t) == LoopTest(t) \/ HandleMessage(t) \/ HandleEnd(t) \/ RunEnd(t)

-----------------------------------------------------------------------------
(* The main thread: ProgramManager::Run and its destructor *)

\* Run looks at one thread: at most one message of it is taken.
Take ==
    /\ mainPc = "run"
    /\ current <= Len(Threads)
    /\ LET t == Threads[current]
       IN  IF IsEmpty(m_TxQueue[t])
             THEN /\ current' = current + 1
                  /\ UNCHANGED <<m_TxQueue, mainPc, pending>>
             ELSE LET msg == Head(m_TxQueue[t])
                      to == Recipients(msg)
                  IN  /\ m_TxQueue' = [m_TxQueue EXCEPT ![t] = Tail(@)]
                      /\ pending' = [i \in DOMAIN to |-> [msg |-> msg, to |-> to[i]]]
                      /\ mainPc' = "forward"
                      /\ UNCHANGED current
    /\ UNCHANGED <<m_RxQueue, workerVars, logOpen, signalVars, published, lost>>

\* One delivery of the message in hand; a full queue loses it.
Forward ==
    /\ mainPc = "forward"
    /\ pending # <<>>
    /\ LET d == Head(pending)
       IN  /\ m_RxQueue' = [m_RxQueue EXCEPT ![d.to] = Push(@, Size, d.msg)]
           /\ lost' = IF HasSpace(m_RxQueue[d.to], Size) THEN lost ELSE lost \union {d}
    /\ pending' = Tail(pending)
    /\ UNCHANGED <<m_TxQueue, workerVars, mainPc, current, logOpen, signalVars, published>>

ForwardEnd ==
    /\ mainPc = "forward"
    /\ pending = <<>>
    /\ mainPc' = "run"
    /\ current' = current + 1
    /\ UNCHANGED <<m_TxQueue, m_RxQueue, workerVars, pending, logOpen, signalVars,
                   published, lost>>

\* Mutant: from the second call on, Run begins behind the first thread.
MainLoopOffByOne ==
    /\ mainPc = "run"
    /\ current > Len(Threads)
    /\ current' = IF gSigStopflag THEN 1 ELSE 2
    /\ mainPc' = IF gSigStopflag THEN "delete" ELSE "run"
    /\ UNCHANGED <<m_TxQueue, m_RxQueue, workerVars, pending, logOpen, signalVars,
                   published, lost>>

\* Mutant: the log is closed when the destructor begins.
MainLoopStop ==
    /\ mainPc = "run"
    /\ current > Len(Threads)
    /\ current' = 1
    /\ mainPc' = IF gSigStopflag THEN "delete" ELSE "run"
    /\ logOpen' = (logOpen /\ ~gSigStopflag)
    /\ UNCHANGED <<m_TxQueue, m_RxQueue, workerVars, pending, signalVars, published, lost>>

\* Run has returned: while (!gSigStopflag) in main().
MainLoop ==
    /\ mainPc = "run"
    /\ current > Len(Threads)
    /\ current' = 1
    /\ mainPc' = IF gSigStopflag THEN "delete" ELSE "run"
    /\ UNCHANGED <<m_TxQueue, m_RxQueue, workerVars, pending, logOpen, signalVars,
                   published, lost>>

\* Mutant: RequestStop puts STOP_ALL in front of the waiting messages.
RequestStopUrgent ==
    /\ mainPc = "delete"
    /\ current <= Len(Threads)
    /\ LET t == Threads[current]
       IN  m_RxQueue' = [m_RxQueue EXCEPT ![t] =
                            IF HasSpace(@, Size) THEN <<StopMessage(t)>> \o @ ELSE @]
    /\ mainPc' = "join"
    /\ UNCHANGED <<m_TxQueue, workerVars, current, pending, logOpen, signalVars, published, lost>>

\* Destructor of the next thread: RequestStop pushes STOP_ALL into the thread's
\* own m_RxQueue; the result of Push is not looked at.
RequestStop ==
    /\ mainPc = "delete"
    /\ current <= Len(Threads)
    /\ LET t == Threads[current]
       IN  m_RxQueue' = [m_RxQueue EXCEPT ![t] = Push(@, Size, StopMessage(t))]
    /\ mainPc' = "join"
    /\ UNCHANGED <<m_TxQueue, workerVars, current, pending, logOpen, signalVars, published, lost>>

\* m_Thread.join() returns once the thread has left RunThread.
Join ==
    /\ mainPc = "join"
    /\ pc[Threads[current]] = "done"
    /\ mainPc' = "delete"
    /\ current' = current + 1
    /\ UNCHANGED <<m_TxQueue, m_RxQueue, workerVars, pending, logOpen, signalVars,
                   published, lost>>

\* All threads are deleted: Stop closes the log.
Stop ==
    /\ mainPc = "delete"
    /\ current > Len(Threads)
    /\ mainPc' = "check"
    /\ logOpen' = FALSE
    /\ UNCHANGED <<m_TxQueue, m_RxQueue, workerVars, current, pending, signalVars,
                   published, lost>>

\* main(): "check signal reload".
CheckStatus ==
    /\ mainPc = "check"
    /\ mainPc' = IF gSigStatus = "SIGINT" THEN "exit" ELSE "clearFlag"
    /\ UNCHANGED <<m_TxQueue, m_RxQueue, workerVars, current, pending, logOpen, signalVars,
                   published, lost>>

ClearFlag ==
    /\ mainPc = "clearFlag"
    /\ gSigStopflag' = FALSE
    /\ mainPc' = "clearStatus"
    /\ UNCHANGED <<m_TxQueue, m_RxQueue, workerVars, current, pending, logOpen, gSigStatus, arrived,
                   inHandler, published, lost>>

ClearStatus ==
    /\ mainPc = "clearStatus"
    /\ gSigStatus' = "none"
    /\ mainPc' = "construct"
    /\ UNCHANGED <<m_TxQueue, m_RxQueue, workerVars, current, pending, logOpen, gSigStopflag, arrived,
                   inHandler, published, lost>>

\* new ProgramManager, up to the configured threads: the log is opened, the file
\* read, the threads generated, with empty queues, and their subscriptions made.
Construct ==
    /\ mainPc = "construct"
    /\ m_TxQueue' = Each(<<>>) /\ m_RxQueue' = Each(<<>>)
    /\ pc' = Each("unborn") /\ parsed' = Each(0)
    /\ m_RequestStop' = Each(FALSE)
    /\ published' = Each(0) /\ handled' = Each(Each(0))
    /\ mainPc' = IF Terminates THEN "terminated" ELSE "start"
    /\ current' = 1 /\ pending' = <<>> /\ lost' = {}
    /\ logOpen' = TRUE
    /\ UNCHANGED signalVars

\* "now its time to fire up all the threads", one after the other: the first
\* ones run while the others do not exist yet.
RequestRun ==
    /\ mainPc = "start"
    /\ current <= Len(Threads)
    /\ pc' = [pc EXCEPT ![Threads[current]] = "test"]
    /\ current' = current + 1
    /\ UNCHANGED <<m_TxQueue, m_RxQueue, parsed, m_RequestStop, handled, mainPc, pending,
                   logOpen, lost, signalVars, published>>

\* The constructor returns to main(), which tests gSigStopflag first.
ConstructEnd ==
    /\ mainPc = "start"
    /\ current > Len(Threads)
    /\ mainPc' = "run"
    /\ UNCHANGED <<m_TxQueue, m_RxQueue, workerVars, current, pending, logOpen, lost,
                   signalVars, published>>

Main == \/ Take \/ Forward \/ ForwardEnd \/ MainLoop
        \/ RequestStop \/ Join \/ Stop \/ CheckStatus \/ ClearFlag \/ ClearStatus
        \/ Construct \/ RequestRun \/ ConstructEnd

-----------------------------------------------------------------------------
(* SigFunc, at any moment and on any thread *)

Signal(sig) ==
    /\ sig \notin arrived
    /\ mainPc \notin {"exit", "terminated"}
    /\ arrived' = arrived \union {sig}
    /\ inHandler' = inHandler \union {sig}
    /\ gSigStatus' = sig
    /\ UNCHANGED <<m_TxQueue, m_RxQueue, workerVars, mainVars, gSigStopflag, published>>

SignalFlag(sig) ==
    /\ sig \in inHandler
    /\ inHandler' = inHandler \ {sig}
    /\ gSigStopflag' = TRUE
    /\ UNCHANGED <<m_TxQueue, m_RxQueue, workerVars, mainVars, gSigStatus, arrived, published>>

Next ==
    \/ Main
    \/ \E sig \in Signals : Signal(sig)
    \/ \E sig \in Signals : SignalFlag(sig)
    \/ \E t \in ThreadIDs : RunThread(t)
    \/ \E t \in ThreadIDs : Publish(t)

\* The operating system runs every thread that can run, and every Run returns.
Fairness ==
    /\ WF_vars(Main)
    /\ \A t \in ThreadIDs : WF_vars(RunThread(t))
    /\ \A sig \in Signals : WF_vars(SignalFlag(sig))

Spec == Init /\ [][Next]_vars /\ Fairness

-----------------------------------------------------------------------------
(* Properties *)

\* Types and queue bounds.
TypeOK ==
    /\ m_TxQueue \in [ThreadIDs -> Seq(Messages)]
    /\ m_RxQueue \in [ThreadIDs -> Seq(Messages \union StopMessages)]
    /\ \A t \in ThreadIDs : Len(m_TxQueue[t]) <= Size /\ Len(m_RxQueue[t]) <= Size
    /\ pc \in [ThreadIDs -> {"unborn", "test", "handle", "run", "done"}]
    /\ parsed \in [ThreadIDs -> 0 .. MESSAGES_PER_RUN]
    /\ m_RequestStop \in [ThreadIDs -> BOOLEAN]
    /\ mainPc \in {"construct", "start", "run", "forward", "delete", "join", "check",
                   "clearFlag", "clearStatus", "exit", "terminated"}
    /\ logOpen \in BOOLEAN
    /\ current \in 1 .. Len(Threads) + 1
    /\ pending \in Seq([msg : Messages, to : ThreadIDs])
    /\ gSigStopflag \in BOOLEAN /\ gSigStatus \in Signals \union {"none"}
    /\ arrived \subseteq Signals /\ inHandler \subseteq arrived
    /\ published \in [ThreadIDs -> Nat]
    /\ handled \in [ThreadIDs -> [ThreadIDs -> Nat]]
    /\ \A s, t \in ThreadIDs : handled[t][s] <= published[s] /\ published[s] <= MaxPublished[s]
    /\ lost \subseteq [msg : Messages, to : ThreadIDs]

\* Everything on its way to dst that src can have sent, oldest first, as deliveries:
\* dst's m_RxQueue, what the main thread has in hand, and src's m_TxQueue, whose
\* messages go to dst if it is among their recipients.
OnTheWay(src, dst) ==
    LET Heading(m) == [msg |-> m, to |-> IF dst \in ToSet(Recipients(m)) THEN dst ELSE Null]
        rx == m_RxQueue[dst]
        tx == m_TxQueue[src]
    IN  [i \in DOMAIN rx |-> [msg |-> rx[i], to |-> dst]] \o pending
            \o [i \in DOMAIN tx |-> Heading(tx[i])]

\* The messages of src among the deliveries of way are in order, and they are
\* those published for dst, one of the subscribers or not, and neither handled
\* nor refused.
ExactlyOnce(way, src, dst, subscribers) ==
    LET Ours == {i \in DOMAIN way : /\ way[i].to = dst /\ way[i].msg.src = src
                                    /\ way[i].msg.id # STOP_ALL}
        Due(n) == /\ dst \in subscribers
                  /\ [msg |-> Published(src, n), to |-> dst] \notin lost
    IN  /\ \A i, j \in Ours : i < j => way[i].msg.n < way[j].msg.n
        /\ {way[i].msg.n : i \in Ours} = {n \in handled[dst][src] + 1 .. published[src] : Due(n)}

\* Messages between two threads arrive in the order they were published, each
\* once, and none disappears unless the receiver's queue was full: the numbers of
\* what is on the way from src to dst increase, and they are those of the messages
\* that src published for dst after the last one dst handled, without the ones
\* that were refused.
InOrderExactlyOnce ==
    \A src, dst \in ThreadIDs :
        ExactlyOnce(OnTheWay(src, dst), src, dst, ToSet(SubscribersOf(Publishes[src])))

\* "we can write safely from this context (main) to our RX queue because the
\* program Manager thread copying queueing already stopped" (thread.cpp:48-49):
\* STOP_ALL is the last message of its queue, so a thread that has seen it has
\* handled every message that was delivered to it.
NothingLeftBehind ==
    \A t \in ThreadIDs : m_RequestStop[t] => IsEmpty(m_RxQueue[t])

\* Every thread the configuration file lists is running when the main loop is:
\* "now its time to fire up all the threads" (ProgramManager.cpp:107), and the
\* program never dies of its configuration.
ConfiguredThreadsRun ==
    /\ mainPc # "terminated"
    /\ mainPc \in {"run", "forward"} =>
         \A t \in Wanted : t \in ThreadIDs /\ pc[t] # "unborn"

\* The log file is open as long as any thread can write to it: "NO objects are
\* alive anymore" (ProgramManager.cpp:264) when Stop closes it.
LogOpen == \A t \in ThreadIDs : pc[t] \notin {"unborn", "done"} => logOpen

\* The destructor waits for a thread whose full queue refused STOP_ALL.
StopRefused ==
    /\ mainPc = "join"
    /\ LET t == Threads[current]
       IN  ~m_RequestStop[t] /\ StopMessage(t) \notin ToSet(m_RxQueue[t])

\* A signal ends all threads, however many messages wait in front of STOP_ALL
\* and although nobody empties the m_TxQueue of the threads that still run, and
\* the main thread exits or goes on to a new start; unless STOP_ALL was refused.
SignalObeyed ==
    gSigStopflag ~> (mainPc \in {"exit", "clearFlag"} \/ StopRefused)

\* Every message accepted by its sender's m_TxQueue is handled by each of its
\* subscribers, unless a full queue refused it or a signal ends the program.
EventuallyHandled ==
    \A src \in ThreadIDs : \A n \in 1 .. MaxPublished[src] :
        \A dst \in ToSet(SubscribersOf(Publishes[src])) :
            (mainPc \in {"run", "forward"} /\ Published(src, n) \in ToSet(m_TxQueue[src]))
            ~> (\/ handled[dst][src] >= n
                \/ [msg |-> Published(src, n), to |-> dst] \in lost
                \/ gSigStopflag)

\* "wait for thread to stop" (thread.cpp:53): once the main thread asks a thread
\* to stop, join returns and the program goes on to delete the next one.
JoinReturns == (mainPc = "join") ~> (mainPc # "join")

\* "break our endless running", "just break the while and exit" (main.cpp:20 and
\* 53): the program exits after a SIGINT.
SigintExits == ("SIGINT" \in arrived) ~> (mainPc = "exit" \/ StopRefused)

=============================================================================
