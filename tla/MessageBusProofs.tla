-------------------------- MODULE MessageBusProofs --------------------------
(***************************************************************************)
(* Theorems about MessageBus, for any threads, subscriptions, queue size   *)
(* and signals: the types, that nothing is left in the queue of a thread   *)
(* that stops, that the log is open while a thread can write to it, and    *)
(* that messages arrive in order, each once.                               *)
(***************************************************************************)
EXTENDS MessageBus, ConfigurationProofs

-----------------------------------------------------------------------------
(* The subscribers of a message *)

(* f[i] are the subscribers of id among the first i subscriptions.           *)
Subscribe(f, id) ==
    f = [i \in 0 .. Len(Subscribers) |->
            IF i = 0 THEN <<>>
            ELSE IF Subscribers[i].id = id /\ Subscribers[i].thread # Null
            THEN Append(f[i - 1], Subscribers[i].thread)
            ELSE f[i - 1]]

(* The subscribers of a message are found one subscription after the other.  *)
LEMMA SubscribersInOrder ==
    ASSUME NEW id, Len(Subscribers) \in Nat
    PROVE  \E f : SubscribersOf(id) = f[Len(Subscribers)] /\ Subscribe(f, id)
<1> DEFINE Next1(s, i) == IF Subscribers[i].id = id /\ Subscribers[i].thread # Null
                          THEN Append(s, Subscribers[i].thread) ELSE s
           Is(f, n) == f = [i \in 0 .. n |->
                       IF i = 0 THEN <<>>
                       ELSE IF Subscribers[i].id = id /\ Subscribers[i].thread # Null
                       THEN Append(f[i - 1], Subscribers[i].thread)
                       ELSE f[i - 1]]
           T == {n \in Nat : \E f : Is(f, n)}
<1>0. \A f, n : Is(f, n) <=> f = [i \in 0 .. n |-> IF i = 0 THEN <<>> ELSE Next1(f[i - 1], i)]
  OBVIOUS
<1> HIDE DEF Next1, Is
<1>1. 0 \in T
  <2> DEFINE f == [i \in 0 .. 0 |-> <<>>]
  <2>1. f = [i \in 0 .. 0 |-> IF i = 0 THEN <<>> ELSE Next1(f[i - 1], i)]
    OBVIOUS
  <2> HIDE DEF f
  <2>2. Is(f, 0)
    BY <1>0, <2>1
  <2> QED
    BY <2>2
<1>2. ASSUME NEW n \in Nat, n \in T PROVE n + 1 \in T
  <2>1. PICK f : Is(f, n)
    BY <1>2
  <2> DEFINE g == [i \in 0 .. n + 1 |-> IF i <= n THEN f[i] ELSE Next1(f[i - 1], i)]
  <2>2. \A i \in 0 .. n : g[i] = f[i]
    OBVIOUS
  <2>3. ASSUME NEW i \in 0 .. n + 1
        PROVE  g[i] = IF i = 0 THEN <<>> ELSE Next1(g[i - 1], i)
    <3>1. CASE i = 0
      BY <1>0, <2>1, <3>1
    <3>2. CASE i # 0
      <4>1. i - 1 \in 0 .. n /\ g[i - 1] = f[i - 1]
        BY <2>2, <3>2
      <4>2. g[i] = Next1(f[i - 1], i)
        <5>1. CASE i <= n
          <6>1. i \in 0 .. n
            BY <5>1
          <6> QED
            BY <1>0, <2>1, <2>2, <3>2, <6>1
        <5>2. CASE ~(i <= n)
          BY <5>2
        <5> QED
          BY <5>1, <5>2
      <4> HIDE DEF g
      <4> QED
        BY <3>2, <4>1, <4>2
    <3> QED
      BY <3>1, <3>2
  <2>4. g = [i \in 0 .. n + 1 |-> g[i]]
    OBVIOUS
  <2> HIDE DEF g
  <2>5. Is(g, n + 1)
    BY <1>0, <2>3, <2>4
  <2> QED
    BY <2>5
<1> HIDE DEF T
<1>3. Len(Subscribers) \in T
  BY <1>1, <1>2, Induction
<1>4. \E f : Is(f, Len(Subscribers))
  BY <1>3 DEF T
<1>5. Is(CHOOSE f : Is(f, Len(Subscribers)), Len(Subscribers))
  BY <1>4
<1>6. SubscribersOf(id) = (CHOOSE f : Is(f, Len(Subscribers)))[Len(Subscribers)]
  BY DEF SubscribersOf, EqualRange, Is
<1> QED
  BY <1>5, <1>6 DEF Is, Subscribe

(* The subscribers of a message are threads, each of them once.              *)
LEMMA SubscribersAreThreads ==
    ASSUME NEW id
    PROVE  SubscribersOf(id) \in Seq(ThreadIDs) /\ IsInjective(SubscribersOf(id))
<1> HIDE DEF ThreadIDs, Threads
<1>1. /\ Len(Subscribers) \in Nat /\ DOMAIN Subscribers = 1 .. Len(Subscribers)
      /\ \A i \in 1 .. Len(Subscribers) :
             /\ Subscribers[i] = [id |-> Subscribers[i].id, thread |-> Subscribers[i].thread]
             /\ Subscribers[i].thread = Null \/ Subscribers[i].thread \in ThreadIDs
  <2>1. PICK S : Config.m_MsgMap \in Seq(S)
    BY ConfigRead DEF ReadUpTo, IsVector
  <2> DEFINE n == Len(Config.m_MsgMap)
  <2>2. n \in Nat /\ DOMAIN Config.m_MsgMap = 1 .. n
    BY <2>1, LenProperties
  <2> HIDE DEF n
  <2>3. Subscribers = [i \in 1 .. n |-> Subscribers[i]]
    BY <2>2 DEF Subscribers, Subscriptions
  <2>4. Subscribers \in [1 .. n -> {Subscribers[i] : i \in 1 .. n}]
    BY <2>3
  <2>5. Len(Subscribers) = n
    BY <2>2, <2>4, FunctionIsSeq
  <2>6. \A i \in 1 .. n :
             /\ Subscribers[i] = [id |-> Subscribers[i].id, thread |-> Subscribers[i].thread]
             /\ Subscribers[i].thread = Null \/ Subscribers[i].thread \in ThreadIDs
    BY <2>2 DEF Subscribers, Subscriptions, FindThreadById, ThreadIDs
  <2> QED
    BY <2>2, <2>3, <2>5, <2>6
<1>2. \A i, j \in 1 .. Len(Subscribers) : Subscribers[i] = Subscribers[j] => i = j
  BY <1>1, SubscribersAssumption DEF IsInjective
<1>3. PICK f : SubscribersOf(id) = f[Len(Subscribers)] /\ Subscribe(f, id)
  BY <1>1, SubscribersInOrder
<1> DEFINE Found(s, n) ==
               /\ s \in Seq(ThreadIDs)
               /\ \A k \in 1 .. Len(s) : \E j \in 1 .. n :
                      Subscribers[j].id = id /\ Subscribers[j].thread = s[k]
               /\ \A k, l \in 1 .. Len(s) : s[k] = s[l] => k = l
           T == {n \in Nat : n <= Len(Subscribers) => Found(f[n], n)}
<1>4. 0 \in T
  <2>1. f[0] = <<>>
    BY <1>1, <1>3 DEF Subscribe
  <2>2. <<>> \in Seq(ThreadIDs) /\ Len(<<>>) = 0
    OBVIOUS
  <2>3. Found(f[0], 0)
    BY <2>1, <2>2
  <2> HIDE DEF Found
  <2> QED
    BY <2>3
<1>5. ASSUME NEW n \in Nat, n \in T PROVE n + 1 \in T
  <2> SUFFICES ASSUME n + 1 <= Len(Subscribers) PROVE Found(f[n + 1], n + 1)
    OBVIOUS
  <2>1. /\ n + 1 \in 0 .. Len(Subscribers) /\ n + 1 \in 1 .. Len(Subscribers)
        /\ (n + 1) - 1 = n /\ n + 1 # 0 /\ n <= Len(Subscribers)
        /\ \A j \in 1 .. n : j \in 1 .. Len(Subscribers) /\ j # n + 1 /\ j \in 1 .. n + 1
    BY <1>1
  <2>2. Found(f[n], n)
    BY <1>5, <2>1
  <2> DEFINE s == f[n]
             sub == Subscribers[n + 1]
  <2>3. CASE sub.id = id /\ sub.thread # Null
    <3>1. f[n + 1] = Append(s, sub.thread)
      BY <1>3, <2>1, <2>3 DEF Subscribe
    <3>2. s \in Seq(ThreadIDs) /\ sub.thread \in ThreadIDs
      BY <1>1, <2>1, <2>2, <2>3
    <3>3. /\ Append(s, sub.thread) \in Seq(ThreadIDs)
          /\ Len(s) \in Nat /\ Len(Append(s, sub.thread)) = Len(s) + 1
          /\ \A k \in 1 .. Len(s) : Append(s, sub.thread)[k] = s[k]
          /\ Append(s, sub.thread)[Len(s) + 1] = sub.thread
      BY <3>2, AppendProperties
    <3>4. \A k \in 1 .. Len(s) : s[k] # sub.thread
      <4> SUFFICES ASSUME NEW k \in 1 .. Len(s), s[k] = sub.thread PROVE FALSE
        OBVIOUS
      <4>1. PICK j \in 1 .. n : Subscribers[j].id = id /\ Subscribers[j].thread = s[k]
        BY <2>2
      <4>2. Subscribers[j] = Subscribers[n + 1]
        BY <1>1, <2>1, <2>3, <4>1
      <4> QED
        BY <1>2, <2>1, <4>2
    <3> DEFINE next == Append(s, sub.thread)
    <3>5. \A k \in 1 .. Len(next) : k \in 1 .. Len(s) \/ k = Len(s) + 1
      BY <3>3
    <3>6. \A k \in 1 .. Len(s) : \E j \in 1 .. n + 1 :
              Subscribers[j].id = id /\ Subscribers[j].thread = s[k]
      BY <2>1, <2>2
    <3>7. n + 1 \in 1 .. n + 1
      OBVIOUS
    <3>8. \A k, l \in 1 .. Len(s) : s[k] = s[l] => k = l
      BY <2>2
    <3> HIDE DEF s, next
    <3>9. \A k, l \in 1 .. Len(next) : next[k] = next[l] => k = l
      BY <3>3, <3>4, <3>5, <3>8 DEF next
    <3>10. \A k \in 1 .. Len(next) : \E j \in 1 .. n + 1 :
              Subscribers[j].id = id /\ Subscribers[j].thread = next[k]
      BY <2>3, <3>3, <3>5, <3>6, <3>7 DEF next
    <3> QED
      BY <3>1, <3>3, <3>9, <3>10 DEF next
  <2>4. CASE ~(sub.id = id /\ sub.thread # Null)
    <3>1. f[n + 1] = s
      BY <1>3, <2>1, <2>4 DEF Subscribe
    <3> QED
      BY <2>1, <2>2, <3>1
  <2> QED
    BY <2>3, <2>4
<1> HIDE DEF T
<1>6. Len(Subscribers) \in T
  BY <1>1, <1>4, <1>5, Induction
<1>7. Found(SubscribersOf(id), Len(Subscribers))
  BY <1>1, <1>3, <1>6 DEF T
<1> QED
  BY <1>7, LenProperties DEF IsInjective

-----------------------------------------------------------------------------
(* Where the main thread and the threads are                               *)

MainPcs == {"construct", "start", "run", "forward", "delete", "join", "check",
            "clearFlag", "clearStatus", "exit", "terminated"}

(* The control state and what the log is used for: a thread runs only        *)
(* between RequestRun and the join in its destructor, and the log is open    *)
(* from before the first RequestRun until after the last join.               *)
ControlInv ==
    /\ pc \in [ThreadIDs -> {"unborn", "test", "handle", "run", "done"}]
    /\ m_RequestStop \in [ThreadIDs -> BOOLEAN]
    /\ mainPc \in MainPcs
    /\ current \in 1 .. Len(Threads) + 1
    /\ mainPc \in {"join", "forward"} => current <= Len(Threads)
    /\ logOpen \in BOOLEAN
    /\ mainPc \in {"start", "run", "forward", "delete", "join"} => logOpen
    /\ mainPc \notin {"start", "run", "forward", "delete", "join"} =>
         \A t \in ThreadIDs : pc[t] \in {"unborn", "done"}
    /\ mainPc \in {"delete", "join"} =>
         \A i \in 1 .. current - 1 : pc[Threads[i]] = "done"

(* The threads are the elements of Threads.                                  *)
LEMMA ThreadsList ==
    /\ Len(Threads) \in Nat
    /\ \A i \in 1 .. Len(Threads) : Threads[i] \in ThreadIDs
    /\ \A t \in ThreadIDs : \E i \in 1 .. Len(Threads) : t = Threads[i]
    /\ \A i, j \in 1 .. Len(Threads) : Threads[i] = Threads[j] => i = j
<1>1. Len(Threads) \in Nat /\ DOMAIN Threads = 1 .. Len(Threads)
  BY ThreadsGenerated, LenProperties DEF ThreadIDs
<1>2. \A i, j \in DOMAIN Threads : Threads[i] = Threads[j] => i = j
  BY ThreadsGenerated DEF IsInjective
<1>3. ThreadIDs = {Threads[i] : i \in DOMAIN Threads}
  BY DEF ThreadIDs, ToSet
<1> HIDE DEF Threads, ThreadIDs
<1> QED
  BY <1>1, <1>2, <1>3

(* No thread has the id of all subscribers, of all threads or of none.       *)
LEMMA ThreadNames == {ALL_SUBSCRIBERS, BROADCAST, Null} \cap ThreadIDs = {}
<1>1. ToSet(Generated) = {"BLUETOOTHMANAGER", "TELLDUSMANAGER", "TCPMANAGER"}
  <2>1. /\ DOMAIN Generated = 1 .. 3 /\ Generated[1] = "BLUETOOTHMANAGER"
        /\ Generated[2] = "TELLDUSMANAGER" /\ Generated[3] = "TCPMANAGER"
    BY DEF Generated
  <2> QED
    BY <2>1 DEF ToSet
<1>2. ThreadIDs \subseteq ToSet(Generated)
  BY ThreadsGenerated DEF ThreadIDs
<1> QED
  BY <1>1, <1>2, NullAssumption DEF ALL_SUBSCRIBERS, BROADCAST

(* Before the first object nothing runs.                                     *)
LEMMA InitControlInv == Init => ControlInv
<1> SUFFICES ASSUME Init PROVE ControlInv
  OBVIOUS
<1>1. 1 \in 1 .. Len(Threads) + 1
  BY ThreadsList
<1> QED
  BY <1>1 DEF Init, Each, ControlInv, MainPcs

(* Every step keeps ControlInv.                                              *)
LEMMA NextControlInv == ControlInv /\ [Next]_vars => ControlInv'
<1> SUFFICES ASSUME ControlInv, [Next]_vars PROVE ControlInv'
  OBVIOUS
<1>1. /\ Len(Threads) \in Nat
      /\ \A i \in 1 .. Len(Threads) : Threads[i] \in ThreadIDs
      /\ \A t \in ThreadIDs : \E i \in 1 .. Len(Threads) : t = Threads[i]
      /\ \A i, j \in 1 .. Len(Threads) : Threads[i] = Threads[j] => i = j
  BY ThreadsList
<1> HIDE DEF Threads, ThreadIDs
<1>2. ASSUME NEW t \in ThreadIDs, RunThread(t) \/ Publish(t) PROVE ControlInv'
  <2>1. CASE LoopTest(t)
    BY <1>1, <2>1 DEF LoopTest, ControlInv, mainVars
  <2>2. CASE HandleMessage(t)
    BY <2>2 DEF HandleMessage, ControlInv, mainVars
  <2>3. CASE HandleEnd(t) \/ RunEnd(t)
    BY <1>1, <2>3 DEF HandleEnd, RunEnd, ControlInv, mainVars
  <2>4. CASE Publish(t)
    BY <2>4 DEF Publish, ControlInv, mainVars, workerVars
  <2> QED
    BY <1>2, <2>1, <2>2, <2>3, <2>4 DEF RunThread
<1>3. CASE Main
  <2>1. CASE Take
    BY <1>1, <2>1 DEF Take, ControlInv, workerVars, MainPcs
  <2>2. CASE Forward
    BY <2>2 DEF Forward, ControlInv, workerVars
  <2>3. CASE ForwardEnd \/ MainLoop
    BY <1>1, <2>3 DEF ForwardEnd, MainLoop, ControlInv, workerVars, MainPcs
  <2>4. CASE RequestStop
    BY <2>4 DEF RequestStop, ControlInv, workerVars, MainPcs
  <2>5. CASE Join
    BY <1>1, <2>5 DEF Join, ControlInv, workerVars, MainPcs
  <2>6. CASE Stop
    <3>1. \A t \in ThreadIDs : pc[t] = "done"
      BY <1>1, <2>6 DEF Stop, ControlInv
    <3> QED
      BY <2>6, <3>1 DEF Stop, ControlInv, workerVars, MainPcs
  <2>7. CASE CheckStatus \/ ClearFlag \/ ClearStatus
    BY <2>7 DEF CheckStatus, ClearFlag, ClearStatus, ControlInv, workerVars, MainPcs
  <2>8. CASE Construct
    BY <1>1, <2>8 DEF Construct, Each, ControlInv, MainPcs
  <2>9. CASE RequestRun \/ ConstructEnd
    BY <1>1, <2>9 DEF RequestRun, ConstructEnd, ControlInv, workerVars, MainPcs
  <2> QED
    BY <1>3, <2>1, <2>2, <2>3, <2>4, <2>5, <2>6, <2>7, <2>8, <2>9 DEF Main
<1>4. ASSUME NEW sig \in Signals, Signal(sig) \/ SignalFlag(sig) PROVE ControlInv'
  BY <1>4 DEF Signal, SignalFlag, ControlInv, mainVars, workerVars
<1>5. CASE UNCHANGED vars
  BY <1>5 DEF vars, mainVars, workerVars, ControlInv
<1> QED
  BY <1>2, <1>3, <1>4, <1>5 DEF Next

LEMMA ControlInvariance == Spec => []ControlInv
  BY InitControlInv, NextControlInv, PTL DEF Spec

(* "NO objects are alive anymore" (ProgramManager.cpp:264) when the log is   *)
(* closed, and it is open before the first thread runs.                      *)
THEOREM LogStaysOpen == Spec => []LogOpen
<1>1. ControlInv => LogOpen
  BY DEF ControlInv, LogOpen
<1> QED
  BY <1>1, ControlInvariance, PTL

-----------------------------------------------------------------------------
(* Messages *)

(* What a thread's m_TxQueue has accepted.                                   *)
Sent(t) == {Published(t, n) : n \in 1 .. published[t]}
AllSent == UNION {Sent(t) : t \in ThreadIDs}
Delivery == [msg : AllSent, to : ThreadIDs]

(* Every message under way was sent, and no more messages of a sender are    *)
(* handled than it sent.                                                     *)
MessageInv ==
    /\ published \in [ThreadIDs -> Nat]
    /\ \A t \in ThreadIDs : published[t] <= MaxPublished[t]
    /\ m_TxQueue = [t \in ThreadIDs |-> m_TxQueue[t]]
    /\ m_RxQueue = [t \in ThreadIDs |-> m_RxQueue[t]]
    /\ \A t \in ThreadIDs :
         /\ m_TxQueue[t] \in Seq(Sent(t)) /\ Len(m_TxQueue[t]) <= Size
         /\ m_RxQueue[t] \in Seq(AllSent \union StopMessages) /\ Len(m_RxQueue[t]) <= Size
    /\ pending \in Seq(Delivery)
    /\ lost \subseteq Delivery
    /\ parsed \in [ThreadIDs -> 0 .. MESSAGES_PER_RUN]
    /\ handled \in [ThreadIDs -> [ThreadIDs -> Nat]]
    /\ \A s, t \in ThreadIDs : handled[t][s] <= published[s]
    /\ gSigStopflag \in BOOLEAN /\ gSigStatus \in Signals \union {"none"}
    /\ arrived \subseteq Signals /\ inHandler \subseteq arrived

(* An element more or less keeps a queue a queue.                            *)
LEMMA QueueSteps ==
    ASSUME NEW S, NEW q \in Seq(S), Len(q) <= Size, NEW m \in S
    PROVE  /\ Push(q, Size, m) \in Seq(S) /\ Len(Push(q, Size, m)) <= Size
           /\ q # <<>> => /\ Tail(q) \in Seq(S) /\ Len(Tail(q)) <= Size
                          /\ Head(q) \in S
<1>1. Len(q) \in Nat /\ Size \in Nat
  BY LenProperties, SizeAssumption
<1>2. Append(q, m) \in Seq(S) /\ Len(Append(q, m)) = Len(q) + 1
  BY AppendProperties
<1>3. q # <<>> => Tail(q) \in Seq(S) /\ Len(Tail(q)) = Len(q) - 1 /\ Head(q) \in S
  BY HeadTailProperties
<1> QED
  BY <1>1, <1>2, <1>3 DEF Push, HasSpace

(* A message that was sent has a sender, its id and its number.              *)
LEMMA SentFields ==
    ASSUME MessageInv, NEW m \in AllSent
    PROVE  /\ m.src \in ThreadIDs /\ m.n \in 1 .. published[m.src]
           /\ m.id = Publishes[m.src] /\ m.id # STOP_ALL
           /\ m.dest = ALL_SUBSCRIBERS /\ m = Published(m.src, m.n)
<1>1. PICK t \in ThreadIDs : m \in Sent(t)
  BY DEF AllSent
<1>2. PICK n \in 1 .. published[t] : m = Published(t, n)
  BY <1>1 DEF Sent
<1>3. m.src = t /\ m.n = n /\ m.id = Publishes[t] /\ m.dest = ALL_SUBSCRIBERS
  BY <1>2 DEF Published
<1> QED
  BY <1>2, <1>3, PublishesAssumption

(* Nothing was sent before the first start, nor is any more after another.   *)
LEMMA NewMessages ==
    ASSUME published' = Each(0), m_TxQueue' = Each(<<>>),
           m_RxQueue' = Each(<<>>), pending' = <<>>, lost' = {},
           parsed' = Each(0), handled' = Each(Each(0)),
           gSigStopflag' \in BOOLEAN, gSigStatus' \in Signals \union {"none"},
           arrived' \subseteq Signals, inHandler' \subseteq arrived'
    PROVE  MessageInv'
  BY SizeAssumption, PublishesAssumption DEF Each, MessageInv

LEMMA InitMessageInv == Init => MessageInv
<1> SUFFICES ASSUME Init PROVE MessageInv
  OBVIOUS
<1>1. /\ published = Each(0) /\ m_TxQueue = Each(<<>>)
      /\ m_RxQueue = Each(<<>>) /\ pending = <<>> /\ lost = {}
      /\ parsed = Each(0) /\ handled = Each(Each(0))
      /\ gSigStopflag \in BOOLEAN /\ gSigStatus \in Signals \union {"none"}
      /\ arrived \subseteq Signals /\ inHandler \subseteq arrived
  BY DEF Init
<1> QED
  BY <1>1, SizeAssumption, PublishesAssumption DEF Each, MessageInv

(* Steps that leave the messages alone.                                      *)
LEMMA SameMessages ==
    ASSUME MessageInv, parsed' \in [ThreadIDs -> 0 .. MESSAGES_PER_RUN],
           UNCHANGED <<m_TxQueue, m_RxQueue, published, handled, pending, lost, gSigStopflag,
                       gSigStatus, arrived, inHandler>>
    PROVE  MessageInv'
<1>1. /\ AllSent' = AllSent /\ Delivery' = Delivery
      /\ \A t \in ThreadIDs : Sent(t)' = Sent(t)
  BY DEF AllSent, Sent, Delivery
<1> QED
  BY <1>1 DEF MessageInv

(* A thread handles what was sent, and what it sends was not sent before.    *)
LEMMA ThreadMessageInv ==
    ASSUME MessageInv, NEW t \in ThreadIDs, RunThread(t) \/ Publish(t)
    PROVE  MessageInv'
<1> HIDE DEF ThreadIDs
<1>1. CASE LoopTest(t) \/ HandleEnd(t) \/ RunEnd(t)
  <2>1. UNCHANGED <<m_TxQueue, m_RxQueue, published, handled, pending, lost, gSigStopflag,
                    gSigStatus, arrived, inHandler>>
    BY <1>1 DEF LoopTest, HandleEnd, RunEnd, mainVars, signalVars
  <2>2. parsed' \in [ThreadIDs -> 0 .. MESSAGES_PER_RUN]
    <3>1. parsed \in [ThreadIDs -> 0 .. MESSAGES_PER_RUN] /\ 0 \in 0 .. MESSAGES_PER_RUN
      BY SizeAssumption DEF MessageInv
    <3>2. parsed' = parsed \/ parsed' = [parsed EXCEPT ![t] = 0]
      BY <1>1 DEF LoopTest, HandleEnd, RunEnd
    <3> QED
      BY <3>1, <3>2
  <2> QED
    BY <2>1, <2>2, SameMessages
<1>2. CASE HandleMessage(t)
  <2> DEFINE q == m_RxQueue[t]
             m == Head(q)
  <2>1. /\ q # <<>> /\ m_RxQueue' = [m_RxQueue EXCEPT ![t] = Tail(q)]
        /\ parsed[t] < MESSAGES_PER_RUN /\ parsed' = [parsed EXCEPT ![t] = @ + 1]
        /\ IF m.id = STOP_ALL THEN UNCHANGED handled
             ELSE handled' = [handled EXCEPT ![t] = [@ EXCEPT ![m.src] = m.n]]
        /\ UNCHANGED <<m_TxQueue, published, pending, lost, gSigStopflag, gSigStatus,
                       arrived, inHandler>>
    BY <1>2 DEF HandleMessage, IsEmpty, mainVars, signalVars
  <2>2. /\ Tail(q) \in Seq(AllSent \union StopMessages) /\ Len(Tail(q)) <= Size
        /\ m \in AllSent \union StopMessages
    <3>1. q \in Seq(AllSent \union StopMessages) /\ Len(q) <= Size /\ Head(q) \in AllSent \union StopMessages
      BY <2>1, HeadTailProperties DEF MessageInv
    <3> QED
      BY <2>1, <3>1, QueueSteps
  <2>3. m.id # STOP_ALL => m.src \in ThreadIDs /\ m.n \in 1 .. published[m.src]
    <3>1. m \in StopMessages => m.id = STOP_ALL
      BY DEF StopMessages, StopMessage
    <3> QED
      BY <2>2, <3>1, SentFields
  <2> HIDE DEF q, m
  <2>4. handled' \in [ThreadIDs -> [ThreadIDs -> Nat]]
        /\ \A s, r \in ThreadIDs : handled'[r][s] <= published'[s]
    <3>1. /\ \A s, r \in ThreadIDs : handled[r][s] \in Nat /\ handled[r][s] <= published[s]
          /\ handled \in [ThreadIDs -> [ThreadIDs -> Nat]] /\ published \in [ThreadIDs -> Nat]
      BY DEF MessageInv
    <3>2. CASE m.id = STOP_ALL
      BY <2>1, <3>1, <3>2
    <3>3. CASE m.id # STOP_ALL
      <4> DEFINE row == [handled[t] EXCEPT ![m.src] = m.n]
      <4>1. handled' = [handled EXCEPT ![t] = row]
        BY <2>1, <3>3
      <4>2. m.n \in Nat /\ m.src \in ThreadIDs /\ m.n <= published[m.src]
        BY <2>3, <3>1, <3>3
      <4>3. row \in [ThreadIDs -> Nat] /\ \A s \in ThreadIDs : row[s] <= published[s]
        BY <3>1, <4>2
      <4> HIDE DEF row
      <4>4. handled' \in [ThreadIDs -> [ThreadIDs -> Nat]]
        BY <3>1, <4>1, <4>3
      <4>5. ASSUME NEW s \in ThreadIDs, NEW r \in ThreadIDs PROVE handled'[r][s] <= published'[s]
        BY <2>1, <3>1, <4>1, <4>3
      <4> QED
        BY <4>4, <4>5
    <3> QED
      BY <3>2, <3>3
  <2>5. parsed' \in [ThreadIDs -> 0 .. MESSAGES_PER_RUN]
    BY <2>1, SizeAssumption DEF MessageInv
  <2>6. Sent(t)' = Sent(t) /\ AllSent' = AllSent /\ Delivery' = Delivery
        /\ \A r \in ThreadIDs : Sent(r)' = Sent(r)
    BY <2>1 DEF Sent, AllSent, Delivery
  <2>7. m_RxQueue' = [r \in ThreadIDs |-> m_RxQueue'[r]]
        /\ \A r \in ThreadIDs : m_RxQueue'[r] \in Seq(AllSent \union StopMessages)
                                /\ Len(m_RxQueue'[r]) <= Size
    BY <2>1, <2>2 DEF MessageInv
  <2> QED
    BY <2>1, <2>4, <2>5, <2>6, <2>7 DEF MessageInv
<1>3. CASE Publish(t)
  <2> DEFINE q == m_TxQueue[t]
             m == Published(t, published[t] + 1)
  <2>1. /\ published[t] < MaxPublished[t]
        /\ m_TxQueue' = [m_TxQueue EXCEPT ![t] = Push(q, Size, m)]
        /\ published' = [published EXCEPT ![t] = IF HasSpace(q, Size) THEN @ + 1 ELSE @]
        /\ UNCHANGED <<m_RxQueue, parsed, handled, pending, lost, gSigStopflag, gSigStatus,
                       arrived, inHandler>>
    BY <1>3 DEF Publish, workerVars, mainVars, signalVars
  <2>2. published' \in [ThreadIDs -> Nat] /\ published[t] \in Nat /\ MaxPublished[t] \in Nat
        /\ \A s \in ThreadIDs : published[s] \in Nat /\ published[s] <= published'[s]
                                /\ published'[s] <= MaxPublished[s]
    <3>1. /\ published \in [ThreadIDs -> Nat] /\ published[t] \in Nat
          /\ \A s \in ThreadIDs : published[s] \in Nat /\ MaxPublished[s] \in Nat
                                  /\ published[s] <= MaxPublished[s]
      BY PublishesAssumption DEF MessageInv
    <3>2. /\ published' \in [ThreadIDs -> Nat]
          /\ published'[t] \in {published[t], published[t] + 1}
          /\ \A s \in ThreadIDs : s # t => published'[s] = published[s]
      BY <2>1, <3>1
    <3>3. published[t] <= published'[t] /\ published'[t] <= MaxPublished[t]
      BY <2>1, <3>1, <3>2
    <3>4. ASSUME NEW s \in ThreadIDs
          PROVE  published[s] <= published'[s] /\ published'[s] <= MaxPublished[s]
      BY <3>1, <3>2, <3>3
    <3> QED
      BY <3>1, <3>2, <3>4
  <2>3. /\ \A s \in ThreadIDs : Sent(s) \subseteq Sent(s)'
        /\ HasSpace(q, Size) => m \in Sent(t)'
    <3>1. \A s \in ThreadIDs : 1 .. published[s] \subseteq 1 .. published'[s]
      BY <2>2
    <3>2. HasSpace(q, Size) => published[t] + 1 \in 1 .. published'[t]
      BY <2>1, <2>2
    <3> QED
      BY <3>1, <3>2 DEF Sent
  <2>4. AllSent \subseteq AllSent'
    BY <2>3 DEF AllSent
  <2>5. Delivery \subseteq Delivery'
    BY <2>4 DEF Delivery
  <2>6. pending' \in Seq(Delivery') /\ lost' \subseteq Delivery'
    BY <2>1, <2>5, SeqMonotone DEF MessageInv
  <2>7. \A s \in ThreadIDs : m_RxQueue'[s] \in Seq(AllSent' \union StopMessages)
                             /\ Len(m_RxQueue'[s]) <= Size
    <3>1. AllSent \union StopMessages \subseteq AllSent' \union StopMessages
      BY <2>4
    <3> QED
      BY <2>1, <3>1, SeqMonotone DEF MessageInv
  <2>8. \A s \in ThreadIDs : m_TxQueue[s] \in Seq(Sent(s)') /\ Len(m_TxQueue[s]) <= Size
    BY <2>3, SeqMonotone DEF MessageInv
  <2>9. Push(q, Size, m) \in Seq(Sent(t)') /\ Len(Push(q, Size, m)) <= Size
    <3>1. q \in Seq(Sent(t)') /\ Len(q) <= Size
      BY <2>8
    <3>2. CASE HasSpace(q, Size)
      BY <2>3, <3>1, <3>2, QueueSteps
    <3>3. CASE ~HasSpace(q, Size)
      BY <3>1, <3>3 DEF Push
    <3> QED
      BY <3>2, <3>3
  <2> HIDE DEF q, m
  <2>10. m_TxQueue' = [r \in ThreadIDs |-> m_TxQueue'[r]]
         /\ \A s \in ThreadIDs : m_TxQueue'[s] \in Seq(Sent(s)') /\ Len(m_TxQueue'[s]) <= Size
    BY <2>1, <2>8, <2>9 DEF MessageInv
  <2>11. handled' \in [ThreadIDs -> [ThreadIDs -> Nat]]
         /\ \A s, r \in ThreadIDs : handled'[r][s] <= published'[s]
    <3>1. handled' = handled /\ handled \in [ThreadIDs -> [ThreadIDs -> Nat]]
      BY <2>1 DEF MessageInv
    <3>2. ASSUME NEW s \in ThreadIDs, NEW r \in ThreadIDs PROVE handled'[r][s] <= published'[s]
      <4>1. handled[r][s] \in Nat /\ handled[r][s] <= published[s]
        BY DEF MessageInv
      <4>2. published[s] \in Nat /\ published'[s] \in Nat /\ published[s] <= published'[s]
        BY <2>2
      <4> QED
        BY <3>1, <4>1, <4>2
    <3> QED
      BY <3>1, <3>2
  <2> QED
    BY <2>1, <2>2, <2>6, <2>7, <2>10, <2>11 DEF MessageInv
<1> QED
  BY <1>1, <1>2, <1>3 DEF RunThread

(* The main thread forwards what was sent to the subscribers of its id.      *)
LEMMA MainMessageInv == ASSUME MessageInv, ControlInv, Main PROVE MessageInv'
<1> HIDE DEF ThreadIDs, Threads
<1>1. CASE ForwardEnd \/ MainLoop \/ Join \/ Stop \/ CheckStatus \/ ClearFlag \/ ClearStatus
           \/ RequestRun \/ ConstructEnd
  <2>1. UNCHANGED <<m_TxQueue, m_RxQueue, published, handled, pending, lost, arrived, inHandler,
                    parsed>>
        /\ gSigStopflag' \in BOOLEAN /\ gSigStatus' \in Signals \union {"none"}
    BY <1>1 DEF MessageInv, ForwardEnd, MainLoop, Join, Stop, CheckStatus, ClearFlag, ClearStatus,
                RequestRun, ConstructEnd, workerVars, signalVars
  <2>2. AllSent' = AllSent /\ Delivery' = Delivery
        /\ \A t \in ThreadIDs : Sent(t)' = Sent(t)
    BY <2>1 DEF AllSent, Sent, Delivery
  <2> QED
    BY <2>1, <2>2 DEF MessageInv
<1>2. CASE Construct
  <2>1. UNCHANGED <<gSigStopflag, gSigStatus, arrived, inHandler>>
    BY <1>2 DEF Construct, signalVars
  <2> QED
    BY <1>2, <2>1, NewMessages DEF Construct, MessageInv
<1>3. CASE Take
  <2> DEFINE t == Threads[current]
             q == m_TxQueue[t]
             m == Head(q)
             to == Recipients(m)
  <2>1. t \in ThreadIDs
    BY <1>3, ThreadsList DEF Take, ControlInv
  <2>2. q \in Seq(Sent(t)) /\ Len(q) <= Size /\ Sent(t) \subseteq AllSent
    BY <2>1 DEF MessageInv, AllSent
  <2>3. UNCHANGED <<m_RxQueue, published, handled, parsed, lost, gSigStopflag, gSigStatus,
                    arrived, inHandler>>
    BY <1>3 DEF Take, workerVars, signalVars
  <2>4. AllSent' = AllSent /\ Delivery' = Delivery
        /\ \A r \in ThreadIDs : Sent(r)' = Sent(r)
    BY <2>3 DEF AllSent, Sent, Delivery
  <2>5. CASE q = <<>>
    <3>1. UNCHANGED <<m_TxQueue, pending>>
      BY <1>3, <2>5 DEF Take, IsEmpty
    <3> QED
      BY <2>3, <2>4, <3>1 DEF MessageInv
  <2>6. CASE q # <<>>
    <3>1. /\ m_TxQueue' = [m_TxQueue EXCEPT ![t] = Tail(q)]
          /\ pending' = [i \in DOMAIN to |-> [msg |-> m, to |-> to[i]]]
      BY <1>3, <2>6 DEF Take, IsEmpty
    <3>2. m \in Sent(t) /\ m \in AllSent /\ Tail(q) \in Seq(Sent(t)) /\ Len(Tail(q)) <= Size
      BY <2>2, <2>6, HeadTailProperties, QueueSteps
    <3>3. to \in Seq(ThreadIDs)
      <4>1. m.src \in ThreadIDs /\ m.id = Publishes[m.src] /\ m.dest = ALL_SUBSCRIBERS
        BY <3>2, SentFields
      <4>2. to = SubscribersOf(Publishes[m.src])
        BY <4>1, ThreadNames DEF Recipients, ALL_SUBSCRIBERS, BROADCAST
      <4> QED
        BY <4>1, <4>2, SubscribersAreThreads
    <3> HIDE DEF q, m, to
    <3>4. pending' \in Seq(Delivery)
      <4>1. Len(to) \in Nat /\ DOMAIN to = 1 .. Len(to)
            /\ \A i \in 1 .. Len(to) : to[i] \in ThreadIDs
        BY <3>3, LenProperties, ElementOfSeq
      <4>2. pending' \in [1 .. Len(to) -> Delivery]
        BY <3>1, <3>2, <4>1 DEF Delivery
      <4> QED
        BY <4>1, <4>2, SeqDef
    <3>5. m_TxQueue' = [r \in ThreadIDs |-> m_TxQueue'[r]]
          /\ \A r \in ThreadIDs : m_TxQueue'[r] \in Seq(Sent(r)) /\ Len(m_TxQueue'[r]) <= Size
      BY <2>1, <3>1, <3>2 DEF MessageInv
    <3> QED
      BY <2>3, <2>4, <3>4, <3>5 DEF MessageInv
  <2> QED
    BY <2>5, <2>6
<1>4. CASE Forward
  <2> DEFINE d == Head(pending)
             q == m_RxQueue[d.to]
  <2>1. /\ pending # <<>> /\ pending' = Tail(pending)
        /\ m_RxQueue' = [m_RxQueue EXCEPT ![d.to] = Push(q, Size, d.msg)]
        /\ lost' = (IF HasSpace(q, Size) THEN lost ELSE lost \union {d})
        /\ UNCHANGED <<m_TxQueue, published, handled, parsed, gSigStopflag, gSigStatus,
                       arrived, inHandler>>
    BY <1>4 DEF Forward, workerVars, signalVars
  <2>2. d \in Delivery /\ Tail(pending) \in Seq(Delivery)
    BY <2>1, HeadTailProperties DEF MessageInv
  <2>3. d.to \in ThreadIDs /\ d.msg \in AllSent \union StopMessages
    BY <2>2 DEF Delivery
  <2>4. Push(q, Size, d.msg) \in Seq(AllSent \union StopMessages)
        /\ Len(Push(q, Size, d.msg)) <= Size
    <3>1. q \in Seq(AllSent \union StopMessages) /\ Len(q) <= Size
      BY <2>3 DEF MessageInv
    <3> QED
      BY <2>3, <3>1, QueueSteps
  <2>5. AllSent' = AllSent /\ Delivery' = Delivery
        /\ \A r \in ThreadIDs : Sent(r)' = Sent(r)
    BY <2>1 DEF AllSent, Sent, Delivery
  <2> HIDE DEF d, q
  <2>6. m_RxQueue' = [r \in ThreadIDs |-> m_RxQueue'[r]]
        /\ \A r \in ThreadIDs : m_RxQueue'[r] \in Seq(AllSent \union StopMessages)
                                /\ Len(m_RxQueue'[r]) <= Size
    BY <2>1, <2>3, <2>4 DEF MessageInv
  <2>7. lost' \subseteq Delivery
    BY <2>1, <2>2 DEF MessageInv
  <2> QED
    BY <2>1, <2>2, <2>5, <2>6, <2>7 DEF MessageInv
<1>5. CASE RequestStop
  <2> DEFINE t == Threads[current]
             m == StopMessage(t)
             q == m_RxQueue[t]
  <2>1. t \in ThreadIDs
    BY <1>5, ThreadsList DEF RequestStop, ControlInv
  <2>2. /\ m_RxQueue' = [m_RxQueue EXCEPT ![t] = Push(q, Size, m)]
        /\ UNCHANGED <<m_TxQueue, published, handled, pending, lost, parsed, gSigStopflag,
                       gSigStatus, arrived, inHandler>>
    BY <1>5 DEF RequestStop, workerVars, signalVars
  <2>3. Push(q, Size, m) \in Seq(AllSent \union StopMessages) /\ Len(Push(q, Size, m)) <= Size
    <3>1. q \in Seq(AllSent \union StopMessages) /\ Len(q) <= Size
      BY <2>1 DEF MessageInv
    <3>2. m \in AllSent \union StopMessages
      BY <2>1 DEF StopMessages
    <3> QED
      BY <3>1, <3>2, QueueSteps
  <2>4. AllSent' = AllSent /\ Delivery' = Delivery
        /\ \A r \in ThreadIDs : Sent(r)' = Sent(r)
    BY <2>2 DEF AllSent, Sent, Delivery
  <2> HIDE DEF t, m, q
  <2>5. m_RxQueue' = [r \in ThreadIDs |-> m_RxQueue'[r]]
        /\ \A r \in ThreadIDs : m_RxQueue'[r] \in Seq(AllSent \union StopMessages)
                                /\ Len(m_RxQueue'[r]) <= Size
    BY <2>1, <2>2, <2>3 DEF MessageInv
  <2> QED
    BY <2>2, <2>4, <2>5 DEF MessageInv
<1> QED
  BY <1>1, <1>2, <1>3, <1>4, <1>5 DEF Main

(* Every step keeps MessageInv.                                              *)
LEMMA NextMessageInv == MessageInv /\ ControlInv /\ [Next]_vars => MessageInv'
<1> SUFFICES ASSUME MessageInv, ControlInv, [Next]_vars PROVE MessageInv'
  OBVIOUS
<1>1. ASSUME NEW sig \in Signals, Signal(sig) \/ SignalFlag(sig) PROVE MessageInv'
  <2>1. UNCHANGED <<m_TxQueue, m_RxQueue, published, handled, pending, lost, parsed>>
        /\ gSigStopflag' \in BOOLEAN /\ gSigStatus' \in Signals \union {"none"}
        /\ arrived' \subseteq Signals /\ inHandler' \subseteq arrived'
    BY <1>1 DEF MessageInv, Signal, SignalFlag, workerVars, mainVars
  <2>2. AllSent' = AllSent /\ Delivery' = Delivery
        /\ \A t \in ThreadIDs : Sent(t)' = Sent(t)
    BY <2>1 DEF AllSent, Sent, Delivery
  <2> QED
    BY <2>1, <2>2 DEF MessageInv
<1>2. CASE UNCHANGED vars
  BY <1>2, SameMessages DEF vars, workerVars, mainVars, signalVars, MessageInv
<1> QED
  BY <1>1, <1>2, MainMessageInv, ThreadMessageInv DEF Next

LEMMA MessageInvariance == Spec => []MessageInv
  BY InitMessageInv, NextMessageInv, ControlInvariance, PTL DEF Spec

(* Types and queue bounds, and no sender has more messages handled than it   *)
(* sent (Queue.h:25-36, thread.h:104-120, ProgramManager.cpp:187-227).       *)
THEOREM TypeCorrect == Spec => []TypeOK
<1>1. MessageInv /\ ControlInv => TypeOK
  <2> SUFFICES ASSUME MessageInv, ControlInv PROVE TypeOK
    OBVIOUS
  <2>1. /\ \A t \in ThreadIDs : Sent(t) \subseteq {Published(t, n) : n \in 1 .. MaxPublished[t]}
        /\ AllSent \subseteq Messages
    <3>1. \A t \in ThreadIDs : 1 .. published[t] \subseteq 1 .. MaxPublished[t]
      BY PublishesAssumption DEF MessageInv
    <3>2. \A t \in ThreadIDs : Sent(t) \subseteq {Published(t, n) : n \in 1 .. MaxPublished[t]}
      BY <3>1 DEF Sent
    <3> QED
      BY <3>2 DEF AllSent, Messages
  <2>2. \A t \in ThreadIDs : m_TxQueue[t] \in Seq(Messages)
    <3>1. \A t \in ThreadIDs : Sent(t) \subseteq Messages
      BY <2>1 DEF AllSent
    <3> QED
      BY <3>1, SeqMonotone DEF MessageInv
  <2>3. \A t \in ThreadIDs : m_RxQueue[t] \in Seq(Messages \union StopMessages)
    <3>1. AllSent \union StopMessages \subseteq Messages \union StopMessages
      BY <2>1
    <3> QED
      BY <3>1, SeqMonotone DEF MessageInv
  <2>4. Delivery \subseteq [msg : Messages, to : ThreadIDs]
    BY <2>1 DEF Delivery
  <2>5. pending \in Seq([msg : Messages, to : ThreadIDs])
        /\ lost \subseteq [msg : Messages, to : ThreadIDs]
    BY <2>4, SeqMonotone DEF MessageInv
  <2>6. m_TxQueue \in [ThreadIDs -> Seq(Messages)]
        /\ m_RxQueue \in [ThreadIDs -> Seq(Messages \union StopMessages)]
    BY <2>2, <2>3 DEF MessageInv
  <2> QED
    BY <2>5, <2>6 DEF MessageInv, ControlInv, MainPcs, TypeOK
<1> QED
  BY <1>1, MessageInvariance, ControlInvariance, PTL

-----------------------------------------------------------------------------
(* STOP_ALL is the last message *)

(* A STOP_ALL waits in the queue.                                            *)
Stops(queue) == \E i \in 1 .. Len(queue) : queue[i].id = STOP_ALL

(* STOP_ALL is put into a queue once, by the destructor, when nobody         *)
(* forwards messages any more: nothing comes behind it, and nothing is left  *)
(* when it was handled.                                                      *)
StopInv ==
    \A t \in ThreadIDs :
        /\ Stops(m_RxQueue[t]) \/ m_RequestStop[t] =>
             /\ mainPc \notin {"start", "run", "forward", "terminated"}
             /\ mainPc = "delete" => \E i \in 1 .. current - 1 : Threads[i] = t
             /\ mainPc = "join" => \E i \in 1 .. current : Threads[i] = t
        /\ \A i \in 1 .. Len(m_RxQueue[t]) :
             m_RxQueue[t][i].id = STOP_ALL => i = Len(m_RxQueue[t])
        /\ m_RequestStop[t] => m_RxQueue[t] = <<>>

(* A step of a thread that runs.                                             *)
LEMMA ThreadStopInv ==
    ASSUME StopInv, MessageInv, ControlInv, NEW t \in ThreadIDs, RunThread(t) \/ Publish(t)
    PROVE  StopInv'
<1> HIDE DEF Threads, ThreadIDs
<1>1. CASE LoopTest(t) \/ HandleEnd(t) \/ RunEnd(t) \/ Publish(t)
  <2>1. UNCHANGED <<m_RxQueue, m_RequestStop, mainPc, current>>
    BY <1>1 DEF LoopTest, HandleEnd, RunEnd, Publish, workerVars, mainVars
  <2> QED
    BY <2>1 DEF StopInv
<1>2. CASE HandleMessage(t)
  <2> DEFINE q == m_RxQueue[t]
             n == Len(q)
             rest == Tail(q)
  <2>1. /\ q # <<>> /\ m_RxQueue' = [m_RxQueue EXCEPT ![t] = rest]
        /\ m_RequestStop' = IF Head(q).id = STOP_ALL THEN [m_RequestStop EXCEPT ![t] = TRUE]
                                                     ELSE m_RequestStop
        /\ UNCHANGED <<mainPc, current>>
    BY <1>2 DEF HandleMessage, IsEmpty, mainVars
  <2>2. q \in Seq(AllSent \union StopMessages)
    BY DEF MessageInv
  <2>3. /\ n \in Nat \ {0} /\ Len(rest) = n - 1 /\ Head(q) = q[1]
        /\ \A i \in 1 .. n - 1 : rest[i] = q[i + 1]
        /\ rest \in Seq(AllSent \union StopMessages)
    BY <2>1, <2>2, HeadTailProperties, LenProperties, EmptySeq
  <2>4. /\ \A i \in 1 .. n : q[i].id = STOP_ALL => i = n
        /\ ~m_RequestStop[t]
    BY <2>1 DEF StopInv
  <2>5. ASSUME Head(q).id = STOP_ALL PROVE rest = <<>>
    <3> HIDE DEF q, n, rest
    <3>1. 1 \in 1 .. n /\ q[1].id = STOP_ALL
      BY <2>3, <2>5
    <3>2. n = 1
      BY <2>4, <3>1
    <3>3. Len(rest) = 0
      BY <2>3, <3>2
    <3> QED
      BY <2>3, <3>3, EmptySeq
  <2>6. \A i \in 1 .. Len(rest) : rest[i].id = STOP_ALL => i = Len(rest)
    BY <2>3, <2>4
  <2>7. Stops(rest) \/ Head(q).id = STOP_ALL => Stops(q)
    BY <2>3 DEF Stops
  <2> HIDE DEF q, n, rest
  <2>8. m_RxQueue'[t] = rest /\ (m_RequestStop'[t] <=> Head(q).id = STOP_ALL)
    BY <2>1, <2>4 DEF MessageInv, ControlInv
  <2> SUFFICES ASSUME NEW s \in ThreadIDs
               PROVE /\ Stops(m_RxQueue'[s]) \/ m_RequestStop'[s] =>
                          /\ mainPc' \notin {"start", "run", "forward", "terminated"}
                          /\ mainPc' = "delete" => \E i \in 1 .. current' - 1 : Threads[i] = s
                          /\ mainPc' = "join" => \E i \in 1 .. current' : Threads[i] = s
                     /\ \A i \in 1 .. Len(m_RxQueue'[s]) :
                          m_RxQueue'[s][i].id = STOP_ALL => i = Len(m_RxQueue'[s])
                     /\ m_RequestStop'[s] => m_RxQueue'[s] = <<>>
    BY DEF StopInv, Stops
  <2>9. CASE s = t
    <3>1. Stops(q) => /\ mainPc \notin {"start", "run", "forward", "terminated"}
                      /\ mainPc = "delete" => \E i \in 1 .. current - 1 : Threads[i] = t
                      /\ mainPc = "join" => \E i \in 1 .. current : Threads[i] = t
      BY DEF StopInv, q
    <3> QED
      <4>1. m_RxQueue'[s] = rest /\ (m_RequestStop'[s] <=> Head(q).id = STOP_ALL)
        BY <2>8, <2>9
      <4>2. Stops(rest) \/ m_RequestStop'[s] => Stops(q)
        BY <2>7, <4>1
      <4>3. mainPc' = mainPc /\ current' = current
        BY <2>1
      <4>4. Stops(m_RxQueue'[s]) \/ m_RequestStop'[s] =>
                          /\ mainPc' \notin {"start", "run", "forward", "terminated"}
                          /\ mainPc' = "delete" => \E i \in 1 .. current' - 1 : Threads[i] = s
                          /\ mainPc' = "join" => \E i \in 1 .. current' : Threads[i] = s
        BY <2>9, <3>1, <4>1, <4>2, <4>3
      <4> QED
        BY <2>5, <2>6, <4>1, <4>4
  <2>10. CASE s # t
    <3>1. m_RxQueue'[s] = m_RxQueue[s] /\ m_RequestStop'[s] = m_RequestStop[s]
      BY <2>1, <2>10 DEF MessageInv, ControlInv
    <3>2. mainPc' = mainPc /\ current' = current
      BY <2>1
    <3> QED
      BY <3>1, <3>2 DEF StopInv
  <2> QED
    BY <2>9, <2>10
<1> QED
  BY <1>1, <1>2 DEF RunThread

(* A step of the main thread.                                                *)
LEMMA MainStopInv ==
    ASSUME StopInv, MessageInv, ControlInv, Main
    PROVE  StopInv'
<1> HIDE DEF Threads, ThreadIDs
<1>1. /\ Len(Threads) \in Nat
      /\ \A i \in 1 .. Len(Threads) : Threads[i] \in ThreadIDs
      /\ \A i, j \in 1 .. Len(Threads) : Threads[i] = Threads[j] => i = j
      /\ current \in 1 .. Len(Threads) + 1
  BY ThreadsList DEF ControlInv
<1>2. CASE Take \/ ForwardEnd \/ MainLoop \/ Stop \/ CheckStatus \/ ClearFlag \/ ClearStatus
  <2>1. /\ UNCHANGED <<m_RxQueue, m_RequestStop>>
        /\ mainPc' \in {"run", "forward"} => mainPc \in {"run", "forward"}
        /\ mainPc' = "delete" => mainPc = "run"
        /\ mainPc' \notin {"join", "start", "terminated"}
    BY <1>2 DEF Take, ForwardEnd, MainLoop, Stop, CheckStatus, ClearFlag, ClearStatus, workerVars
  <2> QED
    BY <2>1 DEF StopInv, Stops
<1>3. CASE Join
  <2>1. /\ mainPc = "join" /\ mainPc' = "delete" /\ current' = current + 1
        /\ UNCHANGED <<m_RxQueue, m_RequestStop>>
    BY <1>3 DEF Join, workerVars
  <2> QED
    BY <1>1, <2>1 DEF StopInv, Stops
<1>4. CASE Construct
  <2>1. \A t \in ThreadIDs : m_RxQueue'[t] = <<>> /\ m_RequestStop'[t] = FALSE
    BY <1>4 DEF Construct, Each
  <2> QED
    BY <2>1 DEF StopInv, Stops
<1>5. CASE RequestRun \/ ConstructEnd
  <2>1. mainPc = "start" /\ UNCHANGED <<m_RxQueue, m_RequestStop>>
        /\ mainPc' \in {"start", "run"}
    BY <1>5 DEF RequestRun, ConstructEnd, workerVars
  <2> QED
    BY <2>1 DEF StopInv, Stops
<1>6. CASE Forward
  <2> DEFINE d == Head(pending)
             q == m_RxQueue[d.to]
  <2>1. /\ mainPc = "forward" /\ pending # <<>>
        /\ m_RxQueue' = [m_RxQueue EXCEPT ![d.to] = Push(q, Size, d.msg)]
        /\ UNCHANGED <<m_RequestStop, mainPc, current>>
    BY <1>6 DEF Forward, workerVars
  <2>2. d \in Delivery
    BY <2>1, HeadTailProperties DEF MessageInv
  <2>3. d.to \in ThreadIDs /\ d.msg \in AllSent /\ d.msg.id # STOP_ALL
    BY <2>2, SentFields DEF Delivery
  <2>4. \A t \in ThreadIDs : ~Stops(m_RxQueue[t]) /\ ~m_RequestStop[t]
    BY <2>1 DEF StopInv
  <2>5. ~Stops(Push(q, Size, d.msg))
    <3>1. q \in Seq(AllSent \union StopMessages) /\ ~Stops(q)
      BY <2>3, <2>4 DEF MessageInv
    <3> HIDE DEF d, q
    <3>2. CASE HasSpace(q, Size)
      <4>1. /\ Push(q, Size, d.msg) = Append(q, d.msg) /\ Len(q) \in Nat
            /\ Len(Append(q, d.msg)) = Len(q) + 1 /\ Append(q, d.msg)[Len(q) + 1] = d.msg
            /\ \A i \in 1 .. Len(q) : Append(q, d.msg)[i] = q[i]
        BY <2>3, <3>1, <3>2, AppendProperties, LenProperties DEF Push
      <4> QED
        BY <2>3, <3>1, <4>1 DEF Stops
    <3>3. CASE ~HasSpace(q, Size)
      BY <3>1, <3>3 DEF Push
    <3> QED
      BY <3>2, <3>3
  <2> HIDE DEF d, q
  <2>6. \A t \in ThreadIDs : ~Stops(m_RxQueue'[t]) /\ ~m_RequestStop'[t]
    BY <2>1, <2>3, <2>4, <2>5 DEF MessageInv
  <2> QED
    BY <2>6 DEF StopInv, Stops
<1>7. CASE RequestStop
  <2> DEFINE t == Threads[current]
             q == m_RxQueue[t]
             m == StopMessage(t)
             new == Push(q, Size, m)
  <2>1. /\ mainPc = "delete" /\ mainPc' = "join" /\ current <= Len(Threads)
        /\ m_RxQueue' = [m_RxQueue EXCEPT ![t] = new]
        /\ UNCHANGED <<m_RequestStop, current>>
    BY <1>7 DEF RequestStop, workerVars
  <2>2. t \in ThreadIDs /\ \A i \in 1 .. current - 1 : Threads[i] # t
    BY <1>1, <2>1
  <2>3. ~Stops(q) /\ ~m_RequestStop[t]
    BY <2>1, <2>2 DEF StopInv
  <2>4. \A i \in 1 .. Len(new) : new[i].id = STOP_ALL => i = Len(new)
    <3>1. q \in Seq(AllSent \union StopMessages) /\ m \in AllSent \union StopMessages
      BY <2>2 DEF MessageInv, StopMessages
    <3> HIDE DEF t, q, m
    <3>2. CASE HasSpace(q, Size)
      <4>1. /\ new = Append(q, m) /\ Len(q) \in Nat /\ Len(new) = Len(q) + 1
            /\ \A i \in 1 .. Len(q) : new[i] = q[i]
        BY <3>1, <3>2, AppendProperties, LenProperties DEF Push
      <4> QED
        BY <2>3, <4>1 DEF Stops
    <3>3. CASE ~HasSpace(q, Size)
      BY <2>3, <3>3 DEF Push, Stops
    <3> QED
      BY <3>2, <3>3
  <2>5. current \in 1 .. current
    BY <1>1
  <2> HIDE DEF q, m, new
  <2> SUFFICES ASSUME NEW s \in ThreadIDs
               PROVE /\ Stops(m_RxQueue'[s]) \/ m_RequestStop'[s] =>
                          /\ mainPc' \notin {"start", "run", "forward", "terminated"}
                          /\ mainPc' = "delete" => \E i \in 1 .. current' - 1 : Threads[i] = s
                          /\ mainPc' = "join" => \E i \in 1 .. current' : Threads[i] = s
                     /\ \A i \in 1 .. Len(m_RxQueue'[s]) :
                          m_RxQueue'[s][i].id = STOP_ALL => i = Len(m_RxQueue'[s])
                     /\ m_RequestStop'[s] => m_RxQueue'[s] = <<>>
    BY DEF StopInv, Stops
  <2>6. CASE s = t
    <3>1. m_RxQueue'[s] = new
      BY <2>1, <2>2, <2>6 DEF MessageInv
    <3> QED
      BY <2>1, <2>3, <2>4, <2>5, <2>6, <3>1
  <2>7. CASE s # t
    <3>1. m_RxQueue'[s] = m_RxQueue[s]
      BY <2>1, <2>7 DEF MessageInv
    <3>2. (\E i \in 1 .. current - 1 : Threads[i] = s) => \E i \in 1 .. current : Threads[i] = s
      BY <1>1
    <3> QED
      BY <2>1, <3>1, <3>2 DEF StopInv
  <2> QED
    BY <2>6, <2>7
<1> QED
  BY <1>2, <1>3, <1>4, <1>5, <1>6, <1>7 DEF Main

(* "we can write safely from this context (main) to our RX queue because the *)
(* program Manager thread copying queueing already stopped"                  *)
(* (thread.cpp:48-49): a thread that has seen STOP_ALL leaves no message of  *)
(* its queue unhandled.                                                      *)
THEOREM StopIsLast == Spec => []NothingLeftBehind
<1>1. Init => StopInv
  <2> SUFFICES ASSUME Init PROVE StopInv
    OBVIOUS
  <2>1. \A t \in ThreadIDs : m_RxQueue[t] = <<>> /\ m_RequestStop[t] = FALSE
    BY DEF Init, Each
  <2> QED
    BY <2>1 DEF StopInv, Stops
<1>2. StopInv /\ MessageInv /\ ControlInv /\ [Next]_vars => StopInv'
  <2> SUFFICES ASSUME StopInv, MessageInv, ControlInv, [Next]_vars PROVE StopInv'
    OBVIOUS
  <2>1. ASSUME NEW sig \in Signals, Signal(sig) \/ SignalFlag(sig) PROVE StopInv'
    <3>1. UNCHANGED <<m_RxQueue, m_RequestStop, mainPc, current>>
      BY <2>1 DEF Signal, SignalFlag, workerVars, mainVars
    <3> QED
      BY <3>1 DEF StopInv, Stops
  <2>2. CASE UNCHANGED vars
    BY <2>2 DEF vars, workerVars, mainVars, StopInv, Stops
  <2> QED
    BY <2>1, <2>2, MainStopInv, ThreadStopInv DEF Next
<1>3. StopInv => NothingLeftBehind
  BY DEF StopInv, NothingLeftBehind, IsEmpty
<1> QED
  BY <1>1, <1>2, <1>3, MessageInvariance, ControlInvariance, PTL DEF Spec

-----------------------------------------------------------------------------
(* The way of a message from its sender's m_TxQueue to a receiver            *)

Subscribed(t, s) == t \in ToSet(SubscribersOf(Publishes[s]))

(* How many of its messages the main thread has taken from s.                *)
Taken(s) == published[s] - Len(m_TxQueue[s])

(* A sender's m_TxQueue holds the last messages it published.                *)
TxNumbered ==
    \A s \in ThreadIDs :
        /\ Len(m_TxQueue[s]) <= published[s]
        /\ \A i \in 1 .. Len(m_TxQueue[s]) : m_TxQueue[s][i].n = Taken(s) + i

(* The messages in q, the m_RxQueue of t, are among those taken, still to be *)
(* handled, not refused, and in order.                                       *)
RxNumbered(t, q) ==
    \A i \in 1 .. Len(q) :
        q[i].id # STOP_ALL =>
            /\ Subscribed(t, q[i].src)
            /\ handled[t][q[i].src] < q[i].n /\ q[i].n <= Taken(q[i].src)
            /\ [msg |-> q[i], to |-> t] \notin lost
            /\ \A j \in i + 1 .. Len(q) :
                   q[j].id # STOP_ALL /\ q[j].src = q[i].src => q[i].n < q[j].n

(* What the main thread has in hand is the message it took last, once for    *)
(* each of its receivers, none of which has it yet.                          *)
HandNumbered ==
    /\ mainPc # "forward" => pending = <<>>
    /\ \A k \in 1 .. Len(pending) :
           LET d == pending[k]
           IN  /\ Subscribed(d.to, d.msg.src)
               /\ handled[d.to][d.msg.src] < d.msg.n
               /\ d.msg.n = Taken(d.msg.src)
               /\ d \notin lost
               /\ \A i \in 1 .. Len(m_RxQueue[d.to]) :
                      m_RxQueue[d.to][i].id # STOP_ALL /\ m_RxQueue[d.to][i].src = d.msg.src
                          => m_RxQueue[d.to][i].n < d.msg.n
               /\ \A l \in 1 .. Len(pending) : pending[l].to = d.to => l = k

(* Where a message is that t subscribed to, was taken and is not handled.    *)
Located(t, m) ==
    \/ [msg |-> m, to |-> t] \in lost
    \/ \E i \in 1 .. Len(m_RxQueue[t]) : m_RxQueue[t][i] = m
    \/ \E k \in 1 .. Len(pending) : pending[k] = [msg |-> m, to |-> t]

(* Nobody handled or lost a message that was not taken yet, and everything   *)
(* taken is handled, refused, or on its way.                                 *)
NothingMissing ==
    /\ \A d \in lost : d.msg.n <= Taken(d.msg.src)
    /\ \A s, t \in ThreadIDs :
           /\ handled[t][s] <= Taken(s)
           /\ Subscribed(t, s) =>
                  \A n \in handled[t][s] + 1 .. Taken(s) : Located(t, Published(s, n))

(* The invariant behind InOrderExactlyOnce.                                  *)
FlowInv ==
    /\ TxNumbered
    /\ \A t \in ThreadIDs : RxNumbered(t, m_RxQueue[t])
    /\ HandNumbered
    /\ NothingMissing

(* What MessageInv says of the elements of the queues.                       *)
LEMMA Elements ==
    ASSUME MessageInv
    PROVE  /\ \A s \in ThreadIDs :
                  /\ published[s] \in Nat /\ Len(m_TxQueue[s]) \in Nat
                  /\ \A i \in 1 .. Len(m_TxQueue[s]) :
                         m_TxQueue[s][i] \in AllSent /\ m_TxQueue[s][i].src = s
           /\ \A t \in ThreadIDs :
                  /\ Len(m_RxQueue[t]) \in Nat
                  /\ \A i \in 1 .. Len(m_RxQueue[t]) :
                         m_RxQueue[t][i].id # STOP_ALL => m_RxQueue[t][i] \in AllSent
           /\ Len(pending) \in Nat
           /\ \A k \in 1 .. Len(pending) : pending[k] \in Delivery
           /\ \A s, t \in ThreadIDs : handled[t][s] \in Nat
<1> HIDE DEF ThreadIDs
<1>1. ASSUME NEW s \in ThreadIDs
      PROVE  /\ published[s] \in Nat /\ Len(m_TxQueue[s]) \in Nat
             /\ \A i \in 1 .. Len(m_TxQueue[s]) :
                    m_TxQueue[s][i] \in AllSent /\ m_TxQueue[s][i].src = s
  <2>1. m_TxQueue[s] \in Seq(Sent(s)) /\ published[s] \in Nat
    BY DEF MessageInv
  <2>2. \A i \in 1 .. Len(m_TxQueue[s]) : m_TxQueue[s][i] \in Sent(s)
    BY <2>1, ElementOfSeq
  <2>3. \A m \in Sent(s) : m \in AllSent /\ m.src = s
    BY DEF AllSent, Sent, Published
  <2> QED
    BY <2>1, <2>2, <2>3, LenProperties
<1>2. ASSUME NEW t \in ThreadIDs
      PROVE  /\ Len(m_RxQueue[t]) \in Nat
             /\ \A i \in 1 .. Len(m_RxQueue[t]) :
                    m_RxQueue[t][i].id # STOP_ALL => m_RxQueue[t][i] \in AllSent
  <2>1. m_RxQueue[t] \in Seq(AllSent \union StopMessages)
    BY DEF MessageInv
  <2>2. \A i \in 1 .. Len(m_RxQueue[t]) : m_RxQueue[t][i] \in AllSent \union StopMessages
    BY <2>1, ElementOfSeq
  <2>3. \A m \in StopMessages : m.id = STOP_ALL
    BY DEF StopMessages, StopMessage
  <2> QED
    BY <2>1, <2>2, <2>3, LenProperties
<1>3. Len(pending) \in Nat /\ \A k \in 1 .. Len(pending) : pending[k] \in Delivery
  BY ElementOfSeq, LenProperties DEF MessageInv
<1>4. \A s, t \in ThreadIDs : handled[t][s] \in Nat
  BY DEF MessageInv
<1> QED
  BY <1>1, <1>2, <1>3, <1>4

(* Steps that move no message.                                               *)
LEMMA SameFlow ==
    ASSUME FlowInv, mainPc' # "forward" => pending = <<>>,
           UNCHANGED <<m_TxQueue, m_RxQueue, published, handled, pending, lost>>
    PROVE  FlowInv'
<1> HIDE DEF ThreadIDs
<1>1. \A s : Taken(s)' = Taken(s)
  BY DEF Taken
<1>2. TxNumbered' /\ HandNumbered'
  BY <1>1 DEF FlowInv, TxNumbered, HandNumbered
<1>3. \A t \in ThreadIDs : RxNumbered(t, m_RxQueue[t])'
  BY <1>1 DEF FlowInv, RxNumbered
<1>4. NothingMissing'
  BY <1>1 DEF FlowInv, NothingMissing, Located
<1> QED
  BY <1>2, <1>3, <1>4 DEF FlowInv

(* New threads have nothing on the way.                                      *)
LEMMA NewFlow ==
    ASSUME published' = Each(0), m_TxQueue' = Each(<<>>),
           m_RxQueue' = Each(<<>>), pending' = <<>>, lost' = {},
           handled' = Each(Each(0))
    PROVE  FlowInv'
<1> HIDE DEF ThreadIDs
<1>1. \A s \in ThreadIDs : /\ m_TxQueue'[s] = <<>> /\ m_RxQueue'[s] = <<>>
                           /\ published'[s] = 0 /\ Taken(s)' = 0
                           /\ \A t \in ThreadIDs : handled'[t][s] = 0
  BY DEF Each, Taken
<1> QED
  BY <1>1 DEF FlowInv, TxNumbered, RxNumbered, HandNumbered, NothingMissing

LEMMA InitFlow == Init => FlowInv
<1> HIDE DEF ThreadIDs
<1> SUFFICES ASSUME Init PROVE FlowInv
  OBVIOUS
<1>0. pending = <<>> /\ lost = {}
  BY DEF Init
<1>1. \A s \in ThreadIDs : /\ m_TxQueue[s] = <<>> /\ m_RxQueue[s] = <<>>
                           /\ published[s] = 0 /\ Taken(s) = 0
                           /\ \A t \in ThreadIDs : handled[t][s] = 0
  BY DEF Init, Each, Taken
<1> QED
  BY <1>0, <1>1 DEF FlowInv, TxNumbered, RxNumbered, HandNumbered, NothingMissing

(* A message more in a sender's m_TxQueue.                                   *)
LEMMA PublishFlow ==
    ASSUME FlowInv, MessageInv, NEW t \in ThreadIDs, Publish(t)
    PROVE  FlowInv'
<1> HIDE DEF ThreadIDs
<1> DEFINE q == m_TxQueue[t]
           m == Published(t, published[t] + 1)
<1>1. /\ m_TxQueue' = [m_TxQueue EXCEPT ![t] = Push(q, Size, m)]
      /\ published' = [published EXCEPT ![t] = IF HasSpace(q, Size) THEN @ + 1 ELSE @]
      /\ UNCHANGED <<m_RxQueue, handled, pending, lost, mainPc>>
  BY DEF Publish, workerVars, mainVars
<1>2. /\ m_TxQueue = [s \in ThreadIDs |-> m_TxQueue[s]] /\ published \in [ThreadIDs -> Nat]
      /\ q \in Seq(Sent(t)) /\ Len(q) \in Nat /\ published[t] \in Nat
  BY Elements DEF MessageInv
<1>3. CASE ~HasSpace(q, Size)
  <2>1. m_TxQueue' = m_TxQueue /\ published' = published
    BY <1>1, <1>2, <1>3 DEF Push
  <2> QED
    BY <1>1, <2>1, SameFlow DEF FlowInv, HandNumbered
<1>4. CASE HasSpace(q, Size)
  <2> DEFINE r == Append(q, m)
  <2>1. /\ Len(r) = Len(q) + 1 /\ r[Len(q) + 1] = m
        /\ \A i \in 1 .. Len(q) : r[i] = q[i]
    BY <1>2, AppendProperties
  <2>2. m.n = published[t] + 1
    BY DEF Published
  <2>3. /\ m_TxQueue'[t] = r /\ published'[t] = published[t] + 1
        /\ \A s \in ThreadIDs : s # t => m_TxQueue'[s] = m_TxQueue[s] /\ published'[s] = published[s]
    BY <1>1, <1>2, <1>4 DEF Push
  <2> HIDE DEF q, m, r
  <2>4. Taken(t)' = Taken(t)
    BY <1>2, <2>1, <2>3 DEF Taken, q
  <2>5. \A s \in ThreadIDs : Taken(s)' = Taken(s)
    BY <2>3, <2>4 DEF Taken
  <2>6. TxNumbered'
    <3> SUFFICES ASSUME NEW s \in ThreadIDs
                 PROVE  /\ Len(m_TxQueue'[s]) <= published'[s]
                        /\ \A i \in 1 .. Len(m_TxQueue'[s]) : m_TxQueue'[s][i].n = Taken(s)' + i
      BY DEF TxNumbered
    <3>1. CASE s # t
      BY <2>3, <2>5, <3>1 DEF FlowInv, TxNumbered
    <3>2. CASE s = t
      <4>1. Len(q) <= published[t] /\ \A i \in 1 .. Len(q) : q[i].n = Taken(t) + i
        BY DEF FlowInv, TxNumbered, q
      <4>2. Taken(t) + (Len(q) + 1) = published[t] + 1
        BY <1>2 DEF Taken, q
      <4>3. ASSUME NEW i \in 1 .. Len(r) PROVE r[i].n = Taken(t)' + i
        <5>1. i \in 1 .. Len(q) \/ i = Len(q) + 1
          BY <1>2, <2>1
        <5> QED
          BY <2>1, <2>2, <2>4, <4>1, <4>2, <5>1
      <4> QED
        BY <1>2, <2>1, <2>3, <3>2, <4>1, <4>3
    <3> QED
      BY <3>1, <3>2
  <2>7. /\ \A u \in ThreadIDs : \A i \in 1 .. Len(m_RxQueue[u]) :
               m_RxQueue[u][i].id # STOP_ALL => m_RxQueue[u][i].src \in ThreadIDs
        /\ \A k \in 1 .. Len(pending) : pending[k].msg.src \in ThreadIDs
        /\ \A d \in lost : d.msg.src \in ThreadIDs
    BY Elements, SentFields DEF Delivery, MessageInv
  <2>8. \A u \in ThreadIDs : RxNumbered(u, m_RxQueue[u])'
    BY <1>1, <2>5, <2>7 DEF FlowInv, RxNumbered
  <2>9. HandNumbered'
    <3>1. /\ mainPc' = mainPc /\ pending' = pending /\ handled' = handled /\ lost' = lost
          /\ m_RxQueue' = m_RxQueue /\ \A x, y : Subscribed(x, y)' = Subscribed(x, y)
      BY <1>1 DEF Subscribed
    <3>2. \A k \in 1 .. Len(pending) :
              LET x == pending[k].msg.src
              IN  published'[x] - Len(m_TxQueue'[x]) = published[x] - Len(m_TxQueue[x])
      BY <2>5, <2>7 DEF Taken
    <3>3. HandNumbered
      BY DEF FlowInv
    <3>4. \A k \in 1 .. Len(pending) :
              LET x == pending[k].msg.src
              IN  pending[k].msg.n = published'[x] - Len(m_TxQueue'[x])
      BY <3>2, <3>3 DEF HandNumbered, Taken
    <3> SUFFICES /\ mainPc # "forward" => pending = <<>>
                 /\ \A k \in 1 .. Len(pending) :
                        LET d == pending[k]
                        IN  /\ Subscribed(d.to, d.msg.src)
                            /\ handled[d.to][d.msg.src] < d.msg.n
                            /\ d.msg.n = published'[d.msg.src] - Len(m_TxQueue'[d.msg.src])
                            /\ d \notin lost
                            /\ \A i \in 1 .. Len(m_RxQueue[d.to]) :
                                   m_RxQueue[d.to][i].id # STOP_ALL
                                       /\ m_RxQueue[d.to][i].src = d.msg.src
                                       => m_RxQueue[d.to][i].n < d.msg.n
                            /\ \A l \in 1 .. Len(pending) : pending[l].to = d.to => l = k
      BY <3>1 DEF HandNumbered, Taken
    <3> QED
      BY <3>3, <3>4 DEF HandNumbered
  <2>10. NothingMissing'
    <3>1. \A u, x : Located(u, x)' = Located(u, x)
      BY <1>1 DEF Located
    <3> QED
      BY <1>1, <2>5, <2>7, <3>1 DEF FlowInv, NothingMissing
  <2> QED
    BY <2>6, <2>8, <2>9, <2>10 DEF FlowInv
<1> QED
  BY <1>3, <1>4

(* STOP_ALL is no message of a sender, and it is last in its queue.          *)
LEMMA RequestStopFlow ==
    ASSUME FlowInv, MessageInv, ControlInv, RequestStop
    PROVE  FlowInv'
<1> HIDE DEF ThreadIDs, Threads
<1> DEFINE t == Threads[current]
           q == m_RxQueue[t]
           m == StopMessage(t)
           r == Append(q, m)
<1>1. /\ mainPc = "delete" /\ mainPc' = "join" /\ current <= Len(Threads)
      /\ m_RxQueue' = [m_RxQueue EXCEPT ![t] = Push(q, Size, m)]
      /\ UNCHANGED <<m_TxQueue, published, handled, pending, lost>>
  BY DEF RequestStop, workerVars
<1>2. /\ t \in ThreadIDs /\ q \in Seq(AllSent \union StopMessages) /\ Len(q) \in Nat
      /\ m_RxQueue = [s \in ThreadIDs |-> m_RxQueue[s]]
  <2>1. t \in ThreadIDs
    BY <1>1, ThreadsList DEF ControlInv
  <2> QED
    BY <2>1, Elements DEF MessageInv
<1>3. pending = <<>>
  BY <1>1 DEF FlowInv, HandNumbered
<1>4. CASE ~HasSpace(q, Size)
  <2>1. m_RxQueue' = m_RxQueue
    BY <1>1, <1>2, <1>4 DEF Push
  <2> QED
    BY <1>1, <1>3, <2>1, SameFlow
<1>5. CASE HasSpace(q, Size)
  <2>1. /\ Len(r) = Len(q) + 1 /\ r[Len(q) + 1] = m
        /\ \A i \in 1 .. Len(q) : r[i] = q[i]
    BY <1>2, AppendProperties DEF StopMessages
  <2>2. m.id = STOP_ALL
    BY DEF StopMessage
  <2>3. /\ m_RxQueue'[t] = r
        /\ \A s \in ThreadIDs : s # t => m_RxQueue'[s] = m_RxQueue[s]
    BY <1>1, <1>2, <1>5 DEF Push
  <2>4. \A s : Taken(s)' = Taken(s)
    BY <1>1 DEF Taken
  <2> HIDE DEF t, q, m, r
  <2>5. TxNumbered'
    BY <1>1, <2>4 DEF FlowInv, TxNumbered
  <2>6. HandNumbered'
    BY <1>1, <1>3 DEF HandNumbered
  <2>7. \A s \in ThreadIDs : RxNumbered(s, m_RxQueue[s])'
    <3>1. ASSUME NEW s \in ThreadIDs, s # t PROVE RxNumbered(s, m_RxQueue[s])'
      BY <1>1, <2>3, <2>4, <3>1 DEF FlowInv, RxNumbered
    <3>2. ASSUME NEW s \in ThreadIDs, s = t PROVE RxNumbered(s, m_RxQueue[s])'
      <4>1. RxNumbered(t, q)
        BY <1>2 DEF FlowInv, q
      <4>2. \A i \in 1 .. Len(r) : r[i].id # STOP_ALL => i \in 1 .. Len(q) /\ r[i] = q[i]
        BY <1>2, <2>1, <2>2
      <4>3. \A i \in 1 .. Len(r) : \A j \in i + 1 .. Len(r) :
                r[j].id # STOP_ALL => j \in i + 1 .. Len(q) /\ r[j] = q[j]
        BY <1>2, <2>1, <2>2
      <4>4. /\ lost' = lost /\ handled' = handled
            /\ \A x, y : Subscribed(x, y)' = Subscribed(x, y)
        BY <1>1 DEF Subscribed
      <4>5. ASSUME NEW i \in 1 .. Len(r), r[i].id # STOP_ALL
            PROVE  /\ Subscribed(t, r[i].src)
                   /\ handled[t][r[i].src] < r[i].n /\ r[i].n <= Taken(r[i].src)
                   /\ [msg |-> r[i], to |-> t] \notin lost
                   /\ \A j \in i + 1 .. Len(r) :
                          r[j].id # STOP_ALL /\ r[j].src = r[i].src => r[i].n < r[j].n
        <5>1. i \in 1 .. Len(q) /\ r[i] = q[i]
          BY <4>2, <4>5
        <5> QED
          BY <4>1, <4>3, <4>5, <5>1 DEF RxNumbered
      <4> QED
        BY <2>3, <2>4, <3>2, <4>4, <4>5 DEF RxNumbered
    <3> QED
      BY <3>1, <3>2
  <2>8. NothingMissing'
    <3>1. ASSUME NEW u \in ThreadIDs, NEW x, Located(u, x) PROVE Located(u, x)'
      <4>1. CASE \E i \in 1 .. Len(m_RxQueue[u]) : m_RxQueue[u][i] = x
        <5>1. \A i \in 1 .. Len(q) : i \in 1 .. Len(r)
          BY <1>2, <2>1
        <5> QED
          BY <2>1, <2>3, <4>1, <5>1 DEF Located, q
      <4> QED
        BY <1>1, <3>1, <4>1 DEF Located
    <3> QED
      BY <1>1, <2>4, <3>1 DEF FlowInv, NothingMissing
  <2> QED
    BY <2>5, <2>6, <2>7, <2>8 DEF FlowInv
<1> QED
  BY <1>4, <1>5

(* The receiver handles the oldest message of its m_RxQueue.                 *)
LEMMA HandleFlow ==
    ASSUME FlowInv, MessageInv, NEW t \in ThreadIDs, HandleMessage(t)
    PROVE  FlowInv'
<1> HIDE DEF ThreadIDs
<1> DEFINE q == m_RxQueue[t]
           m == Head(q)
           r == Tail(q)
<1>1. /\ q # <<>> /\ m_RxQueue' = [m_RxQueue EXCEPT ![t] = r]
      /\ m.id = STOP_ALL => handled' = handled
      /\ m.id # STOP_ALL => handled' = [handled EXCEPT ![t] = [@ EXCEPT ![m.src] = m.n]]
      /\ UNCHANGED <<m_TxQueue, published, pending, lost, mainPc>>
  BY DEF HandleMessage, IsEmpty, mainVars
<1>2. /\ q \in Seq(AllSent \union StopMessages) /\ Len(q) \in Nat
      /\ m_RxQueue = [s \in ThreadIDs |-> m_RxQueue[s]]
      /\ handled \in [ThreadIDs -> [ThreadIDs -> Nat]]
  BY Elements DEF MessageInv
<1>3. /\ Len(q) > 0 /\ m = q[1] /\ Len(r) = Len(q) - 1
      /\ \A i \in 1 .. Len(r) : r[i] = q[i + 1]
  BY <1>1, <1>2, HeadTailProperties, EmptySeq
<1>4. \A i \in 1 .. Len(q) : q[i].id # STOP_ALL => q[i] \in AllSent
  BY Elements
<1>5. \A x \in AllSent : /\ x.src \in ThreadIDs /\ x.n \in Nat /\ x.id # STOP_ALL
                         /\ x = Published(x.src, x.n)
  BY SentFields
<1>6. /\ m_RxQueue'[t] = r
      /\ \A s \in ThreadIDs : s # t => m_RxQueue'[s] = m_RxQueue[s]
  BY <1>1, <1>2
<1>7. RxNumbered(t, q)
  BY DEF FlowInv
<1> HIDE DEF q, m, r
<1>8. /\ \A s, u \in ThreadIDs : (u # t \/ m.id = STOP_ALL \/ s # m.src) => handled'[u][s] = handled[u][s]
      /\ m.id # STOP_ALL => handled'[t][m.src] = m.n /\ m.src \in ThreadIDs
  <2>1. CASE m.id = STOP_ALL
    BY <1>1, <2>1
  <2>2. CASE m.id # STOP_ALL
    <3>1. m.src \in ThreadIDs /\ m.n \in Nat
      BY <1>3, <1>4, <1>5, <2>2
    <3> DEFINE row == [handled[t] EXCEPT ![m.src] = m.n]
    <3>2. handled' = [handled EXCEPT ![t] = row]
      BY <1>1, <2>2
    <3>3. row[m.src] = m.n /\ \A s \in ThreadIDs : s # m.src => row[s] = handled[t][s]
      BY <1>2, <3>1
    <3> HIDE DEF row
    <3> QED
      BY <1>2, <2>2, <3>1, <3>2, <3>3
  <2> QED
    BY <2>1, <2>2
<1>9. \A s : Taken(s)' = Taken(s)
  BY <1>1 DEF Taken
<1>10. TxNumbered'
  BY <1>1, <1>9 DEF FlowInv, TxNumbered
<1>11. \A s \in ThreadIDs : RxNumbered(s, m_RxQueue[s])'
  <2>1. ASSUME NEW s \in ThreadIDs, s # t PROVE RxNumbered(s, m_RxQueue[s])'
    <3>1. \A i \in 1 .. Len(m_RxQueue[s]) :
              m_RxQueue[s][i].id # STOP_ALL => m_RxQueue[s][i].src \in ThreadIDs
      BY <1>5, Elements
    <3>2. m_RxQueue'[s] = m_RxQueue[s] /\ \A u \in ThreadIDs : handled'[s][u] = handled[s][u]
      BY <1>6, <1>8, <2>1
    <3> QED
      BY <1>1, <1>9, <3>1, <3>2 DEF FlowInv, RxNumbered
  <2>2. RxNumbered(t, m_RxQueue[t])'
    <3> SUFFICES ASSUME NEW i \in 1 .. Len(r), r[i].id # STOP_ALL
                 PROVE  /\ Subscribed(t, r[i].src)
                        /\ handled'[t][r[i].src] < r[i].n /\ r[i].n <= Taken(r[i].src)
                        /\ [msg |-> r[i], to |-> t] \notin lost
                        /\ \A j \in i + 1 .. Len(r) :
                               r[j].id # STOP_ALL /\ r[j].src = r[i].src => r[i].n < r[j].n
      BY <1>1, <1>6, <1>9 DEF RxNumbered
    <3>1. i + 1 \in 1 .. Len(q) /\ 1 \in 1 .. Len(q) /\ i + 1 \in 1 + 1 .. Len(q) /\ r[i] = q[i + 1]
      BY <1>2, <1>3
    <3>2. /\ Subscribed(t, r[i].src) /\ handled[t][r[i].src] < r[i].n
          /\ r[i].n <= Taken(r[i].src) /\ [msg |-> r[i], to |-> t] \notin lost
      BY <1>7, <3>1 DEF RxNumbered
    <3>3. handled'[t][r[i].src] < r[i].n
      <4>1. r[i].src \in ThreadIDs
        BY <1>4, <1>5, <3>1
      <4>2. CASE m.id # STOP_ALL /\ r[i].src = m.src
        <5>1. \A j \in 1 + 1 .. Len(q) :
                  q[j].id # STOP_ALL /\ q[j].src = q[1].src => q[1].n < q[j].n
          BY <1>3, <1>7, <3>1, <4>2 DEF RxNumbered
        <5>2. q[1].n < q[i + 1].n
          BY <1>3, <3>1, <4>2, <5>1
        <5> QED
          BY <1>3, <1>8, <3>1, <4>2, <5>2
      <4>3. CASE ~(m.id # STOP_ALL /\ r[i].src = m.src)
        BY <1>8, <3>2, <4>1, <4>3
      <4> QED
        BY <4>2, <4>3
    <3>4. ASSUME NEW j \in i + 1 .. Len(r), r[j].id # STOP_ALL, r[j].src = r[i].src
          PROVE  r[i].n < r[j].n
      <4>1. j \in 1 .. Len(r) /\ j >= i + 1 /\ i \in Nat /\ j \in Nat
        BY <1>2, <1>3, <3>4
      <4>2. j + 1 \in (i + 1) + 1 .. Len(q) /\ r[j] = q[j + 1]
        BY <1>2, <1>3, <4>1
      <4> QED
        BY <1>7, <3>1, <3>4, <4>2 DEF RxNumbered
    <3> QED
      BY <3>2, <3>3, <3>4
  <2> QED
    BY <2>1, <2>2
<1>12. HandNumbered'
  <2> SUFFICES ASSUME NEW k \in 1 .. Len(pending)
               PROVE LET d == pending[k]
                     IN  /\ handled'[d.to][d.msg.src] < d.msg.n
                         /\ \A i \in 1 .. Len(m_RxQueue'[d.to]) :
                                /\ m_RxQueue'[d.to][i].id # STOP_ALL
                                /\ m_RxQueue'[d.to][i].src = d.msg.src
                                => m_RxQueue'[d.to][i].n < d.msg.n
    BY <1>1, <1>9 DEF FlowInv, HandNumbered
  <2> DEFINE d == pending[k]
  <2>1. d.to \in ThreadIDs /\ d.msg \in AllSent /\ d.msg.src \in ThreadIDs
    BY <1>5, Elements DEF Delivery
  <2>2. /\ handled[d.to][d.msg.src] < d.msg.n
        /\ \A i \in 1 .. Len(m_RxQueue[d.to]) :
               m_RxQueue[d.to][i].id # STOP_ALL /\ m_RxQueue[d.to][i].src = d.msg.src
                   => m_RxQueue[d.to][i].n < d.msg.n
    BY DEF FlowInv, HandNumbered
  <2> HIDE DEF d
  <2>3. CASE d.to # t
    <3>1. m_RxQueue'[d.to] = m_RxQueue[d.to] /\ handled'[d.to][d.msg.src] = handled[d.to][d.msg.src]
      BY <1>6, <1>8, <2>1, <2>3
    <3> QED
      BY <2>2, <3>1 DEF d
  <2>4. CASE d.to = t
    <3>1. \A i \in 1 .. Len(q) : q[i].id # STOP_ALL /\ q[i].src = d.msg.src => q[i].n < d.msg.n
      BY <2>2, <2>4 DEF q
    <3>2. handled'[t][d.msg.src] < d.msg.n
      <4>1. 1 \in 1 .. Len(q)
        BY <1>2, <1>3
      <4>2. CASE m.id # STOP_ALL /\ d.msg.src = m.src
        BY <1>3, <1>8, <3>1, <4>1, <4>2
      <4>3. CASE ~(m.id # STOP_ALL /\ d.msg.src = m.src)
        BY <1>8, <2>1, <2>2, <2>4, <4>3
      <4> QED
        BY <4>2, <4>3
    <3>3. \A i \in 1 .. Len(r) : i + 1 \in 1 .. Len(q) /\ r[i] = q[i + 1]
      BY <1>2, <1>3
    <3> QED
      BY <1>6, <2>4, <3>1, <3>2, <3>3 DEF d
  <2> QED
    BY <2>3, <2>4
<1>13. NothingMissing'
  <2>1. m.id # STOP_ALL => m.n <= Taken(m.src) /\ handled[t][m.src] < m.n /\ m.n \in Nat
                           /\ m = Published(m.src, m.n)
    <3>1. 1 \in 1 .. Len(q)
      BY <1>2, <1>3
    <3> QED
      BY <1>3, <1>4, <1>5, <1>7, <3>1 DEF RxNumbered
  <2> SUFFICES ASSUME NEW s \in ThreadIDs, NEW u \in ThreadIDs
               PROVE  /\ handled'[u][s] <= Taken(s)
                      /\ Subscribed(u, s) =>
                             \A n \in handled'[u][s] + 1 .. Taken(s) : Located(u, Published(s, n))'
    BY <1>1, <1>9 DEF FlowInv, NothingMissing
  <2>2. /\ handled[u][s] <= Taken(s)
        /\ Subscribed(u, s) =>
               \A n \in handled[u][s] + 1 .. Taken(s) : Located(u, Published(s, n))
    BY DEF FlowInv, NothingMissing
  <2>3. handled'[u][s] <= Taken(s) /\ handled[u][s] <= handled'[u][s]
        /\ handled[u][s] \in Nat /\ handled'[u][s] \in Nat
    BY <1>2, <1>8, <2>1, <2>2
  <2>4. ASSUME Subscribed(u, s), NEW n \in handled'[u][s] + 1 .. Taken(s)
        PROVE  Located(u, Published(s, n))'
    <3>1. Taken(s) \in Int
      BY Elements DEF Taken
    <3>2. n \in handled[u][s] + 1 .. Taken(s)
      BY <2>3, <3>1
    <3>3. Located(u, Published(s, n))
      BY <2>2, <2>4, <3>2
    <3>4. CASE \E i \in 1 .. Len(m_RxQueue[u]) : m_RxQueue[u][i] = Published(s, n)
      <4>1. CASE u # t
        BY <1>6, <3>4, <4>1 DEF Located
      <4>2. CASE u = t
        <5>1. PICK i \in 1 .. Len(q) : q[i] = Published(s, n)
          BY <3>4, <4>2 DEF q
        <5>2. Published(s, n).src = s /\ Published(s, n).n = n /\ Published(s, n).id # STOP_ALL
          BY PublishesAssumption DEF Published
        <5>3. i # 1
          <6>1. SUFFICES ASSUME i = 1 PROVE FALSE
            OBVIOUS
          <6>2. m.id # STOP_ALL /\ m.src = s /\ m.n = n
            BY <1>3, <5>1, <5>2, <6>1
          <6> QED
            BY <1>8, <2>3, <3>1, <4>2, <6>2
        <5>4. i - 1 \in 1 .. Len(r) /\ (i - 1) + 1 = i
          BY <1>2, <1>3, <5>3, SMTT(20)
        <5>5. r[i - 1] = q[i]
          BY <1>3, <5>4
        <5> QED
          BY <1>6, <4>2, <5>1, <5>4, <5>5 DEF Located
      <4> QED
        BY <4>1, <4>2
    <3> QED
      BY <1>1, <3>3, <3>4 DEF Located
  <2> QED
    BY <2>3, <2>4
<1> QED
  BY <1>10, <1>11, <1>12, <1>13 DEF FlowInv

(* A message that was published goes to the subscribers of its id.           *)
LEMMA SentRecipients ==
    ASSUME MessageInv, NEW m \in AllSent
    PROVE  Recipients(m) = SubscribersOf(Publishes[m.src])
<1>1. m.dest = ALL_SUBSCRIBERS /\ m.id = Publishes[m.src]
  BY SentFields
<1>2. ALL_SUBSCRIBERS \notin ThreadIDs
  BY ThreadNames
<1> QED
  BY <1>1, <1>2 DEF Recipients, ALL_SUBSCRIBERS, BROADCAST

(* The main thread takes the next message of a sender in hand.               *)
LEMMA TakeFlow ==
    ASSUME FlowInv, MessageInv, ControlInv, Take
    PROVE  FlowInv'
<1> HIDE DEF ThreadIDs, Threads
<1> DEFINE t == Threads[current]
           q == m_TxQueue[t]
           m == Head(q)
           r == Tail(q)
           to == Recipients(m)
<1>1. /\ mainPc = "run" /\ current <= Len(Threads)
      /\ UNCHANGED <<m_RxQueue, published, handled, lost>>
  BY DEF Take, workerVars
<1>2. pending = <<>>
  BY <1>1 DEF FlowInv, HandNumbered
<1>5. \A x \in AllSent : x.src \in ThreadIDs /\ x.n \in Nat /\ x = Published(x.src, x.n)
  BY SentFields
<1>3. CASE q = <<>>
  <2>1. UNCHANGED <<m_TxQueue, pending>>
    BY <1>3 DEF Take, IsEmpty
  <2> QED
    BY <1>1, <1>2, <2>1, SameFlow
<1>4. CASE q # <<>>
  <2>1. /\ m_TxQueue' = [m_TxQueue EXCEPT ![t] = r] /\ mainPc' = "forward"
        /\ pending' = [i \in DOMAIN to |-> [msg |-> m, to |-> to[i]]]
    BY <1>4 DEF Take, IsEmpty
  <2>2. t \in ThreadIDs
    BY <1>1, ThreadsList DEF ControlInv
  <2>3. /\ m_TxQueue = [s \in ThreadIDs |-> m_TxQueue[s]]
        /\ q \in Seq(Sent(t)) /\ Len(q) \in Nat /\ published[t] \in Nat
        /\ \A i \in 1 .. Len(q) : q[i] \in AllSent /\ q[i].src = t
    BY <2>2, Elements DEF MessageInv
  <2>4. /\ Len(q) > 0 /\ m = q[1] /\ Len(r) = Len(q) - 1
        /\ \A i \in 1 .. Len(r) : r[i] = q[i + 1]
    BY <1>4, <2>3, HeadTailProperties, EmptySeq
  <2>5. 1 \in 1 .. Len(q)
    BY <2>3, <2>4
  <2>6. /\ Len(q) <= published[t]
        /\ \A i \in 1 .. Len(q) : q[i].n = Taken(t) + i
    BY <2>2 DEF FlowInv, TxNumbered
  <2>7. /\ m \in AllSent /\ m.src = t /\ m.n = Taken(t) + 1 /\ m = Published(t, m.n)
    BY <2>3, <2>4, <2>5, <2>6, SentFields
  <2>8. /\ to = SubscribersOf(Publishes[t])
        /\ to \in Seq(ThreadIDs) /\ Len(to) \in Nat /\ DOMAIN to = 1 .. Len(to)
        /\ \A i, j \in DOMAIN to : to[i] = to[j] => i = j
        /\ \A s \in ThreadIDs : Subscribed(s, t) <=> \E i \in DOMAIN to : to[i] = s
    <3>1. to = SubscribersOf(Publishes[t])
      BY <2>7, SentRecipients
    <3>2. /\ SubscribersOf(Publishes[t]) \in Seq(ThreadIDs)
          /\ \A i, j \in DOMAIN SubscribersOf(Publishes[t]) :
                 SubscribersOf(Publishes[t])[i] = SubscribersOf(Publishes[t])[j] => i = j
      BY <2>2, SubscribersAreThreads DEF IsInjective
    <3> HIDE DEF to
    <3> QED
      BY <3>1, <3>2, LenProperties DEF Subscribed, ToSet
  <2> HIDE DEF q, m, r, to
  <2>9. /\ m_TxQueue'[t] = r
        /\ \A s \in ThreadIDs : s # t => m_TxQueue'[s] = m_TxQueue[s]
    BY <2>1, <2>2, <2>3
  <2> DEFINE u == Threads[current]
  <2> HIDE DEF t
  <2>10. /\ Taken(t) \in Nat /\ published'[t] - Len(m_TxQueue'[t]) = Taken(t) + 1
         /\ \A s \in ThreadIDs : s # t => Taken(s)' = Taken(s)
    BY <1>1, <2>3, <2>4, <2>6, <2>9 DEF Taken, q
  <2>11. \A s \in ThreadIDs : /\ Taken(s)' = IF s = t THEN Taken(s) + 1 ELSE Taken(s)
                              /\ Taken(s) \in Nat
    <3>1. \A s \in ThreadIDs : Taken(s) \in Nat
      BY Elements DEF FlowInv, TxNumbered, Taken
    <3> QED
      BY <2>2, <2>10, <3>1 DEF Taken
  <2>12. TxNumbered'
    <3> SUFFICES ASSUME NEW s \in ThreadIDs
                 PROVE  /\ Len(m_TxQueue'[s]) <= published'[s]
                        /\ \A i \in 1 .. Len(m_TxQueue'[s]) : m_TxQueue'[s][i].n = Taken(s)' + i
      BY DEF TxNumbered
    <3>1. CASE s # t
      BY <1>1, <2>9, <2>11, <3>1 DEF FlowInv, TxNumbered
    <3>2. CASE s = t
      <4>1. ASSUME NEW i \in 1 .. Len(r) PROVE r[i].n = (Taken(t) + 1) + i
        <5>1. i + 1 \in 1 .. Len(q) /\ r[i] = q[i + 1]
          BY <2>3, <2>4
        <5> QED
          BY <2>6, <2>10, <5>1
      <4> QED
        BY <1>1, <2>3, <2>4, <2>6, <2>9, <2>11, <3>2, <4>1
    <3> QED
      BY <3>1, <3>2
  <2>13. \A s \in ThreadIDs : \A i \in 1 .. Len(m_RxQueue[s]) :
             m_RxQueue[s][i].id # STOP_ALL =>
                 /\ m_RxQueue[s][i].src \in ThreadIDs /\ m_RxQueue[s][i].n \in Nat
                 /\ m_RxQueue[s][i].n <= Taken(m_RxQueue[s][i].src)
    BY <1>5, Elements DEF FlowInv, RxNumbered
  <2>14. ASSUME NEW s \in ThreadIDs PROVE RxNumbered(s, m_RxQueue[s])'
    <3>1. \A i \in 1 .. Len(m_RxQueue[s]) :
              m_RxQueue[s][i].id # STOP_ALL => m_RxQueue[s][i].n <= Taken(m_RxQueue[s][i].src)'
      BY <1>1, <2>11, <2>13
    <3> QED
      BY <1>1, <3>1 DEF FlowInv, RxNumbered
  <2>17. Len(pending') = Len(to)
    <3>1. \A i \in 1 .. Len(to) : to[i] \in ThreadIDs
      BY <2>8, ElementOfSeq
    <3>2. pending' \in [1 .. Len(to) -> [msg : {m}, to : ThreadIDs]]
      BY <2>1, <2>8, <3>1
    <3> QED
      BY <2>8, <3>2, FunctionIsSeq
  <2>15. HandNumbered'
    <3> SUFFICES ASSUME NEW k \in 1 .. Len(pending'), NEW d, d = pending'[k]
                 PROVE  /\ Subscribed(d.to, d.msg.src)
                        /\ handled'[d.to][d.msg.src] < d.msg.n
                        /\ d.msg.n = Taken(d.msg.src)'
                        /\ d \notin lost'
                        /\ \A i \in 1 .. Len(m_RxQueue'[d.to]) :
                               /\ m_RxQueue'[d.to][i].id # STOP_ALL
                               /\ m_RxQueue'[d.to][i].src = d.msg.src
                               => m_RxQueue'[d.to][i].n < d.msg.n
                        /\ \A l \in 1 .. Len(pending') : pending'[l].to = d.to => l = k
      BY <2>1 DEF HandNumbered
    <3>1. k \in 1 .. Len(to)
      BY <2>17
    <3>2. d = [msg |-> m, to |-> to[k]] /\ d.msg = m /\ d.to = to[k] /\ to[k] \in ThreadIDs
      BY <2>1, <2>8, <3>1, ElementOfSeq
    <3>3. Subscribed(to[k], t)
      BY <2>8, <3>1, <3>2
    <3>4. handled'[to[k]][t] < m.n /\ d.msg.n = Taken(d.msg.src)'
      <4>1. handled[to[k]][t] <= Taken(t) /\ handled[to[k]][t] \in Nat
        BY <2>2, <3>2, Elements DEF FlowInv, NothingMissing
      <4> QED
        BY <1>1, <2>2, <2>7, <2>11, <3>2, <4>1
    <3>5. d \notin lost
      BY <2>7, <2>10, <3>2 DEF FlowInv, NothingMissing
    <3>6. \A i \in 1 .. Len(m_RxQueue[to[k]]) :
              m_RxQueue[to[k]][i].id # STOP_ALL /\ m_RxQueue[to[k]][i].src = t
                  => m_RxQueue[to[k]][i].n < m.n
      <4>1. m.n = Taken(t) + 1 /\ Taken(t) \in Nat
        BY <2>7, <2>10
      <4> SUFFICES ASSUME NEW i \in 1 .. Len(m_RxQueue[to[k]]),
                          m_RxQueue[to[k]][i].id # STOP_ALL, m_RxQueue[to[k]][i].src = t
                   PROVE  m_RxQueue[to[k]][i].n < m.n
        OBVIOUS
      <4>2. m_RxQueue[to[k]][i].n \in Nat /\ m_RxQueue[to[k]][i].n <= Taken(t)
        BY <2>13, <3>2
      <4> QED
        BY <4>1, <4>2
    <3>7. \A l \in 1 .. Len(to) : pending'[l].to = to[k] => l = k
      BY <2>1, <2>8, <3>1
    <3> QED
      BY <1>1, <2>7, <2>17, <3>2, <3>3, <3>4, <3>5, <3>6, <3>7
  <2>16. NothingMissing'
    <3>1. \A x \in lost : x.msg.src \in ThreadIDs /\ x.msg.n \in Nat
      BY <1>5 DEF MessageInv, Delivery
    <3>2. \A x \in lost' : x.msg.n <= Taken(x.msg.src)'
      BY <1>1, <2>11, <3>1 DEF FlowInv, NothingMissing
    <3>3. ASSUME NEW s \in ThreadIDs, NEW v \in ThreadIDs
          PROVE  /\ handled'[v][s] <= Taken(s)'
                 /\ Subscribed(v, s) =>
                        \A n \in handled'[v][s] + 1 .. Taken(s)' : Located(v, Published(s, n))'
      <4>1. handled[v][s] <= Taken(s) /\ handled[v][s] \in Nat
        BY Elements DEF FlowInv, NothingMissing
      <4>2. ASSUME Subscribed(v, s), NEW n \in handled[v][s] + 1 .. Taken(s)
            PROVE  Located(v, Published(s, n))'
        <5>1. Located(v, Published(s, n))
          BY <4>2 DEF FlowInv, NothingMissing
        <5> QED
          BY <1>1, <1>2, <5>1 DEF Located
      <4>3. ASSUME Subscribed(v, t), NEW n, s = t, n = Taken(t) + 1
            PROVE  Located(v, Published(s, n))'
        <5>1. PICK i \in DOMAIN to : to[i] = v
          BY <2>8, <4>3
        <5>2. pending'[i] = [msg |-> Published(s, n), to |-> v]
          BY <2>1, <2>7, <4>3, <5>1
        <5>3. i \in 1 .. Len(pending')
          BY <2>8, <2>17, <5>1
        <5>4. \E k \in 1 .. Len(pending') :
                  pending'[k] = [msg |-> Published(s, n), to |-> v]
          BY <5>2, <5>3
        <5> QED
          BY <5>4 DEF Located
      <4> QED
        BY <1>1, <2>11, <4>1, <4>2, <4>3
    <3> QED
      BY <3>2, <3>3 DEF NothingMissing
  <2> QED
    BY <2>12, <2>14, <2>15, <2>16 DEF FlowInv
<1> QED
  BY <1>3, <1>4

(* The main thread delivers what it has in hand to the next receiver.        *)
LEMMA ForwardFlow ==
    ASSUME FlowInv, MessageInv, Forward
    PROVE  FlowInv'
<1> HIDE DEF ThreadIDs, Threads
<1> DEFINE e == Head(pending)
           q == m_RxQueue[e.to]
           r == Append(q, e.msg)
           rest == Tail(pending)
<1>1. /\ mainPc = "forward" /\ pending # <<>> /\ pending' = rest
      /\ m_RxQueue' = [m_RxQueue EXCEPT ![e.to] = Push(q, Size, e.msg)]
      /\ lost' = IF HasSpace(q, Size) THEN lost ELSE lost \union {e}
      /\ UNCHANGED <<m_TxQueue, published, handled, mainPc>>
  BY DEF Forward, workerVars
<1>2. \A x \in AllSent : /\ x.src \in ThreadIDs /\ x.n \in Nat /\ x.id # STOP_ALL
                         /\ x = Published(x.src, x.n)
  BY SentFields
<1>3. /\ Len(pending) \in Nat /\ Len(pending) > 0 /\ 1 \in 1 .. Len(pending)
      /\ e = pending[1] /\ Len(rest) = Len(pending) - 1
      /\ \A k \in 1 .. Len(rest) : rest[k] = pending[k + 1]
  <2>1. pending \in Seq(Delivery) /\ Len(pending) \in Nat
    BY Elements DEF MessageInv
  <2> QED
    BY <1>1, <2>1, HeadTailProperties, EmptySeq
<1>4. /\ e \in Delivery /\ e.to \in ThreadIDs /\ e.msg \in AllSent
      /\ e = [msg |-> e.msg, to |-> e.to]
  <2>1. e \in Delivery
    BY <1>3, Elements
  <2> QED
    BY <2>1 DEF Delivery
<1>5. /\ q \in Seq(AllSent \union StopMessages) /\ Len(q) \in Nat
      /\ m_RxQueue = [s \in ThreadIDs |-> m_RxQueue[s]]
  BY <1>4, Elements DEF MessageInv
<1>6. /\ Len(r) = Len(q) + 1 /\ r[Len(q) + 1] = e.msg
      /\ \A i \in 1 .. Len(q) : r[i] = q[i]
  <2>1. e.msg \in AllSent \union StopMessages
    BY <1>4
  <2> QED
    BY <1>5, <2>1, AppendProperties
<1>7. /\ m_RxQueue'[e.to] = IF HasSpace(q, Size) THEN r ELSE q
      /\ \A s \in ThreadIDs : s # e.to => m_RxQueue'[s] = m_RxQueue[s]
  BY <1>1, <1>4, <1>5 DEF Push
<1>8. /\ Subscribed(e.to, e.msg.src)
      /\ handled[e.to][e.msg.src] < e.msg.n
      /\ e.msg.n = Taken(e.msg.src)
      /\ e \notin lost
      /\ \A i \in 1 .. Len(q) : q[i].id # STOP_ALL /\ q[i].src = e.msg.src => q[i].n < e.msg.n
      /\ \A l \in 1 .. Len(pending) : pending[l].to = e.to => l = 1
  BY <1>3 DEF FlowInv, HandNumbered
<1> HIDE DEF e, q, r, rest
<1>9. \A s : Taken(s)' = Taken(s)
  BY <1>1 DEF Taken
<1>10. TxNumbered'
  BY <1>1, <1>9 DEF FlowInv, TxNumbered
<1>11. \A s \in ThreadIDs : RxNumbered(s, m_RxQueue[s])'
  <2>1. ASSUME NEW s \in ThreadIDs, NEW i \in 1 .. Len(m_RxQueue[s]),
               m_RxQueue[s][i].id # STOP_ALL
        PROVE  /\ Subscribed(s, m_RxQueue[s][i].src)
               /\ handled[s][m_RxQueue[s][i].src] < m_RxQueue[s][i].n
               /\ m_RxQueue[s][i].n <= Taken(m_RxQueue[s][i].src)
               /\ [msg |-> m_RxQueue[s][i], to |-> s] \notin lost
               /\ \A j \in i + 1 .. Len(m_RxQueue[s]) :
                      m_RxQueue[s][j].id # STOP_ALL /\ m_RxQueue[s][j].src = m_RxQueue[s][i].src
                          => m_RxQueue[s][i].n < m_RxQueue[s][j].n
    BY <2>1 DEF FlowInv, RxNumbered
  <2>2. ASSUME NEW s \in ThreadIDs, NEW i \in 1 .. Len(m_RxQueue[s]),
               m_RxQueue[s][i].id # STOP_ALL
        PROVE  [msg |-> m_RxQueue[s][i], to |-> s] \notin lost'
    <3>1. [msg |-> m_RxQueue[s][i], to |-> s] # e
      <4> SUFFICES ASSUME [msg |-> m_RxQueue[s][i], to |-> s] = e PROVE FALSE
        OBVIOUS
      <4>1. e.msg = m_RxQueue[s][i] /\ e.to = s
        OBVIOUS
      <4>2. q[i] = e.msg /\ i \in 1 .. Len(q)
        BY <4>1 DEF q
      <4>3. e.msg.n < e.msg.n /\ e.msg.n \in Nat
        BY <1>2, <1>4, <1>8, <2>2, <4>1, <4>2
      <4> QED
        BY <4>3
    <3> QED
      BY <1>1, <2>1, <2>2, <3>1
  <2> SUFFICES ASSUME NEW s \in ThreadIDs, NEW i \in 1 .. Len(m_RxQueue'[s]),
                      m_RxQueue'[s][i].id # STOP_ALL
               PROVE  LET x == m_RxQueue'[s][i]
                      IN  /\ Subscribed(s, x.src)
                          /\ handled[s][x.src] < x.n
                          /\ x.n <= Taken(x.src)
                          /\ [msg |-> x, to |-> s] \notin lost'
                          /\ \A j \in i + 1 .. Len(m_RxQueue'[s]) :
                                 m_RxQueue'[s][j].id # STOP_ALL /\ m_RxQueue'[s][j].src = x.src
                                     => x.n < m_RxQueue'[s][j].n
    BY <1>1, <1>9 DEF RxNumbered
  <2>3. CASE s # e.to \/ ~HasSpace(q, Size)
    <3>1. m_RxQueue'[s] = m_RxQueue[s]
      BY <1>7, <2>3 DEF q
    <3> QED
      BY <2>1, <2>2, <3>1
  <2>4. CASE s = e.to /\ HasSpace(q, Size) /\ i \in 1 .. Len(q)
    <3>1. m_RxQueue'[s] = r /\ m_RxQueue'[s][i] = q[i] /\ q = m_RxQueue[s]
      BY <1>6, <1>7, <2>4 DEF q
    <3>2. ASSUME NEW j \in i + 1 .. Len(r), r[j].id # STOP_ALL, r[j].src = q[i].src
          PROVE  q[i].n < r[j].n
      <4>1. CASE j \in i + 1 .. Len(q)
        <5>1. r[j] = q[j]
          BY <1>6, <2>4, <4>1
        <5>2. /\ i \in 1 .. Len(m_RxQueue[s]) /\ m_RxQueue[s][i].id # STOP_ALL
              /\ j \in i + 1 .. Len(m_RxQueue[s]) /\ m_RxQueue[s][j].id # STOP_ALL
              /\ m_RxQueue[s][j].src = m_RxQueue[s][i].src
          BY <2>4, <3>1, <3>2, <4>1, <5>1
        <5>3. m_RxQueue[s][i].n < m_RxQueue[s][j].n
          BY <2>1, <5>2
        <5> QED
          BY <3>1, <5>1, <5>3
      <4>2. CASE j = Len(q) + 1
        <5>1. r[j] = e.msg
          BY <1>6, <4>2
        <5> QED
          BY <1>8, <2>4, <3>1, <3>2, <5>1
      <4> QED
        BY <1>5, <1>6, <2>4, <4>1, <4>2
    <3> QED
      BY <2>1, <2>2, <2>4, <3>1, <3>2
  <2>5. CASE s = e.to /\ HasSpace(q, Size) /\ i = Len(q) + 1
    <3>1. m_RxQueue'[s] = r /\ m_RxQueue'[s][i] = e.msg /\ lost' = lost
      BY <1>1, <1>6, <1>7, <2>5
    <3>2. \A j \in i + 1 .. Len(r) : FALSE
      BY <1>5, <1>6, <2>5
    <3>3. e.msg.n <= Taken(e.msg.src)
      BY <1>2, <1>4, <1>8
    <3> QED
      BY <1>4, <1>8, <2>5, <3>1, <3>2, <3>3
  <2> QED
    BY <1>5, <1>6, <1>7, <2>3, <2>4, <2>5
<1>12. HandNumbered'
  <2> SUFFICES ASSUME NEW k \in 1 .. Len(rest), NEW d, d = rest[k]
               PROVE  /\ Subscribed(d.to, d.msg.src)
                      /\ handled[d.to][d.msg.src] < d.msg.n
                      /\ d.msg.n = Taken(d.msg.src)
                      /\ d \notin lost'
                      /\ \A i \in 1 .. Len(m_RxQueue'[d.to]) :
                             /\ m_RxQueue'[d.to][i].id # STOP_ALL
                             /\ m_RxQueue'[d.to][i].src = d.msg.src
                             => m_RxQueue'[d.to][i].n < d.msg.n
                      /\ \A l \in 1 .. Len(rest) : rest[l].to = d.to => l = k
    BY <1>1, <1>9 DEF HandNumbered
  <2>1. k + 1 \in 1 .. Len(pending) /\ d = pending[k + 1] /\ k + 1 # 1
    BY <1>3
  <2>2. /\ Subscribed(d.to, d.msg.src)
        /\ handled[d.to][d.msg.src] < d.msg.n
        /\ d.msg.n = Taken(d.msg.src)
        /\ d \notin lost
        /\ \A i \in 1 .. Len(m_RxQueue[d.to]) :
               m_RxQueue[d.to][i].id # STOP_ALL /\ m_RxQueue[d.to][i].src = d.msg.src
                   => m_RxQueue[d.to][i].n < d.msg.n
        /\ \A l \in 1 .. Len(pending) : pending[l].to = d.to => l = k + 1
    BY <2>1 DEF FlowInv, HandNumbered
  <2>3. d.to # e.to /\ d.to \in ThreadIDs
    BY <1>3, <1>8, <2>1, Elements DEF Delivery
  <2>4. d \notin lost' /\ m_RxQueue'[d.to] = m_RxQueue[d.to]
    BY <1>1, <1>7, <2>2, <2>3
  <2>5. ASSUME NEW l \in 1 .. Len(rest), rest[l].to = d.to PROVE l = k
    <3>1. l + 1 \in 1 .. Len(pending) /\ pending[l + 1].to = d.to
      BY <1>3, <2>5
    <3>2. l + 1 = k + 1
      BY <2>2, <3>1
    <3> QED
      BY <1>3, <3>2
  <2> QED
    BY <2>2, <2>4, <2>5
<1>13. NothingMissing'
  <2>1. \A d \in lost' : d.msg.n <= Taken(d.msg.src)
    BY <1>1, <1>2, <1>4, <1>8 DEF FlowInv, NothingMissing
  <2>2. ASSUME NEW t \in ThreadIDs, NEW m, Located(t, m) PROVE Located(t, m)'
    <3>1. CASE [msg |-> m, to |-> t] \in lost
      BY <1>1, <3>1 DEF Located
    <3>2. CASE \E i \in 1 .. Len(m_RxQueue[t]) : m_RxQueue[t][i] = m
      <4>1. PICK i \in 1 .. Len(m_RxQueue[t]) : m_RxQueue[t][i] = m
        BY <3>2
      <4>2. i \in 1 .. Len(m_RxQueue'[t]) /\ m_RxQueue'[t][i] = m
        <5>1. CASE t # e.to \/ ~HasSpace(q, Size)
          BY <1>7, <4>1, <5>1 DEF q
        <5>2. CASE t = e.to /\ HasSpace(q, Size)
          BY <1>5, <1>6, <1>7, <4>1, <5>2 DEF q
        <5> QED
          BY <5>1, <5>2
      <4> QED
        BY <4>2 DEF Located
    <3>3. CASE \E k \in 1 .. Len(pending) : pending[k] = [msg |-> m, to |-> t]
      <4>1. PICK k \in 1 .. Len(pending) : pending[k] = [msg |-> m, to |-> t]
        BY <3>3
      <4>2. CASE k = 1
        <5>1. e = [msg |-> m, to |-> t] /\ e.to = t /\ e.msg = m
          BY <1>3, <4>1, <4>2
        <5>2. CASE HasSpace(q, Size)
          <6>1. m_RxQueue'[t] = r /\ r[Len(q) + 1] = m /\ Len(q) + 1 \in 1 .. Len(r)
            BY <1>5, <1>6, <1>7, <5>1, <5>2
          <6> QED
            BY <6>1 DEF Located
        <5>3. CASE ~HasSpace(q, Size)
          BY <1>1, <5>1, <5>3 DEF Located
        <5> QED
          BY <5>2, <5>3
      <4>3. CASE k # 1
        <5>1. k - 1 \in 1 .. Len(rest) /\ (k - 1) + 1 = k
          BY <1>3, <4>3
        <5>2. rest[k - 1] = [msg |-> m, to |-> t]
          BY <1>3, <4>1, <5>1
        <5> QED
          BY <1>1, <5>1, <5>2 DEF Located
      <4> QED
        BY <4>2, <4>3
    <3> QED
      BY <2>2, <3>1, <3>2, <3>3 DEF Located
  <2> QED
    BY <1>1, <1>9, <2>1, <2>2 DEF FlowInv, NothingMissing
<1> QED
  BY <1>10, <1>11, <1>12, <1>13 DEF FlowInv

(* Every step keeps the messages numbered, in order and complete.            *)
LEMMA NextFlow == FlowInv /\ MessageInv /\ ControlInv /\ [Next]_vars => FlowInv'
<1> SUFFICES ASSUME FlowInv, MessageInv, ControlInv, [Next]_vars PROVE FlowInv'
  OBVIOUS
<1> HIDE DEF ThreadIDs, Threads
<1>1. mainPc # "forward" => pending = <<>>
  BY DEF FlowInv, HandNumbered
<1>2. ASSUME NEW t \in ThreadIDs, RunThread(t) PROVE FlowInv'
  <2>1. CASE LoopTest(t) \/ HandleEnd(t) \/ RunEnd(t)
    BY <1>1, <2>1, SameFlow DEF LoopTest, HandleEnd, RunEnd, mainVars
  <2> QED
    BY <1>2, <2>1, HandleFlow DEF RunThread
<1>3. CASE Main
  <2>1. CASE MainLoop \/ Join \/ Stop \/ CheckStatus \/ ClearFlag \/ ClearStatus
              \/ RequestRun \/ ConstructEnd
    BY <1>1, <2>1, SameFlow DEF MainLoop, Join, Stop, CheckStatus, ClearFlag, ClearStatus,
                               RequestRun, ConstructEnd, workerVars
  <2>2. CASE ForwardEnd
    BY <2>2, SameFlow DEF ForwardEnd, workerVars
  <2>3. CASE Construct
    BY <2>3, NewFlow DEF Construct
  <2> QED
    BY <1>3, <2>1, <2>2, <2>3, TakeFlow, ForwardFlow, RequestStopFlow DEF Main
<1>4. ASSUME NEW sig \in Signals, Signal(sig) \/ SignalFlag(sig) PROVE FlowInv'
  BY <1>1, <1>4, SameFlow DEF Signal, SignalFlag, workerVars, mainVars
<1>5. CASE UNCHANGED vars
  BY <1>1, <1>5, SameFlow DEF vars, workerVars, mainVars
<1> QED
  BY <1>2, <1>3, <1>4, <1>5, PublishFlow DEF Next

LEMMA FlowInvariance == Spec => []FlowInv
  BY InitFlow, NextFlow, MessageInvariance, ControlInvariance, PTL DEF Spec

(* What stands where on the way from src to dst: first dst's m_RxQueue, then *)
(* what the main thread has in hand, then src's m_TxQueue.                   *)
LEMMA WayParts ==
    ASSUME MessageInv, NEW src \in ThreadIDs, NEW dst \in ThreadIDs
    PROVE  LET way == OnTheWay(src, dst)
               a == Len(m_RxQueue[dst])
               b == Len(pending)
               c == Len(m_TxQueue[src])
           IN  /\ DOMAIN way = 1 .. a + b + c
               /\ \A i \in 1 .. a : way[i] = [msg |-> m_RxQueue[dst][i], to |-> dst]
               /\ \A k \in 1 .. b : way[a + k] = pending[k]
               /\ \A k \in 1 .. c :
                      way[a + b + k] = [msg |-> m_TxQueue[src][k],
                                        to |-> IF Subscribed(dst, src) THEN dst ELSE Null]
<1> HIDE DEF ThreadIDs, Threads
<1> DEFINE rx == m_RxQueue[dst]
           tx == m_TxQueue[src]
           All == [msg : AllSent \union StopMessages, to : ThreadIDs \union {Null}]
           from == [i \in DOMAIN rx |-> [msg |-> rx[i], to |-> dst]]
           to == [i \in DOMAIN tx |->
                     [msg |-> tx[i], to |-> IF Subscribed(dst, src) THEN dst ELSE Null]]
<1>1. /\ rx \in Seq(AllSent \union StopMessages) /\ Len(rx) \in Nat /\ DOMAIN rx = 1 .. Len(rx)
      /\ Len(tx) \in Nat /\ DOMAIN tx = 1 .. Len(tx) /\ Len(pending) \in Nat
      /\ \A i \in 1 .. Len(tx) : tx[i] \in AllSent /\ tx[i].src = src
  BY Elements, LenProperties DEF MessageInv
<1>2. OnTheWay(src, dst) = from \o pending \o to
  <2>1. ASSUME NEW i \in DOMAIN tx
        PROVE  dst \in ToSet(Recipients(tx[i])) <=> Subscribed(dst, src)
    BY <1>1, SentRecipients DEF Subscribed
  <2> QED
    BY <2>1 DEF OnTheWay
<1>3. pending \in Seq(All)
  <2>1. pending \in Seq(Delivery) /\ Delivery \subseteq All
    BY DEF MessageInv, Delivery
  <2> HIDE DEF All
  <2> QED
    BY <2>1, SeqMonotone
<1>4. from \in Seq(All) /\ Len(from) = Len(rx)
  <2>1. \A i \in 1 .. Len(rx) : rx[i] \in AllSent \union StopMessages
    BY <1>1, ElementOfSeq
  <2>2. from \in [1 .. Len(rx) -> All]
    BY <1>1, <2>1
  <2> HIDE DEF All, from, rx
  <2> QED
    BY <1>1, <2>2, FunctionIsSeq
<1>5. to \in Seq(All) /\ Len(to) = Len(tx)
  <2>1. to \in [1 .. Len(tx) -> All]
    BY <1>1
  <2> HIDE DEF All, to, tx
  <2> QED
    BY <1>1, <2>1, FunctionIsSeq
<1>6. /\ \A i \in 1 .. Len(rx) : from[i] = [msg |-> rx[i], to |-> dst]
      /\ \A i \in 1 .. Len(tx) :
             to[i] = [msg |-> tx[i], to |-> IF Subscribed(dst, src) THEN dst ELSE Null]
  BY <1>1
<1> DEFINE way == from \o pending \o to
<1> HIDE DEF All, from, to, rx, tx
<1>way. way = from \o pending \o to
  OBVIOUS
<1> HIDE DEF way
<1>7. /\ way \in Seq(All) /\ Len(way) = Len(rx) + Len(pending) + Len(tx)
      /\ \A i \in 1 .. Len(rx) + Len(pending) + Len(tx) :
             way[i] = IF i <= Len(rx) THEN from[i]
                      ELSE IF i <= Len(rx) + Len(pending) THEN pending[i - Len(rx)]
                      ELSE to[i - Len(rx) - Len(pending)]
  <2>1. way \in Seq(All) /\ InARow(way, from, pending, to)
    BY <1>3, <1>4, <1>5, <1>way, ConcatInARow
  <2> QED
    BY <1>4, <1>5, <2>1 DEF InARow
<1>8. DOMAIN way = 1 .. Len(rx) + Len(pending) + Len(tx)
  BY <1>7, LenProperties
<1>9. ASSUME NEW i \in 1 .. Len(rx) PROVE way[i] = [msg |-> rx[i], to |-> dst]
  BY <1>1, <1>6, <1>7
<1>10. ASSUME NEW k \in 1 .. Len(pending) PROVE way[Len(rx) + k] = pending[k]
  <2>1. /\ Len(rx) + k \in 1 .. Len(rx) + Len(pending) + Len(tx)
        /\ ~(Len(rx) + k <= Len(rx)) /\ Len(rx) + k <= Len(rx) + Len(pending)
        /\ (Len(rx) + k) - Len(rx) = k
    BY <1>1
  <2> QED
    BY <1>7, <2>1
<1>11. ASSUME NEW k \in 1 .. Len(tx)
       PROVE  way[Len(rx) + Len(pending) + k]
                  = [msg |-> tx[k], to |-> IF Subscribed(dst, src) THEN dst ELSE Null]
  <2>1. /\ Len(rx) + Len(pending) + k \in 1 .. Len(rx) + Len(pending) + Len(tx)
        /\ ~(Len(rx) + Len(pending) + k <= Len(rx))
        /\ ~(Len(rx) + Len(pending) + k <= Len(rx) + Len(pending))
        /\ (Len(rx) + Len(pending) + k) - Len(rx) - Len(pending) = k
    BY <1>1
  <2> QED
    BY <1>6, <1>7, <2>1
<1> QED
  BY <1>2, <1>8, <1>9, <1>10, <1>11 DEF way, rx, tx

(* FlowInv says where every message is, so it says what is on the way.       *)
LEMMA FlowInOrder == FlowInv /\ MessageInv => InOrderExactlyOnce
<1> HIDE DEF ThreadIDs, Threads
<1> SUFFICES ASSUME FlowInv, MessageInv, NEW src \in ThreadIDs, NEW dst \in ThreadIDs
             PROVE  LET w == OnTheWay(src, dst)
                        P == {i \in DOMAIN w : /\ w[i].to = dst /\ w[i].msg.src = src
                                               /\ w[i].msg.id # STOP_ALL}
                    IN  /\ \A i, j \in P : i < j => w[i].msg.n < w[j].msg.n
                        /\ {w[i].msg.n : i \in P}
                               = {n \in handled[dst][src] + 1 .. published[src] :
                                    /\ Subscribed(dst, src)
                                    /\ [msg |-> Published(src, n), to |-> dst] \notin lost}
  BY DEF InOrderExactlyOnce, ExactlyOnce, Subscribed
<1> DEFINE way == OnTheWay(src, dst)
           Ours == {i \in DOMAIN way : /\ way[i].to = dst /\ way[i].msg.src = src
                                       /\ way[i].msg.id # STOP_ALL}
           rx == m_RxQueue[dst]
           tx == m_TxQueue[src]
           a == Len(rx)
           b == Len(pending)
           c == Len(tx)
<1>1. /\ DOMAIN way = 1 .. a + b + c
      /\ \A i \in 1 .. a : way[i] = [msg |-> rx[i], to |-> dst]
      /\ \A k \in 1 .. b : way[a + k] = pending[k]
      /\ \A k \in 1 .. c :
             way[a + b + k] = [msg |-> tx[k], to |-> IF Subscribed(dst, src) THEN dst ELSE Null]
  BY WayParts
<1>2. /\ a \in Nat /\ b \in Nat /\ c \in Nat /\ Taken(src) \in Nat
      /\ published[src] = Taken(src) + c /\ handled[dst][src] \in Nat
      /\ handled[dst][src] <= Taken(src)
  BY Elements DEF FlowInv, TxNumbered, NothingMissing, Taken
<1>3. \A x \in AllSent : /\ x.src \in ThreadIDs /\ x.n \in Nat /\ x.id # STOP_ALL
                         /\ x = Published(x.src, x.n)
  BY SentFields
<1>4. ASSUME NEW i \in 1 .. a, rx[i].src = src, rx[i].id # STOP_ALL
      PROVE  /\ rx[i].n \in handled[dst][src] + 1 .. Taken(src)
             /\ rx[i] = Published(src, rx[i].n) /\ Subscribed(dst, src)
             /\ [msg |-> rx[i], to |-> dst] \notin lost
             /\ \A j \in i + 1 .. a : rx[j].id # STOP_ALL /\ rx[j].src = src => rx[i].n < rx[j].n
  <2>1. rx[i] \in AllSent
    BY <1>4, Elements
  <2>2. RxNumbered(dst, rx)
    BY DEF FlowInv
  <2> HIDE DEF rx
  <2>3. /\ rx[i].n \in handled[dst][src] + 1 .. Taken(src) /\ Subscribed(dst, src)
        /\ [msg |-> rx[i], to |-> dst] \notin lost
    BY <1>2, <1>3, <1>4, <2>1, <2>2 DEF RxNumbered
  <2>4. \A j \in i + 1 .. a : rx[j].id # STOP_ALL /\ rx[j].src = src => rx[i].n < rx[j].n
    BY <1>2, <1>4, <2>2 DEF RxNumbered
  <2> QED
    BY <1>3, <1>4, <2>1, <2>3, <2>4
<1>5. ASSUME NEW k \in 1 .. b, pending[k].to = dst, pending[k].msg.src = src
      PROVE  /\ pending[k].msg.n = Taken(src) /\ handled[dst][src] < pending[k].msg.n
             /\ pending[k].msg = Published(src, pending[k].msg.n) /\ Subscribed(dst, src)
             /\ pending[k] = [msg |-> pending[k].msg, to |-> dst] /\ pending[k] \notin lost
             /\ \A i \in 1 .. a : rx[i].id # STOP_ALL /\ rx[i].src = src
                                      => rx[i].n < pending[k].msg.n
             /\ \A l \in 1 .. b : pending[l].to = dst => l = k
  <2>1. pending[k] \in Delivery
    BY Elements
  <2> QED
    BY <1>3, <1>5, <2>1 DEF FlowInv, HandNumbered, Delivery
<1>6. ASSUME NEW k \in 1 .. c
      PROVE  tx[k].n = Taken(src) + k /\ tx[k] = Published(src, tx[k].n) /\ tx[k].src = src
             /\ tx[k].id # STOP_ALL
  <2>1. tx[k] \in AllSent /\ tx[k].src = src
    BY Elements
  <2> QED
    BY <1>3, <2>1 DEF FlowInv, TxNumbered
<1>7. Null # dst
  BY ThreadNames
<1>8. \A n : [msg |-> Published(src, n), to |-> dst] \in lost => n <= Taken(src)
  <2>1. \A n : Published(src, n).n = n /\ Published(src, n).src = src
    BY DEF Published
  <2> QED
    BY <2>1 DEF FlowInv, NothingMissing
<1>13. \A i : i \in Ours <=> /\ i \in 1 .. a + b + c /\ way[i].to = dst
                             /\ way[i].msg.src = src /\ way[i].msg.id # STOP_ALL
  BY <1>1
<1> HIDE DEF rx, tx, a, b, c, way, Ours
<1>9. ASSUME NEW i \in Ours
      PROVE  \/ i \in 1 .. a /\ rx[i].src = src /\ rx[i].id # STOP_ALL /\ way[i].msg = rx[i]
             \/ \E k \in 1 .. b : i = a + k /\ pending[k].to = dst /\ pending[k].msg.src = src
                                  /\ way[i].msg = pending[k].msg
             \/ \E k \in 1 .. c : i = a + b + k /\ Subscribed(dst, src) /\ way[i].msg = tx[k]
  <2>1. i \in 1 .. a + b + c /\ way[i].to = dst /\ way[i].msg.src = src /\ way[i].msg.id # STOP_ALL
    BY <1>13
  <2>2. CASE i \in 1 .. a
    <3>1. way[i] = [msg |-> rx[i], to |-> dst]
      BY <1>1, <2>2
    <3>2. way[i].msg = rx[i]
      BY <3>1
    <3> QED
      BY <2>1, <2>2, <3>2
  <2>3. CASE i > a /\ i <= a + b
    <3>1. i - a \in 1 .. b /\ i = a + (i - a)
      BY <1>2, <2>1, <2>3
    <3>2. PICK k \in 1 .. b : i = a + k
      BY <3>1
    <3>3. way[i] = pending[k]
      BY <1>1, <3>2
    <3> QED
      BY <2>1, <3>2, <3>3
  <2>4. CASE i > a + b
    <3>1. i - a - b \in 1 .. c /\ i = a + b + (i - a - b)
      BY <1>2, <2>1, <2>4
    <3>2. PICK k \in 1 .. c : i = a + b + k
      BY <3>1
    <3>3. way[i] = [msg |-> tx[k], to |-> IF Subscribed(dst, src) THEN dst ELSE Null]
      BY <1>1, <3>2
    <3> QED
      BY <1>7, <2>1, <3>2, <3>3
  <2> QED
    BY <1>2, <2>1, <2>2, <2>3, <2>4
<1>10. ASSUME NEW i \in Ours, NEW j \in Ours, i < j PROVE way[i].msg.n < way[j].msg.n
  <2>1. CASE i \in 1 .. a /\ rx[i].src = src /\ rx[i].id # STOP_ALL /\ way[i].msg = rx[i]
    <3>1. CASE j \in 1 .. a /\ rx[j].src = src /\ rx[j].id # STOP_ALL /\ way[j].msg = rx[j]
      <4>1. j \in i + 1 .. a
        BY <1>2, <1>10, <2>1, <3>1
      <4> QED
        BY <1>4, <2>1, <3>1, <4>1
    <3>2. ASSUME NEW k \in 1 .. b, j = a + k, pending[k].to = dst, pending[k].msg.src = src,
                 way[j].msg = pending[k].msg
          PROVE  way[i].msg.n < way[j].msg.n
      BY <1>5, <2>1, <3>2
    <3>3. ASSUME NEW k \in 1 .. c, way[j].msg = tx[k]
          PROVE  way[i].msg.n < way[j].msg.n
      <4>1. rx[i].n \in handled[dst][src] + 1 .. Taken(src)
        BY <1>4, <2>1
      <4>2. tx[k].n = Taken(src) + k
        BY <1>6
      <4> QED
        BY <1>2, <2>1, <3>3, <4>1, <4>2
    <3> QED
      BY <1>9, <3>1, <3>2, <3>3
  <2>2. ASSUME NEW k \in 1 .. b, i = a + k, pending[k].to = dst, pending[k].msg.src = src,
               way[i].msg = pending[k].msg
        PROVE  way[i].msg.n < way[j].msg.n
    <3>1. ~(j \in 1 .. a)
      BY <1>2, <1>10, <2>2
    <3>2. ASSUME NEW l \in 1 .. b, j = a + l, pending[l].to = dst PROVE FALSE
      <4>1. l = k
        BY <1>5, <2>2, <3>2
      <4> QED
        BY <1>2, <1>10, <2>2, <3>2, <4>1
    <3>3. ASSUME NEW l \in 1 .. c, way[j].msg = tx[l]
          PROVE  way[i].msg.n < way[j].msg.n
      <4>1. pending[k].msg.n = Taken(src) /\ tx[l].n = Taken(src) + l
        BY <1>5, <1>6, <2>2
      <4> QED
        BY <1>2, <2>2, <3>3, <4>1
    <3> QED
      BY <1>9, <3>1, <3>2, <3>3
  <2>3. ASSUME NEW k \in 1 .. c, i = a + b + k, way[i].msg = tx[k]
        PROVE  way[i].msg.n < way[j].msg.n
    <3>1. ~(j \in 1 .. a) /\ \A l \in 1 .. b : j # a + l
      BY <1>2, <1>10, <2>3
    <3>2. ASSUME NEW l \in 1 .. c, j = a + b + l, way[j].msg = tx[l]
          PROVE  way[i].msg.n < way[j].msg.n
      BY <1>2, <1>6, <1>10, <2>3, <3>2
    <3> QED
      BY <1>9, <3>1, <3>2
  <2> QED
    BY <1>9, <2>1, <2>2, <2>3
<1>11. ASSUME NEW i \in Ours
       PROVE  LET n == way[i].msg.n
              IN  /\ n \in handled[dst][src] + 1 .. published[src] /\ Subscribed(dst, src)
                  /\ [msg |-> Published(src, n), to |-> dst] \notin lost
  <2>1. CASE i \in 1 .. a /\ rx[i].src = src /\ rx[i].id # STOP_ALL /\ way[i].msg = rx[i]
    <3>1. /\ rx[i].n \in handled[dst][src] + 1 .. Taken(src)
          /\ rx[i] = Published(src, rx[i].n) /\ Subscribed(dst, src)
          /\ [msg |-> rx[i], to |-> dst] \notin lost
      BY <1>4, <2>1
    <3> QED
      BY <1>2, <2>1, <3>1
  <2>2. ASSUME NEW k \in 1 .. b, pending[k].to = dst, pending[k].msg.src = src,
               way[i].msg = pending[k].msg
        PROVE  <1>11!2
    <3>1. /\ pending[k].msg.n = Taken(src) /\ handled[dst][src] < pending[k].msg.n
          /\ pending[k].msg = Published(src, pending[k].msg.n) /\ Subscribed(dst, src)
          /\ [msg |-> pending[k].msg, to |-> dst] \notin lost
      BY <1>5, <2>2
    <3> QED
      BY <1>2, <2>2, <3>1
  <2>3. ASSUME NEW k \in 1 .. c, Subscribed(dst, src), way[i].msg = tx[k]
        PROVE  <1>11!2
    <3>1. tx[k].n = Taken(src) + k
      BY <1>6
    <3>2. ~(tx[k].n <= Taken(src)) /\ tx[k].n \in handled[dst][src] + 1 .. published[src]
      BY <1>2, <3>1
    <3> QED
      BY <1>8, <2>3, <3>2
  <2> QED
    BY <1>9, <2>1, <2>2, <2>3
<1>12. ASSUME NEW n \in handled[dst][src] + 1 .. published[src], Subscribed(dst, src),
              [msg |-> Published(src, n), to |-> dst] \notin lost
       PROVE  \E i \in Ours : way[i].msg.n = n
  <2>0. Published(src, n).src = src /\ Published(src, n).n = n /\ Published(src, n).id # STOP_ALL
    BY PublishesAssumption DEF Published
  <2>1. CASE n <= Taken(src)
    <3>1. n \in handled[dst][src] + 1 .. Taken(src)
      BY <1>2, <2>1
    <3>2. Located(dst, Published(src, n))
      BY <1>12, <3>1 DEF FlowInv, NothingMissing
    <3>3. ASSUME NEW i \in 1 .. a, rx[i] = Published(src, n) PROVE \E x \in Ours : way[x].msg.n = n
      <4>1. i \in 1 .. a + b + c
        BY <1>2
      <4> QED
        <5>1. way[i] = [msg |-> Published(src, n), to |-> dst]
          BY <1>1, <3>3
        <5>2. way[i].msg = Published(src, n) /\ way[i].to = dst
          BY <5>1
        <5> QED
          BY <1>13, <2>0, <4>1, <5>2
    <3>4. ASSUME NEW k \in 1 .. b, pending[k] = [msg |-> Published(src, n), to |-> dst]
          PROVE  \E x \in Ours : way[x].msg.n = n
      <4>1. a + k \in 1 .. a + b + c
        BY <1>2
      <4> QED
        <5>1. way[a + k] = [msg |-> Published(src, n), to |-> dst]
          BY <1>1, <3>4
        <5>2. way[a + k].msg = Published(src, n) /\ way[a + k].to = dst
          BY <5>1
        <5> QED
          BY <1>13, <2>0, <4>1, <5>2
    <3> QED
      BY <1>12, <3>2, <3>3, <3>4 DEF Located, rx, a, b
  <2>2. CASE n > Taken(src)
    <3>1. n - Taken(src) \in 1 .. c /\ Taken(src) + (n - Taken(src)) = n
      BY <1>2, <2>2
    <3>2. PICK k \in 1 .. c : Taken(src) + k = n
      BY <3>1
    <3>3. a + b + k \in 1 .. a + b + c
      BY <1>2
    <3>4. way[a + b + k] = [msg |-> tx[k], to |-> dst]
      BY <1>1, <1>12
    <3>5. tx[k].n = n /\ tx[k].src = src /\ tx[k].id # STOP_ALL
      BY <1>6, <3>2
    <3> QED
      BY <1>13, <3>3, <3>4, <3>5
  <2> QED
    BY <1>2, <2>1, <2>2
<1>14. {way[i].msg.n : i \in Ours}
           = {n \in handled[dst][src] + 1 .. published[src] :
                /\ Subscribed(dst, src)
                /\ [msg |-> Published(src, n), to |-> dst] \notin lost}
  BY <1>11, <1>12
<1> QED
  BY <1>10, <1>14 DEF way, Ours

(* Queue.h, ProgramManager::Run (ProgramManager.cpp:182-240) and HandleQueue *)
(* together: whatever the sizes, the subscriptions and the interleaving of   *)
(* the threads, messages between two of them arrive once, in order, and only *)
(* a full m_RxQueue of the receiver refuses one.                             *)
THEOREM DeliveryInOrder == Spec => []InOrderExactlyOnce
  BY FlowInvariance, FlowInOrder, MessageInvariance, PTL

-----------------------------------------------------------------------------
(* The start of the threads *)

(* RequestRun has been called for the threads in front of current, and for   *)
(* all of them when the constructor returns.                                 *)
StartInv ==
    /\ mainPc = "terminated" => Terminates
    /\ mainPc = "start" => \A i \in 1 .. current - 1 : pc[Threads[i]] # "unborn"
    /\ mainPc \in {"run", "forward"} => \A t \in ThreadIDs : pc[t] # "unborn"

LEMMA NextStartInv == StartInv /\ ControlInv /\ [Next]_vars => StartInv'
<1> SUFFICES ASSUME StartInv, ControlInv, [Next]_vars PROVE StartInv'
  OBVIOUS
<1>1. /\ Len(Threads) \in Nat
      /\ \A i \in 1 .. Len(Threads) : Threads[i] \in ThreadIDs
      /\ \A t \in ThreadIDs : \E i \in 1 .. Len(Threads) : t = Threads[i]
      /\ current \in 1 .. Len(Threads) + 1
  BY ThreadsList DEF ControlInv
<1> HIDE DEF Threads, ThreadIDs
<1>2. ASSUME NEW t \in ThreadIDs, RunThread(t) \/ Publish(t) PROVE StartInv'
  <2>1. /\ mainPc' = mainPc /\ current' = current
        /\ \A s \in ThreadIDs : pc[s] # "unborn" => pc'[s] # "unborn"
    BY <1>2 DEF RunThread, LoopTest, HandleMessage, HandleEnd, RunEnd, Publish, ControlInv,
                mainVars, workerVars
  <2> QED
    BY <1>1, <2>1 DEF StartInv
<1>3. CASE Main
  <2>1. CASE Take \/ Forward \/ ForwardEnd \/ MainLoop \/ RequestStop \/ Join \/ Stop
              \/ CheckStatus \/ ClearFlag \/ ClearStatus
    BY <2>1 DEF Take, Forward, ForwardEnd, MainLoop, RequestStop, Join, Stop, CheckStatus,
                ClearFlag, ClearStatus, StartInv, workerVars
  <2>2. CASE Construct
    BY <2>2 DEF Construct, StartInv
  <2>3. CASE RequestRun
    <3>1. /\ mainPc = "start" /\ mainPc' = "start" /\ current' = current + 1
          /\ pc' = [pc EXCEPT ![Threads[current]] = "test"]
      BY <2>3 DEF RequestRun
    <3>2. \A i \in 1 .. current' - 1 : i \in 1 .. current - 1 \/ i = current
      BY <1>1, <3>1
    <3>3. current <= Len(Threads)
      BY <2>3 DEF RequestRun
    <3>4. \A i \in 1 .. current - 1 : Threads[i] \in ThreadIDs
      BY <1>1, <3>3
    <3>5. Threads[current] \in ThreadIDs
      BY <1>1, <3>3
    <3> QED
      BY <3>1, <3>2, <3>4, <3>5 DEF StartInv, ControlInv
  <2>4. CASE ConstructEnd
    BY <1>1, <2>4 DEF ConstructEnd, StartInv, workerVars
  <2> QED
    BY <1>3, <2>1, <2>2, <2>3, <2>4 DEF Main
<1>4. ASSUME NEW sig \in Signals, Signal(sig) \/ SignalFlag(sig) PROVE StartInv'
  BY <1>4 DEF Signal, SignalFlag, StartInv, mainVars, workerVars
<1>5. CASE UNCHANGED vars
  BY <1>5 DEF vars, mainVars, workerVars, StartInv
<1> QED
  BY <1>2, <1>3, <1>4, <1>5 DEF Next

(* "now its time to fire up all the threads" (ProgramManager.cpp:107): if    *)
(* the configuration file is read to its end and lists no thread twice, all  *)
(* the threads it lists run whenever the main loop does, before and after    *)
(* every restart.                                                            *)
THEOREM AllThreadsRun ==
    ASSUME Config.ok, ~Terminates
    PROVE  Spec => []ConfiguredThreadsRun
<1>1. Init => StartInv
  BY DEF Init, StartInv
<1>2. StartInv => ConfiguredThreadsRun
  <2>1. Wanted \subseteq ThreadIDs
    BY WantedAreGenerated DEF ThreadIDs
  <2> QED
    BY <2>1 DEF StartInv, ConfiguredThreadsRun
<1> QED
  BY <1>1, <1>2, NextStartInv, ControlInvariance, PTL DEF Spec

=============================================================================
