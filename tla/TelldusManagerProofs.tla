------------------------ MODULE TelldusManagerProofs ------------------------
(***************************************************************************)
(* Theorems about TelldusManager, for all queue sizes, numbers of events,  *)
(* devices and commands: the path of a radio event is an EventChannel, no  *)
(* event is unaccounted for, nothing is used after the destructor deleted  *)
(* it, and a device ends in the state of the last command for it.          *)
(***************************************************************************)
EXTENDS TelldusManager, SequenceLemmas

-----------------------------------------------------------------------------
(* The life of the object *)

(* Nothing runs while the object is configured.                              *)
LEMMA InitLifeInv == Init => LifeInv
  BY DEF Init, LifeInv, NoDeletedDevice

(* Join lets the main thread go on to the deletion only after the worker has *)
(* left SetState for ever, and tdClose waits for telldus-core.               *)
LEMMA NextLifeInv == LifeInv /\ [Next]_vars => LifeInv'
<1> SUFFICES ASSUME LifeInv, [Next]_vars PROVE LifeInv'
  OBVIOUS
<1> USE DEF LifeInv, NoDeletedDevice
<1>1. CASE RawDeviceEvent
  BY <1>1 DEF RawDeviceEvent, Registered, worker
<1>2. CASE ParseRawDeviceEvent
  BY <1>2 DEF ParseRawDeviceEvent, worker
<1>3. CASE Worker
  <2>1. CASE LoopTest
    BY <2>1 DEF LoopTest
  <2>2. CASE HandleMessage
    BY <2>2 DEF HandleMessage, Known
  <2>3. CASE Transmit
    BY <2>3 DEF Transmit
  <2>4. CASE TransmitEnd \/ HandleEnd
    BY <2>4 DEF TransmitEnd, HandleEnd
  <2>5. CASE RunPop \/ RunPush \/ RunEnd
    BY <2>5 DEF RunPop, RunPush, RunEnd
  <2> QED
    BY <1>3, <2>1, <2>2, <2>3, <2>4, <2>5 DEF Worker
<1>4. CASE Main
  BY <1>4 DEF Main, Take, Join, DeleteDevices, TdClose, worker
<1>5. CASE RequestRun \/ Deliver \/ RequestStop
  BY <1>5 DEF RequestRun, Deliver, RequestStop, worker
<1>6. CASE UNCHANGED vars
  BY <1>6 DEF vars, worker
<1> QED
  BY <1>1, <1>2, <1>3, <1>4, <1>5, <1>6 DEF Next

(* ~TelldusManager (136-155) stops the worker, deletes the devices and closes *)
(* the connection in an order that never leaves a user behind.               *)
THEOREM LifeInvariance == Spec => []LifeInv
  BY InitLifeInv, NextLifeInv, PTL DEF Spec

(* SetState (191-202) never uses a device that was deleted.                  *)
THEOREM DevicesAlive == Spec => []NoDeletedDevice
<1>1. LifeInv => NoDeletedDevice
  BY DEF LifeInv
<1> QED
  BY <1>1, LifeInvariance, PTL

(* RawDeviceEvent (94-100) never runs on an object that is gone.             *)
THEOREM CallbacksAlive == Spec => []NoLateCallback
<1>1. LifeInv => NoLateCallback
  BY DEF LifeInv, NoLateCallback
<1> QED
  BY <1>1, LifeInvariance, PTL

-----------------------------------------------------------------------------
(* What a step does to the events on their way *)

OfferedStep == /\ offered' = offered + 1
               /\ Transit' = Append(Transit, offered + 1)
               /\ UNCHANGED <<received, gone>>

RefusedStep == /\ Len(Transit) >= Load
               /\ offered' = offered + 1
               /\ gone' = gone \union {offered + 1}
               /\ UNCHANGED <<Transit, received>>

DroppedStep(i) == /\ i > Load \/ Transit[i] \in Unparsable
                  /\ Transit' = Without(Transit, i)
                  /\ gone' = gone \union {Transit[i]}
                  /\ UNCHANGED <<offered, received>>

ReportedStep == /\ Transit # <<>>
                /\ received' = Head(Transit)
                /\ Transit' = Tail(Transit)
                /\ UNCHANGED <<offered, gone>>

EventStep == \/ UNCHANGED <<Transit, offered, received, gone>>
             \/ OfferedStep
             \/ RefusedStep
             \/ \E i \in 1 .. Len(Transit) : DroppedStep(i)
             \/ ReportedStep

(* Pop a raw event into the hands of Run: the events on their way stay.      *)
LEMMA PopKeepsTransit ==
    ASSUME NEW tx \in Seq(Nat), NEW raw \in Seq(Nat), raw # <<>>
    PROVE  tx \o <<Head(raw)>> \o Tail(raw) = tx \o <<>> \o raw
<1>1. Head(raw) \in Nat /\ Tail(raw) \in Seq(Nat) /\ raw = <<Head(raw)>> \o Tail(raw)
  BY HeadTailProperties, HeadConcat
<1>2. <<Head(raw)>> \in Seq(Nat) /\ tx \o <<>> = tx
  BY <1>1, ConcatEmptySeq
<1>3. (tx \o <<Head(raw)>>) \o Tail(raw) = tx \o (<<Head(raw)>> \o Tail(raw))
  BY <1>1, <1>2, ConcatAssociative, SMTT(20)
<1> QED
  BY <1>1, <1>2, <1>3

(* Drop the event at the head of the raw queue while Run holds none.         *)
LEMMA DropRawHead ==
    ASSUME NEW tx \in Seq(Nat), NEW raw \in Seq(Nat), raw # <<>>
    PROVE  tx \o <<>> \o Tail(raw) = Without(tx \o <<>> \o raw, Len(tx) + 1)
<1>1. Head(raw) \in Nat /\ Tail(raw) \in Seq(Nat)
  BY HeadTailProperties
<1>2. <<Head(raw)>> \in Seq(Nat) /\ Len(<<Head(raw)>>) = 1 /\ tx \o <<>> = tx
  BY <1>1, ConcatEmptySeq
<1>3. Without((tx \o <<Head(raw)>>) \o Tail(raw), Len(tx) + 1) = tx \o Tail(raw)
  BY <1>1, <1>2, WithoutMiddle
<1> QED
  BY <1>2, <1>3, PopKeepsTransit

(* The oldest event on its way is the head of a queue that is not empty.     *)
LEMMA TakeHead ==
    ASSUME NEW tx \in Seq(Nat), NEW d \in Seq(Nat), NEW raw \in Seq(Nat), tx # <<>>
    PROVE  /\ tx \o d \o raw # <<>>
           /\ Head(tx \o d \o raw) = Head(tx)
           /\ Tail(tx \o d \o raw) = Tail(tx) \o d \o raw
<1>1. Head(tx) \in Nat /\ Tail(tx) \in Seq(Nat) /\ tx = <<Head(tx)>> \o Tail(tx)
  BY HeadTailProperties, HeadConcat
<1>2. <<Head(tx)>> \in Seq(Nat) /\ Tail(tx) \o d \in Seq(Nat)
  BY <1>1, ConcatProperties
<1>3. (Tail(tx) \o d) \o raw \in Seq(Nat)
  BY <1>2, ConcatProperties
<1>4. (<<Head(tx)>> \o Tail(tx)) \o d = <<Head(tx)>> \o (Tail(tx) \o d)
  BY <1>1, <1>2, ConcatAssociative
<1>5. (<<Head(tx)>> \o (Tail(tx) \o d)) \o raw = <<Head(tx)>> \o ((Tail(tx) \o d) \o raw)
  BY <1>2, ConcatAssociative
<1>6. tx \o d \o raw = <<Head(tx)>> \o ((Tail(tx) \o d) \o raw)
  BY <1>1, <1>4, <1>5
<1> QED
  BY <1>1, <1>3, <1>6, ConsProperties, SMTT(20)

(* Each step of the program is one of these, and the callback in progress is *)
(* always that of the next event.                                            *)
LEMMA EveryStep == EventsInv /\ [Next]_vars => EventStep
<1> SUFFICES ASSUME EventsInv, [Next]_vars PROVE EventStep
  OBVIOUS
<1> DEFINE raw == m_RawDeviceQueue
           tx == m_TxQueue
<1>1. /\ raw \in Seq(Nat) /\ tx \in Seq(Nat) /\ data \in Seq(Nat)
      /\ Len(raw) \in Nat /\ Len(tx) \in Nat /\ Len(data) \in Nat
      /\ Len(Transit) = Len(tx) + Len(data) + Len(raw)
      /\ Transit \in Seq(Nat)
  <2>1. raw \in Seq(Nat) /\ tx \in Seq(Nat) /\ data \in Seq(Nat)
    BY DEF EventsInv
  <2>2. /\ tx \o data \o raw \in Seq(Nat)
        /\ Len(tx \o data \o raw) = Len(tx) + Len(data) + Len(raw)
    BY <2>1, ConcatThree
  <2> QED
    BY <2>1, <2>2, LenProperties DEF Transit
<1>2. Load \in Nat \ {0} /\ Load <= RawSize /\ Load <= Size
  BY SizesAssumption DEF Load
<1>3. wpc # "publish" => data = <<>>
  BY <1>1, EmptySeq DEF EventsInv
<1>4. ASSUME UNCHANGED <<m_RawDeviceQueue, m_TxQueue, data, offered, gone, received>>
      PROVE  EventStep
  BY <1>4 DEF EventStep, Transit
<1>5. CASE ParseRawDeviceEvent
  <2>1. callback[1] = offered + 1 /\ offered' = offered + 1 /\ received' = received
    BY <1>5 DEF ParseRawDeviceEvent, EventsInv
  <2>2. tx' = tx /\ data' = data
    BY <1>5 DEF ParseRawDeviceEvent, worker
  <2>3. CASE HasSpace(raw, RawSize)
    <3>1. raw' = Append(raw, offered + 1) /\ gone' = gone
      BY <1>5, <2>1, <2>3 DEF ParseRawDeviceEvent, Push
    <3>2. offered + 1 \in Nat
      BY DEF EventsInv
    <3>3. tx \o data \in Seq(Nat)
      BY <1>1, ConcatProperties
    <3>9. <<offered + 1>> \in Seq(Nat)
      BY <3>2
    <3>4. Append(raw, offered + 1) = raw \o <<offered + 1>>
      BY <1>1, <3>2, AppendIsConcat
    <3>5. (tx \o data) \o (raw \o <<offered + 1>>) = ((tx \o data) \o raw) \o <<offered + 1>>
      <4> HIDE DEF raw, tx
      <4> DEFINE s == tx \o data
      <4> HIDE DEF s
      <4>1. s \in Seq(Nat) /\ raw \in Seq(Nat) /\ <<offered + 1>> \in Seq(Nat)
        BY <1>1, <3>3, <3>9 DEF s
      <4>2. (s \o raw) \o <<offered + 1>> = s \o (raw \o <<offered + 1>>)
        BY <4>1, ConcatAssociative, SMTT(20)
      <4> QED
        BY <4>2 DEF s
    <3>6. Append(Transit, offered + 1) = Transit \o <<offered + 1>>
      BY <1>1, <3>2, AppendIsConcat
    <3>7. Transit' = Append(Transit, offered + 1)
      BY <2>2, <3>1, <3>4, <3>5, <3>6 DEF Transit
    <3> QED
      BY <2>1, <3>1, <3>7 DEF EventStep, OfferedStep
  <2>4. CASE ~HasSpace(raw, RawSize)
    <3>1. raw' = raw /\ gone' = gone \union {offered + 1}
      BY <1>5, <2>1, <2>4 DEF ParseRawDeviceEvent, Push
    <3>2. Len(Transit) >= Load
      BY <1>1, <1>2, <2>4, SizesAssumption DEF HasSpace
    <3> QED
      BY <2>1, <2>2, <3>1, <3>2 DEF EventStep, RefusedStep, Transit
  <2> QED
    BY <2>3, <2>4
<1>6. CASE RunPop
  <2>1. raw # <<>> /\ data = <<>> /\ raw' = Tail(raw) /\ tx' = tx
        /\ offered' = offered /\ received' = received
    BY <1>3, <1>6 DEF RunPop, IsEmpty
  <2>2. CASE Head(raw) \in Unparsable
    <3>1. data' = data /\ gone' = gone \union {Head(raw)}
      BY <1>6, <2>2 DEF RunPop
    <3>2. Len(tx) + 1 \in 1 .. Len(Transit) /\ Transit[Len(tx) + 1] = Head(raw)
      <4>1. Len(data) = 0 /\ Len(raw) > 0
        BY <1>1, <2>1, EmptySeq
      <4>2. Transit[Len(tx) + 1] = raw[1]
        BY <1>1, <4>1, ConcatThree DEF Transit
      <4> QED
        BY <1>1, <2>1, <4>1, <4>2, HeadTailProperties
    <3>3. Transit' = Without(Transit, Len(tx) + 1)
      BY <1>1, <2>1, <3>1, <3>2, DropRawHead DEF Transit
    <3> QED
      BY <2>1, <2>2, <3>1, <3>2, <3>3 DEF EventStep, DroppedStep
  <2>3. CASE Head(raw) \notin Unparsable
    <3>1. data' = <<Head(raw)>> /\ gone' = gone
      BY <1>6, <2>3 DEF RunPop
    <3>2. Transit' = Transit
      BY <1>1, <2>1, <3>1, PopKeepsTransit DEF Transit
    <3> QED
      BY <2>1, <3>1, <3>2 DEF EventStep
  <2> QED
    BY <2>2, <2>3
<1>7. CASE RunPush
  <2>0. Len(data) = 1 /\ data[1] \in Nat
    <3>1. Len(data) = 1
      BY <1>7 DEF RunPush, EventsInv
    <3>2. 1 \in 1 .. Len(data)
      BY <3>1
    <3>3. data[1] \in Nat
      BY <1>1, <3>2, ElementOfSeq
    <3> QED
      BY <3>1, <3>3
  <2>1. Len(data) = 1 /\ data[1] \in Nat /\ data = <<data[1]>> /\ data' = <<>> /\ raw' = raw
        /\ offered' = offered /\ received' = received
    <3>1. data = <<data[1]>>
      BY <1>1, <2>0, SeqEqual
    <3> QED
      BY <1>7, <2>0, <3>1 DEF RunPush
  <2>2. CASE HasSpace(tx, Size)
    <3>1. tx' = Append(tx, data[1]) /\ gone' = gone
      BY <1>7, <2>2 DEF RunPush, Push
    <3>2. tx' = tx \o data
      BY <1>1, <2>1, <3>1, AppendIsConcat
    <3>3. tx' \o <<>> = tx'
      BY <1>1, <3>2, ConcatProperties, ConcatEmptySeq
    <3> QED
      BY <2>1, <3>1, <3>2, <3>3 DEF EventStep, Transit
  <2>3. CASE ~HasSpace(tx, Size)
    <3>1. tx' = tx /\ gone' = gone \union {data[1]}
      BY <1>7, <2>3 DEF RunPush, Push
    <3>2. /\ Len(tx) + 1 \in 1 .. Len(Transit) /\ Len(tx) + 1 > Load
          /\ Transit[Len(tx) + 1] = data[1]
      <4>1. /\ Len(tx) \in Nat /\ Len(data) \in Nat /\ Len(raw) \in Nat
            /\ Len(data) = 1 /\ Len(Transit) = Len(tx) + Len(data) + Len(raw)
        BY <1>1, <1>2, <2>1, ConcatThree DEF Transit
      <4>2. Transit[Len(tx) + 1] = data[1]
        BY <1>1, <2>1, ConcatThree DEF Transit
      <4>3. Len(tx) + 1 > Load
        BY <1>1, <1>2, <2>1, <2>3, SizesAssumption DEF HasSpace
      <4> QED
        BY <4>1, <4>2, <4>3
    <3>3. Transit' = Without(Transit, Len(tx) + 1)
      BY <1>1, <2>1, <3>1, WithoutMiddle, ConcatEmptySeq DEF Transit
    <3> QED
      BY <2>1, <3>1, <3>2, <3>3 DEF EventStep, DroppedStep
  <2> QED
    BY <2>2, <2>3
<1>8. CASE Take
  <2>1. /\ tx # <<>> /\ received' = Head(tx) /\ tx' = Tail(tx)
        /\ UNCHANGED <<m_RawDeviceQueue, data, offered, gone>>
    BY <1>8 DEF Take, IsEmpty, worker
  <2>2. Transit # <<>> /\ Head(Transit) = Head(tx) /\ Tail(Transit) = Tail(tx) \o data \o raw
    <3>1. tx \in Seq(Nat) /\ data \in Seq(Nat) /\ raw \in Seq(Nat) /\ tx # <<>>
      BY <1>1, <2>1
    <3> HIDE DEF tx, raw
    <3>2. /\ tx \o data \o raw # <<>>
          /\ Head(tx \o data \o raw) = Head(tx)
          /\ Tail(tx \o data \o raw) = Tail(tx) \o data \o raw
      BY <3>1, TakeHead, SMTT(20)
    <3> QED
      BY <3>2 DEF Transit, tx, raw
  <2> QED
    BY <2>1, <2>2 DEF EventStep, ReportedStep, Transit
<1>9. CASE RawDeviceEvent \/ RequestRun \/ Deliver \/ RequestStop
  BY <1>4, <1>9 DEF RawDeviceEvent, RequestRun, Deliver, RequestStop, events, worker
<1>10. CASE Worker /\ ~RunPop /\ ~RunPush
  BY <1>4, <1>10 DEF Worker, LoopTest, HandleMessage, Transmit, TransmitEnd, HandleEnd, RunEnd,
                     events
<1>11. CASE Main /\ ~Take
  BY <1>4, <1>11 DEF Main, Join, DeleteDevices, TdClose, events, worker
<1>12. CASE UNCHANGED vars
  BY <1>4, <1>12 DEF vars, events, worker
<1> QED
  BY <1>5, <1>6, <1>7, <1>8, <1>9, <1>10, <1>11, <1>12 DEF Next, Worker, Main

-----------------------------------------------------------------------------
(* Every event is accounted for *)

(* No event has been offered at the start.                                   *)
LEMMA InitEventsInv == Init => EventsInv
<1> SUFFICES ASSUME Init PROVE EventsInv
  OBVIOUS
<1>1. m_RawDeviceQueue = <<>> /\ m_TxQueue = <<>> /\ data = <<>>
  BY DEF Init
<1>2. Transit = <<>> /\ Len(Transit) = 0
  BY <1>1, ConcatEmptySeq DEF Transit
<1>3. EventsAccounted
  BY <1>2 DEF Init, EventsAccounted, Elements
<1> QED
  BY <1>1, <1>3 DEF Init, EventsInv

(* The queues, and what is in the hands of the two threads.                  *)
LEMMA NextHands == EventsInv /\ [Next]_vars =>
    /\ m_RawDeviceQueue' \in Seq(Nat) /\ m_TxQueue' \in Seq(Nat) /\ data' \in Seq(Nat)
    /\ Len(data') = IF wpc' = "publish" THEN 1 ELSE 0
    /\ callback' \in {<<>>, <<offered' + 1>>}
    /\ mainPc' = "configure" => wpc' = "unborn"
<1> SUFFICES ASSUME EventsInv, [Next]_vars
             PROVE  /\ m_RawDeviceQueue' \in Seq(Nat) /\ m_TxQueue' \in Seq(Nat)
                    /\ data' \in Seq(Nat)
                    /\ Len(data') = IF wpc' = "publish" THEN 1 ELSE 0
                    /\ callback' \in {<<>>, <<offered' + 1>>}
                    /\ mainPc' = "configure" => wpc' = "unborn"
  OBVIOUS
<1> USE DEF EventsInv
<1>1. CASE RawDeviceEvent
  BY <1>1 DEF RawDeviceEvent, events, worker
<1>2. CASE ParseRawDeviceEvent
  BY <1>2 DEF ParseRawDeviceEvent, worker, Push
<1>3. CASE LoopTest \/ HandleMessage \/ HandleEnd
  BY <1>3 DEF LoopTest, HandleMessage, HandleEnd, events
<1>4. CASE Transmit \/ TransmitEnd \/ RunEnd
  BY <1>4 DEF Transmit, TransmitEnd, RunEnd, events
<1>5. CASE RunPop
  <2>1. m_RawDeviceQueue # <<>> /\ m_RawDeviceQueue' = Tail(m_RawDeviceQueue)
        /\ m_TxQueue' = m_TxQueue /\ callback' = callback /\ offered' = offered
        /\ wpc = "run" /\ mainPc' = mainPc
    BY <1>5 DEF RunPop, IsEmpty
  <2>2. Head(m_RawDeviceQueue) \in Nat /\ Tail(m_RawDeviceQueue) \in Seq(Nat)
    BY <2>1, HeadTailProperties
  <2>3. \/ data' = data /\ wpc' = wpc /\ wpc = "run"
        \/ data' = <<Head(m_RawDeviceQueue)>> /\ wpc' = "publish"
    BY <1>5 DEF RunPop
  <2>4. data' \in Seq(Nat) /\ Len(data') = IF wpc' = "publish" THEN 1 ELSE 0
    <3>1. CASE data' = data /\ wpc' = wpc
      BY <3>1
    <3>2. CASE data' = <<Head(m_RawDeviceQueue)>> /\ wpc' = "publish"
      BY <2>2, <3>2
    <3> QED
      BY <2>3, <3>1, <3>2
  <2> QED
    BY <2>1, <2>2, <2>4
<1>6. CASE RunPush
  <2>1. data[1] \in Nat
    <3>1. 1 \in 1 .. Len(data)
      BY <1>6 DEF RunPush
    <3> QED
      BY <3>1, ElementOfSeq
  <2> QED
    BY <1>6, <2>1 DEF RunPush, Push
<1>7. CASE Take
  <2>1. m_TxQueue # <<>> /\ m_TxQueue' = Tail(m_TxQueue)
    BY <1>7 DEF Take, IsEmpty
  <2>2. Tail(m_TxQueue) \in Seq(Nat)
    BY <2>1, HeadTailProperties
  <2> QED
    BY <1>7, <2>1, <2>2 DEF Take, worker
<1>8. CASE Join \/ DeleteDevices \/ TdClose
  BY <1>8 DEF Join, DeleteDevices, TdClose, events, worker
<1>9. CASE RequestRun
  BY <1>9 DEF RequestRun, events
<1>10. CASE Deliver \/ RequestStop
  BY <1>10 DEF Deliver, RequestStop, events, worker
<1>11. CASE UNCHANGED vars
  BY <1>11 DEF vars, events, worker
<1> QED
  BY <1>1, <1>2, <1>3, <1>4, <1>5, <1>6, <1>7, <1>8, <1>9, <1>10, <1>11 DEF Next, Worker, Main

(* A numbered, increasing sequence of everything between two numbers that is *)
(* not gone keeps being one under each kind of step.                         *)
Accounted(s, from, to, out) ==
    /\ \A i, j \in 1 .. Len(s) : i < j => s[i] < s[j]
    /\ Elements(s) = (from + 1 .. to) \ out

LEMMA AppendAccounted ==
    ASSUME NEW s \in Seq(Nat), NEW from \in Nat, NEW to \in Nat, NEW out, from <= to,
           out \subseteq 1 .. to, Accounted(s, from, to, out)
    PROVE  Accounted(Append(s, to + 1), from, to + 1, out)
<1> DEFINE t == Append(s, to + 1)
<1>1. /\ Len(t) = Len(s) + 1 /\ Len(s) \in Nat
      /\ \A i \in 1 .. Len(s) : t[i] = s[i]
      /\ t[Len(s) + 1] = to + 1
  BY AppendProperties, LenProperties
<1>2. \A i \in 1 .. Len(s) : s[i] \in from + 1 .. to
  BY DEF Accounted, Elements
<1> HIDE DEF t
<1>3. ASSUME NEW i \in 1 .. Len(t), NEW j \in 1 .. Len(t), i < j
      PROVE  t[i] < t[j]
  <2>1. i \in 1 .. Len(s) /\ t[i] = s[i] /\ s[i] <= to /\ s[i] \in Nat
    BY <1>1, <1>2, <1>3
  <2>2. CASE j \in 1 .. Len(s)
    BY <1>1, <1>3, <2>1, <2>2 DEF Accounted
  <2>3. CASE j = Len(s) + 1
    BY <1>1, <2>1, <2>3
  <2> QED
    BY <1>1, <2>2, <2>3
<1>4. Elements(t) = Elements(s) \union {to + 1}
  <2>1. ASSUME NEW i \in 1 .. Len(t)
        PROVE  t[i] \in Elements(s) \union {to + 1}
    <3>1. CASE i \in 1 .. Len(s)
      BY <1>1, <3>1 DEF Elements
    <3>2. CASE i = Len(s) + 1
      BY <1>1, <3>2
    <3> QED
      BY <1>1, <3>1, <3>2
  <2>2. ASSUME NEW i \in 1 .. Len(s)
        PROVE  s[i] \in Elements(t)
    <3>1. i \in 1 .. Len(t) /\ t[i] = s[i]
      BY <1>1
    <3> QED
      BY <3>1 DEF Elements
  <2>3. to + 1 \in Elements(t)
    <3>1. Len(s) + 1 \in 1 .. Len(t)
      BY <1>1
    <3> QED
      BY <1>1, <3>1 DEF Elements
  <2> QED
    BY <2>1, <2>2, <2>3 DEF Elements
<1>5. (from + 1 .. to + 1) \ out = ((from + 1 .. to) \ out) \union {to + 1}
  OBVIOUS
<1> QED
  BY <1>3, <1>4, <1>5 DEF Accounted, t

LEMMA RefuseAccounted ==
    ASSUME NEW s \in Seq(Nat), NEW from \in Nat, NEW to \in Nat, NEW out, from <= to,
           Accounted(s, from, to, out)
    PROVE  Accounted(s, from, to + 1, out \union {to + 1})
<1>1. (from + 1 .. to + 1) \ (out \union {to + 1}) = (from + 1 .. to) \ out
  OBVIOUS
<1> QED
  BY <1>1 DEF Accounted

LEMMA DropAccounted ==
    ASSUME NEW s \in Seq(Nat), NEW from \in Nat, NEW to \in Nat, NEW out,
           Accounted(s, from, to, out), NEW i \in 1 .. Len(s)
    PROVE  Accounted(Without(s, i), from, to, out \union {s[i]})
<1> DEFINE t == Without(s, i)
<1>1. /\ Len(t) = Len(s) - 1 /\ Len(s) \in Nat
      /\ \A j \in 1 .. Len(s) - 1 : t[j] = IF j < i THEN s[j] ELSE s[j + 1]
      /\ \A j \in 1 .. Len(s) : s[j] \in Nat
  BY WithoutProperties, LenProperties, ElementOfSeq
<1> HIDE DEF t
<1>2. \A j, k \in 1 .. Len(s) : j < k => s[j] < s[k]
  BY DEF Accounted
<1>0. ASSUME NEW j \in 1 .. Len(t)
      PROVE  \/ j < i /\ j \in 1 .. Len(s) /\ t[j] = s[j]
             \/ j >= i /\ j + 1 \in 1 .. Len(s) /\ t[j] = s[j + 1]
  BY <1>1, SMTT(20)
<1>3. ASSUME NEW j \in 1 .. Len(t), NEW k \in 1 .. Len(t), j < k
      PROVE  t[j] < t[k]
  <2>1. CASE k < i
    BY <1>0, <1>2, <1>3, <2>1
  <2>2. CASE j < i /\ k >= i
    <3>1. j < k + 1 /\ k + 1 \in 1 .. Len(s) /\ t[k] = s[k + 1] /\ j \in 1 .. Len(s) /\ t[j] = s[j]
      BY <1>0, <1>3, <2>2
    <3> QED
      BY <1>2, <3>1
  <2>3. CASE j >= i
    <3>1. /\ j + 1 < k + 1 /\ k + 1 \in 1 .. Len(s) /\ t[k] = s[k + 1]
          /\ j + 1 \in 1 .. Len(s) /\ t[j] = s[j + 1]
      BY <1>0, <1>3, <2>3, SMTT(20)
    <3> QED
      BY <1>2, <3>1
  <2> QED
    BY <2>1, <2>2, <2>3
<1>4. Elements(t) = Elements(s) \ {s[i]}
  <2>1. ASSUME NEW j \in 1 .. Len(t) PROVE t[j] \in Elements(s) /\ t[j] # s[i]
    <3>1. CASE j < i
      BY <1>0, <1>1, <1>2, <3>1, SMTT(20) DEF Elements
    <3>2. CASE j >= i
      <4>1. i < j + 1 /\ j + 1 \in 1 .. Len(s) /\ t[j] = s[j + 1]
        BY <1>0, <3>2
      <4>2. s[i] < s[j + 1] /\ s[j + 1] \in Nat /\ s[i] \in Nat
        BY <1>1, <1>2, <4>1
      <4> QED
        BY <4>1, <4>2 DEF Elements
    <3> QED
      BY <3>1, <3>2
  <2>2. ASSUME NEW k \in 1 .. Len(s), s[k] # s[i] PROVE \E j \in 1 .. Len(t) : t[j] = s[k]
    <3>1. CASE k < i
      <4>1. k \in 1 .. Len(t) /\ t[k] = s[k]
        BY <1>1, <3>1
      <4> QED
        BY <4>1
    <3>2. CASE k > i
      <4>1. k - 1 \in 1 .. Len(t) /\ t[k - 1] = s[k]
        BY <1>1, <3>2
      <4> QED
        BY <4>1
    <3> QED
      BY <2>2, <3>1, <3>2
  <2>3. Elements(t) \subseteq Elements(s) \ {s[i]}
    BY <2>1 DEF Elements
  <2>4. Elements(s) \ {s[i]} \subseteq Elements(t)
    BY <2>2 DEF Elements
  <2> QED
    BY <2>3, <2>4
<1>5. Elements(s) \ {s[i]} = (from + 1 .. to) \ (out \union {s[i]})
  BY DEF Accounted
<1> QED
  BY <1>3, <1>4, <1>5 DEF Accounted, t

LEMMA ReportAccounted ==
    ASSUME NEW s \in Seq(Nat), NEW from \in Nat, NEW to \in Nat, NEW out,
           Accounted(s, from, to, out), s # <<>>
    PROVE  Accounted(Tail(s), Head(s), to, out) /\ Head(s) <= to
<1> DEFINE t == Tail(s)
<1>1. /\ Len(t) = Len(s) - 1 /\ Len(s) \in Nat /\ Len(s) > 0 /\ Head(s) = s[1]
      /\ \A j \in 1 .. Len(t) : t[j] = s[j + 1]
      /\ \A j \in 1 .. Len(s) : s[j] \in Nat
  BY HeadTailProperties, LenProperties, ElementOfSeq, EmptySeq
<1> HIDE DEF t
<1>2. \A j, k \in 1 .. Len(s) : j < k => s[j] < s[k]
  BY DEF Accounted
<1>3. ASSUME NEW j \in 1 .. Len(t), NEW k \in 1 .. Len(t), j < k
      PROVE  t[j] < t[k]
  <2>1. j + 1 \in 1 .. Len(s) /\ k + 1 \in 1 .. Len(s) /\ j + 1 < k + 1
    BY <1>1, <1>3
  <2> QED
    BY <1>1, <1>2, <2>1
<1>4. Elements(t) = {e \in Elements(s) : e > s[1]}
  <2>1. ASSUME NEW j \in 1 .. Len(t) PROVE t[j] \in Elements(s) /\ t[j] > s[1]
    <3>1. j + 1 \in 1 .. Len(s) /\ 1 \in 1 .. Len(s) /\ 1 < j + 1
      BY <1>1
    <3> QED
      BY <1>1, <1>2, <3>1 DEF Elements
  <2>2. ASSUME NEW k \in 1 .. Len(s), s[k] > s[1] PROVE \E j \in 1 .. Len(t) : t[j] = s[k]
    <3>1. k # 1 /\ k - 1 \in 1 .. Len(t) /\ (k - 1) + 1 = k
      BY <1>1, <2>2
    <3>2. t[k - 1] = s[k]
      BY <1>1, <3>1
    <3> QED
      BY <3>1, <3>2
  <2> QED
    BY <2>1, <2>2 DEF Elements
<1>5. s[1] \in from + 1 .. to
  <2>1. s[1] \in Elements(s)
    BY <1>1 DEF Elements
  <2> QED
    BY <2>1 DEF Accounted
<1>6. {e \in (from + 1 .. to) \ out : e > s[1]} = (s[1] + 1 .. to) \ out
  BY <1>5
<1> QED
  BY <1>1, <1>3, <1>4, <1>5, <1>6 DEF Accounted, t

(* The accounts balance after every step.                                    *)
LEMMA NextEventsInv == EventsInv /\ [Next]_vars => EventsInv'
<1> SUFFICES ASSUME EventsInv, [Next]_vars PROVE EventsInv'
  OBVIOUS
<1>1. EventStep
  BY EveryStep
<1>2. /\ Transit \in Seq(Nat) /\ offered \in Nat /\ received \in Nat /\ received <= offered
      /\ gone \subseteq 1 .. offered /\ Accounted(Transit, received, offered, gone)
  BY ConcatThree DEF EventsInv, EventsAccounted, Accounted, Transit
<1>3. \A i \in 1 .. Len(Transit) : Transit[i] \in 1 .. offered
  BY <1>2 DEF Accounted, Elements
<1>4. /\ Accounted(Transit, received, offered, gone)'
      /\ (offered \in Nat /\ received \in Nat /\ received <= offered /\ gone \subseteq 1 .. offered)'
  <2>1. CASE UNCHANGED <<Transit, offered, received, gone>>
    BY <1>2, <2>1 DEF Accounted
  <2>2. CASE OfferedStep
    <3>1. Accounted(Append(Transit, offered + 1), received, offered + 1, gone)
      BY <1>2, AppendAccounted
    <3> QED
      BY <1>2, <2>2, <3>1 DEF OfferedStep, Accounted
  <2>3. CASE RefusedStep
    <3>1. Accounted(Transit, received, offered + 1, gone \union {offered + 1})
      BY <1>2, RefuseAccounted
    <3> QED
      BY <1>2, <2>3, <3>1 DEF RefusedStep, Accounted
  <2>4. ASSUME NEW i \in 1 .. Len(Transit), DroppedStep(i)
        PROVE  <1>4!1 /\ <1>4!2
    <3>1. Accounted(Without(Transit, i), received, offered, gone \union {Transit[i]})
      BY <1>2, DropAccounted
    <3> QED
      BY <1>2, <1>3, <2>4, <3>1 DEF DroppedStep, Accounted
  <2>5. CASE ReportedStep
    <3>1. Transit # <<>> /\ Head(Transit) \in Nat
      BY <1>2, <2>5, HeadTailProperties DEF ReportedStep
    <3>2. Accounted(Tail(Transit), Head(Transit), offered, gone) /\ Head(Transit) <= offered
      BY <1>2, <3>1, ReportAccounted
    <3> QED
      BY <1>2, <2>5, <3>1, <3>2 DEF ReportedStep, Accounted
  <2> QED
    BY <1>1, <2>1, <2>2, <2>3, <2>4, <2>5 DEF EventStep
<1>5. EventsAccounted'
  BY <1>4 DEF EventsAccounted, Accounted
<1> QED
  BY <1>4, <1>5, NextHands DEF EventsInv

(* The radio events between telldus-core and the main thread are numbered,   *)
(* in order, and complete but for the refused and the meaningless ones       *)
(* (TelldusManager.cpp:160-165 and 236-260).                                 *)
THEOREM EventsInvariance == Spec => []EventsInv
  BY InitEventsInv, NextEventsInv, PTL DEF Spec

(* No radio event disappears, is doubled or overtakes another one, whatever  *)
(* the sizes of the queues.                                                  *)
THEOREM EventAccounting == Spec => []EventsAccounted
<1>1. EventsInv => EventsAccounted
  BY DEF EventsInv
<1> QED
  BY <1>1, EventsInvariance, PTL

(* The two queues, the parser and the threads around them are an             *)
(* EventChannel: an event is lost only behind as many others as the smaller  *)
(* queue holds.                                                              *)
THEOREM ChannelRefinement == Spec => ImplementsChannel
<1>1. Init => Channel!Init
  <2> SUFFICES ASSUME Init PROVE Channel!Init
    OBVIOUS
  <2>1. Transit = <<>>
    BY ConcatEmptySeq DEF Init, Transit
  <2> QED
    BY <2>1 DEF Init, Channel!Init
<1>2. EventsInv /\ [Next]_vars => [Channel!Next]_Channel!vars
  <2> SUFFICES ASSUME EventsInv, [Next]_vars PROVE [Channel!Next]_Channel!vars
    OBVIOUS
  <2>1. EventStep
    BY EveryStep
  <2>2. CASE UNCHANGED <<Transit, offered, received, gone>>
    BY <2>2 DEF Channel!vars
  <2>3. CASE OfferedStep
    BY <2>3 DEF OfferedStep, Channel!Next, Channel!Offer
  <2>4. CASE RefusedStep
    BY <2>4 DEF RefusedStep, Channel!Next, Channel!Refuse
  <2>5. ASSUME NEW i \in 1 .. Len(Transit), DroppedStep(i)
        PROVE  Channel!Next
    <3>1. Channel!Drop(i)
      BY <2>5 DEF DroppedStep, Channel!Drop, Without
    <3> QED
      BY <3>1 DEF Channel!Next
  <2>6. CASE ReportedStep
    BY <2>6 DEF ReportedStep, Channel!Next, Channel!Deliver
  <2> QED
    BY <2>1, <2>2, <2>3, <2>4, <2>5, <2>6 DEF EventStep
<1> QED
  BY <1>1, <1>2, EventsInvariance, PTL DEF Spec, ImplementsChannel, Channel!Spec

-----------------------------------------------------------------------------
(* The commands: numbered as they are delivered, carried out in that order   *)

(* Commands in a queue are in order, and STOP_ALL is behind all of them.     *)
Ordered(q) ==
    \A i, j \in 1 .. Len(q) : i < j => q[i] # StopAll /\ (q[j] = StopAll \/ q[i] < q[j])

(* The commands that are accepted and not carried out completely.            *)
Waiting == ({setting} \union Elements(m_RxQueue)) \ {StopAll}

(* What waits was accepted after everything that does not wait any more, and *)
(* nothing comes behind STOP_ALL.                                            *)
QueueInv ==
    /\ m_RxQueue \in Seq(Nat) /\ Len(m_RxQueue) <= Size /\ Ordered(m_RxQueue)
    /\ m_RequestStop \in BOOLEAN
    /\ mainPc = "configure" => wpc = "unborn"
    /\ m_RequestStop \/ StopAll \in Elements(m_RxQueue) => mainPc \notin {"configure", "forward"}
    /\ m_RequestStop => m_RxQueue = <<>>
    /\ wpc = "done" => m_RequestStop
    /\ delivered \in 0 .. Len(Commands) /\ accepted \subseteq 1 .. delivered
    /\ Waiting \subseteq accepted
    /\ \A c \in accepted \ Waiting : \A e \in Waiting : c < e
    /\ setting \in Nat /\ \A e \in Elements(m_RxQueue) : e = StopAll \/ setting < e
    /\ setting # 0 <=> wpc = "transmit"
    /\ transmitted \in 0 .. TELLDUSDEVICE_RETRANSMIT
    /\ setting = 0 => transmitted = 0

(* The devices telldus-core knows are there until the worker has ended.      *)
DevicesInv ==
    /\ m_vpTelldusDevices \subseteq Devices
    /\ m_vpTelldusDevices # {} => TELLDUS_ACTIVE
    /\ TELLDUS_ACTIVE /\ wpc # "done" => m_vpTelldusDevices = Devices
    /\ wpc = "transmit" => Known(setting)
    /\ wpc = "done" => mainPc \notin {"configure", "forward"}
    /\ mainPc \in {"deleteDevices", "close", "destroyed"} => wpc = "done"

(* How often a command was sent depends on whether it still waits.           *)
Mine(c) == TELLDUS_ACTIVE /\ c \in accepted /\ \E d \in Devices : ForDevice(c, d)
SendsInv ==
    /\ sends \in [DOMAIN Commands -> 0 .. TELLDUSDEVICE_RETRANSMIT]
    /\ \A c \in DOMAIN Commands :
           sends[c] = IF ~Mine(c) THEN 0
                      ELSE IF c = setting THEN transmitted
                      ELSE IF c \in Waiting THEN 0
                      ELSE TELLDUSDEVICE_RETRANSMIT

(* A device was told last what the last command for it that was sent says.   *)
ToldInv ==
    /\ deviceState \in [Devices -> {"unknown", "on", "off"}]
    /\ \A d \in Devices :
           \/ deviceState[d] = "unknown"
              /\ \A c \in DOMAIN Commands : ForDevice(c, d) => sends[c] = 0
           \/ \E c \in DOMAIN Commands :
                  /\ ForDevice(c, d) /\ sends[c] > 0 /\ deviceState[d] = StateOf(c)
                  /\ \A e \in DOMAIN Commands : ForDevice(e, d) /\ sends[e] > 0 => e <= c

(* Of the commands accepted for a device there is a last one.                *)
LastInv ==
    \A d \in Devices :
        \/ \A c \in accepted : ~ForDevice(c, d)
        \/ \E c \in accepted : /\ ForDevice(c, d)
                               /\ \A e \in accepted : ForDevice(e, d) => e <= c

(* The invariant behind DevicesFollow and StopFinishesCommands.              *)
CommandsInv == QueueInv /\ DevicesInv /\ SendsInv /\ ToldInv /\ LastInv

(* The bounds of the numbers of events.                                      *)
BoundsInv ==
    /\ Len(m_RawDeviceQueue) <= RawSize /\ Len(m_TxQueue) <= Size
    /\ offered <= MaxEvents /\ (callback # <<>> => offered < MaxEvents)
    /\ wpc \in {"unborn", "test", "handle", "transmit", "run", "publish", "done"}
    /\ mainPc \in {"configure", "forward", "join", "deleteDevices", "close", "destroyed"}
    /\ handled \in Nat

-----------------------------------------------------------------------------
(* What happens to a queue of commands                                       *)

(* Take a command from the queue.                                            *)
LEMMA TailOrdered ==
    ASSUME NEW q \in Seq(Nat), Ordered(q), q # <<>>
    PROVE  /\ Head(q) \in Nat /\ Tail(q) \in Seq(Nat) /\ Len(Tail(q)) <= Len(q)
           /\ Elements(q) = {Head(q)} \union Elements(Tail(q))
           /\ Ordered(Tail(q))
           /\ \A e \in Elements(Tail(q)) : Head(q) # StopAll /\ (e = StopAll \/ Head(q) < e)
           /\ Head(q) = StopAll => Tail(q) = <<>>
<1> DEFINE t == Tail(q)
<1>1. /\ t \in Seq(Nat) /\ Len(t) = Len(q) - 1 /\ Len(q) \in Nat /\ Len(q) > 0
      /\ Head(q) = q[1] /\ Head(q) \in Nat
      /\ \A j \in 1 .. Len(t) : t[j] = q[j + 1]
  BY HeadTailProperties, LenProperties, EmptySeq
<1> HIDE DEF t
<1>2. \A j \in 1 .. Len(t) : j + 1 \in 1 .. Len(q) /\ t[j] = q[j + 1] /\ 1 < j + 1
  BY <1>1
<1>3. 1 \in 1 .. Len(q)
  BY <1>1
<1>4. \A j \in 1 .. Len(q) : j = 1 \/ (j - 1 \in 1 .. Len(t) /\ t[j - 1] = q[j])
  BY <1>1
<1>5. Elements(q) = {Head(q)} \union Elements(t)
  <2>1. \A j \in 1 .. Len(q) : q[j] = Head(q) \/ q[j] \in Elements(t)
    <3> SUFFICES ASSUME NEW j \in 1 .. Len(q), j # 1 PROVE q[j] \in Elements(t)
      BY <1>1
    <3> QED
      BY <1>4 DEF Elements
  <2>2. \A j \in 1 .. Len(t) : t[j] \in Elements(q)
    BY <1>2 DEF Elements
  <2>3. Head(q) \in Elements(q)
    BY <1>1, <1>3 DEF Elements
  <2>4. Elements(q) \subseteq {Head(q)} \union Elements(t)
    BY <2>1 DEF Elements
  <2>5. Elements(t) \subseteq Elements(q)
    BY <2>2 DEF Elements
  <2> QED
    BY <2>3, <2>4, <2>5
<1>6. Ordered(t)
  <2> SUFFICES ASSUME NEW i \in 1 .. Len(t), NEW j \in 1 .. Len(t), i < j
               PROVE  t[i] # StopAll /\ (t[j] = StopAll \/ t[i] < t[j])
    BY DEF Ordered
  <2>1. i + 1 < j + 1 /\ i + 1 \in 1 .. Len(q) /\ j + 1 \in 1 .. Len(q)
    BY <1>1, <1>2
  <2> QED
    BY <1>2, <2>1 DEF Ordered
<1>7. \A e \in Elements(t) : Head(q) # StopAll /\ (e = StopAll \/ Head(q) < e)
  <2> SUFFICES ASSUME NEW j \in 1 .. Len(t)
               PROVE  Head(q) # StopAll /\ (t[j] = StopAll \/ Head(q) < t[j])
    BY DEF Elements
  <2> QED
    BY <1>1, <1>2, <1>3 DEF Ordered
<1>8. Head(q) = StopAll => t = <<>>
  <2> SUFFICES ASSUME Head(q) = StopAll PROVE t = <<>>
    OBVIOUS
  <2>1. Len(t) = 0
    <3>1. \A e \in Elements(t) : FALSE
      BY <1>7
    <3>2. 1 \notin 1 .. Len(t)
      BY <3>1 DEF Elements
    <3>3. Len(t) \in Nat
      BY <1>1
    <3> QED
      BY <3>2, <3>3
  <2> QED
    BY <1>1, <2>1, EmptySeq
<1> QED
  BY <1>1, <1>5, <1>6, <1>7, <1>8 DEF t

(* Append a later command, or STOP_ALL.                                      *)
LEMMA AppendOrdered ==
    ASSUME NEW q \in Seq(Nat), NEW x \in Nat, Ordered(q),
           \A e \in Elements(q) : e # StopAll /\ (x = StopAll \/ e < x)
    PROVE  /\ Append(q, x) \in Seq(Nat) /\ Len(Append(q, x)) = Len(q) + 1
           /\ Elements(Append(q, x)) = Elements(q) \union {x}
           /\ Ordered(Append(q, x))
<1> DEFINE t == Append(q, x)
<1>1. /\ t \in Seq(Nat) /\ Len(t) = Len(q) + 1 /\ Len(q) \in Nat /\ t[Len(q) + 1] = x
      /\ \A j \in 1 .. Len(q) : t[j] = q[j]
  BY AppendProperties, LenProperties
<1> HIDE DEF t
<1>2. \A j \in 1 .. Len(t) : j = Len(q) + 1 \/ j \in 1 .. Len(q)
  BY <1>1
<1>3. \A j \in 1 .. Len(q) : j \in 1 .. Len(t) /\ q[j] \in Elements(q)
  BY <1>1 DEF Elements
<1>4. Len(q) + 1 \in 1 .. Len(t)
  BY <1>1
<1>5. Elements(t) = Elements(q) \union {x}
  BY <1>1, <1>2, <1>3, <1>4 DEF Elements
<1>6. Ordered(t)
  <2> SUFFICES ASSUME NEW i \in 1 .. Len(t), NEW j \in 1 .. Len(t), i < j
               PROVE  t[i] # StopAll /\ (t[j] = StopAll \/ t[i] < t[j])
    BY DEF Ordered
  <2>1. i \in 1 .. Len(q) /\ t[i] = q[i] /\ q[i] \in Elements(q)
    BY <1>1, <1>2, <1>3, SMTT(20)
  <2>2. CASE j \in 1 .. Len(q)
    BY <1>1, <2>1, <2>2 DEF Ordered
  <2>3. CASE j = Len(q) + 1
    BY <1>1, <2>1, <2>3
  <2> QED
    BY <1>2, <2>2, <2>3
<1> QED
  BY <1>1, <1>5, <1>6 DEF t

-----------------------------------------------------------------------------
(* What the steps do to the queue of commands                                *)

(* Steps that leave the queue and the command in work alone.                 *)
QueueAlone ==
    /\ UNCHANGED <<m_RxQueue, m_RequestStop, delivered, accepted, setting, transmitted>>
    /\ wpc' = "transmit" <=> wpc = "transmit"
    /\ wpc' = "done" => m_RequestStop
    /\ mainPc' = "configure" => wpc' = "unborn"
    /\ mainPc \notin {"configure", "forward"} => mainPc' \notin {"configure", "forward"}

LEMMA AloneQueue == QueueInv /\ QueueAlone => QueueInv'
  BY DEF QueueInv, QueueAlone, Waiting

(* All steps but these five leave the queue of commands alone.              *)
LEMMA OthersQueueAlone ==
    QueueInv /\ [Next]_vars /\ ~HandleMessage /\ ~Transmit /\ ~TransmitEnd
        /\ ~Deliver /\ ~RequestStop => QueueAlone
<1> SUFFICES ASSUME QueueInv, [Next]_vars, ~HandleMessage, ~Transmit, ~TransmitEnd,
                    ~Deliver, ~RequestStop
             PROVE  QueueAlone
  OBVIOUS
<1> USE DEF QueueInv, QueueAlone
<1>1. CASE RawDeviceEvent \/ ParseRawDeviceEvent
  BY <1>1 DEF RawDeviceEvent, ParseRawDeviceEvent, worker, commandVars
<1>2. CASE LoopTest
  BY <1>2 DEF LoopTest, commandVars
<1>3. CASE HandleEnd \/ RunEnd
  BY <1>3 DEF HandleEnd, RunEnd, commandVars
<1>4. CASE RunPop \/ RunPush
  BY <1>4 DEF RunPop, RunPush, commandVars
<1>5. CASE Main
  <2>1. CASE Take
    BY <2>1 DEF Take, worker, commandVars
  <2>2. CASE Join \/ DeleteDevices \/ TdClose
    BY <2>2 DEF Join, DeleteDevices, TdClose, worker, commandVars
  <2> QED
    BY <1>5, <2>1, <2>2 DEF Main
<1>6. CASE RequestRun
  BY <1>6 DEF RequestRun, commandVars
<1>7. CASE UNCHANGED vars
  BY <1>7 DEF vars, worker, commandVars
<1> QED
  BY <1>1, <1>2, <1>3, <1>4, <1>5, <1>6, <1>7 DEF Next, Worker

(* Take a command or STOP_ALL: a command without effect is finished at once. *)
LEMMA HandleQueue == QueueInv /\ HandleMessage => QueueInv'
<1> SUFFICES ASSUME QueueInv, HandleMessage PROVE QueueInv'
  OBVIOUS
<1> DEFINE q == m_RxQueue
           c == Head(q)
           E == Elements(Tail(q))
<1>1. /\ wpc = "handle" /\ q # <<>> /\ q' = Tail(q)
      /\ UNCHANGED <<mainPc, delivered, accepted>>
      /\ m_RequestStop' = (m_RequestStop \/ c = StopAll)
      /\ \/ c # StopAll /\ wpc' = "transmit" /\ setting' = c /\ transmitted' = 0
         \/ UNCHANGED <<wpc, setting, transmitted>>
  BY DEF HandleMessage, IsEmpty, commandVars
<1>2. /\ q \in Seq(Nat) /\ Len(q) <= Size /\ Ordered(q) /\ setting = 0 /\ m_RequestStop = FALSE
      /\ Waiting = Elements(q) \ {StopAll}
  BY <1>1 DEF QueueInv, Waiting, StopAll
<1>3. /\ c \in Nat /\ Tail(q) \in Seq(Nat) /\ Len(Tail(q)) <= Len(q) /\ Elements(q) = {c} \union E
      /\ Ordered(Tail(q)) /\ \A e \in E : c # StopAll /\ (e = StopAll \/ c < e)
      /\ c = StopAll => Tail(q) = <<>>
  BY <1>1, <1>2, TailOrdered
<1>4. Elements(m_RxQueue)' = E /\ Ordered(m_RxQueue)' /\ m_RxQueue' \in Seq(Nat)
      /\ (Len(m_RxQueue) <= Size)'
  <2>1. Len(q) \in Nat /\ Len(Tail(q)) \in Nat /\ Size \in Nat
    BY <1>2, <1>3, LenProperties, SizesAssumption
  <2> QED
    BY <1>1, <1>2, <1>3, <2>1 DEF Elements, Ordered
<1>5. Waiting' = ({setting'} \union E) \ {StopAll}
  BY <1>4 DEF Waiting
<1> HIDE DEF q, c, E
<1>6. \/ setting' = c /\ wpc' = "transmit" /\ transmitted' = 0 /\ c # StopAll
      \/ setting' = 0 /\ wpc' = "handle" /\ transmitted' = transmitted
  BY <1>1, <1>2
<1>7. Waiting' = Waiting \/ (setting' = 0 /\ Waiting' = E \ {StopAll} /\ Waiting \subseteq Waiting' \union {c})
  BY <1>2, <1>3, <1>5, <1>6 DEF StopAll
<1>8. Waiting' \subseteq accepted' /\ \A x \in accepted' \ Waiting' : \A e \in Waiting' : x < e
  <2>1. Waiting \subseteq accepted /\ \A x \in accepted \ Waiting : \A e \in Waiting : x < e
    BY DEF QueueInv
  <2>2. CASE Waiting' = Waiting
    BY <1>1, <2>1, <2>2
  <2>3. CASE setting' = 0 /\ Waiting' = E \ {StopAll} /\ Waiting \subseteq Waiting' \union {c}
    <3>1. Waiting' \subseteq Waiting
      BY <1>2, <1>3, <2>3
    <3>2. ASSUME NEW x \in accepted' \ Waiting', NEW e \in Waiting' PROVE x < e
      <4>1. x \in Waiting \/ x \in accepted \ Waiting
        BY <1>1, <3>2
      <4>2. x \in Waiting => x = c
        BY <2>3, <3>2
      <4>3. e \in Waiting /\ e \in E /\ e # StopAll
        BY <2>3, <3>1, <3>2
      <4> QED
        BY <1>3, <2>1, <4>1, <4>2, <4>3
    <3> QED
      BY <1>1, <2>1, <3>1, <3>2
  <2> QED
    BY <1>7, <2>2, <2>3
<1>9. /\ (m_RequestStop \/ StopAll \in Elements(m_RxQueue) => mainPc \notin {"configure", "forward"})'
      /\ (m_RequestStop => m_RxQueue = <<>>)'
      /\ m_RequestStop' \in BOOLEAN
      /\ mainPc' # "configure"
  BY <1>1, <1>2, <1>3, <1>4 DEF QueueInv, q
<1>10. /\ setting' \in Nat /\ \A e \in Elements(m_RxQueue)' : e = StopAll \/ setting' < e
       /\ setting' # 0 <=> wpc' = "transmit"
       /\ transmitted' \in 0 .. TELLDUSDEVICE_RETRANSMIT
       /\ setting' = 0 => transmitted' = 0
       /\ wpc' # "done"
  <2>1. \A e \in E : e = StopAll \/ 0 < e
    BY <1>3, LenProperties, ElementOfSeq DEF Elements, E, StopAll
  <2>2. transmitted \in 0 .. TELLDUSDEVICE_RETRANSMIT /\ (setting = 0 => transmitted = 0)
    BY DEF QueueInv
  <2>3. 0 \in 0 .. TELLDUSDEVICE_RETRANSMIT
    BY SizesAssumption
  <2> QED
    BY <1>2, <1>3, <1>4, <1>6, <2>1, <2>2, <2>3 DEF StopAll
<1>11. delivered' \in 0 .. Len(Commands) /\ accepted' \subseteq 1 .. delivered'
  BY <1>1 DEF QueueInv
<1> QED
  BY <1>4, <1>8, <1>9, <1>10, <1>11 DEF QueueInv

(* One more transmission, or the last one is done and the next command waits. *)
LEMMA TransmitQueue == QueueInv /\ (Transmit \/ TransmitEnd) => QueueInv'
<1> SUFFICES ASSUME QueueInv, Transmit \/ TransmitEnd PROVE QueueInv'
  OBVIOUS
<1>1. /\ UNCHANGED <<m_RxQueue, m_RequestStop, delivered, accepted, mainPc>>
      /\ wpc = "transmit" /\ setting \in Nat /\ setting # 0
      /\ transmitted \in 0 .. TELLDUSDEVICE_RETRANSMIT
      /\ Elements(m_RxQueue)' = Elements(m_RxQueue) /\ Ordered(m_RxQueue)' = Ordered(m_RxQueue)
  BY DEF Transmit, TransmitEnd, commandVars, QueueInv, Elements, Ordered
<1>2. CASE Transmit
  <2>1. wpc' = wpc /\ setting' = setting /\ transmitted' = transmitted + 1
        /\ transmitted < TELLDUSDEVICE_RETRANSMIT
    BY <1>2 DEF Transmit
  <2>2. transmitted' \in 0 .. TELLDUSDEVICE_RETRANSMIT /\ Waiting' = Waiting
    BY <1>1, <2>1, SizesAssumption DEF Waiting
  <2> QED
    BY <1>1, <2>1, <2>2 DEF QueueInv
<1>3. CASE TransmitEnd
  <2>1. wpc' = "handle" /\ setting' = 0 /\ transmitted' = 0
    BY <1>3 DEF TransmitEnd
  <2>2. Waiting = {setting} \union Waiting' /\ Waiting' = Elements(m_RxQueue) \ {StopAll}
    BY <1>1, <2>1 DEF Waiting, StopAll
  <2>3. \A x \in accepted \ Waiting' : \A e \in Waiting' : x < e
    BY <2>2 DEF QueueInv
  <2>4. \A e \in Elements(m_RxQueue) : e = StopAll \/ 0 < e
    BY LenProperties, ElementOfSeq DEF QueueInv, Elements, StopAll
  <2>5. 0 \in 0 .. TELLDUSDEVICE_RETRANSMIT
    BY SizesAssumption
  <2> QED
    BY <1>1, <2>1, <2>2, <2>3, <2>4, <2>5 DEF QueueInv
<1> QED
  BY <1>2, <1>3

(* Push a command or STOP_ALL, while the main thread forwards messages.      *)
LEMMA PushQueue ==
    ASSUME NEW x \in Nat, QueueInv, mainPc = "forward", HasSpace(m_RxQueue, Size),
           m_RxQueue' = Push(m_RxQueue, Size, x), setting' = setting,
           x = StopAll \/ x = delivered + 1
    PROVE  /\ m_RxQueue' \in Seq(Nat) /\ Len(m_RxQueue') <= Size /\ Ordered(m_RxQueue)'
           /\ Elements(m_RxQueue)' = Elements(m_RxQueue) \union {x}
           /\ StopAll \notin Elements(m_RxQueue) /\ ~m_RequestStop
           /\ Waiting' = (Waiting \union {x}) \ {StopAll}
           /\ \A e \in Elements(m_RxQueue)' : e = StopAll \/ setting < e
<1>1. /\ m_RxQueue \in Seq(Nat) /\ Ordered(m_RxQueue) /\ StopAll \notin Elements(m_RxQueue)
      /\ ~m_RequestStop /\ Elements(m_RxQueue) \subseteq Waiting /\ delivered \in Nat
      /\ setting \in Nat /\ (setting # 0 => setting \in Waiting)
      /\ \A e \in Waiting : e \in Nat /\ e <= delivered
      /\ m_RxQueue' = Append(m_RxQueue, x)
  <2>1. /\ m_RxQueue \in Seq(Nat) /\ Ordered(m_RxQueue) /\ StopAll \notin Elements(m_RxQueue)
        /\ ~m_RequestStop
    BY DEF QueueInv
  <2>2. m_RxQueue' = Append(m_RxQueue, x)
    BY DEF Push
  <2>3. Elements(m_RxQueue) \subseteq Waiting /\ setting \in Nat /\ (setting # 0 => setting \in Waiting)
    BY <2>1 DEF QueueInv, Waiting, StopAll
  <2>4. delivered \in Nat /\ \A e \in Waiting : e \in Nat /\ e <= delivered
    BY CommandsAssumption DEF QueueInv
  <2> QED
    BY <2>1, <2>2, <2>3, <2>4
<1>2. \A e \in Elements(m_RxQueue) : e # StopAll /\ (x = StopAll \/ e < x)
  BY <1>1
<1>3. /\ Append(m_RxQueue, x) \in Seq(Nat) /\ Len(Append(m_RxQueue, x)) = Len(m_RxQueue) + 1
      /\ Elements(Append(m_RxQueue, x)) = Elements(m_RxQueue) \union {x}
      /\ Ordered(Append(m_RxQueue, x))
  BY <1>1, <1>2, AppendOrdered
<1>4. Elements(m_RxQueue)' = Elements(m_RxQueue) \union {x} /\ Ordered(m_RxQueue)'
  BY <1>1, <1>3 DEF Elements, Ordered
<1>5. Len(m_RxQueue') <= Size
  <2>1. Len(m_RxQueue) \in Nat /\ Len(m_RxQueue) < Size
    BY <1>1, LenProperties DEF HasSpace
  <2> QED
    BY <1>1, <1>3, <2>1, SizesAssumption
<1>6. Waiting' = (Waiting \union {x}) \ {StopAll}
  BY <1>4 DEF Waiting
<1>7. \A e \in Elements(m_RxQueue)' : e = StopAll \/ setting < e
  <2>1. \A e \in Elements(m_RxQueue) : e = StopAll \/ setting < e
    BY DEF QueueInv
  <2>2. x = StopAll \/ setting < x
    BY <1>1
  <2> QED
    BY <1>4, <2>1, <2>2
<1> QED
  BY <1>1, <1>3, <1>4, <1>5, <1>6, <1>7

(* A command is delivered: it is the newest one.                             *)
LEMMA DeliverQueue == QueueInv /\ Deliver => QueueInv'
<1> SUFFICES ASSUME QueueInv, Deliver PROVE QueueInv'
  OBVIOUS
<1>1. /\ mainPc = "forward" /\ delivered < Len(Commands) /\ delivered' = delivered + 1
      /\ m_RxQueue' = Push(m_RxQueue, Size, delivered + 1)
      /\ accepted' = IF HasSpace(m_RxQueue, Size) THEN accepted \union {delivered + 1} ELSE accepted
      /\ UNCHANGED <<m_RequestStop, setting, transmitted, wpc, mainPc>>
  BY DEF Deliver, worker
<1>2. delivered \in Nat /\ Len(Commands) \in Nat /\ delivered + 1 \in 0 .. Len(Commands)
      /\ accepted \subseteq 1 .. delivered /\ Waiting \subseteq accepted
      /\ \A c \in accepted \ Waiting : \A e \in Waiting : c < e
  BY <1>1, CommandsAssumption DEF QueueInv
<1>3. CASE ~HasSpace(m_RxQueue, Size)
  <2>1. m_RxQueue' = m_RxQueue /\ accepted' = accepted
    BY <1>1, <1>3 DEF Push
  <2>2. Waiting' = Waiting /\ Elements(m_RxQueue)' = Elements(m_RxQueue)
        /\ Ordered(m_RxQueue)' = Ordered(m_RxQueue)
    BY <1>1, <2>1 DEF Waiting, Elements, Ordered
  <2>3. accepted' \subseteq 1 .. delivered'
    BY <1>1, <1>2, <2>1
  <2> QED
    BY <1>1, <1>2, <2>1, <2>2, <2>3 DEF QueueInv
<1>4. CASE HasSpace(m_RxQueue, Size)
  <2>1. /\ m_RxQueue' \in Seq(Nat) /\ Len(m_RxQueue') <= Size /\ Ordered(m_RxQueue)'
        /\ Elements(m_RxQueue)' = Elements(m_RxQueue) \union {delivered + 1}
        /\ StopAll \notin Elements(m_RxQueue) /\ ~m_RequestStop
        /\ Waiting' = (Waiting \union {delivered + 1}) \ {StopAll}
        /\ \A e \in Elements(m_RxQueue)' : e = StopAll \/ setting < e
    BY <1>1, <1>2, <1>4, PushQueue
  <2>2. StopAll \notin Elements(m_RxQueue)' /\ ~m_RequestStop' /\ accepted' = accepted \union {delivered + 1}
    BY <1>1, <1>2, <1>4, <2>1 DEF StopAll
  <2>3. accepted' \subseteq 1 .. delivered'
    BY <1>1, <1>2, <2>2
  <2>4. Waiting' = Waiting \union {delivered + 1} /\ delivered + 1 \notin accepted
    <3>1. StopAll \notin Waiting /\ delivered + 1 # StopAll /\ delivered + 1 \notin 1 .. delivered
      BY <1>2 DEF Waiting, StopAll
    <3> QED
      BY <1>2, <2>1, <3>1
  <2>5. Waiting' \subseteq accepted' /\ \A c \in accepted' \ Waiting' : \A e \in Waiting' : c < e
    <3>1. \A c \in accepted : c < delivered + 1
      BY <1>2
    <3> QED
      BY <1>2, <2>2, <2>4, <3>1
  <2>6. m_RequestStop' \in BOOLEAN
    BY <1>1 DEF QueueInv
  <2>7. /\ setting' \in Nat /\ (setting' # 0 <=> wpc' = "transmit")
        /\ transmitted' \in 0 .. TELLDUSDEVICE_RETRANSMIT /\ (setting' = 0 => transmitted' = 0)
        /\ (wpc' = "done" => m_RequestStop')
    BY <1>1 DEF QueueInv
  <2> QED
    BY <1>1, <1>2, <2>1, <2>2, <2>3, <2>5, <2>6, <2>7 DEF QueueInv
<1> QED
  BY <1>3, <1>4

(* STOP_ALL is the last message of all.                                      *)
LEMMA RequestStopQueue == QueueInv /\ RequestStop => QueueInv'
<1> SUFFICES ASSUME QueueInv, RequestStop PROVE QueueInv'
  OBVIOUS
<1>1. /\ mainPc = "forward" /\ mainPc' = "join"
      /\ m_RxQueue' = Push(m_RxQueue, Size, StopAll)
      /\ UNCHANGED <<m_RequestStop, setting, transmitted, wpc, delivered, accepted>>
  BY DEF RequestStop, worker, commandVars
<1>2. StopAll \in Nat
  BY DEF StopAll
<1>3. CASE ~HasSpace(m_RxQueue, Size)
  <2>1. m_RxQueue' = m_RxQueue
    BY <1>1, <1>3 DEF Push
  <2>2. Waiting' = Waiting /\ Elements(m_RxQueue)' = Elements(m_RxQueue)
        /\ Ordered(m_RxQueue)' = Ordered(m_RxQueue)
    BY <1>1, <2>1 DEF Waiting, Elements, Ordered
  <2> QED
    BY <1>1, <2>1, <2>2 DEF QueueInv
<1>4. CASE HasSpace(m_RxQueue, Size)
  <2>1. /\ m_RxQueue' \in Seq(Nat) /\ Len(m_RxQueue') <= Size /\ Ordered(m_RxQueue)'
        /\ ~m_RequestStop
        /\ Waiting' = (Waiting \union {StopAll}) \ {StopAll}
        /\ \A e \in Elements(m_RxQueue)' : e = StopAll \/ setting < e
    BY <1>1, <1>2, <1>4, PushQueue
  <2>2. Waiting' = Waiting
    BY <2>1 DEF Waiting
  <2> QED
    BY <1>1, <2>1, <2>2 DEF QueueInv
<1> QED
  BY <1>3, <1>4

(* The commands stay in order at every step.                                *)
LEMMA NextQueue == QueueInv /\ [Next]_vars => QueueInv'
  BY AloneQueue, OthersQueueAlone, HandleQueue, TransmitQueue, DeliverQueue, RequestStopQueue

-----------------------------------------------------------------------------
(* The devices and what they are told                                        *)

(* The devices go only after the worker has ended.                          *)
LEMMA NextDevices == DevicesInv /\ QueueInv /\ [Next]_vars => DevicesInv'
<1> SUFFICES ASSUME DevicesInv, QueueInv, [Next]_vars PROVE DevicesInv'
  OBVIOUS
<1> USE DEF DevicesInv, Known
<1>1. CASE RawDeviceEvent \/ ParseRawDeviceEvent
  BY <1>1 DEF RawDeviceEvent, ParseRawDeviceEvent, worker
<1>2. CASE LoopTest
  BY <1>2 DEF LoopTest, QueueInv
<1>3. CASE HandleMessage
  BY <1>3 DEF HandleMessage
<1>4. CASE Transmit \/ TransmitEnd \/ HandleEnd
  BY <1>4 DEF Transmit, TransmitEnd, HandleEnd
<1>5. CASE RunPop \/ RunPush \/ RunEnd
  BY <1>5 DEF RunPop, RunPush, RunEnd
<1>6. CASE Main
  <2>1. CASE Take \/ Join \/ TdClose
    BY <2>1 DEF Take, Join, TdClose, worker
  <2>2. CASE DeleteDevices
    BY <2>2 DEF DeleteDevices, worker
  <2> QED
    BY <1>6, <2>1, <2>2 DEF Main
<1>7. CASE RequestRun \/ Deliver \/ RequestStop
  BY <1>7 DEF RequestRun, Deliver, RequestStop, worker
<1>8. CASE UNCHANGED vars
  BY <1>8 DEF vars, worker
<1> QED
  BY <1>1, <1>2, <1>3, <1>4, <1>5, <1>6, <1>7, <1>8 DEF Next, Worker

(* Steps that send nothing and accept nothing.                               *)
RadioAlone == UNCHANGED <<deviceState, sends, accepted>>

(* Only SetState sends, only the main thread delivers.                      *)
LEMMA OthersRadioAlone == [Next]_vars /\ ~Transmit /\ ~Deliver => RadioAlone
<1> SUFFICES ASSUME [Next]_vars, ~Transmit, ~Deliver PROVE RadioAlone
  OBVIOUS
<1> USE DEF RadioAlone, radio, commandVars
<1>1. CASE RawDeviceEvent \/ ParseRawDeviceEvent
  BY <1>1 DEF RawDeviceEvent, ParseRawDeviceEvent
<1>2. CASE Worker
  <2>1. CASE LoopTest \/ HandleMessage \/ TransmitEnd \/ HandleEnd
    BY <2>1 DEF LoopTest, HandleMessage, TransmitEnd, HandleEnd
  <2>2. CASE RunPop \/ RunPush \/ RunEnd
    BY <2>2 DEF RunPop, RunPush, RunEnd
  <2> QED
    BY <1>2, <2>1, <2>2 DEF Worker
<1>3. CASE Main \/ RequestRun \/ RequestStop
  BY <1>3 DEF Main, Take, Join, DeleteDevices, TdClose, RequestRun, RequestStop
<1>4. CASE UNCHANGED vars
  BY <1>4 DEF vars
<1> QED
  BY <1>1, <1>2, <1>3, <1>4 DEF Next

(* What is due to be sent of a command.                                      *)
Due(c) == IF ~Mine(c) THEN 0
          ELSE IF c = setting THEN transmitted
          ELSE IF c \in Waiting THEN 0
          ELSE TELLDUSDEVICE_RETRANSMIT

(* Commands are accepted only while the worker lives, so that one that is    *)
(* dropped as unknown is for no device.                                      *)
LEMMA SkippedIsNotMine ==
    ASSUME QueueInv, DevicesInv, wpc # "done", NEW c \in DOMAIN Commands, ~Known(c)
    PROVE  ~Mine(c)
  BY DEF DevicesInv, Known, Mine, ForDevice

(* Taking a command from the queue sends nothing yet.                       *)
LEMMA HandleDue ==
    ASSUME QueueInv, DevicesInv, HandleMessage, NEW c \in DOMAIN Commands
    PROVE  Due(c)' = Due(c)
<1> DEFINE q == m_RxQueue
           h == Head(q)
           E == Elements(Tail(q))
<1>1. /\ wpc = "handle" /\ q # <<>> /\ q' = Tail(q) /\ accepted' = accepted
      /\ \/ h # StopAll /\ Known(h) /\ setting' = h /\ transmitted' = 0
         \/ ~(h # StopAll /\ Known(h)) /\ UNCHANGED <<setting, transmitted>>
  BY DEF HandleMessage, IsEmpty, commandVars
<1>2. /\ q \in Seq(Nat) /\ Ordered(q) /\ setting = 0 /\ transmitted = 0
      /\ Waiting = Elements(q) \ {StopAll}
  BY <1>1 DEF QueueInv, Waiting, StopAll
<1>3. /\ h \in Nat /\ Elements(q) = {h} \union E
      /\ \A e \in E : h # StopAll /\ (e = StopAll \/ h < e)
  BY <1>1, <1>2, TailOrdered
<1>4. Elements(m_RxQueue)' = E
  BY <1>1 DEF Elements
<1>5. Waiting' = ({setting'} \union E) \ {StopAll}
  BY <1>4 DEF Waiting
<1>6. Mine(c)' = Mine(c) /\ c \in Nat \ {0}
  BY <1>1, CommandsAssumption DEF Mine, ForDevice
<1>7. CASE ~Mine(c)
  BY <1>6, <1>7 DEF Due
<1>8. CASE Mine(c) /\ c = h
  <2>1. Known(h) /\ h # StopAll
    BY <1>1, <1>6, <1>8, SkippedIsNotMine DEF StopAll
  <2>2. setting' = c /\ transmitted' = 0
    BY <1>1, <1>8, <2>1
  <2>3. c # setting /\ c \in Waiting
    BY <1>2, <1>3, <1>6, <1>8, <2>1
  <2> QED
    BY <1>6, <1>8, <2>2, <2>3 DEF Due
<1>9. CASE Mine(c) /\ c # h
  <2>1. c # setting /\ c # setting'
    BY <1>1, <1>2, <1>6, <1>9
  <2>2. c \in Waiting <=> c \in Waiting'
    BY <1>2, <1>3, <1>5, <1>9, <2>1
  <2> QED
    BY <1>6, <1>9, <2>1, <2>2 DEF Due
<1> QED
  BY <1>7, <1>8, <1>9

(* A command that is finished has been sent often enough.                   *)
LEMMA TransmitEndDue ==
    ASSUME QueueInv, DevicesInv, TransmitEnd, NEW c \in DOMAIN Commands
    PROVE  Due(c)' = Due(c)
<1>1. /\ wpc = "transmit" /\ transmitted >= TELLDUSDEVICE_RETRANSMIT /\ setting' = 0
      /\ UNCHANGED <<m_RxQueue, accepted>>
  BY DEF TransmitEnd, commandVars
<1>2. transmitted = TELLDUSDEVICE_RETRANSMIT /\ setting # 0
      /\ \A e \in Elements(m_RxQueue) : e = StopAll \/ setting < e
  BY <1>1, SizesAssumption DEF QueueInv
<1>3. Mine(c)' = Mine(c) /\ c \in Nat \ {0}
  BY <1>1, CommandsAssumption DEF Mine, ForDevice
<1>4. Waiting' = Elements(m_RxQueue) \ {StopAll} /\ Waiting = ({setting} \union Elements(m_RxQueue)) \ {StopAll}
  BY <1>1 DEF Waiting, Elements, StopAll
<1>5. setting \notin Waiting' /\ c # setting'
  BY <1>1, <1>2, <1>3, <1>4 DEF QueueInv
<1>6. c # setting => (c \in Waiting <=> c \in Waiting')
  BY <1>4
<1> QED
  BY <1>2, <1>3, <1>5, <1>6 DEF Due

(* A command that is delivered has not been sent yet.                       *)
LEMMA DeliverDue ==
    ASSUME QueueInv, DevicesInv, Deliver, NEW c \in DOMAIN Commands
    PROVE  Due(c)' = Due(c)
<1>1. /\ mainPc = "forward" /\ delivered < Len(Commands)
      /\ m_RxQueue' = Push(m_RxQueue, Size, delivered + 1)
      /\ accepted' = IF HasSpace(m_RxQueue, Size) THEN accepted \union {delivered + 1} ELSE accepted
      /\ UNCHANGED <<setting, transmitted>>
  BY DEF Deliver, worker
<1>2. delivered \in Nat /\ accepted \subseteq 1 .. delivered /\ Waiting \subseteq accepted
      /\ (setting # 0 => setting \in accepted) /\ c \in Nat \ {0}
  BY CommandsAssumption DEF QueueInv, Waiting, StopAll
<1>3. CASE ~HasSpace(m_RxQueue, Size)
  <2>1. m_RxQueue' = m_RxQueue /\ accepted' = accepted
    BY <1>1, <1>3 DEF Push
  <2>2. Waiting' = Waiting /\ Mine(c)' = Mine(c)
    BY <1>1, <2>1 DEF Waiting, Elements, Mine, ForDevice
  <2> QED
    BY <1>1, <2>2 DEF Due
<1>4. CASE HasSpace(m_RxQueue, Size)
  <2>1. Waiting' = (Waiting \union {delivered + 1}) \ {StopAll}
    BY <1>1, <1>2, <1>4, PushQueue
  <2>2. CASE c = delivered + 1
    <3>1. c \notin accepted /\ c # setting /\ c \in Waiting'
      BY <1>2, <2>1, <2>2 DEF StopAll
    <3>2. ~Mine(c)
      BY <3>1 DEF Mine
    <3> QED
      BY <1>1, <3>1, <3>2 DEF Due
  <2>3. CASE c # delivered + 1
    <3>1. Mine(c)' = Mine(c)
      BY <1>1, <1>4, <2>3 DEF Mine, ForDevice
    <3>2. c \in Waiting <=> c \in Waiting'
      BY <1>2, <2>1, <2>3 DEF StopAll
    <3> QED
      BY <1>1, <3>1, <3>2 DEF Due
  <2> QED
    BY <2>2, <2>3
<1> QED
  BY <1>3, <1>4

(* STOP_ALL changes nothing about the commands before it.                   *)
LEMMA RequestStopDue ==
    ASSUME QueueInv, RequestStop, NEW c \in DOMAIN Commands
    PROVE  Due(c)' = Due(c)
<1>1. /\ mainPc = "forward" /\ m_RxQueue' = Push(m_RxQueue, Size, StopAll)
      /\ UNCHANGED <<setting, transmitted, accepted>>
  BY DEF RequestStop, worker, commandVars
<1>2. Waiting' = Waiting
  <2>1. CASE ~HasSpace(m_RxQueue, Size)
    BY <1>1, <2>1 DEF Push, Waiting, Elements
  <2>2. CASE HasSpace(m_RxQueue, Size)
    <3>1. StopAll \in Nat
      BY DEF StopAll
    <3>2. Waiting' = (Waiting \union {StopAll}) \ {StopAll}
      BY <1>1, <2>2, <3>1, PushQueue
    <3> QED
      BY <3>2 DEF Waiting
  <2> QED
    BY <2>1, <2>2
<1>3. Mine(c)' = Mine(c)
  BY <1>1 DEF Mine, ForDevice
<1> QED
  BY <1>1, <1>2, <1>3 DEF Due

(* All other steps leave the commands alone.                                *)
LEMMA OthersDue ==
    ASSUME QueueInv, [Next]_vars, ~HandleMessage, ~Transmit, ~TransmitEnd, ~Deliver, ~RequestStop,
           NEW c \in DOMAIN Commands
    PROVE  Due(c)' = Due(c)
<1>1. QueueAlone
  BY OthersQueueAlone
<1> QED
  BY <1>1 DEF QueueAlone, Due, Mine, ForDevice, Waiting, Elements

(* A transmission: the device of the command in work is told its state.      *)
LEMMA TransmitFacts ==
    ASSUME QueueInv, DevicesInv, Transmit
    PROVE  /\ TELLDUS_ACTIVE /\ setting \in DOMAIN Commands /\ Mine(setting) /\ setting \in Waiting
           /\ Commands[setting].id \in Devices /\ ForDevice(setting, Commands[setting].id)
           /\ transmitted \in Nat /\ transmitted + 1 \in 0 .. TELLDUSDEVICE_RETRANSMIT
           /\ transmitted' = transmitted + 1
           /\ deviceState' = [deviceState EXCEPT ![Commands[setting].id] = StateOf(setting)]
           /\ sends' = [sends EXCEPT ![setting] = @ + 1]
           /\ UNCHANGED <<setting, accepted, m_RxQueue>>
<1>1. wpc = "transmit" /\ transmitted < TELLDUSDEVICE_RETRANSMIT /\ transmitted' = transmitted + 1
      /\ UNCHANGED <<setting, accepted, m_RxQueue>>
  BY DEF Transmit, commandVars
<1>2. Known(setting) /\ TELLDUS_ACTIVE /\ Commands[setting].id \in Devices
  BY <1>1 DEF DevicesInv, Known
<1>3. setting \in Waiting /\ setting \in accepted /\ setting # 0
  BY <1>1 DEF QueueInv, Waiting, StopAll
<1>4. setting \in DOMAIN Commands
  <2>1. setting \in 1 .. delivered /\ delivered \in 0 .. Len(Commands)
    BY <1>3 DEF QueueInv
  <2> QED
    BY <2>1, CommandsAssumption
<1>5. ForDevice(setting, Commands[setting].id)
  BY <1>2, <1>4 DEF ForDevice, Known
<1>6. Mine(setting)
  BY <1>2, <1>3, <1>5 DEF Mine
<1>7. transmitted \in Nat /\ transmitted + 1 \in 0 .. TELLDUSDEVICE_RETRANSMIT
  BY <1>1, SizesAssumption DEF QueueInv
<1>8. /\ deviceState' = [deviceState EXCEPT ![Commands[setting].id] = StateOf(setting)]
      /\ sends' = [sends EXCEPT ![setting] = @ + 1]
  BY <1>2, <1>3 DEF Transmit, StateOf
<1> QED
  BY <1>1, <1>2, <1>3, <1>4, <1>5, <1>6, <1>7, <1>8

(* SendsInv is kept by every step.                                          *)
LEMMA NextSends == QueueInv /\ DevicesInv /\ SendsInv /\ [Next]_vars => SendsInv'
<1> SUFFICES ASSUME QueueInv, DevicesInv, SendsInv, [Next]_vars PROVE SendsInv'
  OBVIOUS
<1>1. /\ sends \in [DOMAIN Commands -> 0 .. TELLDUSDEVICE_RETRANSMIT]
      /\ \A c \in DOMAIN Commands : sends[c] = Due(c)
  BY DEF SendsInv, Due
<1>2. /\ sends' \in [DOMAIN Commands -> 0 .. TELLDUSDEVICE_RETRANSMIT]
      /\ \A c \in DOMAIN Commands : sends'[c] = Due(c)'
  <2>1. CASE ~Transmit
    <3>1. sends' = sends
      BY <2>1, OthersRadioAlone DEF RadioAlone, Deliver, radio
    <3>2. ASSUME NEW c \in DOMAIN Commands PROVE Due(c)' = Due(c)
      BY <2>1, HandleDue, TransmitEndDue, DeliverDue, RequestStopDue, OthersDue
    <3> QED
      BY <1>1, <3>1, <3>2
  <2>2. CASE Transmit
    <3>1. /\ setting \in DOMAIN Commands /\ Mine(setting)
          /\ transmitted + 1 \in 0 .. TELLDUSDEVICE_RETRANSMIT /\ transmitted' = transmitted + 1
          /\ sends' = [sends EXCEPT ![setting] = @ + 1]
          /\ UNCHANGED <<setting, accepted, m_RxQueue>>
      BY <2>2, TransmitFacts
    <3>2. sends[setting] = transmitted
      BY <1>1, <3>1 DEF Due
    <3>3. sends' \in [DOMAIN Commands -> 0 .. TELLDUSDEVICE_RETRANSMIT]
      BY <1>1, <3>1, <3>2
    <3>4. ASSUME NEW c \in DOMAIN Commands PROVE sends'[c] = Due(c)'
      <4>1. Mine(c)' = Mine(c) /\ Waiting' = Waiting
        BY <3>1 DEF Mine, ForDevice, Waiting, Elements
      <4>2. CASE c = setting
        BY <1>1, <3>1, <3>2, <4>1, <4>2 DEF Due
      <4>3. CASE c # setting
        BY <1>1, <3>1, <4>1, <4>3 DEF Due
      <4> QED
        BY <4>2, <4>3
    <3> QED
      BY <3>3, <3>4
  <2> QED
    BY <2>1, <2>2
<1> QED
  BY <1>2 DEF SendsInv, Due

(* A command is sent only when those accepted before it are finished.        *)
LEMMA SentBefore ==
    ASSUME QueueInv, SendsInv, setting \in Waiting,
           NEW c \in DOMAIN Commands, sends[c] > 0, c # setting
    PROVE  c < setting
<1>1. Mine(c) /\ c \notin Waiting
  BY DEF SendsInv
<1>2. c \in accepted \ Waiting
  BY <1>1 DEF Mine
<1> QED
  BY <1>2 DEF QueueInv

(* ToldInv is kept by every step.                                           *)
LEMMA NextTold == QueueInv /\ DevicesInv /\ SendsInv /\ ToldInv /\ [Next]_vars => ToldInv'
<1> SUFFICES ASSUME QueueInv, DevicesInv, SendsInv, ToldInv, [Next]_vars PROVE ToldInv'
  OBVIOUS
<1>1. CASE ~Transmit
  <2>1. sends' = sends /\ deviceState' = deviceState
    BY <1>1, OthersRadioAlone DEF RadioAlone, Deliver, radio
  <2> QED
    BY <2>1 DEF ToldInv, ForDevice, StateOf
<1>2. CASE Transmit
  <2> DEFINE n == Commands[setting].id
  <2>1. /\ setting \in DOMAIN Commands /\ setting \in Waiting /\ n \in Devices /\ ForDevice(setting, n)
        /\ deviceState' = [deviceState EXCEPT ![n] = StateOf(setting)]
        /\ sends' = [sends EXCEPT ![setting] = @ + 1]
    BY <1>2, TransmitFacts
  <2>2. /\ sends \in [DOMAIN Commands -> 0 .. TELLDUSDEVICE_RETRANSMIT]
        /\ deviceState \in [Devices -> {"unknown", "on", "off"}]
        /\ sends[setting] \in Nat
    BY <2>1, SizesAssumption DEF SendsInv, ToldInv
  <2>3. deviceState' \in [Devices -> {"unknown", "on", "off"}]
    BY <2>1, <2>2 DEF StateOf
  <2>4. sends'[setting] > 0 /\ \A e \in DOMAIN Commands : e # setting => sends'[e] = sends[e]
    BY <2>1, <2>2
  <2>5. setting \in Nat
    BY DEF QueueInv
  <2>6. \A e \in DOMAIN Commands : sends'[e] > 0 => e <= setting
    BY <2>1, <2>4, <2>5, SentBefore, CommandsAssumption
  <2>7. ASSUME NEW d \in Devices
        PROVE  \/ deviceState'[d] = "unknown"
                  /\ \A c \in DOMAIN Commands : ForDevice(c, d) => sends'[c] = 0
               \/ \E c \in DOMAIN Commands :
                      /\ ForDevice(c, d) /\ sends'[c] > 0 /\ deviceState'[d] = StateOf(c)
                      /\ \A e \in DOMAIN Commands : ForDevice(e, d) /\ sends'[e] > 0 => e <= c
    <3>1. CASE d = n
      <4>1. deviceState'[d] = StateOf(setting)
        BY <2>1, <2>2, <3>1
      <4> QED
        BY <2>1, <2>4, <2>6, <3>1, <4>1
    <3>2. CASE d # n
      <4>1. deviceState'[d] = deviceState[d]
        BY <2>1, <2>2, <3>2
      <4>2. \A e \in DOMAIN Commands : ForDevice(e, d) => sends'[e] = sends[e]
        BY <2>4, <3>2 DEF ForDevice
      <4> QED
        BY <4>1, <4>2 DEF ToldInv
    <3> QED
      BY <3>1, <3>2
  <2> QED
    BY <2>3, <2>7 DEF ToldInv, ForDevice, StateOf
<1> QED
  BY <1>1, <1>2

(* LastInv is kept by every step: commands are accepted in rising order.    *)
LEMMA NextLast == QueueInv /\ LastInv /\ [Next]_vars => LastInv'
<1> SUFFICES ASSUME QueueInv, LastInv, [Next]_vars PROVE LastInv'
  OBVIOUS
<1>1. CASE accepted' = accepted
  BY <1>1 DEF LastInv, ForDevice
<1>2. CASE Deliver /\ accepted' # accepted
  <2>1. accepted' = accepted \union {delivered + 1}
    BY <1>2 DEF Deliver
  <2>2. delivered \in Nat /\ \A c \in accepted : c <= delivered + 1
    <3>1. delivered \in 0 .. Len(Commands) /\ accepted \subseteq 1 .. delivered
      BY DEF QueueInv
    <3>2. delivered \in Nat
      BY <3>1, CommandsAssumption
    <3> QED
      BY <3>1, <3>2
  <2>3. \A d \in Devices : ForDevice(delivered + 1, d) \/ ~ForDevice(delivered + 1, d)
    OBVIOUS
  <2> QED
    BY <2>1, <2>2, <2>3 DEF LastInv, ForDevice
<1>3. CASE Transmit
  BY <1>1, <1>3 DEF Transmit, commandVars
<1> QED
  BY <1>1, <1>2, <1>3, OthersRadioAlone DEF RadioAlone

-----------------------------------------------------------------------------
(* What follows for the devices                                              *)

(* No command has been delivered at the start.                              *)
LEMMA InitCommandsInv == Init => CommandsInv
<1> SUFFICES ASSUME Init PROVE CommandsInv
  OBVIOUS
<1>1. m_RxQueue = <<>> /\ Len(m_RxQueue) = 0 /\ \A e \in Elements(m_RxQueue) : FALSE
  BY DEF Init, Elements
<1>2. Waiting = {} /\ Len(Commands) \in Nat
  BY <1>1, CommandsAssumption DEF Init, Waiting, StopAll
<1>3. QueueInv
  <2>1. Ordered(m_RxQueue) /\ Len(m_RxQueue) <= Size /\ m_RxQueue \in Seq(Nat)
    BY <1>1, SizesAssumption DEF Ordered
  <2>2. 0 \in 0 .. TELLDUSDEVICE_RETRANSMIT
    BY SizesAssumption
  <2> QED
    <3>1. /\ m_RequestStop = FALSE /\ wpc = "unborn" /\ mainPc = "configure" /\ setting = 0
          /\ transmitted = 0 /\ delivered = 0 /\ accepted = {}
      BY DEF Init
    <3>2. 0 \in 0 .. Len(Commands)
      BY <1>2
    <3>3. StopAll \notin Elements(m_RxQueue)
      BY <1>1
    <3> QED
      BY <1>1, <1>2, <2>1, <2>2, <3>1, <3>2, <3>3 DEF QueueInv
<1>4. DevicesInv
  BY DEF Init, DevicesInv
<1>5. SendsInv
  BY SizesAssumption DEF Init, SendsInv, Mine
<1>6. ToldInv /\ LastInv
  BY DEF Init, ToldInv, LastInv
<1> QED
  BY <1>3, <1>4, <1>5, <1>6 DEF CommandsInv

(* Every command is sent completely before the next one begins, whatever is  *)
(* delivered meanwhile (TelldusManager.cpp:191-202 and ThreadBase.cpp:95-120). *)
THEOREM CommandsInvariance == Spec => []CommandsInv
<1>1. CommandsInv /\ [Next]_vars => CommandsInv'
  BY NextQueue, NextDevices, NextSends, NextTold, NextLast DEF CommandsInv
<1> QED
  BY <1>1, InitCommandsInv, PTL DEF Spec

(* The last command that was accepted for a device.                          *)
LEMMA LastAcceptedIs ==
    ASSUME CommandsInv, NEW d \in Devices
    PROVE  \/ /\ LastAccepted(d) = 0 /\ \A c \in accepted : ~ForDevice(c, d)
           \/ /\ LastAccepted(d) \in accepted /\ ForDevice(LastAccepted(d), d)
              /\ \A e \in accepted : ForDevice(e, d) => e <= LastAccepted(d)
<1> DEFINE cs == {c \in accepted : ForDevice(c, d)}
<1>1. CASE cs = {}
  BY <1>1 DEF LastAccepted
<1>2. CASE cs # {}
  <2>1. \E c \in cs : \A e \in cs : e <= c
    BY <1>2 DEF CommandsInv, LastInv
  <2>2. LastAccepted(d) = CHOOSE c \in cs : \A e \in cs : e <= c
    BY <1>2 DEF LastAccepted
  <2> HIDE DEF cs
  <2>3. LastAccepted(d) \in cs /\ \A e \in cs : e <= LastAccepted(d)
    BY <2>1, <2>2
  <2> QED
    BY <2>3 DEF cs
<1> QED
  BY <1>1, <1>2

(* The commands that wait, in the order in which they are carried out.       *)
LEMMA ToDoIs ==
    ASSUME QueueInv
    PROVE  /\ Len(ToDo) \in Nat
           /\ \A i \in 1 .. Len(ToDo) : ToDo[i] \in Nat /\ (ToDo[i] # StopAll => ToDo[i] \in Waiting)
           /\ \A e \in Waiting : \E i \in 1 .. Len(ToDo) : ToDo[i] = e
           /\ \A i, j \in 1 .. Len(ToDo) :
                  i < j => ToDo[j] = StopAll \/ ToDo[i] < ToDo[j]
<1> DEFINE q == m_RxQueue
           w == ToDo
<1>1. q \in Seq(Nat) /\ Ordered(q) /\ setting \in Nat
      /\ \A e \in Elements(q) : e = StopAll \/ setting < e
  BY DEF QueueInv
<1>2. /\ Len(w) = Len(q) + 1 /\ Len(q) \in Nat /\ w[1] = setting
      /\ \A i \in 1 .. Len(q) : w[i + 1] = q[i]
  <2>1. <<setting>> \in Seq(Nat) /\ Len(<<setting>>) = 1 /\ <<setting>>[1] = setting
    BY <1>1
  <2>2. /\ Len(<<setting>> \o q) = 1 + Len(q) /\ Len(q) \in Nat
        /\ \A i \in 1 .. 1 + Len(q) : (<<setting>> \o q)[i] = IF i <= 1 THEN <<setting>>[i] ELSE q[i - 1]
    BY <1>1, <2>1, ConcatProperties, LenProperties
  <2> HIDE DEF q
  <2>3. /\ Len(w) = Len(q) + 1
        /\ \A i \in 1 .. Len(q) + 1 : w[i] = IF i <= 1 THEN setting ELSE q[i - 1]
    BY <2>1, <2>2 DEF ToDo, q
  <2> HIDE DEF w
  <2>4. \A i \in 1 .. Len(q) : i + 1 \in 1 .. Len(q) + 1 /\ ~(i + 1 <= 1) /\ (i + 1) - 1 = i
    BY <2>2
  <2>5. 1 \in 1 .. Len(q) + 1
    BY <2>2
  <2> QED
    BY <2>2, <2>3, <2>4, <2>5
<1> HIDE DEF w
<1>3. \A i \in 1 .. Len(w) : i = 1 \/ (i - 1 \in 1 .. Len(q) /\ w[i] = q[i - 1])
  <2> SUFFICES ASSUME NEW i \in 1 .. Len(w), i # 1 PROVE i - 1 \in 1 .. Len(q) /\ w[i] = q[i - 1]
    OBVIOUS
  <2>1. i - 1 \in 1 .. Len(q) /\ (i - 1) + 1 = i
    BY <1>2
  <2> QED
    BY <1>2, <2>1
<1>4. \A i \in 1 .. Len(q) : q[i] \in Nat /\ q[i] \in Elements(q)
  BY <1>1, ElementOfSeq DEF Elements
<1>5. \A i \in 1 .. Len(w) : w[i] \in Nat /\ (w[i] # StopAll => w[i] \in Waiting)
  BY <1>1, <1>2, <1>3, <1>4 DEF Waiting
<1>6. ASSUME NEW e \in Waiting PROVE \E i \in 1 .. Len(w) : w[i] = e
  <2>1. CASE e = setting
    <3>1. 1 \in 1 .. Len(w)
      BY <1>2
    <3> QED
      BY <1>2, <2>1, <3>1
  <2>2. CASE e # setting
    <3>1. PICK i \in 1 .. Len(q) : q[i] = e
      BY <2>2 DEF Waiting, Elements
    <3>2. i + 1 \in 1 .. Len(w)
      BY <1>2
    <3> QED
      BY <1>2, <3>1, <3>2
  <2> QED
    BY <2>1, <2>2
<1>7. ASSUME NEW i \in 1 .. Len(w), NEW j \in 1 .. Len(w), i < j
      PROVE  w[j] = StopAll \/ w[i] < w[j]
  <2>1. j # 1 /\ j - 1 \in 1 .. Len(q) /\ w[j] = q[j - 1]
    BY <1>2, <1>3, <1>7
  <2>2. CASE i = 1
    BY <1>1, <1>2, <1>4, <2>1, <2>2
  <2>3. CASE i # 1
    <3>1. i - 1 \in 1 .. Len(q) /\ w[i] = q[i - 1] /\ i - 1 < j - 1
      BY <1>2, <1>3, <1>7, <2>3
    <3> QED
      BY <1>1, <2>1, <3>1 DEF Ordered
  <2> QED
    BY <2>2, <2>3
<1>8. Len(w) \in Nat
  BY <1>2
<1> QED
  BY <1>5, <1>6, <1>7, <1>8 DEF w

(* While a command for a device waits, its last one waits behind the others; *)
(* when none waits, the last one was sent after all others.                  *)
LEMMA FollowsFromCommands == CommandsInv => DevicesFollow
<1> SUFFICES ASSUME CommandsInv, TELLDUS_ACTIVE, NEW d \in Devices
             PROVE  LET waiting == {i \in 1 .. Len(ToDo) : ForDevice(ToDo[i], d)}
                    IN  IF waiting = {} THEN deviceState[d] = StateOf(LastAccepted(d))
                        ELSE \E i \in waiting : /\ \A j \in waiting : j <= i
                                                /\ ToDo[i] = LastAccepted(d)
  BY DEF DevicesFollow
<1> DEFINE waiting == {i \in 1 .. Len(ToDo) : ForDevice(ToDo[i], d)}
           last == LastAccepted(d)
<1>1. /\ Len(ToDo) \in Nat
      /\ \A i \in 1 .. Len(ToDo) : ToDo[i] \in Nat /\ (ToDo[i] # StopAll => ToDo[i] \in Waiting)
      /\ \A e \in Waiting : \E i \in 1 .. Len(ToDo) : ToDo[i] = e
      /\ \A i, j \in 1 .. Len(ToDo) : i < j => ToDo[j] = StopAll \/ ToDo[i] < ToDo[j]
  BY ToDoIs DEF CommandsInv
<1>2. \/ /\ last = 0 /\ \A c \in accepted : ~ForDevice(c, d)
      \/ /\ last \in accepted /\ ForDevice(last, d)
         /\ \A e \in accepted : ForDevice(e, d) => e <= last
  BY LastAcceptedIs
<1>3. Waiting \subseteq accepted /\ \A c \in accepted \ Waiting : \A e \in Waiting : c < e
  BY DEF CommandsInv, QueueInv
<1>4. \A c \in accepted : c \in DOMAIN Commands /\ c \in Nat /\ c # 0
  BY CommandsAssumption DEF CommandsInv, QueueInv
<1>5. \A c \in DOMAIN Commands : c \in Nat /\ c # 0
  BY CommandsAssumption
<1> HIDE DEF last
<1>6. ASSUME NEW i \in waiting
      PROVE  /\ i \in 1 .. Len(ToDo) /\ ToDo[i] # StopAll /\ ToDo[i] \in Waiting
             /\ ToDo[i] \in accepted /\ ForDevice(ToDo[i], d)
  <2>1. i \in 1 .. Len(ToDo) /\ ForDevice(ToDo[i], d)
    OBVIOUS
  <2>2. ToDo[i] # StopAll
    BY <1>5, <2>1 DEF ForDevice, StopAll
  <2> QED
    BY <1>1, <1>3, <2>1, <2>2
<1>7. CASE waiting # {}
  <2>1. PICK k \in waiting : TRUE
    BY <1>7
  <2>2. /\ last \in accepted /\ ForDevice(last, d)
        /\ \A e \in accepted : ForDevice(e, d) => e <= last
    BY <1>2, <1>6, <2>1
  <2>3. last \in Waiting
    <3>1. ToDo[k] \in Waiting /\ ToDo[k] <= last /\ ToDo[k] \in Nat /\ last \in Nat
      BY <1>1, <1>4, <1>6, <2>2
    <3>2. ~(last < ToDo[k])
      BY <3>1
    <3> QED
      BY <1>3, <2>2, <3>1, <3>2
  <2>4. PICK i \in 1 .. Len(ToDo) : ToDo[i] = last
    BY <1>1, <2>3
  <2>5. i \in waiting
    BY <2>2, <2>4
  <2>6. ASSUME NEW j \in waiting PROVE j <= i
    <3>1. /\ ToDo[j] \in accepted /\ ToDo[j] # StopAll /\ ToDo[j] <= last /\ j \in 1 .. Len(ToDo)
          /\ ToDo[j] \in Nat /\ last \in Nat
      BY <1>1, <1>4, <1>6, <2>2
    <3>2. i < j => last < ToDo[j]
      BY <1>1, <2>4, <3>1
    <3> QED
      BY <1>1, <3>1, <3>2
  <2> QED
    BY <1>7, <2>4, <2>5, <2>6 DEF last
<1>8. CASE waiting = {}
  <2>1. \A c \in Waiting : ~ForDevice(c, d)
    <3> SUFFICES ASSUME NEW c \in Waiting, ForDevice(c, d) PROVE FALSE
      OBVIOUS
    <3>1. PICK i \in 1 .. Len(ToDo) : ToDo[i] = c
      BY <1>1
    <3>2. i \in waiting
      BY <3>1
    <3> QED
      BY <1>8, <3>2
  <2>2. /\ sends \in [DOMAIN Commands -> 0 .. TELLDUSDEVICE_RETRANSMIT]
        /\ \A c \in DOMAIN Commands : ~Mine(c) => sends[c] = 0
        /\ \A c \in DOMAIN Commands :
              Mine(c) /\ c # setting /\ c \notin Waiting => sends[c] = TELLDUSDEVICE_RETRANSMIT
    BY DEF CommandsInv, SendsInv
  <2>3. \A c \in DOMAIN Commands : sends[c] \in Nat /\ (sends[c] > 0 => c \in accepted)
    BY <2>2, SizesAssumption DEF Mine
  <2>4. deviceState[d] = StateOf(last)
    <3>1. CASE last = 0 /\ \A c \in accepted : ~ForDevice(c, d)
      <4>1. \A c \in DOMAIN Commands : ForDevice(c, d) => ~(sends[c] > 0)
        BY <2>3, <3>1
      <4>2. deviceState[d] = "unknown"
        BY <4>1 DEF CommandsInv, ToldInv
      <4> QED
        BY <3>1, <4>2 DEF StateOf
    <3>2. CASE /\ last \in accepted /\ ForDevice(last, d)
               /\ \A e \in accepted : ForDevice(e, d) => e <= last
      <4>1. last \in DOMAIN Commands /\ last \in Nat /\ last # 0
        BY <1>4, <3>2
      <4>2. Mine(last) /\ last \notin Waiting
        BY <2>1, <3>2 DEF Mine
      <4>3. last # setting
        BY <4>1, <4>2 DEF Waiting, StopAll
      <4>4. sends[last] = TELLDUSDEVICE_RETRANSMIT
        BY <2>2, <4>1, <4>2, <4>3
      <4>5. sends[last] > 0 /\ sends[last] # 0
        BY <4>4, SizesAssumption
      <4>6. PICK c \in DOMAIN Commands :
                /\ ForDevice(c, d) /\ sends[c] > 0 /\ deviceState[d] = StateOf(c)
                /\ \A e \in DOMAIN Commands : ForDevice(e, d) /\ sends[e] > 0 => e <= c
        BY <3>2, <4>1, <4>5 DEF CommandsInv, ToldInv
      <4>7. last <= c /\ c <= last
        BY <2>3, <3>2, <4>1, <4>5, <4>6
      <4>8. c = last
        BY <1>5, <4>1, <4>7
      <4> QED
        BY <4>6, <4>8
    <3> QED
      BY <1>2, <3>1, <3>2
  <2> QED
    BY <1>8, <2>4 DEF last
<1> QED
  BY <1>7, <1>8

(* A device is in the state of the last command that m_RxQueue took for it,  *)
(* or that command still waits and is the last one to be carried out.        *)
THEOREM DevicesFollowCommands == Spec => []DevicesFollow
  BY FollowsFromCommands, CommandsInvariance, PTL

(* Stopping the thread does not cut SetState short, and STOP_ALL is behind   *)
(* every command m_RxQueue has taken: all of them are sent completely.       *)
THEOREM StopIsComplete == Spec => []StopFinishesCommands
<1>1. CommandsInv => StopFinishesCommands
  <2> SUFFICES ASSUME CommandsInv, TELLDUS_ACTIVE, wpc = "done",
                      NEW c \in accepted, NEW d \in Devices, ForDevice(c, d)
               PROVE  sends[c] = TELLDUSDEVICE_RETRANSMIT
    BY DEF StopFinishesCommands
  <2>1. m_RxQueue = <<>> /\ setting = 0
    BY DEF CommandsInv, QueueInv
  <2>2. Waiting = {}
    BY <2>1 DEF Waiting, Elements, StopAll
  <2>3. c \in DOMAIN Commands /\ c # 0
    BY CommandsAssumption DEF CommandsInv, QueueInv
  <2>4. Mine(c)
    BY DEF Mine
  <2> QED
    BY <2>1, <2>2, <2>3, <2>4 DEF CommandsInv, SendsInv
<1> QED
  BY <1>1, CommandsInvariance, PTL

-----------------------------------------------------------------------------
(* Types and bounds                                                          *)

(* No queue grows beyond its size, no event has a number beyond the bound.  *)
LEMMA NextBounds == BoundsInv /\ EventsInv /\ [Next]_vars => BoundsInv'
<1> SUFFICES ASSUME BoundsInv, EventsInv, [Next]_vars PROVE BoundsInv'
  OBVIOUS
<1>1. /\ m_RawDeviceQueue \in Seq(Nat) /\ m_TxQueue \in Seq(Nat)
      /\ Len(m_RawDeviceQueue) \in Nat /\ Len(m_TxQueue) \in Nat
      /\ RawSize \in Nat /\ Size \in Nat /\ MaxEvents \in Nat /\ handled \in Nat
      /\ offered \in Nat /\ callback \in {<<>>, <<offered + 1>>}
  BY LenProperties, SizesAssumption DEF EventsInv, BoundsInv
<1> USE DEF BoundsInv
<1>2. CASE RawDeviceEvent
  BY <1>1, <1>2 DEF RawDeviceEvent, events, worker
<1>3. CASE ParseRawDeviceEvent
  <2>1. callback = <<offered + 1>> /\ offered' = offered + 1 /\ callback' = <<>>
        /\ UNCHANGED <<m_TxQueue, wpc, mainPc, handled>>
        /\ m_RawDeviceQueue' = Push(m_RawDeviceQueue, RawSize, offered + 1)
    BY <1>1, <1>3 DEF ParseRawDeviceEvent, worker
  <2>2. Len(m_RawDeviceQueue') <= RawSize
    <3>1. CASE HasSpace(m_RawDeviceQueue, RawSize)
      <4>1. m_RawDeviceQueue' = Append(m_RawDeviceQueue, offered + 1)
            /\ Len(m_RawDeviceQueue) < RawSize
        BY <2>1, <3>1 DEF Push, HasSpace
      <4>2. offered + 1 \in Nat
        BY <1>1
      <4>3. Len(m_RawDeviceQueue') = Len(m_RawDeviceQueue) + 1
        BY <1>1, <4>1, <4>2, AppendProperties
      <4> QED
        BY <1>1, <4>1, <4>3
    <3>2. CASE ~HasSpace(m_RawDeviceQueue, RawSize)
      BY <2>1, <3>2 DEF Push
    <3> QED
      BY <3>1, <3>2
  <2>3. offered' <= MaxEvents
    BY <1>1, <2>1
  <2> QED
    BY <2>1, <2>2, <2>3
<1>4. CASE LoopTest \/ HandleEnd
  BY <1>1, <1>4 DEF LoopTest, HandleEnd, events
<1>5. CASE HandleMessage
  <2>1. /\ handled' = handled + 1 /\ UNCHANGED <<events, callback, mainPc>>
        /\ wpc' \in {"transmit", wpc}
    BY <1>5 DEF HandleMessage
  <2> QED
    BY <1>1, <2>1 DEF events
<1>6. CASE Transmit \/ TransmitEnd \/ RunEnd
  BY <1>1, <1>6 DEF Transmit, TransmitEnd, RunEnd, events
<1>7. CASE RunPop
  <2>1. /\ m_RawDeviceQueue # <<>> /\ m_RawDeviceQueue' = Tail(m_RawDeviceQueue)
        /\ handled' = handled + 1 /\ wpc' \in {wpc, "publish"}
        /\ UNCHANGED <<m_TxQueue, offered, callback, mainPc>>
    BY <1>7 DEF RunPop, IsEmpty
  <2>2. Len(m_RawDeviceQueue') = Len(m_RawDeviceQueue) - 1
    BY <1>1, <2>1, HeadTailProperties
  <2>3. handled' \in Nat /\ Len(m_RawDeviceQueue') <= RawSize
    BY <1>1, <2>1, <2>2
  <2> QED
    BY <2>1, <2>3
<1>8. CASE RunPush
  <2>1. /\ m_TxQueue' = Push(m_TxQueue, Size, data[1]) /\ wpc' = "run"
        /\ UNCHANGED <<m_RawDeviceQueue, offered, callback, mainPc, handled>>
        /\ data \in Seq(Nat) /\ Len(data) = 1
    BY <1>8 DEF RunPush, EventsInv
  <2>2. 1 \in 1 .. Len(data)
    BY <2>1
  <2>3. data[1] \in Nat
    BY <2>1, <2>2, ElementOfSeq
  <2>4. Len(m_TxQueue') <= Size
    <3>1. CASE HasSpace(m_TxQueue, Size)
      <4>1. m_TxQueue' = Append(m_TxQueue, data[1]) /\ Len(m_TxQueue) < Size
        BY <2>1, <3>1 DEF Push, HasSpace
      <4>2. Len(m_TxQueue') = Len(m_TxQueue) + 1
        BY <1>1, <2>3, <4>1, AppendProperties
      <4> QED
        BY <1>1, <4>1, <4>2
    <3>2. CASE ~HasSpace(m_TxQueue, Size)
      BY <2>1, <3>2 DEF Push
    <3> QED
      BY <3>1, <3>2
  <2> QED
    BY <2>1, <2>4
<1>9. CASE Take
  <2>1. /\ m_TxQueue # <<>> /\ m_TxQueue' = Tail(m_TxQueue)
        /\ UNCHANGED <<m_RawDeviceQueue, offered, callback, mainPc, handled, wpc>>
    BY <1>9 DEF Take, IsEmpty, worker
  <2>2. Len(m_TxQueue') = Len(m_TxQueue) - 1
    BY <1>1, <2>1, HeadTailProperties
  <2>3. Len(m_TxQueue') <= Size
    BY <1>1, <2>2
  <2> QED
    BY <2>1, <2>3
<1>10. CASE Join \/ DeleteDevices \/ TdClose
  BY <1>1, <1>10 DEF Join, DeleteDevices, TdClose, events, worker
<1>11. CASE RequestRun \/ Deliver \/ RequestStop
  BY <1>1, <1>11 DEF RequestRun, Deliver, RequestStop, events, worker
<1>12. CASE UNCHANGED vars
  BY <1>1, <1>12 DEF vars, events, worker
<1> QED
  BY <1>2, <1>3, <1>4, <1>5, <1>6, <1>7, <1>8, <1>9, <1>10, <1>11, <1>12 DEF Next, Worker, Main

(* The bounds hold always.                                                  *)
LEMMA BoundsInvariance == Spec => []BoundsInv
<1>1. Init => BoundsInv
  BY SizesAssumption DEF Init, BoundsInv
<1> QED
  BY <1>1, NextBounds, EventsInvariance, PTL DEF Spec

(* A sequence whose elements are in a set is a sequence over this set.       *)
LEMMA SeqOver ==
    ASSUME NEW S, NEW s \in Seq(Nat), Elements(s) \subseteq S
    PROVE  s \in Seq(S)
<1>1. Len(s) \in Nat /\ s \in [1 .. Len(s) -> Nat]
  BY LenProperties
<1>2. \A i \in 1 .. Len(s) : s[i] \in S
  BY DEF Elements
<1>3. s \in [1 .. Len(s) -> S]
  BY <1>1, <1>2
<1> QED
  BY <1>1, <1>3, SeqDef

(* Every event on its way has a number telldus-core has given.               *)
LEMMA NumbersInRange ==
    ASSUME EventsInv, BoundsInv
    PROVE  /\ m_RawDeviceQueue \in Seq(1 .. MaxEvents) /\ m_TxQueue \in Seq(1 .. MaxEvents)
           /\ data \in Seq(1 .. MaxEvents)
<1>1. /\ m_RawDeviceQueue \in Seq(Nat) /\ m_TxQueue \in Seq(Nat) /\ data \in Seq(Nat)
      /\ offered \in Nat /\ received \in Nat /\ offered <= MaxEvents /\ MaxEvents \in Nat
      /\ Elements(Transit) \subseteq received + 1 .. offered
  BY SizesAssumption DEF EventsInv, BoundsInv, EventsAccounted
<1>2. Elements(Transit) \subseteq 1 .. MaxEvents
  BY <1>1
<1> DEFINE k == Len(m_TxQueue)
           l == Len(data)
           n == Len(m_RawDeviceQueue)
<1>3. k \in Nat /\ l \in Nat /\ n \in Nat
  BY <1>1, LenProperties
<1>4. /\ Len(Transit) = k + l + n
      /\ \A i \in 1 .. k + l + n :
             Transit[i] = IF i <= k THEN m_TxQueue[i]
                          ELSE IF i <= k + l THEN data[i - k] ELSE m_RawDeviceQueue[i - k - l]
  BY <1>1, ConcatThree DEF Transit
<1> HIDE DEF k, l, n
<1>5. \A i \in 1 .. k : i \in 1 .. k + l + n /\ Transit[i] = m_TxQueue[i]
  BY <1>3, <1>4
<1>6. \A i \in 1 .. l : k + i \in 1 .. k + l + n /\ Transit[k + i] = data[i]
  <2> SUFFICES ASSUME NEW i \in 1 .. l
               PROVE  k + i \in 1 .. k + l + n /\ Transit[k + i] = data[i]
    OBVIOUS
  <2>1. k + i \in 1 .. k + l + n /\ ~(k + i <= k) /\ k + i <= k + l /\ (k + i) - k = i
    BY <1>3
  <2> QED
    BY <1>4, <2>1
<1>7. \A i \in 1 .. n : k + l + i \in 1 .. k + l + n /\ Transit[k + l + i] = m_RawDeviceQueue[i]
  <2> SUFFICES ASSUME NEW i \in 1 .. n
               PROVE  k + l + i \in 1 .. k + l + n /\ Transit[k + l + i] = m_RawDeviceQueue[i]
    OBVIOUS
  <2>1. k + l + i \in 1 .. k + l + n /\ ~(k + l + i <= k) /\ ~(k + l + i <= k + l)
        /\ (k + l + i) - k - l = i
    BY <1>3
  <2> QED
    BY <1>4, <2>1
<1>8. \A i \in 1 .. k + l + n : Transit[i] \in 1 .. MaxEvents
  BY <1>2, <1>4 DEF Elements
<1>9. /\ \A i \in 1 .. k : m_TxQueue[i] \in 1 .. MaxEvents
      /\ \A i \in 1 .. l : data[i] \in 1 .. MaxEvents
      /\ \A i \in 1 .. n : m_RawDeviceQueue[i] \in 1 .. MaxEvents
  BY <1>5, <1>6, <1>7, <1>8
<1>10. /\ Elements(m_TxQueue) \subseteq 1 .. MaxEvents
       /\ Elements(data) \subseteq 1 .. MaxEvents
       /\ Elements(m_RawDeviceQueue) \subseteq 1 .. MaxEvents
  BY <1>9 DEF Elements, k, l, n
<1> QED
  BY <1>1, <1>10, SeqOver

(* The three invariants say more than the types.                            *)
LEMMA TypeFromInvariants == CommandsInv /\ EventsInv /\ BoundsInv => TypeOK
<1> SUFFICES ASSUME CommandsInv, EventsInv, BoundsInv PROVE TypeOK
  OBVIOUS
<1>1. /\ m_RawDeviceQueue \in Seq(1 .. MaxEvents) /\ m_TxQueue \in Seq(1 .. MaxEvents)
      /\ data \in Seq(1 .. MaxEvents)
  BY NumbersInRange
<1>2. data \in {<<>>} \union {<<n>> : n \in 1 .. MaxEvents}
  <2>1. Len(data) = 0 \/ Len(data) = 1
    BY DEF EventsInv
  <2>2. CASE Len(data) = 0
    BY <1>1, <2>2, EmptySeq
  <2>3. CASE Len(data) = 1
    <3>1. 1 \in 1 .. Len(data)
      BY <2>3
    <3>2. data[1] \in 1 .. MaxEvents
      BY <1>1, <3>1, ElementOfSeq
    <3>3. data = <<data[1]>>
      BY <1>1, <2>3, <3>2, SeqEqual
    <3> QED
      BY <3>2, <3>3
  <2> QED
    BY <2>1, <2>2, <2>3
<1>3. callback \in {<<>>} \union {<<n>> : n \in 1 .. MaxEvents}
  <2>1. callback = <<>> \/ callback = <<offered + 1>>
    BY DEF EventsInv
  <2>2. CASE callback = <<offered + 1>>
    <3>1. callback # <<>>
      BY <2>2
    <3>2. offered < MaxEvents /\ offered \in Nat /\ MaxEvents \in Nat
      BY <3>1, SizesAssumption DEF BoundsInv, EventsInv
    <3>3. offered + 1 \in 1 .. MaxEvents
      BY <3>2
    <3> QED
      BY <2>2, <3>3
  <2> QED
    BY <2>1, <2>2
<1>4. m_RxQueue \in Seq(0 .. Len(Commands)) /\ setting \in 0 .. Len(Commands)
      /\ accepted \subseteq 1 .. delivered
  <2>1. /\ accepted \subseteq 1 .. delivered /\ delivered \in 0 .. Len(Commands)
        /\ Waiting \subseteq accepted /\ m_RxQueue \in Seq(Nat) /\ Len(Commands) \in Nat
    BY CommandsAssumption DEF CommandsInv, QueueInv
  <2>2. \A e \in Waiting : e \in 0 .. Len(Commands)
    BY <2>1
  <2>3. Elements(m_RxQueue) \subseteq Waiting \union {0} /\ setting \in Waiting \union {0}
    BY DEF Waiting, StopAll
  <2>4. 0 \in 0 .. Len(Commands)
    BY <2>1
  <2>5. Elements(m_RxQueue) \subseteq 0 .. Len(Commands)
    BY <2>2, <2>3, <2>4
  <2> QED
    BY <2>1, <2>2, <2>3, <2>4, <2>5, SeqOver
<1>5. /\ offered \in 0 .. MaxEvents /\ gone \subseteq 1 .. MaxEvents /\ received \in 0 .. MaxEvents
  <2>1. /\ offered \in Nat /\ received \in Nat /\ received <= offered /\ gone \subseteq 1 .. offered
        /\ offered <= MaxEvents /\ MaxEvents \in Nat
    BY SizesAssumption DEF EventsInv, BoundsInv
  <2> QED
    BY <2>1
<1>6. /\ Len(m_RxQueue) <= Size /\ transmitted \in 0 .. TELLDUSDEVICE_RETRANSMIT
      /\ m_RequestStop \in BOOLEAN /\ delivered \in 0 .. Len(Commands)
      /\ m_vpTelldusDevices \subseteq Devices
      /\ deviceState \in [Devices -> {"unknown", "on", "off"}]
      /\ sends \in [DOMAIN Commands -> 0 .. TELLDUSDEVICE_RETRANSMIT]
  BY DEF CommandsInv, QueueInv, DevicesInv, ToldInv, SendsInv
<1>7. /\ Len(m_RawDeviceQueue) <= RawSize /\ Len(m_TxQueue) <= Size /\ handled \in Nat
      /\ wpc \in {"unborn", "test", "handle", "transmit", "run", "publish", "done"}
      /\ mainPc \in {"configure", "forward", "join", "deleteDevices", "close", "destroyed"}
  BY DEF BoundsInv
<1> QED
  BY <1>1, <1>2, <1>3, <1>4, <1>5, <1>6, <1>7 DEF TypeOK

(* Types, with the queues inside their sizes and no command sent more often  *)
(* than TELLDUSDEVICE_RETRANSMIT times.                                      *)
THEOREM TypeCorrect == Spec => []TypeOK
  BY TypeFromInvariants, CommandsInvariance, EventsInvariance, BoundsInvariance, PTL

=============================================================================
