--------------------------- MODULE PresenceProofs ---------------------------
(***************************************************************************)
(* Theorems about Presence, for any devices, counters and queue size: the  *)
(* debouncing implements RangeDetection, and sending changes only is       *)
(* enough for the subscribers to know the state of every device.           *)
(***************************************************************************)
EXTENDS Presence, SequenceLemmas

Message == [device : Ids, inRange : BOOLEAN]

-----------------------------------------------------------------------------
(* Types *)

(* The rounding up in Limit: Limit is the first number of counts down that   *)
(* uses the maximum up.                                                      *)
LEMMA LimitMeaning ==
    /\ Limit \in Nat \ {0}
    /\ \A k \in Nat : k < Limit <=> IN_RANGE_DOWN_COUNT * k < IN_RANGE_MAX
<1> DEFINE D == IN_RANGE_DOWN_COUNT
           n == IN_RANGE_MAX + D - 1
<1>1. D \in Nat \ {0} /\ IN_RANGE_MAX \in Nat \ {0} /\ n \in Nat /\ n >= D
  BY CountersAssumption
<1>2. Limit = n \div D
  BY DEF Limit
<1>3. n \div D \in Int /\ n % D \in 0 .. D - 1 /\ n = D * (n \div D) + (n % D)
  BY <1>1
<1> DEFINE q == n \div D
           r == n % D
<1> HIDE DEF q, r
<1>4. q \in Int /\ r \in 0 .. D - 1 /\ n = D * q + r
  BY <1>3 DEF q, r
<1>5. q >= 1
  <2>1. SUFFICES ASSUME q <= 0 PROVE FALSE
    BY <1>4
  <2>2. D * q <= 0
    BY <1>1, <1>4, <2>1
  <2> QED
    BY <1>1, <1>4, <2>2
<1>6. ASSUME NEW k \in Nat PROVE k < q <=> D * k < IN_RANGE_MAX
  <2>1. CASE k < q
    <3>1. D * k + D <= D * q
      <4>1. k + 1 <= q
        BY <2>1, <1>4
      <4>2. D * (k + 1) <= D * q
        BY <4>1, <1>1, <1>4
      <4>3. D * (k + 1) = D * k + D
        BY <1>1
      <4> QED
        BY <4>2, <4>3
    <3> QED
      BY <2>1, <3>1, <1>1, <1>4
  <2>2. CASE k >= q
    <3>1. D * k >= D * q
      BY <2>2, <1>1, <1>4
    <3> QED
      BY <2>2, <3>1, <1>1, <1>4
  <2> QED
    BY <2>1, <2>2, <1>4
<1> QED
  BY <1>2, <1>4, <1>5, <1>6 DEF q

(* Debouncer's counter stays in its range.                                   *)
LEMMA CounterRange ==
    ASSUME NEW c \in 0 .. IN_RANGE_MAX
    PROVE  Increment(c) = IN_RANGE_MAX /\ Decrement(c) \in 0 .. IN_RANGE_MAX
  BY CountersAssumption DEF Increment, Decrement

(* The constructors leave values of the types.                               *)
LEMMA InitTypeOK == Init => TypeOK
<1> SUFFICES ASSUME Init PROVE TypeOK
  OBVIOUS
<1>1. Limit \in 0 .. Limit
  BY LimitMeaning
<1>2. 1 \in 1 .. Len(Devices) + 1
  BY DevicesAssumption, LenProperties
<1>3. m_TxQueue \in Seq(Message) /\ Len(m_TxQueue) <= Size
  BY SizeAssumption DEF Init
<1> QED
  BY <1>1, <1>2, <1>3, CountersAssumption DEF Init, TypeOK, Message

(* Every step keeps the types.                                               *)
LEMMA NextTypeOK == TypeOK /\ [Next]_vars => TypeOK'
<1> SUFFICES ASSUME TypeOK, [Next]_vars PROVE TypeOK'
  OBVIOUS
<1>1. Len(Devices) \in Nat /\ \A i \in 1 .. Len(Devices) : Devices[i] \in Ids
  BY DevicesAssumption, LenProperties, ElementOfSeq
<1>2. Limit \in Nat
  BY LimitMeaning
<1>3. ASSUME NEW success \in BOOLEAN, Poll(success) PROVE TypeOK'
  <2> DEFINE d == Devices[current]
             State == IF success THEN IncrementState(m_Ctr[d], m_State[d])
                                 ELSE DecrementState(m_Ctr[d], m_State[d])
  <2>1. current \in 1 .. Len(Devices) /\ d \in Ids
    BY <1>1, <1>3 DEF Poll, TypeOK
  <2>2. State \in BOOLEAN
    BY <2>1 DEF TypeOK, IncrementState, DecrementState
  <2>3. m_Ctr[d] \in 0 .. IN_RANGE_MAX
    BY <2>1 DEF TypeOK
  <2>4. m_Ctr' \in [Ids -> 0 .. IN_RANGE_MAX]
    <3>1. m_Ctr' = [m_Ctr EXCEPT ![d] = IF success THEN Increment(@) ELSE Decrement(@)]
      BY <1>3 DEF Poll
    <3>2. Increment(m_Ctr[d]) \in 0 .. IN_RANGE_MAX /\ Decrement(m_Ctr[d]) \in 0 .. IN_RANGE_MAX
      BY <2>3, CounterRange, CountersAssumption
    <3> QED
      BY <3>1, <3>2 DEF TypeOK
  <2>5. m_State' = [m_State EXCEPT ![d] = State] /\ m_InRange' = [m_InRange EXCEPT ![d] = State]
    BY <1>3 DEF Poll
  <2>6. m_State' \in [Ids -> BOOLEAN] /\ m_InRange' = m_State'
    BY <2>2, <2>5 DEF TypeOK
  <2>7. missed' \in [Ids -> 0 .. Limit]
    <3>1. missed \in [Ids -> 0 .. Limit]
      BY DEF TypeOK
    <3>2. missed' = [missed EXCEPT ![d] = IF success THEN 0 ELSE IF @ < Limit THEN @ + 1 ELSE @]
      BY <1>3 DEF Poll
    <3>3. \A x \in 0 .. Limit : (IF success THEN 0 ELSE IF x < Limit THEN x + 1 ELSE x) \in 0 .. Limit
      BY <1>2
    <3> QED
      BY <3>1, <3>2, <3>3, <2>1
  <2>8. current' \in 1 .. Len(Devices) + 1 /\ change' \in {"none", "changed"}
    BY <1>1, <1>3, <2>1 DEF Poll, TypeOK
  <2> QED
    BY <1>3, <2>4, <2>6, <2>7, <2>8 DEF Poll, TypeOK
<1>4. CASE SendRangeChange
  <2>1. m_InRange \in [Ids -> BOOLEAN] /\ m_TxQueue \in Seq(Message)
    BY DEF TypeOK, Message
  <2>2. PICK d : d = Devices[current]
    OBVIOUS
  <2>3. current \in 1 .. Len(Devices) /\ d \in Ids
    BY <1>1, <1>4, <2>2 DEF SendRangeChange, TypeOK
  <2> DEFINE m == [device |-> d, inRange |-> m_InRange[d]]
  <2>4. m \in Message
    BY <2>1, <2>3 DEF Message
  <2>5. m_TxQueue' = Push(m_TxQueue, Size, m)
    BY <1>4, <2>2 DEF SendRangeChange
  <2> HIDE DEF m
  <2>6. m_TxQueue' \in Seq(Message) /\ Len(m_TxQueue') <= Size
    BY <2>1, <2>4, <2>5, AppendProperties, LenProperties, SizeAssumption DEF Push, HasSpace, TypeOK
  <2>7. current' \in 1 .. Len(Devices) + 1
    BY <1>1, <1>4, <2>3 DEF SendRangeChange
  <2>8. refused' \subseteq Ids
    BY <1>4, <2>2, <2>3 DEF SendRangeChange, TypeOK
  <2> QED
    BY <1>4, <2>6, <2>7, <2>8 DEF SendRangeChange, TypeOK, Message
<1>5. CASE RunEnd
  BY <1>1, <1>5 DEF RunEnd, TypeOK
<1>6. CASE Take
  <2>1. m_TxQueue \in Seq(Message) /\ m_TxQueue # <<>>
    BY <1>6 DEF Take, IsEmpty, TypeOK, Message
  <2>2. Head(m_TxQueue) \in Message /\ Tail(m_TxQueue) \in Seq(Message)
        /\ Len(Tail(m_TxQueue)) = Len(m_TxQueue) - 1
    BY <2>1, HeadTailProperties
  <2>3. known' \in [Ids -> BOOLEAN]
    BY <1>6, <2>2 DEF Take, TypeOK, Message
  <2>4. Len(Tail(m_TxQueue)) <= Size
    BY <2>1, <2>2, LenProperties, SizeAssumption DEF TypeOK
  <2> QED
    BY <1>6, <2>2, <2>3, <2>4 DEF Take, TypeOK, Message
<1>7. CASE UNCHANGED vars
  BY <1>7 DEF vars, TypeOK
<1> QED
  BY <1>3, <1>4, <1>5, <1>6, <1>7 DEF Next, Run

(* The unsigned counter of Debouncer never leaves 0 .. IN_RANGE_MAX, and the *)
(* device remembers the state of its debouncer.                              *)
THEOREM TypeCorrect == Spec => []TypeOK
  BY InitTypeOK, NextTypeOK, PTL DEF Spec

-----------------------------------------------------------------------------
(* Debouncing implements range detection *)

(* The counter of a device in range counts the polls that missed it since it *)
(* was reached; that of another device is 0.                                 *)
CounterInv ==
    \A d \in Ids :
        /\ m_InRange[d] <=> missed[d] < Limit
        /\ m_Ctr[d] = IF m_InRange[d] THEN IN_RANGE_MAX - IN_RANGE_DOWN_COUNT * missed[d] ELSE 0

(* One poll keeps the relation between counter, state and polls missed.      *)
LEMMA MissedStep ==
    ASSUME NEW k \in 0 .. Limit, NEW c \in Nat, NEW State \in BOOLEAN,
           State <=> k < Limit,
           c = IF State THEN IN_RANGE_MAX - IN_RANGE_DOWN_COUNT * k ELSE 0
    PROVE  LET next == IF k < Limit THEN k + 1 ELSE k
           IN  /\ DecrementState(c, State) <=> State /\ k + 1 < Limit
               /\ DecrementState(c, State) <=> next < Limit
               /\ Decrement(c) = IF DecrementState(c, State)
                                   THEN IN_RANGE_MAX - IN_RANGE_DOWN_COUNT * next ELSE 0
<1> DEFINE D == IN_RANGE_DOWN_COUNT
<1>1. D \in Nat \ {0} /\ IN_RANGE_MAX \in Nat \ {0} /\ Limit \in Nat \ {0}
  BY CountersAssumption, LimitMeaning
<1>2. CASE ~State
  <2>1. Decrement(c) = 0
    BY <1>1, <1>2 DEF Decrement
  <2> QED
    BY <1>1, <1>2, <2>1 DEF DecrementState
<1>3. CASE State
  <2>1. k \in Nat /\ k + 1 \in Nat /\ k < Limit
    BY <1>1, <1>3
  <2>2. D * k \in Nat /\ D * (k + 1) = D * k + D
    BY <1>1, <2>1
  <2>3. D * k < IN_RANGE_MAX /\ (k + 1 < Limit <=> D * k + D < IN_RANGE_MAX)
    BY <2>1, <2>2, LimitMeaning
  <2> DEFINE p == D * k
  <2> HIDE DEF p
  <2>4. p \in Nat /\ c = IN_RANGE_MAX - p /\ p < IN_RANGE_MAX
        /\ (k + 1 < Limit <=> p + D < IN_RANGE_MAX) /\ D * (k + 1) = p + D
    BY <1>3, <2>2, <2>3 DEF p
  <2>5. Decrement(c) = IF k + 1 < Limit THEN IN_RANGE_MAX - (p + D) ELSE 0
    BY <1>1, <2>4 DEF Decrement
  <2>6. Decrement(c) # 0 <=> k + 1 < Limit
    BY <1>1, <2>4, <2>5
  <2> QED
    BY <1>3, <2>1, <2>4, <2>5, <2>6 DEF DecrementState
<1> QED
  BY <1>2, <1>3

(* A poll is a step of range detection and keeps CounterInv.                 *)
LEMMA PollDetects ==
    ASSUME TypeOK, CounterInv, NEW success \in BOOLEAN, Poll(success)
    PROVE  CounterInv' /\ Detection!Next
<1> DEFINE d == Devices[current]
           State == IF success THEN IncrementState(m_Ctr[d], m_State[d])
                               ELSE DecrementState(m_Ctr[d], m_State[d])
           Ctr == IF success THEN Increment(m_Ctr[d]) ELSE Decrement(m_Ctr[d])
           miss == IF success THEN 0 ELSE IF missed[d] < Limit THEN missed[d] + 1 ELSE missed[d]
<1>1. d \in Ids
  <2>1. current \in 1 .. Len(Devices)
    BY DevicesAssumption, LenProperties DEF Poll, TypeOK
  <2> QED
    BY <2>1, DevicesAssumption, ElementOfSeq
<1>2. /\ m_Ctr' = [m_Ctr EXCEPT ![d] = Ctr]
      /\ m_InRange' = [m_InRange EXCEPT ![d] = State]
      /\ missed' = [missed EXCEPT ![d] = miss]
  BY <1>1 DEF Poll, TypeOK
<1>3. /\ m_Ctr[d] \in 0 .. IN_RANGE_MAX /\ missed[d] \in 0 .. Limit
      /\ m_InRange[d] \in BOOLEAN /\ m_State[d] = m_InRange[d]
      /\ m_InRange[d] <=> missed[d] < Limit
      /\ m_Ctr[d] = IF m_InRange[d] THEN IN_RANGE_MAX - IN_RANGE_DOWN_COUNT * missed[d] ELSE 0
  BY <1>1 DEF TypeOK, CounterInv
<1>4. /\ State <=> miss < Limit
      /\ Ctr = IF State THEN IN_RANGE_MAX - IN_RANGE_DOWN_COUNT * miss ELSE 0
      /\ State = IF success THEN TRUE ELSE m_InRange[d] /\ missed[d] + 1 < Limit
  <2>1. CASE success
    <3>1. State = TRUE
      BY <2>1, <1>3, CountersAssumption DEF IncrementState
    <3>2. Ctr = IN_RANGE_MAX /\ miss = 0
      BY <2>1, <1>3, CounterRange
    <3>3. 0 < Limit /\ IN_RANGE_MAX = IN_RANGE_MAX - IN_RANGE_DOWN_COUNT * 0
      BY LimitMeaning, CountersAssumption
    <3> HIDE DEF State, Ctr, miss
    <3> QED
      BY <2>1, <3>1, <3>2, <3>3
  <2>2. CASE ~success
    <3>1. m_Ctr[d] \in Nat
      BY <1>3, CountersAssumption
    <3>2. State = DecrementState(m_Ctr[d], m_InRange[d]) /\ Ctr = Decrement(m_Ctr[d])
          /\ miss = (IF missed[d] < Limit THEN missed[d] + 1 ELSE missed[d])
      BY <2>2, <1>3
    <3>3. State \in BOOLEAN
      BY <3>2 DEF DecrementState
    <3> DEFINE c == m_Ctr[d]
               k == missed[d]
               before == m_InRange[d]
               next == IF k < Limit THEN k + 1 ELSE k
               after == DecrementState(c, before)
    <3>4. k \in 0 .. Limit /\ c \in Nat /\ before \in BOOLEAN /\ (before <=> k < Limit)
          /\ c = IF before THEN IN_RANGE_MAX - IN_RANGE_DOWN_COUNT * k ELSE 0
      BY <1>3, <3>1
    <3> HIDE DEF c, k, before
    <3>5. /\ after <=> before /\ k + 1 < Limit
          /\ after <=> next < Limit
          /\ Decrement(c) = IF after THEN IN_RANGE_MAX - IN_RANGE_DOWN_COUNT * next ELSE 0
      BY <3>4, MissedStep
    <3>6. State = after /\ Ctr = Decrement(c) /\ miss = next
      BY <3>2 DEF c, k, before
    <3>7. after = (before /\ k + 1 < Limit)
      BY <3>3, <3>5, <3>6
    <3> HIDE DEF State, Ctr, miss, next, after
    <3>8. State <=> miss < Limit
      BY <3>5, <3>6
    <3>9. Ctr = IF State THEN IN_RANGE_MAX - IN_RANGE_DOWN_COUNT * miss ELSE 0
      BY <3>5, <3>6
    <3>10. State = IF success THEN TRUE ELSE m_InRange[d] /\ missed[d] + 1 < Limit
      <4>1. State = (m_InRange[d] /\ missed[d] + 1 < Limit)
        BY <3>6, <3>7 DEF k, before
      <4> QED
        BY <2>2, <4>1
    <3> QED
      BY <3>8, <3>9, <3>10
  <2> QED
    BY <2>1, <2>2
<1> HIDE DEF d, State, Ctr, miss
<1>5. CounterInv'
  <2> SUFFICES ASSUME NEW e \in Ids
               PROVE  /\ m_InRange'[e] <=> missed'[e] < Limit
                      /\ m_Ctr'[e] = IF m_InRange'[e]
                                       THEN IN_RANGE_MAX - IN_RANGE_DOWN_COUNT * missed'[e] ELSE 0
    BY DEF CounterInv
  <2>1. CASE e = d
    BY <1>1, <1>2, <1>4, <2>1 DEF TypeOK
  <2>2. CASE e # d
    BY <1>1, <1>2, <2>2 DEF TypeOK, CounterInv
  <2> QED
    BY <2>1, <2>2
<1>6. Detection!Next
  <2>1. CASE success
    <3>1. missed' = [missed EXCEPT ![d] = 0] /\ m_InRange' = [m_InRange EXCEPT ![d] = TRUE]
      BY <1>2, <1>4, <2>1 DEF miss
    <3> QED
      BY <1>1, <3>1 DEF Detection!Next, Detection!Reached
  <2>2. CASE ~success
    <3>1. missed' = [missed EXCEPT ![d] = IF @ < Limit THEN @ + 1 ELSE @]
          /\ m_InRange' = [m_InRange EXCEPT ![d] = @ /\ missed[d] + 1 < Limit]
      BY <1>2, <1>4, <2>2 DEF miss
    <3> QED
      BY <1>1, <3>1 DEF Detection!Next, Detection!Missed
  <2> QED
    BY <2>1, <2>2
<1> QED
  BY <1>5, <1>6

(* Every other step leaves range detection alone.                            *)
LEMMA StepDetects ==
    TypeOK /\ CounterInv /\ [Next]_vars => CounterInv' /\ [Detection!Next]_(Detection!vars)
<1> SUFFICES ASSUME TypeOK, CounterInv, [Next]_vars
             PROVE  CounterInv' /\ [Detection!Next]_(Detection!vars)
  OBVIOUS
<1>1. CASE Poll(TRUE) \/ Poll(FALSE)
  BY <1>1, PollDetects
<1>2. CASE UNCHANGED <<m_Ctr, m_InRange, missed>>
  BY <1>2 DEF CounterInv, Detection!vars
<1> QED
  BY <1>1, <1>2 DEF Next, Run, SendRangeChange, RunEnd, Take, vars

(* Debouncing (Debouncer.cpp:39-75, BluetoothDevice.cpp:95-126) implements   *)
(* RangeDetection: a device is in range at the first poll that reaches it    *)
(* and out of range after Limit misses in a row, whatever happens to others. *)
THEOREM RangeDetected == Spec => DetectsRange
<1>1. Init => CounterInv /\ Detection!Init
  BY CountersAssumption, LimitMeaning DEF Init, CounterInv, Detection!Init
<1>2. TypeOK /\ CounterInv /\ [Next]_vars => CounterInv'
  BY StepDetects
<1>3. TypeOK /\ CounterInv /\ [Next]_vars => [Detection!Next]_(Detection!vars)
  BY StepDetects
<1> QED
  BY <1>1, <1>2, <1>3, TypeCorrect, PTL DEF Spec, DetectsRange, Detection!Spec

-----------------------------------------------------------------------------
(* What the subscribers know *)

(* One of the messages about d is the last of them.                          *)
HasLast(queue, d) ==
    Mine(queue, d) = {} \/ \E i \in Mine(queue, d) : \A j \in Mine(queue, d) : j <= i

(* The last message about d is what its subscribers will know.               *)
LEMMA LastMessage ==
    ASSUME NEW queue \in Seq(Message), NEW told, NEW d, NEW i \in Mine(queue, d),
           \A j \in Mine(queue, d) : j <= i
    PROVE  ToldAfter(queue, told, d) = queue[i].inRange
<1>1. Mine(queue, d) \subseteq Nat
  BY LenProperties DEF Mine
<1>2. (CHOOSE k \in Mine(queue, d) : \A j \in Mine(queue, d) : j <= k) = i
  <2>1. \A k \in Mine(queue, d) : (\A j \in Mine(queue, d) : j <= k) => k = i
    BY <1>1
  <2> QED
    BY <2>1
<1> QED
  BY <1>2 DEF ToldAfter

(* A message at the end of the queue is the last one about its device and    *)
(* changes nothing for another one.                                          *)
LEMMA ToldAppend ==
    ASSUME NEW queue \in Seq(Message), NEW m \in Message, NEW told, NEW d, HasLast(queue, d)
    PROVE  /\ HasLast(Append(queue, m), d)
           /\ ToldAfter(Append(queue, m), told, d)
                = IF m.device = d THEN m.inRange ELSE ToldAfter(queue, told, d)
<1> DEFINE n == Len(queue)
           longer == Append(queue, m)
<1>1. /\ n \in Nat /\ DOMAIN queue = 1 .. n /\ longer \in Seq(Message)
      /\ DOMAIN longer = 1 .. n + 1 /\ longer[n + 1] = m
      /\ \A i \in 1 .. n : longer[i] = queue[i]
  BY LenProperties, AppendProperties
<1> HIDE DEF n, longer
<1>2. CASE m.device = d
  <2>1. n + 1 \in Mine(longer, d) /\ \A j \in Mine(longer, d) : j <= n + 1
    BY <1>1, <1>2 DEF Mine
  <2>2. HasLast(longer, d)
    BY <2>1 DEF HasLast
  <2>3. ToldAfter(longer, told, d) = m.inRange
    BY <1>1, <2>1, LastMessage
  <2> QED
    BY <1>2, <2>2, <2>3 DEF longer
<1>3. CASE m.device # d
  <2>1. Mine(longer, d) = Mine(queue, d)
    BY <1>1, <1>3 DEF Mine
  <2>2. HasLast(longer, d)
    BY <2>1 DEF HasLast
  <2>3. ToldAfter(longer, told, d) = ToldAfter(queue, told, d)
    <3>1. CASE Mine(queue, d) = {}
      BY <2>1, <3>1 DEF ToldAfter
    <3>2. CASE \E i \in Mine(queue, d) : \A j \in Mine(queue, d) : j <= i
      <4>1. PICK i \in Mine(queue, d) : \A j \in Mine(queue, d) : j <= i
        BY <3>2
      <4>2. longer[i] = queue[i]
        BY <1>1 DEF Mine
      <4>3. ToldAfter(queue, told, d) = queue[i].inRange
        BY <4>1, LastMessage
      <4>4. ToldAfter(longer, told, d) = longer[i].inRange
        BY <1>1, <2>1, <4>1, LastMessage
      <4> QED
        BY <4>2, <4>3, <4>4
    <3> QED
      BY <3>1, <3>2 DEF HasLast
  <2> QED
    BY <1>3, <2>2, <2>3 DEF longer
<1> QED
  BY <1>2, <1>3

(* Taking a message out of the queue and telling it changes nothing.         *)
LEMMA ToldTail ==
    ASSUME NEW queue \in Seq(Message), queue # <<>>, NEW told \in [Ids -> BOOLEAN],
           NEW d \in Ids, HasLast(queue, d)
    PROVE  /\ HasLast(Tail(queue), d)
           /\ ToldAfter(Tail(queue), [told EXCEPT ![Head(queue).device] = Head(queue).inRange], d)
                = ToldAfter(queue, told, d)
<1> DEFINE n == Len(queue)
           rest == Tail(queue)
           first == Head(queue)
           now == [told EXCEPT ![first.device] = first.inRange]
<1>1. /\ n \in Nat \ {0} /\ DOMAIN queue = 1 .. n /\ rest \in Seq(Message)
      /\ DOMAIN rest = 1 .. n - 1 /\ first = queue[1] /\ first \in Message
      /\ \A i \in 1 .. n - 1 : rest[i] = queue[i + 1]
  BY LenProperties, HeadTailProperties, EmptySeq
<1> HIDE DEF n, rest, first
<1>2. /\ \A i \in 1 .. n : i # 1 => (i \in Mine(queue, d) <=> i - 1 \in Mine(rest, d))
      /\ \A j \in Mine(rest, d) : j \in 1 .. n - 1 /\ j + 1 \in Mine(queue, d)
      /\ Mine(queue, d) \subseteq 1 .. n
      /\ 1 \in Mine(queue, d) <=> first.device = d
  BY <1>1 DEF Mine
<1>3. CASE Mine(queue, d) = {}
  <2>1. Mine(rest, d) = {} /\ first.device # d
    BY <1>2, <1>3
  <2>2. now[d] = told[d]
    BY <2>1
  <2> QED
    BY <1>3, <2>1, <2>2 DEF HasLast, ToldAfter, rest, first
<1>4. CASE Mine(queue, d) # {}
  <2>1. PICK i \in Mine(queue, d) : \A j \in Mine(queue, d) : j <= i
    BY <1>4 DEF HasLast
  <2>2. ToldAfter(queue, told, d) = queue[i].inRange
    BY <2>1, LastMessage
  <2>3. CASE i = 1
    <3>1. Mine(rest, d) = {}
      <4>1. SUFFICES ASSUME NEW j \in Mine(rest, d) PROVE FALSE
        OBVIOUS
      <4>2. j \in 1 .. n - 1 /\ j + 1 <= 1
        BY <1>2, <2>1, <2>3
      <4> QED
        BY <1>1, <4>2
    <3>2. now[d] = first.inRange
      BY <1>2, <2>3
    <3> QED
      BY <1>1, <2>2, <2>3, <3>1, <3>2 DEF HasLast, ToldAfter, rest, first
  <2>4. CASE i # 1
    <3>1. i - 1 \in Mine(rest, d) /\ \A j \in Mine(rest, d) : j <= i - 1
      BY <1>1, <1>2, <2>1, <2>4
    <3>2. rest[i - 1] = queue[i]
      BY <1>1, <1>2, <2>4
    <3>3. ToldAfter(rest, now, d) = rest[i - 1].inRange
      BY <1>1, <3>1, LastMessage, SMTT(20)
    <3> QED
      BY <2>2, <3>1, <3>2, <3>3 DEF HasLast, rest, first
  <2> QED
    BY <2>3, <2>4
<1> QED
  BY <1>3, <1>4

(* The change of d that Run has found is not sent yet.                       *)
Changing(d) == change = "changed" /\ Devices[current] = d

(* What the subscribers will know of a device is its state, or the opposite  *)
(* while its change is not sent yet, unless a change was refused.            *)
KnownInv ==
    \A d \in Ids :
        /\ HasLast(m_TxQueue, d)
        /\ d \notin refused =>
             Announced(d) = IF Changing(d) THEN ~m_InRange[d] ELSE m_InRange[d]

(* A step keeps KnownInv.                                                    *)
LEMMA NextKnownInv == TypeOK /\ KnownInv /\ [Next]_vars => KnownInv'
<1> SUFFICES ASSUME TypeOK, KnownInv, [Next]_vars, NEW d \in Ids
             PROVE  /\ HasLast(m_TxQueue', d)
                    /\ d \notin refused' =>
                         ToldAfter(m_TxQueue', known', d)
                           = IF change' = "changed" /\ Devices[current'] = d
                               THEN ~m_InRange'[d] ELSE m_InRange'[d]
  BY DEF KnownInv, Announced, Changing
<1>1. /\ m_TxQueue \in Seq(Message) /\ known \in [Ids -> BOOLEAN]
      /\ m_InRange \in [Ids -> BOOLEAN] /\ HasLast(m_TxQueue, d)
  BY DEF TypeOK, KnownInv, Message
<1>2. d \notin refused => ToldAfter(m_TxQueue, known, d)
                            = IF change = "changed" /\ Devices[current] = d
                                THEN ~m_InRange[d] ELSE m_InRange[d]
  BY DEF KnownInv, Announced, Changing
<1>3. ASSUME NEW success \in BOOLEAN, Poll(success)
      PROVE  /\ UNCHANGED <<m_TxQueue, known, refused>> /\ change = "none"
             /\ IF m_InRange'[d] = m_InRange[d]
                  THEN ~(change' = "changed" /\ Devices[current'] = d)
                  ELSE change' = "changed" /\ Devices[current'] = d
  <2> DEFINE e == Devices[current]
             State == IF success THEN IncrementState(m_Ctr[e], m_State[e])
                                 ELSE DecrementState(m_Ctr[e], m_State[e])
  <2>1. /\ m_InRange' = [m_InRange EXCEPT ![e] = State]
        /\ IF State # m_InRange[e]
             THEN change' = "changed" /\ UNCHANGED current
             ELSE current' = current + 1 /\ UNCHANGED change
        /\ change = "none" /\ UNCHANGED <<m_TxQueue, known, refused>>
    BY <1>3 DEF Poll
  <2> HIDE DEF State
  <2> QED
    BY <1>1, <2>1
<1>4. CASE Poll(TRUE) \/ Poll(FALSE)
  <2>1. UNCHANGED <<m_TxQueue, known, refused>> /\ change = "none"
        /\ IF m_InRange'[d] = m_InRange[d]
             THEN ~(change' = "changed" /\ Devices[current'] = d)
             ELSE change' = "changed" /\ Devices[current'] = d
    BY <1>3, <1>4
  <2>2. m_InRange[d] \in BOOLEAN /\ m_InRange'[d] \in BOOLEAN
    BY <1>1, NextTypeOK DEF TypeOK
  <2> QED
    BY <1>1, <1>2, <2>1, <2>2
<1>5. CASE SendRangeChange
  <2> DEFINE e == Devices[current]
             m == [device |-> e, inRange |-> m_InRange[e]]
  <2>1. /\ m_TxQueue' = Push(m_TxQueue, Size, m)
        /\ refused' = (IF HasSpace(m_TxQueue, Size) THEN refused \ {e} ELSE refused \union {e})
        /\ change = "changed" /\ change' = "none" /\ UNCHANGED <<known, m_InRange>>
    BY <1>5 DEF SendRangeChange
  <2>2. e \in Ids
    <3>1. current \in 1 .. Len(Devices)
      BY <2>1, DevicesAssumption, LenProperties DEF TypeOK
    <3> QED
      BY <3>1, DevicesAssumption, ElementOfSeq
  <2>3. m \in Message /\ m.device = e /\ m.inRange = m_InRange[e]
    BY <1>1, <2>2 DEF Message
  <2> HIDE DEF m
  <2>4. CASE HasSpace(m_TxQueue, Size)
    <3>1. m_TxQueue' = Append(m_TxQueue, m)
      BY <2>1, <2>4 DEF Push
    <3>2. HasLast(m_TxQueue', d)
          /\ ToldAfter(m_TxQueue', known, d)
               = IF e = d THEN m_InRange[d] ELSE ToldAfter(m_TxQueue, known, d)
      BY <1>1, <2>3, <3>1, ToldAppend
    <3> QED
      BY <1>2, <2>1, <2>4, <3>2
  <2>5. CASE ~HasSpace(m_TxQueue, Size)
    <3>1. m_TxQueue' = m_TxQueue
      BY <2>1, <2>5 DEF Push
    <3> QED
      BY <1>1, <1>2, <2>1, <2>5, <3>1
  <2> QED
    BY <2>4, <2>5
<1>6. CASE RunEnd
  <2>1. change # "changed"
    BY <1>6, DevicesAssumption, LenProperties DEF RunEnd, TypeOK
  <2> QED
    BY <1>1, <1>2, <1>6, <2>1 DEF RunEnd
<1>7. CASE Take
  <2>1. m_TxQueue # <<>> /\ m_TxQueue' = Tail(m_TxQueue)
        /\ known' = [known EXCEPT ![Head(m_TxQueue).device] = Head(m_TxQueue).inRange]
        /\ UNCHANGED <<change, current, m_InRange, refused>>
    BY <1>7 DEF Take, IsEmpty
  <2>2. HasLast(m_TxQueue', d)
        /\ ToldAfter(m_TxQueue', known', d) = ToldAfter(m_TxQueue, known, d)
    BY <1>1, <2>1, ToldTail
  <2> QED
    BY <1>2, <2>1, <2>2
<1>8. CASE UNCHANGED vars
  BY <1>1, <1>2, <1>8 DEF vars
<1> QED
  BY <1>4, <1>5, <1>6, <1>7, <1>8 DEF Next, Run

(* KnownInv is an invariant.                                                 *)
LEMMA KnownInvariance == Spec => []KnownInv
<1>1. Init => KnownInv
  <2> SUFFICES ASSUME Init PROVE KnownInv
    OBVIOUS
  <2>1. \A d \in Ids : Mine(m_TxQueue, d) = {}
    BY DEF Init, Mine
  <2> QED
    BY <2>1 DEF Init, KnownInv, HasLast, Announced, ToldAfter, Changing
<1> QED
  BY <1>1, NextKnownInv, TypeCorrect, PTL DEF Spec

(* "just send the state, if there was a change" (BluetoothManager.cpp:89) is *)
(* enough: the messages tell the state of every device whose last change the *)
(* queue took.                                                               *)
THEOREM SubscribersInformed == Spec => []SubscribersKnow
<1>1. KnownInv => SubscribersKnow
  BY DEF KnownInv, SubscribersKnow, Changing
<1> QED
  BY <1>1, KnownInvariance, PTL

(* SendRangeChange (BluetoothManager.cpp:88-91) never repeats what the       *)
(* subscribers know, unless a change before was refused.                     *)
THEOREM ChangesOnly == Spec => OnlyChanges
<1> DEFINE Fresh == \A d \in Ids :
          (/\ Len(m_TxQueue') > Len(m_TxQueue)
           /\ m_TxQueue'[Len(m_TxQueue')].device = d
           /\ d \notin refused)
          => m_TxQueue'[Len(m_TxQueue')].inRange # Announced(d)
<1>1. TypeOK /\ KnownInv /\ [Next]_vars => [Fresh]_vars
  <2> SUFFICES ASSUME TypeOK, KnownInv, [Next]_vars, NEW d \in Ids,
                      Len(m_TxQueue') > Len(m_TxQueue),
                      m_TxQueue'[Len(m_TxQueue')].device = d, d \notin refused
               PROVE  m_TxQueue'[Len(m_TxQueue')].inRange # Announced(d)
    OBVIOUS
  <2>1. m_TxQueue \in Seq(Message) /\ Len(m_TxQueue) \in Nat /\ m_InRange \in [Ids -> BOOLEAN]
    BY LenProperties DEF TypeOK, Message
  <2>2. SendRangeChange
    <3>1. ~Take
      <4>1. SUFFICES ASSUME Take PROVE FALSE
        OBVIOUS
      <4>2. m_TxQueue # <<>> /\ m_TxQueue' = Tail(m_TxQueue)
        BY <4>1 DEF Take, IsEmpty
      <4>3. Len(m_TxQueue') = Len(m_TxQueue) - 1
        BY <2>1, <4>2, HeadTailProperties
      <4> QED
        BY <2>1, <4>3
    <3>2. m_TxQueue' # m_TxQueue
      BY <2>1
    <3> QED
      BY <3>1, <3>2 DEF Next, Run, Poll, RunEnd, vars
  <2> DEFINE e == Devices[current]
             m == [device |-> e, inRange |-> m_InRange[e]]
  <2>3. m_TxQueue' = Push(m_TxQueue, Size, m) /\ change = "changed"
    BY <2>2 DEF SendRangeChange
  <2>4. e \in Ids
    <3>1. current \in 1 .. Len(Devices)
      BY <2>3, DevicesAssumption, LenProperties DEF TypeOK
    <3> QED
      BY <3>1, DevicesAssumption, ElementOfSeq
  <2>5. m \in Message /\ m.device = e /\ m.inRange = m_InRange[e]
    BY <2>1, <2>4 DEF Message
  <2> HIDE DEF m
  <2>6. m_TxQueue' = Append(m_TxQueue, m)
    BY <2>1, <2>3 DEF Push
  <2>7. m_TxQueue'[Len(m_TxQueue')] = m
    BY <2>1, <2>5, <2>6, AppendProperties
  <2>8. e = d
    BY <2>5, <2>7
  <2>9. Announced(d) = ~m_InRange[d]
    BY <2>3, <2>8 DEF KnownInv, Changing
  <2> QED
    BY <2>1, <2>5, <2>7, <2>8, <2>9
<1> QED
  BY <1>1, TypeCorrect, KnownInvariance, PTL DEF Spec, OnlyChanges

=============================================================================
