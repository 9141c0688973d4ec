-------------------------- MODULE SpscQueueProofs ---------------------------
(***************************************************************************)
(* Theorems about SpscQueue, for every Size and every set of elements.     *)
(***************************************************************************)
EXTENDS SpscQueue, SequenceTheorems, TLAPS

(* The next index, without the remainder: one more, or 0 after the last one. *)
LEMMA IncrementIndexValue ==
    ASSUME NEW i \in Index
    PROVE  /\ IncrementIndex(i) = IF i + 1 = m_Capacity THEN 0 ELSE i + 1
           /\ IncrementIndex(i) \in Index
           /\ IncrementIndex(i) # i
  BY SizeAssumption DEF IncrementIndex, Index, m_Capacity

-----------------------------------------------------------------------------
(* Safety: the inductive invariant and what follows from it *)

(* An empty queue with nobody inside Push or Pop satisfies the invariant.     *)
LEMMA InitIInv == Init => IInv
<1> SUFFICES ASSUME Init PROVE IInv
    OBVIOUS
<1>1. TypeOK
  BY SizeAssumption DEF Init, TypeOK, Index, m_Capacity
<1>2. ProducerInv /\ ConsumerInv
  BY DEF Init, ProducerInv, ConsumerInv
<1> QED
  BY <1>1, <1>2 DEF IInv

(* The producer's steps.  It is the only one to store m_TailIdx and the      *)
(* slots, so what the consumer knows can only be disturbed by a store into   *)
(* the slot it reads or by a tail that reaches the head; the spare slot      *)
(* (NextTailIdx # m_HeadIdx) excludes both.                                  *)
LEMMA ProducerStep ==
    ASSUME IInv, Producer
    PROVE  IInv'
<1> USE DEF IInv
<1>1. ASSUME NEW e \in ElemtType, PushCall(e)
      PROVE  IInv'
  <2>1. NextTailIdx' = IncrementIndex(m_TailIdx) /\ NextTailIdx' \in Index
    BY <1>1, IncrementIndexValue DEF PushCall, TypeOK
  <2>2. TypeOK'
    BY <1>1, <2>1 DEF PushCall, TypeOK, consumerVars
  <2>3. ProducerInv'
    BY <1>1, <2>1 DEF PushCall, ProducerInv, IncrementIndex, m_Capacity
  <2>4. ConsumerInv'
    BY <1>1 DEF PushCall, ConsumerInv, IsEmpty, consumerVars
  <2> QED
    BY <2>2, <2>3, <2>4
<1>2. CASE PushCheck
  <2>1. TypeOK'
    BY <1>2 DEF PushCheck, TypeOK, consumerVars
  <2>2. ProducerInv'
    BY <1>2 DEF PushCheck, ProducerInv, IncrementIndex, m_Capacity, consumerVars
  <2>3. ConsumerInv'
    BY <1>2 DEF PushCheck, ConsumerInv, IsEmpty, consumerVars
  <2> QED
    BY <2>1, <2>2, <2>3
<1>3. CASE PushWrite
  <2>1. TypeOK'
    BY <1>3 DEF PushWrite, TypeOK, consumerVars
  <2>2. ProducerInv'
    BY <1>3 DEF PushWrite, ProducerInv, TypeOK, IncrementIndex, m_Capacity, consumerVars
  <2>3. ConsumerInv'
    BY <1>3 DEF PushWrite, ConsumerInv, TypeOK, IsEmpty, consumerVars
  <2> QED
    BY <2>1, <2>2, <2>3
<1>4. CASE PushPublish
  <2>1. TypeOK'
    BY <1>4 DEF PushPublish, TypeOK, consumerVars
  <2>2. ProducerInv'
    BY <1>4 DEF PushPublish, ProducerInv
  <2>3. ConsumerInv'
    BY <1>4 DEF PushPublish, ProducerInv, ConsumerInv, IsEmpty, consumerVars
  <2> QED
    BY <2>1, <2>2, <2>3
<1> QED
  BY <1>1, <1>2, <1>3, <1>4 DEF Producer

(* The consumer's steps.  It only moves the head, one slot towards the tail, *)
(* and only while they differ; so the head stays away from the slot behind   *)
(* the tail, which a Push that found space is going to make the new tail.    *)
LEMMA ConsumerStep ==
    ASSUME IInv, Consumer
    PROVE  IInv'
<1> USE DEF IInv
<1>1. CASE Poll
  <2>1. TypeOK'
    BY <1>1 DEF Poll, TypeOK, producerVars
  <2>2. ProducerInv'
    BY <1>1 DEF Poll, ProducerInv, IncrementIndex, m_Capacity, producerVars
  <2>3. ConsumerInv'
    BY <1>1 DEF Poll, ConsumerInv, IsEmpty, producerVars
  <2> QED
    BY <2>1, <2>2, <2>3
<1>2. CASE PopCheck
  <2>1. TypeOK'
    BY <1>2 DEF PopCheck, TypeOK, producerVars
  <2>2. ProducerInv'
    BY <1>2 DEF PopCheck, ProducerInv, IncrementIndex, m_Capacity, producerVars
  <2>3. ConsumerInv'
    BY <1>2 DEF PopCheck, ConsumerInv, IsEmpty, producerVars
  <2> QED
    BY <2>1, <2>2, <2>3
<1>3. CASE PopRead
  <2>1. TypeOK'
    BY <1>3 DEF PopRead, TypeOK, producerVars
  <2>2. ProducerInv'
    BY <1>3 DEF PopRead, ProducerInv, IncrementIndex, m_Capacity, producerVars
  <2>3. ConsumerInv'
    BY <1>3 DEF PopRead, ConsumerInv, IsEmpty, producerVars
  <2> QED
    BY <2>1, <2>2, <2>3
<1>4. CASE PopAdvance
  <2>1. m_HeadIdx' = IncrementIndex(m_HeadIdx) /\ m_HeadIdx' \in Index
    BY <1>4, IncrementIndexValue DEF PopAdvance, TypeOK
  <2>2. TypeOK'
    BY <1>4, <2>1 DEF PopAdvance, TypeOK, producerVars
  <2>3. m_TailIdx # m_HeadIdx
    BY <1>4 DEF PopAdvance, ConsumerInv, IsEmpty
  <2>4. ASSUME pushPc \in {"write", "publish"}
        PROVE  NextTailIdx # m_HeadIdx'
    <3>1. NextTailIdx = IncrementIndex(m_TailIdx)
      BY <2>4 DEF ProducerInv
    <3>2. IncrementIndex(m_TailIdx) # IncrementIndex(m_HeadIdx)
      BY <2>3, SizeAssumption DEF TypeOK, IncrementIndex, Index, m_Capacity
    <3> QED
      BY <2>1, <3>1, <3>2
  <2>5. ProducerInv'
    BY <1>4, <2>4 DEF PopAdvance, ProducerInv, IncrementIndex, m_Capacity, producerVars
  <2>6. ConsumerInv'
    BY <1>4 DEF PopAdvance, ConsumerInv
  <2> QED
    BY <2>2, <2>5, <2>6
<1> QED
  BY <1>1, <1>2, <1>3, <1>4 DEF Consumer

(* Each step is the producer's or the consumer's.                            *)
LEMMA NextIInv == IInv /\ [Next]_vars => IInv'
<1> SUFFICES ASSUME IInv, [Next]_vars PROVE IInv'
    OBVIOUS
<1>1. CASE Producer
  BY <1>1, ProducerStep
<1>2. CASE Consumer
  BY <1>2, ConsumerStep
<1>3. CASE UNCHANGED vars
  BY <1>3 DEF vars, IInv, TypeOK, ProducerInv, ConsumerInv, IsEmpty,
              IncrementIndex, m_Capacity, Index
<1> QED
  BY <1>1, <1>2, <1>3 DEF Next

(* The invariant the other theorems rest on: what producer and consumer know *)
(* at each place of Push (Queue.h:49-66) and of the guarded Pop (72-81).     *)
THEOREM Invariance == Spec => []IInv
  BY InitIInv, NextIInv, PTL DEF Spec

(* The indices never leave the buffer and every slot and variable keeps the  *)
(* type that Queue.h declares.                                               *)
THEOREM TypeCorrect == Spec => []TypeOK
<1>1. IInv => TypeOK
  BY DEF IInv
<1> QED
  BY <1>1, Invariance, PTL

(* Push never copies into the slot Pop copies out of (Queue.h:57 and 78).    *)
THEOREM RaceFreedom == Spec => []NoDataRace
<1>1. IInv => NoDataRace
  BY DEF IInv, ConsumerInv, IsEmpty, NoDataRace
<1> QED
  BY <1>1, Invariance, PTL

(* A Pop whose caller saw the queue not empty returns an element: callers may *)
(* ignore its result, as all of them do.                                      *)
THEOREM PopSucceeds == Spec => []GuardedPopSucceeds
<1>1. IInv => GuardedPopSucceeds
  BY DEF IInv, ConsumerInv, GuardedPopSucceeds
<1> QED
  BY <1>1, Invariance, PTL

-----------------------------------------------------------------------------
(* Refinement: the ring is a bounded FIFO queue *)

(* Contents is the sequence of the Count slots from the head on.             *)
ContentsShape ==
    /\ Count \in Nat
    /\ Count <= Size
    /\ \A k \in 1 .. Count : Slot(k) \in Index
    /\ Contents \in Seq(ElemtType \union {Blank})
    /\ Len(Contents) = Count
    /\ \A k \in 1 .. Count : Contents[k] = m_Buffer[Slot(k)]

(* Inside its types the ring always has such contents, at most Size of them. *)
LEMMA ContentsValue == TypeOK => ContentsShape
<1> SUFFICES ASSUME TypeOK PROVE ContentsShape
    OBVIOUS
<1>1. Count \in Nat /\ Count <= Size
  BY SizeAssumption DEF TypeOK, Count, Index, m_Capacity
<1>2. \A k \in 1 .. Count : Slot(k) \in Index
  BY SizeAssumption DEF TypeOK, Count, Slot, Index, m_Capacity
<1>3. \A k \in 1 .. Count : m_Buffer[Slot(k)] \in ElemtType \union {Blank}
  BY <1>2 DEF TypeOK
<1>4. Contents \in [1 .. Count -> ElemtType \union {Blank}]
  BY <1>3 DEF Contents
<1>5. Contents \in Seq(ElemtType \union {Blank}) /\ Len(Contents) = Count
  BY <1>1, <1>4, LenProperties, SeqDef
<1> QED
  BY <1>1, <1>2, <1>5 DEF Contents, ContentsShape

(* The tail index is none of the occupied slots: the producer may write it.  *)
LEMMA TailSlotFree ==
    ASSUME TypeOK, NEW k \in 1 .. Count
    PROVE  Slot(k) # m_TailIdx
  BY SizeAssumption DEF TypeOK, Count, Slot, Index, m_Capacity

(* The test of Push (Queue.h:54) finds space exactly when fewer than Size    *)
(* elements are stored.                                                      *)
LEMMA SpaceTest ==
    ASSUME TypeOK
    PROVE  IncrementIndex(m_TailIdx) # m_HeadIdx <=> Count < Size
<1>1. IncrementIndex(m_TailIdx) = IF m_TailIdx + 1 = m_Capacity
                                    THEN 0 ELSE m_TailIdx + 1
  BY IncrementIndexValue DEF TypeOK
<1> QED
  BY <1>1, SizeAssumption DEF TypeOK, Count, Index, m_Capacity

(* PushWrite (Queue.h:57) does not touch what the consumer can see.          *)
LEMMA WriteIsHidden ==
    ASSUME IInv, IInv', PushWrite
    PROVE  Contents' = Contents
<1> USE DEF IInv
<1>1. ContentsShape /\ ContentsShape'
  <2>1. TypeOK' => ContentsShape'
    BY ContentsValue, PTL
  <2> QED
    BY <2>1, ContentsValue
<1>2. Count' = Count /\ \A k \in 1 .. Count : Slot(k)' = Slot(k)
  BY DEF PushWrite, consumerVars, Count, Slot, m_Capacity
<1>3. ASSUME NEW k \in 1 .. Count
      PROVE  m_Buffer'[Slot(k)] = m_Buffer[Slot(k)]
  BY <1>1, <1>3, TailSlotFree DEF PushWrite, TypeOK, ContentsShape
<1> QED
  BY <1>2, <1>3 DEF Contents

(* PushPublish (Queue.h:58) appends the element that was written.            *)
LEMMA PublishAppends ==
    ASSUME IInv, IInv', PushPublish
    PROVE  Contents' = Append(Contents, NewElement)
<1> USE DEF IInv
<1>1. ContentsShape /\ ContentsShape'
  <2>1. TypeOK' => ContentsShape'
    BY ContentsValue, PTL
  <2> QED
    BY <2>1, ContentsValue
<1>2. /\ NextTailIdx # m_HeadIdx
      /\ m_Buffer[m_TailIdx] = NewElement
      /\ NewElement \in ElemtType
  BY DEF PushPublish, ProducerInv
<1>3. m_TailIdx' = IF m_TailIdx + 1 = m_Capacity THEN 0 ELSE m_TailIdx + 1
  BY IncrementIndexValue DEF PushPublish, ProducerInv, TypeOK
<1>4. m_HeadIdx' = m_HeadIdx /\ m_Buffer' = m_Buffer
  BY DEF PushPublish, consumerVars
<1>5. Count' = Count + 1
  BY <1>2, <1>3, <1>4, SizeAssumption
     DEF PushPublish, TypeOK, Count, Index, m_Capacity
<1>6. \A k \in 1 .. Count + 1 : Slot(k)' = Slot(k)
  BY <1>4 DEF Slot, m_Capacity
<1>7. Slot(Count + 1) = m_TailIdx
  BY SizeAssumption DEF TypeOK, Count, Slot, Index, m_Capacity
<1> DEFINE C == Append(Contents, NewElement)
<1>8. /\ C \in Seq(ElemtType \union {Blank})
      /\ Len(C) = Count + 1
      /\ \A k \in 1 .. Count : C[k] = Contents[k]
      /\ C[Count + 1] = NewElement
  BY <1>1, <1>2, AppendProperties DEF ContentsShape
<1>9. ASSUME NEW k \in 1 .. Count + 1
      PROVE  Contents'[k] = C[k]
  <2>1. Contents'[k] = m_Buffer'[Slot(k)']
    BY <1>1, <1>5 DEF ContentsShape
  <2>2. CASE k \in 1 .. Count
    BY <2>1, <2>2, <1>1, <1>4, <1>6, <1>8 DEF ContentsShape
  <2>3. CASE k = Count + 1
    BY <2>1, <2>3, <1>2, <1>4, <1>6, <1>7, <1>8
  <2> QED
    BY <2>2, <2>3, <1>1 DEF ContentsShape
<1> HIDE DEF C
<1>10. Contents' = C
  BY <1>1, <1>5, <1>8, <1>9, SeqEqual DEF ContentsShape
<1> QED
  BY <1>10 DEF C

(* PopAdvance (Queue.h:79) takes the oldest element away, the one that was   *)
(* copied before.                                                            *)
LEMMA AdvanceTakesHead ==
    ASSUME IInv, IInv', PopAdvance
    PROVE  /\ Contents # <<>>
           /\ PopElement = Head(Contents)
           /\ Contents' = Tail(Contents)
<1> USE DEF IInv
<1>1. ContentsShape /\ ContentsShape'
  <2>1. TypeOK' => ContentsShape'
    BY ContentsValue, PTL
  <2> QED
    BY <2>1, ContentsValue
<1>2. m_TailIdx # m_HeadIdx /\ PopElement = m_Buffer[m_HeadIdx]
  BY DEF PopAdvance, ConsumerInv, IsEmpty
<1>3. m_HeadIdx' = IF m_HeadIdx + 1 = m_Capacity THEN 0 ELSE m_HeadIdx + 1
  BY IncrementIndexValue DEF PopAdvance, TypeOK
<1>4. m_TailIdx' = m_TailIdx /\ m_Buffer' = m_Buffer
  BY DEF PopAdvance, producerVars
<1>5. Count' = Count - 1 /\ Count > 0
  <2>1. Size \in Nat /\ m_Capacity = Size + 1
    BY SizeAssumption DEF m_Capacity
  <2>2. m_HeadIdx \in 0 .. Size /\ m_TailIdx \in 0 .. Size
    BY <2>1 DEF TypeOK, Index
  <2>3. CASE m_TailIdx > m_HeadIdx
    BY <1>3, <1>4, <2>1, <2>2, <2>3 DEF Count
  <2>4. CASE m_TailIdx < m_HeadIdx
    BY <1>3, <1>4, <2>1, <2>2, <2>4 DEF Count
  <2> QED
    BY <1>2, <2>2, <2>3, <2>4
<1>6. \A k \in 1 .. Count - 1 : Slot(k)' = Slot(k + 1)
  BY <1>1, <1>3, SizeAssumption
     DEF ContentsShape, TypeOK, Slot, Index, m_Capacity
<1>7. Slot(1) = m_HeadIdx
  BY SizeAssumption DEF TypeOK, Slot, Index, m_Capacity
<1>8. Contents # <<>> /\ PopElement = Head(Contents)
  BY <1>1, <1>2, <1>5, <1>7 DEF ContentsShape
<1> DEFINE T == Tail(Contents)
<1>9. /\ T \in Seq(ElemtType \union {Blank})
      /\ Len(T) = Count - 1
      /\ \A k \in 1 .. Count - 1 : T[k] = Contents[k + 1]
  BY <1>1, <1>8, HeadTailProperties DEF ContentsShape
<1>10. ASSUME NEW k \in 1 .. Count - 1
       PROVE  Contents'[k] = T[k]
  <2>1. Contents'[k] = m_Buffer'[Slot(k)']
    BY <1>1, <1>5 DEF ContentsShape
  <2>2. k + 1 \in 1 .. Count /\ Contents[k + 1] = m_Buffer[Slot(k + 1)]
    BY <1>1 DEF ContentsShape
  <2> QED
    BY <2>1, <2>2, <1>4, <1>6, <1>9
<1> HIDE DEF T
<1>11. Contents' = T
  BY <1>1, <1>5, <1>9, <1>10, SeqEqual DEF ContentsShape
<1> QED
  BY <1>8, <1>11 DEF T

(* Refinement of the initial states.                                         *)
LEMMA InitRefines == Init => Fifo!Init
<1> SUFFICES ASSUME Init PROVE Fifo!Init
    OBVIOUS
<1>1. Contents = <<>>
  <2>1. ContentsShape
    BY InitIInv, ContentsValue DEF IInv
  <2>2. Count = 0
    BY DEF Init, Count
  <2> QED
    BY <2>1, <2>2 DEF ContentsShape
<1> QED
  BY <1>1 DEF Init, Fifo!Init

(* Refinement of a step: the call and the return of Push and the return of   *)
(* Pop are the steps of the abstract queue, all others leave it alone.       *)
LEMMA NextRefines == IInv /\ IInv' /\ [Next]_vars => [Fifo!Next]_(Fifo!vars)
<1> SUFFICES ASSUME IInv, IInv', [Next]_vars
             PROVE  [Fifo!Next]_(Fifo!vars)
    OBVIOUS
<1> USE DEF IInv
<1>0. ASSUME UNCHANGED <<m_TailIdx, m_HeadIdx, m_Buffer>>
      PROVE  Contents' = Contents
  BY <1>0 DEF Contents, Count, Slot, m_Capacity
<1>1. ASSUME NEW e \in ElemtType, PushCall(e)
      PROVE  Fifo!Call(e)
  BY <1>0, <1>1 DEF PushCall, consumerVars, ProducerInv, Fifo!Call
<1>2. CASE PushCheck
  <2>1. Contents' = Contents
    BY <1>0, <1>2 DEF PushCheck, consumerVars
  <2>2. CASE NextTailIdx = m_HeadIdx
    <3>1. pushRet = "pending" /\ ~(Len(Contents) < Size)
      BY <1>2, <2>2, SpaceTest, ContentsValue
         DEF PushCheck, ProducerInv, ContentsShape
    <3>2. pushRet' = "QUEUE_FULL" /\ UNCHANGED <<NewElement, received>>
      BY <1>2, <2>2 DEF PushCheck, consumerVars
    <3> QED
      BY <2>1, <3>1, <3>2 DEF Fifo!Next, Fifo!Return, Fifo!Push,
                              Fifo!PushResult, Fifo!HasSpace
  <2>3. CASE NextTailIdx # m_HeadIdx
    BY <1>2, <2>1, <2>3 DEF PushCheck, consumerVars, Fifo!vars
  <2> QED
    BY <2>2, <2>3
<1>3. CASE PushWrite
  BY <1>3, WriteIsHidden DEF PushWrite, consumerVars, Fifo!vars
<1>4. CASE PushPublish
  <2>1. Len(Contents) < Size /\ pushRet = "pending"
    BY <1>4, SpaceTest, ContentsValue DEF PushPublish, ProducerInv, ContentsShape
  <2>2. Contents' = Append(Contents, NewElement)
    BY <1>4, PublishAppends
  <2>3. pushRet' = "OK" /\ UNCHANGED <<NewElement, received>>
    BY <1>4 DEF PushPublish, consumerVars
  <2> QED
    BY <2>1, <2>2, <2>3 DEF Fifo!Next, Fifo!Return, Fifo!Push,
                            Fifo!PushResult, Fifo!HasSpace
<1>5. CASE Poll
  BY <1>0, <1>5 DEF Poll, producerVars, Fifo!vars
<1>6. CASE PopCheck
  BY <1>0, <1>6 DEF PopCheck, ConsumerInv, producerVars, Fifo!vars
<1>7. CASE PopRead
  BY <1>0, <1>7 DEF PopRead, producerVars, Fifo!vars
<1>8. CASE PopAdvance
  <2>1. received' = PopElement /\ UNCHANGED <<NewElement, pushRet>>
    BY <1>8 DEF PopAdvance, producerVars
  <2> QED
    BY <1>8, <2>1, AdvanceTakesHead DEF Fifo!Next, Fifo!Pop, Fifo!IsEmpty
<1>9. CASE UNCHANGED vars
  BY <1>0, <1>9 DEF vars, Fifo!vars
<1> QED
  BY <1>1, <1>2, <1>3, <1>4, <1>5, <1>6, <1>7, <1>8, <1>9
     DEF Next, Producer, Consumer, Fifo!Next

(* The ring of Queue.h is a bounded first-in first-out queue, for every Size  *)
(* and every set of elements: nothing accepted is lost, repeated or          *)
(* reordered, and Push refuses an element only while Size are stored.        *)
THEOREM Refinement == Spec => ImplementsFifo
  BY InitRefines, Invariance, NextRefines, PTL DEF Spec, ImplementsFifo, Fifo!Spec

=============================================================================
