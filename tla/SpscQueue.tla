----------------------------- MODULE SpscQueue ------------------------------
(***************************************************************************)
(* Queue.h: the lock-free single producer single consumer ring through     *)
(* which all threads of the client exchange messages.  Every load or store *)
(* of an index is one step (std::atomic, sequentially consistent); so is   *)
(* every access to a slot, but slots are plain objects: two threads in the *)
(* same slot, one of them writing, is undefined behaviour.  The producer   *)
(* calls Push at any time; the consumer is the loop every client of the    *)
(* queue has, `if (!q.IsEmpty()) q.Pop(m)'.                                *)
(***************************************************************************)
EXTENDS Integers, Sequences

CONSTANTS ElemtType,     \* the elements pushed
          Size,          \* template argument: how many elements fit
          Blank          \* content of a slot or a variable before its first store

ASSUME SizeAssumption == Size \in Nat \ {0}
ASSUME BlankAssumption == Blank \notin ElemtType

VARIABLES m_TailIdx,     \* next free slot; stored by the producer only
          m_HeadIdx,     \* oldest element; stored by the consumer only
          m_Buffer,      \* the slots
          pushPc,        \* where the producer is in Push
          NewElement,    \* argument of Push
          NextTailIdx,   \* local variable of Push
          pushRet,       \* result of the latest Push
          popPc,         \* where the consumer is in its loop and in Pop
          PopElement,    \* output argument of Pop
          received       \* what the consumer's latest Pop gave it

producerVars == <<m_TailIdx, m_Buffer, pushPc, NewElement, NextTailIdx, pushRet>>
consumerVars == <<m_HeadIdx, popPc, PopElement, received>>
vars == <<m_TailIdx, m_HeadIdx, m_Buffer, pushPc, NewElement, NextTailIdx,
          pushRet, popPc, PopElement, received>>

-----------------------------------------------------------------------------
\* Mutant: no spare slot ("you can't use the last element -> so we add one").
CapacityWithoutSpare == Size

m_Capacity == Size + 1
Index == 0 .. m_Capacity - 1

IsEmpty == m_TailIdx = m_HeadIdx

\* Mutant: no wraparound.
IncrementWithoutWrap(CurrentIdx) == CurrentIdx + 1

IncrementIndex(CurrentIdx) == (CurrentIdx + 1) % m_Capacity

Init ==
    /\ m_TailIdx = 0 /\ m_HeadIdx = 0
    /\ m_Buffer = [i \in Index |-> Blank]
    /\ pushPc = "idle" /\ NewElement = Blank /\ NextTailIdx = 0
    /\ pushRet = "OK"
    /\ popPc = "idle" /\ PopElement = Blank /\ received = Blank

-----------------------------------------------------------------------------
(* The producer: Push *)

\* Entry of Push: the next tail index, from the tail only the producer stores.
PushCall(e) ==
    /\ pushPc = "idle"
    /\ pushPc' = "check"
    /\ NewElement' = e
    /\ NextTailIdx' = IncrementIndex(m_TailIdx)
    /\ pushRet' = "pending"
    /\ UNCHANGED <<m_TailIdx, m_Buffer, consumerVars>>

\* Mutant: the test for space is gone.
PushCheckDropped ==
    /\ pushPc = "check"
    /\ pushPc' = "write"
    /\ UNCHANGED <<m_TailIdx, m_Buffer, NewElement, NextTailIdx, pushRet, consumerVars>>

\* The test for space, against the head of this moment.
PushCheck ==
    /\ pushPc = "check"
    /\ IF NextTailIdx # m_HeadIdx
         THEN pushPc' = "write" /\ UNCHANGED pushRet
         ELSE pushPc' = "idle" /\ pushRet' = "QUEUE_FULL"
    /\ UNCHANGED <<m_TailIdx, m_Buffer, NewElement, NextTailIdx, consumerVars>>

\* The copy of the element into its slot.
PushWrite ==
    /\ pushPc = "write"
    /\ pushPc' = "publish"
    /\ m_Buffer' = [m_Buffer EXCEPT ![m_TailIdx] = NewElement]
    /\ UNCHANGED <<m_TailIdx, NewElement, NextTailIdx, pushRet, consumerVars>>

\* The store that shows the element to the consumer, and the return.
PushPublish ==
    /\ pushPc = "publish"
    /\ pushPc' = "idle"
    /\ m_TailIdx' = NextTailIdx
    /\ pushRet' = "OK"
    /\ UNCHANGED <<m_Buffer, NewElement, NextTailIdx, consumerVars>>

Producer == (\E e \in ElemtType : PushCall(e)) \/ PushCheck \/ PushWrite \/ PushPublish

-----------------------------------------------------------------------------
(* The consumer: IsEmpty, then Pop *)

\* The caller's own test before it calls Pop.
Poll ==
    /\ popPc = "idle"
    /\ ~IsEmpty
    /\ popPc' = "check"
    /\ UNCHANGED <<m_HeadIdx, PopElement, received, producerVars>>

\* Pop's first test.  Callers ignore its result 0 and would use the untouched
\* output argument as if it were a message.
PopCheck ==
    /\ popPc = "check"
    /\ IF IsEmpty
         THEN popPc' = "idle" /\ received' = Blank
         ELSE popPc' = "read" /\ UNCHANGED received
    /\ UNCHANGED <<m_HeadIdx, PopElement, producerVars>>

\* The copy of the element out of its slot.
PopRead ==
    /\ popPc = "read"
    /\ popPc' = "advance"
    /\ PopElement' = m_Buffer[m_HeadIdx]
    /\ UNCHANGED <<m_HeadIdx, received, producerVars>>

\* The store that gives the slot back to the producer, and the return.
PopAdvance ==
    /\ popPc = "advance"
    /\ popPc' = "idle"
    /\ m_HeadIdx' = IncrementIndex(m_HeadIdx)
    /\ received' = PopElement
    /\ UNCHANGED <<PopElement, producerVars>>

Consumer == Poll \/ PopCheck \/ PopRead \/ PopAdvance

Next == Producer \/ Consumer

Spec == Init /\ [][Next]_vars

-----------------------------------------------------------------------------
(* Properties *)

\* Types: the indices stay inside the buffer, everything else has the type
\* its declaration in Queue.h gives it.
TypeOK ==
    /\ m_TailIdx \in Index
    /\ m_HeadIdx \in Index
    /\ m_Buffer \in [Index -> ElemtType \union {Blank}]
    /\ pushPc \in {"idle", "check", "write", "publish"}
    /\ NewElement \in ElemtType \union {Blank}
    /\ NextTailIdx \in Index
    /\ pushRet \in {"OK", "QUEUE_FULL", "pending"}
    /\ popPc \in {"idle", "check", "read", "advance"}
    /\ PopElement \in ElemtType \union {Blank}
    /\ received \in ElemtType \union {Blank}

\* The slots are not atomic: the producer's copy into a slot (Queue.h:57) and
\* the consumer's copy out of one (Queue.h:78) are never under way in the same
\* slot, however the steps of the two threads interleave.
NoDataRace ==
    ~(pushPc = "write" /\ popPc = "read" /\ m_TailIdx = m_HeadIdx)

\* Every caller tests IsEmpty, calls Pop and ignores its result (thread.h:47-51,
\* ProgramManager.cpp:194-198, TCPManager.cpp:198-202): between the two calls
\* nothing may empty the queue, or the caller would handle an empty message.
GuardedPopSucceeds == popPc = "check" => ~IsEmpty

\* The elements between head and tail, oldest first.
Count == IF m_TailIdx >= m_HeadIdx THEN m_TailIdx - m_HeadIdx
                                   ELSE m_TailIdx + m_Capacity - m_HeadIdx
Slot(k) == IF m_HeadIdx + k - 1 < m_Capacity THEN m_HeadIdx + k - 1
                                             ELSE m_HeadIdx + k - 1 - m_Capacity
Contents == [k \in 1 .. Count |-> m_Buffer[Slot(k)]]

Fifo == INSTANCE BoundedFifo WITH queue <- Contents

\* The ring is a bounded FIFO queue: nothing accepted is lost, repeated or
\* reordered, an element is visible only when it was written completely, Push
\* answers QUEUE_FULL (Queue.h:64) only while Size elements are stored and OK
\* otherwise.
ImplementsFifo == Fifo!Spec

-----------------------------------------------------------------------------
(* The inductive invariant behind them *)

\* What the producer knows at each place of Push.
ProducerInv ==
    /\ pushPc \in {"check", "write", "publish"} =>
          NextTailIdx = IncrementIndex(m_TailIdx) /\ pushRet = "pending"
                                                  /\ NewElement \in ElemtType
    /\ pushPc \in {"write", "publish"} => NextTailIdx # m_HeadIdx
    /\ pushPc = "publish" => m_Buffer[m_TailIdx] = NewElement
    /\ pushPc = "idle" => pushRet # "pending"

\* What the consumer knows at each place of its loop and of Pop.
ConsumerInv ==
    /\ popPc \in {"check", "read", "advance"} => ~IsEmpty
    /\ popPc = "advance" => PopElement = m_Buffer[m_HeadIdx]

IInv == TypeOK /\ ProducerInv /\ ConsumerInv

=============================================================================
