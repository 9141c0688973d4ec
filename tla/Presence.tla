------------------------------ MODULE Presence ------------------------------
(***************************************************************************)
(* BluetoothManager with its BluetoothDevices and their Debouncers: every  *)
(* round of Run polls the devices one after the other, debounces the       *)
(* answers and publishes the changes; the main thread takes them out of    *)
(* m_TxQueue while the round goes on.                                      *)
(*                                                                         *)
(* External: hci_read_remote_name reaches a device or not, at every call.  *)
(***************************************************************************)
EXTENDS MessageQueue

CONSTANTS Devices,              \* m_vpBTDevice, in the order of registration
          IN_RANGE_MAX, IN_RANGE_UP_COUNT, IN_RANGE_DOWN_COUNT,
          Size                  \* NR_OF_MESSAGES_IN_A_QUEUE

ASSUME CountersAssumption ==
    /\ IN_RANGE_MAX \in Nat \ {0}
    /\ IN_RANGE_UP_COUNT \in Nat /\ IN_RANGE_UP_COUNT >= IN_RANGE_MAX
    /\ IN_RANGE_DOWN_COUNT \in Nat \ {0}
ASSUME SizeAssumption == Size \in Nat \ {0}

VARIABLES m_Ctr, m_State,       \* of the device's Debouncer
          m_InRange,            \* of the device
          current,              \* index of the device Run is at
          change,               \* the state change to be sent for it, or "none"
          m_TxQueue,            \* [device, inRange]
          known,                \* external: what the subscribers were told last
          refused,              \* ghost: devices a change of which was refused
                                \* and that did not change since
          missed                \* ghost: polls in a row that missed the device, up
                                \* to Limit

vars == <<m_Ctr, m_State, m_InRange, current, change, m_TxQueue, known, refused, missed>>

\* The number of polls that count a device down from the maximum to 0.
Limit == (IN_RANGE_MAX + IN_RANGE_DOWN_COUNT - 1) \div IN_RANGE_DOWN_COUNT

Ids == {Devices[i] : i \in DOMAIN Devices}

ASSUME DevicesAssumption == Devices \in Seq(Ids)

-----------------------------------------------------------------------------
\* Mutant: the counter is not limited.
IncrementUnlimited(Ctr) == Ctr + IN_RANGE_UP_COUNT

\* Debouncer::Increment and Decrement: the counter, then the state.
Increment(Ctr) == IF Ctr + IN_RANGE_UP_COUNT >= IN_RANGE_MAX
                    THEN IN_RANGE_MAX ELSE Ctr + IN_RANGE_UP_COUNT
IncrementState(Ctr, State) == State \/ Ctr + IN_RANGE_UP_COUNT >= IN_RANGE_MAX

\* Mutant: the last count down is skipped.
DecrementShort(Ctr) == IF Ctr > IN_RANGE_DOWN_COUNT THEN Ctr - IN_RANGE_DOWN_COUNT ELSE Ctr

Decrement(Ctr) == IF Ctr >= IN_RANGE_DOWN_COUNT THEN Ctr - IN_RANGE_DOWN_COUNT ELSE 0
DecrementState(Ctr, State) == State /\ Decrement(Ctr) # 0

\* Subscribers that were told nothing take a device as out of range, which is
\* what m_InRange says: the comment beside it, "preset with in range"
\* (BluetoothDevice.cpp:20), is not what the code does.
Init ==
    /\ m_Ctr = [d \in Ids |-> 0]
    /\ m_State = [d \in Ids |-> FALSE]
    /\ m_InRange = [d \in Ids |-> FALSE]
    /\ current = 1 /\ change = "none"
    /\ m_TxQueue = <<>>
    /\ known = [d \in Ids |-> FALSE]
    /\ refused = {}
    /\ missed = [d \in Ids |-> Limit]

\* Mutant: every poll that finds the device in range is reported.
PollReportsState(success) ==
    /\ current <= Len(Devices)
    /\ change = "none"
    /\ LET d == Devices[current]
           State == IF success THEN IncrementState(m_Ctr[d], m_State[d])
                               ELSE DecrementState(m_Ctr[d], m_State[d])
       IN  /\ m_Ctr' = [m_Ctr EXCEPT ![d] = IF success THEN Increment(@) ELSE Decrement(@)]
           /\ m_State' = [m_State EXCEPT ![d] = State]
           /\ m_InRange' = [m_InRange EXCEPT ![d] = State]
           /\ IF State
                THEN change' = "changed" /\ UNCHANGED current
                ELSE current' = current + 1 /\ UNCHANGED change
           /\ missed' = [missed EXCEPT ![d] =
                            IF success THEN 0 ELSE IF @ < Limit THEN @ + 1 ELSE @]
    /\ UNCHANGED <<m_TxQueue, known, refused>>

\* DebounceIsInRange of the current device, and Run's test for a change.
Poll(success) ==
    /\ current <= Len(Devices)
    /\ change = "none"
    /\ LET d == Devices[current]
           State == IF success THEN IncrementState(m_Ctr[d], m_State[d])
                               ELSE DecrementState(m_Ctr[d], m_State[d])
       IN  /\ m_Ctr' = [m_Ctr EXCEPT ![d] = IF success THEN Increment(@) ELSE Decrement(@)]
           /\ m_State' = [m_State EXCEPT ![d] = State]
           /\ m_InRange' = [m_InRange EXCEPT ![d] = State]
           /\ IF State # m_InRange[d]
                THEN change' = "changed" /\ UNCHANGED current
                ELSE current' = current + 1 /\ UNCHANGED change
           /\ missed' = [missed EXCEPT ![d] =
                            IF success THEN 0 ELSE IF @ < Limit THEN @ + 1 ELSE @]
    /\ UNCHANGED <<m_TxQueue, known, refused>>

\* SendRangeChange; the result of Push is returned, and not looked at.
SendRangeChange ==
    /\ change = "changed"
    /\ LET d == Devices[current]
       IN  /\ m_TxQueue' = Push(m_TxQueue, Size, [device |-> d, inRange |-> m_InRange[d]])
           /\ refused' = IF HasSpace(m_TxQueue, Size) THEN refused \ {d} ELSE refused \union {d}
    /\ change' = "none"
    /\ current' = current + 1
    /\ UNCHANGED <<m_Ctr, m_State, m_InRange, known, missed>>

\* The round is over; RunThread handles its queue, sleeps and calls Run again.
RunEnd ==
    /\ current > Len(Devices)
    /\ current' = 1
    /\ UNCHANGED <<m_Ctr, m_State, m_InRange, change, m_TxQueue, known, refused, missed>>

\* ProgramManager::Run, at any moment of the round.
Take ==
    /\ ~IsEmpty(m_TxQueue)
    /\ LET m == Head(m_TxQueue)
       IN  known' = [known EXCEPT ![m.device] = m.inRange]
    /\ m_TxQueue' = Tail(m_TxQueue)
    /\ UNCHANGED <<m_Ctr, m_State, m_InRange, current, change, refused, missed>>

Run == Poll(TRUE) \/ Poll(FALSE) \/ SendRangeChange \/ RunEnd

Next == Run \/ Take

Spec == Init /\ [][Next]_vars

-----------------------------------------------------------------------------
(* Properties *)

\* Types: the unsigned counter stays between 0 and the maximum, and the state
\* the device remembers is the one of its debouncer.
TypeOK ==
    /\ m_Ctr \in [Ids -> 0 .. IN_RANGE_MAX]
    /\ m_State \in [Ids -> BOOLEAN]
    /\ m_InRange = m_State
    /\ current \in 1 .. Len(Devices) + 1
    /\ change \in {"none", "changed"}
    /\ change = "changed" => current <= Len(Devices)
    /\ m_TxQueue \in Seq([device : Ids, inRange : BOOLEAN]) /\ Len(m_TxQueue) <= Size
    /\ known \in [Ids -> BOOLEAN]
    /\ refused \subseteq Ids
    /\ missed \in [Ids -> 0 .. Limit]

Detection == INSTANCE RangeDetection
    WITH Devices <- Ids, inRange <- m_InRange

\* Debouncing (Debouncer.cpp:39-75, BluetoothDevice.cpp:95-126) implements range
\* detection: in range at once when a poll reaches the device, out of range only
\* after five polls in a row that missed it, and a poll of one device does not
\* touch another one.
DetectsRange == Detection!Spec

\* The places of the queue that hold a message about d.
Mine(queue, d) == {i \in DOMAIN queue : queue[i].device = d}

\* What the subscribers, who have been told so much, know of d once they have
\* read the queue.
ToldAfter(queue, told, d) ==
    IF Mine(queue, d) = {} THEN told[d]
    ELSE queue[CHOOSE i \in Mine(queue, d) : \A j \in Mine(queue, d) : j <= i].inRange

Announced(d) == ToldAfter(m_TxQueue, known, d)

\* "just send the state, if there was a change" (BluetoothManager.cpp:89) is
\* enough: what the subscribers were told, the messages under way included, is
\* the state of every device, unless its last change met a full queue.
SubscribersKnow ==
    \A d \in Ids \ refused :
        ~(change = "changed" /\ Devices[current] = d) => Announced(d) = m_InRange[d]

\* Every message tells the subscribers something new about its device, unless
\* a change between two messages was refused.
OnlyChanges ==
    [][\A d \in Ids :
          (/\ Len(m_TxQueue') > Len(m_TxQueue)
           /\ m_TxQueue'[Len(m_TxQueue')].device = d
           /\ d \notin refused)
          => m_TxQueue'[Len(m_TxQueue')].inRange # Announced(d)]_vars

=============================================================================
