-------------------------- MODULE TcpManagerProofs --------------------------
(***************************************************************************)
(* Theorems about TcpManager, for every number of receive threads, every   *)
(* queue size and every bound: what the worker knows about its connection  *)
(* and its receive thread, and the order of the messages it sends; then    *)
(* what it receives, in whatever way timeouts, resets and reconnections    *)
(* cut the stream: lines are not mixed up and commands arrive in order;    *)
(* and the types.                                                          *)
(***************************************************************************)
EXTENDS TcpManager, SequenceTheorems, TLAPS

-----------------------------------------------------------------------------
(* One connection, one receive thread *)

(* Nothing is connected and no receive thread exists at the start.           *)
LEMMA InitConnectionInv == Init => ConnectionInv
  BY ConstantsAssumption DEF Init, ConnectionInv, Live

(* The worker leaves the receive threads alone in all its steps but Connect  *)
(* and the join; only sends change what the server got first.                *)
LEMMA WorkerConnectionInv ==
    ASSUME ConnectionInv, Worker
    PROVE  ConnectionInv'
<1> USE DEF ConnectionInv, Live
<1>1. CASE LoopTest
  BY <1>1 DEF LoopTest, outgoing, socket, shared, receiver, network
<1>2. CASE HandleEnd
  BY <1>2 DEF HandleEnd, outgoing, socket, shared, receiver, network
<1>3. CASE ConnectFails
  BY <1>3 DEF ConnectFails, outgoing, shared, receiver, network
<1>4. CASE Connect
  <2>1. m_State = 0 /\ m_ReceiveThread = None /\ \A r \in Receivers : rpc[r] = "dead"
    BY <1>4, ConstantsAssumption DEF Connect
  <2>2. PICK q \in Receivers : /\ m_ReceiveThread' = q
                               /\ rpc' = [rpc EXCEPT ![q] = "loop"]
    <3> DEFINE q == CHOOSE r \in Receivers : rpc[r] = "dead"
    <3>1. /\ \E r \in Receivers : rpc[r] = "dead"
          /\ m_ReceiveThread' = q
          /\ rpc' = [rpc EXCEPT ![q] = "loop"]
      BY <1>4 DEF Connect
    <3>2. q \in Receivers
      BY <3>1
    <3> QED
      BY <3>1, <3>2
  <2>3. DOMAIN rpc' = Receivers /\ \A r \in Receivers : rpc'[r] # "dead" => r = q
    BY <2>1, <2>2
  <2>4. m_State' = 1 /\ wpc' = "subscribe" /\ firstLine' = None
    BY <1>4 DEF Connect
  <2> QED
    BY <2>2, <2>3, <2>4
<1>5. CASE Subscribe
  BY <1>5, ConstantsAssumption DEF Subscribe, SendEffect, SendSucceeds, socket, shared, receiver
<1>6. CASE SendAlive
  BY <1>6 DEF SendAlive, SendEffect, SendSucceeds, socket, shared, receiver, network
<1>7. CASE SendQueued
  <2>1. wpc = "send" /\ m_State = 1
    BY <1>7 DEF SendQueued
  <2>2. UNCHANGED <<m_Sock, m_ReceiveThread, rpc>>
    BY <1>7 DEF SendQueued, socket, shared, receiver
  <2>3. CASE UNCHANGED <<m_State, outgoing, network>> /\ wpc' = "test"
    BY <2>1, <2>2, <2>3 DEF outgoing, network
  <2>4. CASE SendEffect("MESSAGE") \/ UNCHANGED <<network, firstLine>>
    <3>1. firstLine' = firstLine /\ firstLine' \in {None, "SUBSCRIBE"}
      BY <1>7, <2>4 DEF SendQueued, SendEffect, SendSucceeds
    <3>2. firstLine = None /\ m_Sock # None => peer' \notin {"up", "closed", "resetting"}
      BY <1>7, <2>4 DEF SendQueued, SendEffect, network
    <3>3. \/ m_State' = 1 /\ wpc' \in {"send", "test"}
          \/ m_State' = 2 /\ wpc' = "test"
      BY <1>7, <2>1 DEF SendQueued
    <3> QED
      BY <2>1, <2>2, <3>1, <3>2, <3>3
  <2> QED
    BY <1>7, <2>3, <2>4 DEF SendQueued
<1>8. CASE Disconnect
  BY <1>8 DEF Disconnect, outgoing, shared, receiver
<1>9. CASE EndReceive
  BY <1>9 DEF EndReceive, socket, receiver, network
<1>10. CASE JoinReceive
  BY <1>10 DEF JoinReceive, outgoing, socket, receiver, network
<1> QED
  BY <1>1, <1>2, <1>3, <1>4, <1>5, <1>6, <1>7, <1>8, <1>9, <1>10 DEF Worker

(* A step of a receive thread ends it or keeps it running, and can only turn *)
(* a reset connection into a dead one.                                       *)
LEMMA ReceiveConnectionInv ==
    ASSUME ConnectionInv, NEW r \in Receivers, RunReceive(r)
    PROVE  ConnectionInv'
<1>1. UNCHANGED <<worker, outgoing, socket, m_ReceiveThread>>
  BY DEF RunReceive, ReceiveLoop, RecvCall, RecvChar, RecvNothing, RecvLF, shared
<1>2. peer' = peer \/ peer' = RecvPeer
  BY DEF RunReceive, ReceiveLoop, RecvCall, RecvChar, RecvNothing, RecvLF, network
<1>3. rpc[r] # "dead" /\ \E pc : rpc' = [rpc EXCEPT ![r] = pc]
  <2>1. CASE ReceiveLoop(r)
    BY <2>1 DEF ReceiveLoop
  <2>2. CASE RecvCall(r)
    BY <2>2 DEF RecvCall, Nothing, ReturnLine
  <2>3. CASE RecvChar(r)
    BY <2>3 DEF RecvChar
  <2>4. CASE RecvNothing(r)
    BY <2>4 DEF RecvNothing, Nothing
  <2>5. CASE RecvLF(r)
    BY <2>5 DEF RecvLF, ReturnLine
  <2> QED
    BY <2>1, <2>2, <2>3, <2>4, <2>5 DEF RunReceive
<1>4. DOMAIN rpc' = Receivers /\ \A q \in Receivers : rpc'[q] # "dead" => rpc[q] # "dead"
  BY <1>3 DEF ConnectionInv
<1> QED
  BY <1>1, <1>2, <1>4 DEF ConnectionInv, Live, RecvPeer, worker, outgoing, socket

(* The remaining steps, the handlers' and the environment's, disturb nothing *)
(* the invariant speaks of: a connection is only lost, never made better.    *)
LEMMA NextConnectionInv == ConnectionInv /\ [Next]_vars => ConnectionInv'
<1> SUFFICES ASSUME ConnectionInv, [Next]_vars PROVE ConnectionInv'
    OBVIOUS
<1>1. CASE Worker
  BY <1>1, WorkerConnectionInv
<1>2. ASSUME NEW r \in Receivers, RunReceive(r)
      PROVE  ConnectionInv'
  BY <1>2, ReceiveConnectionInv
<1>3. CASE ParseMessage
  BY <1>3 DEF ParseMessage, ConnectionInv, Live, worker, socket, shared, receiver, network
<1>4. CASE ParseStop
  BY <1>4 DEF ParseStop, ConnectionInv, Live, outgoing, socket, shared, receiver, network
<1>5. CASE Timer
  BY <1>5 DEF Timer, ConnectionInv, Live, worker, outgoing, socket, shared, receiver, network
<1>6. CASE ServerSends
  BY <1>6 DEF ServerSends, ConnectionInv, Live, worker, outgoing, socket, shared, receiver
<1>7. CASE PeerLoss
  BY <1>7 DEF PeerLoss, ConnectionInv, Live, worker, outgoing, socket, shared, receiver
<1>8. CASE Reachability
  BY <1>8 DEF Reachability, ConnectionInv, Live, worker, outgoing, socket, shared, receiver
<1>9. CASE Destroy
  BY <1>9 DEF Destroy, ConnectionInv, Live, worker, outgoing, socket, shared, receiver, network
<1>10. CASE UNCHANGED vars
  BY <1>10 DEF vars, ConnectionInv, Live, worker, outgoing, socket, shared, receiver, network
<1>11. CASE ResetArrives
  BY <1>11 DEF ResetArrives, ConnectionInv, Live, worker, outgoing, socket, shared, receiver
<1> QED
  BY <1>1, <1>2, <1>3, <1>4, <1>5, <1>6, <1>7, <1>8, <1>9, <1>10, <1>11 DEF Next

(* What the worker knows at each place of TCPManager::Run (154-276): the      *)
(* invariant the theorems about the connection rest on.                      *)
THEOREM ConnectionInvariance == Spec => []ConnectionInv
  BY InitConnectionInv, NextConnectionInv, PTL DEF Spec

(* Never two receive threads, and none left when the next connection is set  *)
(* up, whatever the server and the network do (TCPManager.cpp:159-170 and    *)
(* 264-274).                                                                 *)
THEOREM SingleReceiver == Spec => []OneReceiver
<1>1. ConnectionInv => OneReceiver
  BY ConstantsAssumption DEF ConnectionInv, OneReceiver, Live
<1> QED
  BY <1>1, ConnectionInvariance, PTL

(* The first line of a connection is SUBSCRIBE, although the result of that  *)
(* send is not looked at (TCPManager.cpp:159-170).                           *)
THEOREM SubscriptionFirst == Spec => []SubscribedFirst
<1>1. ConnectionInv => SubscribedFirst
  BY DEF ConnectionInv, SubscribedFirst
<1> QED
  BY <1>1, ConnectionInvariance, PTL

-----------------------------------------------------------------------------
(* The order of the messages *)

(* The queue is empty at the start.                                          *)
LEMMA InitQueueInv == Init => QueueInv
  BY DEF Init, QueueInv

(* Every step but ParseMessage and SendQueued leaves the queue and its       *)
(* counters alone.                                                           *)
LEMMA QueueFrame ==
    ASSUME [Next]_vars, ~ParseMessage, ~SendQueued
    PROVE  UNCHANGED <<m_MsgToSendQueue, queued, lastSent>>
<1>1. ASSUME NEW r \in Receivers, RunReceive(r)
      PROVE  UNCHANGED outgoing
  BY <1>1 DEF RunReceive, ReceiveLoop, RecvCall, RecvChar, RecvNothing, RecvLF
<1>2. CASE Worker
  BY <1>2 DEF Worker, LoopTest, HandleEnd, ConnectFails, Connect, Subscribe, SendAlive,
              Disconnect, EndReceive, JoinReceive, outgoing
<1>3. CASE ParseStop \/ Timer \/ ServerSends \/ PeerLoss \/ ResetArrives \/ Reachability \/ Destroy
  BY <1>3 DEF ParseStop, Timer, ServerSends, PeerLoss, ResetArrives, Reachability, Destroy, outgoing
<1> QED
  BY <1>1, <1>2, <1>3 DEF Next, vars, outgoing

(* ParseMessage appends a message newer than all that were queued before, or *)
(* finds the queue full.                                                     *)
LEMMA ParseQueueInv ==
    ASSUME QueueInv, ParseMessage
    PROVE  QueueInv' /\ lastSent' = lastSent
<1> DEFINE Q == m_MsgToSendQueue
<1>1. CASE HasSpace(Q, Size)
  <2>1. /\ Q' = Append(Q, queued + 1) /\ queued' = queued + 1
        /\ lastSent' = lastSent
    BY <1>1 DEF ParseMessage, Push
  <2>2. /\ Q' \in Seq(Nat) /\ Len(Q') = Len(Q) + 1
        /\ \A i \in 1 .. Len(Q) : Q'[i] = Q[i]
        /\ Q'[Len(Q) + 1] = queued + 1
    BY <2>1, AppendProperties DEF QueueInv
  <2>3. QueueInv'
    <3>1. /\ Len(Q) \in Nat /\ queued \in Nat /\ lastSent \in Nat
          /\ lastSent <= queued - Len(Q)
          /\ \A i \in 1 .. Len(Q) : Q[i] = queued - Len(Q) + i
      BY LenProperties DEF QueueInv
    <3> HIDE DEF Q
    <3>2. ASSUME NEW i \in 1 .. Len(Q) + 1 PROVE Q'[i] = queued + 1 - (Len(Q) + 1) + i
      <4>1. i \in 1 .. Len(Q) \/ i = Len(Q) + 1
        BY <3>1
      <4> QED
        BY <2>2, <3>1, <4>1
    <3> QED
      BY <2>1, <2>2, <3>1, <3>2 DEF QueueInv, Q
  <2> QED
    BY <2>1, <2>3
<1>2. CASE ~HasSpace(Q, Size)
  BY <1>2 DEF ParseMessage, Push, QueueInv
<1> QED
  BY <1>1, <1>2

(* The oldest message is the one after those that have left the queue.       *)
LEMMA QueuePop ==
    ASSUME QueueInv, m_MsgToSendQueue # <<>>, m_MsgToSendQueue' = Tail(m_MsgToSendQueue)
    PROVE  /\ m_MsgToSendQueue' \in Seq(Nat)
           /\ Len(m_MsgToSendQueue) \in Nat \ {0}
           /\ Len(m_MsgToSendQueue') = Len(m_MsgToSendQueue) - 1
           /\ Head(m_MsgToSendQueue) = queued - Len(m_MsgToSendQueue) + 1
           /\ \A i \in 1 .. Len(m_MsgToSendQueue) - 1 :
                  m_MsgToSendQueue'[i] = queued - Len(m_MsgToSendQueue) + i + 1
<1> DEFINE Q == m_MsgToSendQueue
           k == Len(Q)
<1>1. /\ Q \in Seq(Nat) /\ queued \in Nat
      /\ \A i \in 1 .. k : Q[i] = queued - k + i
  BY DEF QueueInv
<1>2. /\ k \in Nat \ {0} /\ Tail(Q) \in Seq(Nat) /\ Len(Tail(Q)) = k - 1
      /\ \A i \in 1 .. k - 1 : Tail(Q)[i] = Q[i + 1]
      /\ Head(Q) = Q[1]
  BY <1>1, HeadTailProperties, EmptySeq, LenProperties
<1> HIDE DEF k
<1>3. Head(Q) = queued - k + 1
  BY <1>1, <1>2
<1>4. ASSUME NEW i \in 1 .. k - 1 PROVE Tail(Q)[i] = queued - k + i + 1
  <2>1. i + 1 \in 1 .. k
    BY <1>2
  <2> QED
    BY <1>1, <1>2, <2>1
<1> QED
  BY <1>2, <1>3, <1>4 DEF k

(* SendQueued takes the oldest message out and, if the send accepts it, has  *)
(* sent a message that is newer than the last one and older than the rest.   *)
LEMMA SendQueueInv ==
    ASSUME QueueInv, SendQueued
    PROVE  QueueInv' /\ (lastSent' # lastSent => lastSent' > lastSent)
<1> DEFINE Q == m_MsgToSendQueue
<1>1. CASE UNCHANGED outgoing
  BY <1>1 DEF outgoing, QueueInv
<1>2. CASE Q # <<>> /\ Q' = Tail(Q) /\ lastSent' \in {lastSent, Head(Q)} /\ queued' = queued
  <2>1. Q \in Seq(Nat) /\ Q # <<>> /\ Q' = Tail(Q)
    BY <1>2 DEF QueueInv
  <2>2. /\ Q' \in Seq(Nat) /\ Len(Q') = Len(Q) - 1 /\ Head(Q) = queued - Len(Q) + 1
        /\ Len(Q) \in Nat \ {0}
        /\ \A i \in 1 .. Len(Q) - 1 : Q'[i] = queued - Len(Q) + i + 1
    BY <2>1, QueuePop
  <2>3. lastSent' \in Nat /\ lastSent' >= lastSent /\ lastSent' <= queued - (Len(Q) - 1)
    BY <1>2, <2>2 DEF QueueInv
  <2>4. queued' = queued /\ queued \in Nat /\ lastSent \in Nat
    BY <1>2 DEF QueueInv
  <2> HIDE DEF Q
  <2>5. \A i \in 1 .. Len(Q') : Q'[i] = queued - Len(Q') + i
    BY <2>2, <2>4
  <2>6. QueueInv'
    BY <2>2, <2>3, <2>4, <2>5 DEF QueueInv, Q
  <2> QED
    BY <2>3, <2>4, <2>6
<1> QED
  BY <1>1, <1>2 DEF SendQueued, IsEmpty

(* The invariant is preserved by every step, and no step moves lastSent back.*)
LEMMA NextQueueInv ==
    QueueInv /\ [Next]_vars => QueueInv' /\ (lastSent' # lastSent => lastSent' > lastSent)
<1> SUFFICES ASSUME QueueInv, [Next]_vars, ~ParseMessage, ~SendQueued
             PROVE  QueueInv' /\ lastSent' = lastSent
  BY ParseQueueInv, SendQueueInv
<1> QED
  BY QueueFrame DEF QueueInv

(* The queue is always in the order of arrival and newer than what was sent. *)
THEOREM QueueInvariance == Spec => []QueueInv
  BY InitQueueInv, NextQueueInv, PTL DEF Spec

(* Over all connections, messages leave in the order in which ParseMessage   *)
(* queued them (TCPManager.cpp:53 and 195-261).                              *)
THEOREM SendOrder == Spec => SentInOrder
<1>1. QueueInv /\ [Next]_vars => [lastSent' # lastSent => lastSent' > lastSent]_vars
  BY NextQueueInv
<1> QED
  BY <1>1, QueueInvariance, PTL DEF Spec, SentInOrder

-----------------------------------------------------------------------------
(* What a connection costs *)

(* Nothing was popped at the start.                                          *)
LEMMA InitCostInv == Init => CostInv
<1> SUFFICES ASSUME Init PROVE CostInv
  OBVIOUS
<1>1. sentHere = <<>> /\ Len(sentHere) = 0
  BY DEF Init
<1> QED
  BY <1>1 DEF CostInv, CostOfConnection

(* The result of a message that is popped, before and after SendEffect.      *)
LEMMA ResultOf ==
    ASSUME NEW n
    PROVE  /\ Result(n) \in Results
           /\ Result(n) = "refused" <=> n \notin Unsendable /\ ~SendSucceeds
           /\ Result(n) = "accepted" => peer = "up"
           /\ Result(n) = "unheard" => peer # "up"
<1>1. CASE n \in Unsendable
  BY <1>1 DEF Result, Results
<1>2. CASE n \notin Unsendable /\ ~SendSucceeds
  BY <1>2 DEF Result, Results
<1>3. CASE n \notin Unsendable /\ SendSucceeds
  BY <1>3 DEF Result, Results
<1> QED
  BY <1>1, <1>2, <1>3

(* What CostOfConnection says after a step, of k messages popped, the last   *)
(* one p.                                                                    *)
LEMMA CostAfter ==
    ASSUME NEW k, NEW p, Len(sentHere') = k, queued' - Len(m_MsgToSendQueue') = p,
           \A i \in 1 .. k : sentHere'[i].message = p - k + i,
           \A i \in 1 .. k : sentHere'[i].result = "refused" => i = k /\ m_State' # 1,
           \A i, j \in 1 .. k : i < j /\ sentHere'[i].result = "unheard"
                               => sentHere'[j].result # "accepted"
    PROVE  CostOfConnection'
  BY DEF CostOfConnection

(* SendQueued pops the message after those popped before, while none of      *)
(* these was refused; if this one is, the connection is given up.            *)
LEMMA SendCostInv ==
    ASSUME QueueInv, ConnectionInv, CostInv, SendQueued
    PROVE  CostInv'
<1> DEFINE Q == m_MsgToSendQueue
           n == Len(sentHere)
           popped == queued - Len(Q)
<1>1. m_State = 1 /\ wpc = "send"
  BY DEF SendQueued, ConnectionInv
<1>2. CASE sentInRun >= MESSAGES_PER_RUN \/ Q = <<>>
  <2>1. UNCHANGED <<m_MsgToSendQueue, queued, sentHere, m_State, peer>>
    BY <1>2 DEF SendQueued, IsEmpty, outgoing, network
  <2> QED
    BY <2>1 DEF CostInv, CostOfConnection
<1>3. CASE ~(sentInRun >= MESSAGES_PER_RUN \/ Q = <<>>)
  <2> DEFINE m == Head(Q)
             entry == [message |-> m, result |-> Result(m)]
  <2>1. /\ Q # <<>> /\ Q' = Tail(Q) /\ queued' = queued
        /\ sentHere' = Append(sentHere, entry)
        /\ m_State' = IF m \in Unsendable \/ SendSucceeds THEN m_State ELSE 2
        /\ (m \in Unsendable /\ UNCHANGED network) \/ SendEffect("MESSAGE")
    BY <1>3 DEF SendQueued, IsEmpty
  <2>2. /\ Len(Q') = Len(Q) - 1 /\ Len(Q) \in Nat \ {0} /\ queued \in Nat /\ popped \in Nat
        /\ m = popped + 1
    BY <2>1, QueuePop DEF QueueInv
  <2>3. queued' - Len(Q') = popped + 1
    BY <2>1, <2>2
  <2>4. entry \in [message : Nat, result : Results] /\ entry.message = popped + 1
        /\ entry.result = Result(m)
    BY <2>2, ResultOf
  <2>5. /\ sentHere \in Seq([message : Nat, result : Results]) /\ n \in Nat
        /\ \A i \in 1 .. n : sentHere[i].message = popped - n + i
        /\ \A i \in 1 .. n : sentHere[i].result # "refused"
        /\ \A i, j \in 1 .. n : i < j /\ sentHere[i].result = "unheard"
                                => sentHere[j].result # "accepted"
        /\ \A i \in 1 .. n : sentHere[i].result = "unheard" => peer # "up"
    BY <1>1, LenProperties DEF CostInv, CostOfConnection
  <2>6. peer' = "up" => peer = "up"
    BY <2>1 DEF SendEffect, network
  <2>7. /\ m_State' \in {1, 2}
        /\ Result(m) = "refused" => m_State' # 1
        /\ Result(m) = "accepted" => peer = "up"
        /\ Result(m) = "unheard" => peer' # "up"
    BY <1>1, <2>1, <2>6, ResultOf
  <2> HIDE DEF entry, m, n, popped, Q
  <2>8. /\ sentHere' \in Seq([message : Nat, result : Results])
        /\ Len(sentHere') = n + 1
        /\ \A i \in 1 .. n : sentHere'[i] = sentHere[i]
        /\ sentHere'[n + 1] = entry
    BY <2>1, <2>4, <2>5, AppendProperties DEF n
  <2>9. ASSUME NEW i \in 1 .. n + 1
        PROVE  /\ sentHere'[i].message = popped + 1 - (n + 1) + i
               /\ sentHere'[i].result = "refused" => i = n + 1 /\ m_State' # 1
               /\ sentHere'[i].result = "unheard" => peer' # "up"
    <3>1. CASE i \in 1 .. n
      <4>1. sentHere[i].message = popped - n + i /\ sentHere[i].result # "refused"
            /\ (sentHere[i].result = "unheard" => peer # "up")
        BY <2>5, <3>1
      <4>2. sentHere'[i] = sentHere[i]
        BY <2>8, <3>1
      <4>3. popped - n + i = popped + 1 - (n + 1) + i
        BY <2>2, <2>5
      <4> QED
        BY <2>6, <4>1, <4>2, <4>3
    <3>2. CASE i = n + 1
      <4>1. sentHere'[i] = entry
        BY <2>8, <3>2
      <4>2. popped + 1 = popped + 1 - (n + 1) + i
        BY <2>2, <2>5, <3>2
      <4> QED
        BY <2>4, <2>7, <3>2, <4>1, <4>2
    <3> QED
      BY <2>5, <3>1, <3>2
  <2>10. ASSUME NEW i \in 1 .. n + 1, NEW j \in 1 .. n + 1,
                i < j, sentHere'[i].result = "unheard"
         PROVE  sentHere'[j].result # "accepted"
    <3>1. i \in 1 .. n /\ sentHere[i].result = "unheard"
      BY <2>5, <2>8, <2>10
    <3>2. CASE j \in 1 .. n
      BY <2>5, <2>8, <2>10, <3>1, <3>2
    <3>3. CASE j = n + 1
      BY <2>4, <2>5, <2>7, <2>8, <3>1, <3>3
    <3> QED
      BY <2>5, <3>2, <3>3
  <2>11. CostOfConnection'
    <3>1. PICK k : k = n + 1
      OBVIOUS
    <3>2. PICK p : p = popped + 1
      OBVIOUS
    <3>3. Len(sentHere') = k /\ queued' - Len(m_MsgToSendQueue') = p
      BY <2>3, <2>8, <3>1, <3>2 DEF Q
    <3>4. ASSUME NEW i \in 1 .. k PROVE sentHere'[i].message = p - k + i
      <4>1. i \in 1 .. n + 1
        BY <3>1
      <4>2. sentHere'[i].message = popped + 1 - (n + 1) + i
        BY <2>9, <4>1
      <4> QED
        BY <2>2, <2>5, <3>1, <3>2, <4>2
    <3>5. \A i \in 1 .. k : sentHere'[i].result = "refused" => i = k /\ m_State' # 1
      BY <2>9, <3>1
    <3>6. \A i, j \in 1 .. k : i < j /\ sentHere'[i].result = "unheard"
                              => sentHere'[j].result # "accepted"
      BY <2>10, <3>1
    <3>7. Len(sentHere') = k
      BY <3>3
    <3>8. queued' - Len(m_MsgToSendQueue') = p
      BY <3>3
    <3> QED
      BY ONLY <3>4, <3>5, <3>6, <3>7, <3>8, CostAfter
  <2> QED
    BY <2>7, <2>8, <2>9, <2>11 DEF CostInv
<1> QED
  BY <1>2, <1>3

(* ParseMessage puts its message behind the others; what has left the queue  *)
(* is the same as before.                                                    *)
LEMMA ParseCostInv ==
    ASSUME QueueInv, CostInv, ParseMessage
    PROVE  CostInv'
<1> DEFINE Q == m_MsgToSendQueue
<1>1. UNCHANGED <<sentHere, m_State, peer>>
  BY DEF ParseMessage, worker, network
<1>2. queued' - Len(Q') = queued - Len(Q)
  <2>1. Q \in Seq(Nat) /\ Len(Q) \in Nat /\ queued \in Nat
    BY LenProperties DEF QueueInv
  <2>2. CASE HasSpace(Q, Size)
    <3>1. Q' = Append(Q, queued + 1) /\ queued' = queued + 1
      BY <2>2 DEF ParseMessage, Push
    <3>2. Len(Q') = Len(Q) + 1
      BY <2>1, <3>1, AppendProperties
    <3> QED
      BY <2>1, <3>1, <3>2
  <2>3. CASE ~HasSpace(Q, Size)
    BY <2>3 DEF ParseMessage, Push
  <2> QED
    BY <2>2, <2>3
<1> QED
  BY <1>1, <1>2 DEF CostInv, CostOfConnection

(* The other steps pop nothing; a connection that is set up starts with      *)
(* nothing popped, and no other step brings one up again.                    *)
LEMMA OtherCostInv ==
    ASSUME ConnectionInv, CostInv, [Next]_vars, ~ParseMessage, ~SendQueued
    PROVE  CostInv'
<1>1. UNCHANGED <<m_MsgToSendQueue, queued>>
  BY QueueFrame
<1>2. ASSUME sentHere' = <<>> PROVE CostInv'
  <2>1. Len(sentHere') = 0
    BY <1>2
  <2> QED
    BY <1>2, <2>1 DEF CostInv, CostOfConnection
<1>3. ASSUME sentHere' = sentHere, m_State' = 1 => m_State = 1, m_State' = 0 => m_State = 0,
             peer' = "up" => peer = "up"
      PROVE  CostInv'
  BY <1>1, <1>3 DEF CostInv, CostOfConnection
<1>4. CASE Connect
  <2>1. m_State = 0 /\ sentHere' = sentHere
    BY <1>4 DEF Connect, ConnectionInv
  <2> QED
    BY <1>2, <2>1 DEF CostInv
<1>5. CASE EndReceive
  BY <1>2, <1>5 DEF EndReceive
<1>6. CASE \/ LoopTest \/ HandleEnd \/ ConnectFails \/ Subscribe \/ SendAlive \/ Disconnect
           \/ JoinReceive
  <2>1. sentHere' = sentHere /\ (peer' = "up" => peer = "up")
    BY <1>6 DEF LoopTest, HandleEnd, ConnectFails, Subscribe, SendAlive, Disconnect, JoinReceive,
                SendEffect, outgoing, network
  <2>2. (m_State' = 1 => m_State = 1) /\ (m_State' = 0 => m_State = 0)
    BY <1>6 DEF LoopTest, HandleEnd, ConnectFails, Subscribe, SendAlive, Disconnect, JoinReceive,
                ConnectionInv
  <2> QED
    BY <1>3, <2>1, <2>2
<1>7. ASSUME NEW r \in Receivers, RunReceive(r) PROVE CostInv'
  <2>1. UNCHANGED <<worker, outgoing>> /\ peer' \in {peer, RecvPeer}
    BY <1>7 DEF RunReceive, ReceiveLoop, RecvCall, RecvChar, RecvNothing, RecvLF, network
  <2> QED
    BY <1>3, <2>1 DEF RecvPeer, worker, outgoing
<1>8. CASE \/ ParseStop \/ Timer \/ ServerSends \/ PeerLoss \/ ResetArrives \/ Reachability
           \/ Destroy \/ UNCHANGED vars
  <2>1. sentHere' = sentHere /\ m_State' = m_State /\ (peer' = "up" => peer = "up")
    BY <1>8 DEF ParseStop, Timer, ServerSends, PeerLoss, ResetArrives, Reachability, Destroy,
                vars, worker, outgoing, network
  <2> QED
    BY <1>3, <2>1
<1> QED
  BY <1>4, <1>5, <1>6, <1>7, <1>8 DEF Next, Worker

(* Whatever the server and the network do, a connection takes its messages   *)
(* from the front of the queue without a gap, loses one to a send that fails *)
(* at most, and otherwise only the last it sent, those the kernel took after *)
(* the server had gone (TCPManager.cpp:195-261, TCPClient.cpp:106-112).      *)
THEOREM ConnectionCost == Spec => []CostOfConnection
<1>1. QueueInv /\ ConnectionInv /\ CostInv /\ [Next]_vars => CostInv'
  BY SendCostInv, ParseCostInv, OtherCostInv
<1>2. CostInv => CostOfConnection
  BY DEF CostInv
<1> QED
  BY <1>1, <1>2, InitCostInv, ConnectionInvariance, QueueInvariance, PTL DEF Spec

-----------------------------------------------------------------------------
(* The stream of the server *)

(* The place of a character in everything the server sends.                  *)
Index(part) == IF part = "head" THEN 1 ELSE IF part = "tail" THEN 2
               ELSE IF part = "CR" THEN 3 ELSE 4
Place(c) == 4 * c.line + Index(c.part)

(* The place of the character the server sends next, of the first one that   *)
(* was not received, and of the first one of the line a receive thread is    *)
(* reading, whose '\r' may be behind it.                                     *)
Ahead == 4 * server.line + server.part
Front == Ahead - Len(inbox)
Gap(r) == IF rpc[r] \in {"receiveLF", "recvLF"} THEN 1 ELSE 0
LineFront(r) == Front - Gap(r) - Len(recievedLine[r])

RPCs == {"dead", "loop", "receive", "recv", "receiveLF", "recvLF"}

(* What is not received yet are the last characters that were sent.          *)
InboxInv ==
    /\ server \in [line : 1 .. MaxLines + 1, part : 1 .. 4]
    /\ server.part # 1 => server.line <= MaxLines
    /\ inbox \in Seq(Chars)
    /\ \A i \in 1 .. Len(inbox) : Place(inbox[i]) = Front + i - 1

(* What a receive thread has of its line are the characters before those,    *)
(* and no '\r' is among them.                                                *)
LineInv ==
    /\ rpc \in [Receivers -> RPCs]
    /\ recievedLine \in [Receivers -> Seq(Chars)]
    /\ \A r \in Live : \A j \in 1 .. Len(recievedLine[r]) :
         /\ Place(recievedLine[r][j]) = LineFront(r) + j - 1
         /\ recievedLine[r][j].part # "CR"

(* Every command was complete before what is in hand began.                  *)
CommandsInv ==
    /\ commands \in Seq(1 .. MaxLines)
    /\ CommandsInOrder
    /\ \A i \in 1 .. Len(commands) :
         /\ 4 * commands[i] + 3 < Front
         /\ \A r \in Live : 4 * commands[i] + 3 < LineFront(r)

(* Characters and their places.                                              *)
LEMMA CharPlace ==
    ASSUME NEW n \in 0 .. MaxLines, NEW i \in 1 .. 4
    PROVE  /\ Char(n, i) \in Chars /\ Place(Char(n, i)) = 4 * n + i
           /\ Char(n, i).line = n /\ (Char(n, i).part = "CR" <=> i = 3)
<1>1. /\ DOMAIN Parts = 1 .. 4
      /\ Parts[1] = "head" /\ Parts[2] = "tail" /\ Parts[3] = "CR" /\ Parts[4] = "LF"
  BY DEF Parts
<1>2. i = 1 \/ i = 2 \/ i = 3 \/ i = 4
  OBVIOUS
<1>3. Index(Parts[i]) = i /\ Parts[i] \in {Parts[k] : k \in DOMAIN Parts}
      /\ (Parts[i] = "CR" <=> i = 3)
  BY <1>1, <1>2 DEF Index
<1> HIDE DEF Parts
<1>4. Char(n, i).line = n /\ Char(n, i).part = Parts[i]
  BY DEF Char
<1> QED
  BY <1>3, <1>4 DEF Place, Chars, Char

LEMMA PlaceOf ==
    ASSUME NEW c \in Chars
    PROVE  /\ c.line \in 0 .. MaxLines /\ Index(c.part) \in 1 .. 4
           /\ Place(c) = 4 * c.line + Index(c.part) /\ Place(c) \in Nat
           /\ Index(c.part) = 3 <=> c.part = "CR"
           /\ Index(c.part) = 4 <=> c.part = "LF"
<1>1. {Parts[i] : i \in DOMAIN Parts} = {"head", "tail", "CR", "LF"}
  BY DEF Parts
<1>2. c.line \in 0 .. MaxLines /\ c.part \in {"head", "tail", "CR", "LF"}
  BY <1>1 DEF Chars
<1>3. MaxLines \in Nat
  BY ConstantsAssumption
<1> QED
  BY <1>2, <1>3 DEF Place, Index

(* Two characters of a run of consecutive ones without a '\r', neither of    *)
(* them a '\n', belong to one line.                                          *)
LEMMA SameLine ==
    ASSUME NEW s \in Seq(Chars), NEW p \in Int,
           \A j \in 1 .. Len(s) : Place(s[j]) = p + j - 1 /\ s[j].part # "CR",
           NEW i \in 1 .. Len(s), NEW k \in 1 .. Len(s), i <= k,
           s[i].part # "LF", s[k].part # "LF"
    PROVE  s[i].line = s[k].line
<1>1. /\ Len(s) \in Nat /\ s[i] \in Chars /\ s[k] \in Chars
      /\ \A j \in 1 .. Len(s) : s[j] \in Chars
  BY LenProperties, ElementOfSeq
<1> DEFINE Of(j) == /\ s[j].line \in Nat /\ Index(s[j].part) \in 1 .. 4
                    /\ Index(s[j].part) # 3
                    /\ p + j - 1 = 4 * s[j].line + Index(s[j].part)
<1>2. \A j \in 1 .. Len(s) : Of(j)
  <2> SUFFICES ASSUME NEW j \in 1 .. Len(s) PROVE Of(j)
    OBVIOUS
  <2>1. s[j] \in Chars /\ Place(s[j]) = p + j - 1 /\ s[j].part # "CR"
    BY <1>1
  <2>2. /\ s[j].line \in 0 .. MaxLines /\ Index(s[j].part) \in 1 .. 4
        /\ Index(s[j].part) = 3 <=> s[j].part = "CR"
        /\ Place(s[j]) = 4 * s[j].line + Index(s[j].part)
    BY <2>1, PlaceOf
  <2> QED
    BY <2>1, <2>2, SMTT(20)
<1>3. Index(s[i].part) # 4 /\ Index(s[k].part) # 4
  BY <1>1, PlaceOf
<1> DEFINE m == s[i].line
           n == s[k].line
           a == Index(s[i].part)
           b == Index(s[k].part)
<1>4. Of(i) /\ Of(k)
  BY <1>2
<1>5. /\ m \in Nat /\ n \in Nat /\ a \in {1, 2} /\ b \in {1, 2}
      /\ p + i - 1 = 4 * m + a /\ p + k - 1 = 4 * n + b
  <2>1. a \in 1 .. 4 /\ b \in 1 .. 4 /\ a # 3 /\ b # 3 /\ a # 4 /\ b # 4
    BY <1>3, <1>4
  <2> QED
    BY <1>4, <2>1
<1>6. SUFFICES ASSUME m # n PROVE FALSE
  OBVIOUS
<1> HIDE DEF m, n, a, b
<1>7. m < n
  BY <1>5, <1>6
<1>8. PICK j \in 1 .. Len(s) : p + j - 1 = 4 * m + 3
  <2>1. 4 * m + 4 - p \in 1 .. Len(s)
    BY <1>1, <1>5, <1>7
  <2>2. p + (4 * m + 4 - p) - 1 = 4 * m + 3
    BY <1>5
  <2> QED
    BY <2>1, <2>2
<1>9. Of(j)
  BY <1>2
<1>10. PICK l \in Nat, c \in 1 .. 4 : c # 3 /\ 4 * m + 3 = 4 * l + c
  BY <1>8, <1>9
<1>11. l = m
  <2>1. m \in Nat /\ l \in Nat /\ c \in Nat /\ 1 <= c /\ c <= 4
    BY <1>5, <1>10
  <2>2. 4 * m + 3 = 4 * l + c
    BY <1>10
  <2> QED
    BY <2>1, <2>2
<1> QED
  BY <1>5, <1>10, <1>11

-----------------------------------------------------------------------------
(* The steps *)

ReceiveInv == InboxInv /\ LineInv /\ CommandsInv

(* The places are numbers, and what a receive thread has is behind Front.    *)
LEMMA Places ==
    ASSUME ReceiveInv
    PROVE  /\ Len(inbox) \in Nat /\ Ahead \in Nat /\ Front \in Int
           /\ \A r \in Receivers : /\ Len(recievedLine[r]) \in Nat /\ Gap(r) \in {0, 1}
                                   /\ LineFront(r) \in Int
                                   /\ LineFront(r) = Front - Gap(r) - Len(recievedLine[r])
                                   /\ LineFront(r) <= Front
<1>1. server.line \in Nat /\ server.part \in Nat
  BY ConstantsAssumption DEF ReceiveInv, InboxInv
<1>2. Ahead \in Nat
  BY <1>1 DEF Ahead
<1>3. Len(inbox) \in Nat
  BY LenProperties DEF ReceiveInv, InboxInv
<1>4. Front \in Int
  BY <1>2, <1>3 DEF Front
<1>5. ASSUME NEW r \in Receivers
      PROVE  Len(recievedLine[r]) \in Nat /\ Gap(r) \in {0, 1}
  <2>1. recievedLine[r] \in Seq(Chars)
    BY DEF ReceiveInv, LineInv
  <2> QED
    BY <2>1, LenProperties DEF Gap
<1> QED
  BY <1>2, <1>3, <1>4, <1>5 DEF LineFront

(* Nothing is received or sent at the start.                                 *)
LEMMA InitReceiveInv == Init => ReceiveInv
<1> SUFFICES ASSUME Init PROVE ReceiveInv
  OBVIOUS
<1>1. InboxInv
  <2>1. server = [line |-> 1, part |-> 1] /\ inbox = <<>>
    BY DEF Init, FirstOfLine
  <2> QED
    BY <2>1, ConstantsAssumption DEF InboxInv
<1>2. LineInv
  BY DEF Init, LineInv, Live, RPCs
<1>3. CommandsInv
  BY DEF Init, CommandsInv, CommandsInOrder
<1> QED
  BY <1>1, <1>2, <1>3 DEF ReceiveInv

(* A step that changes neither the stream nor the receive threads.           *)
LEMMA ReceiveFrame ==
    ASSUME ReceiveInv, UNCHANGED <<server, inbox, rpc, recievedLine, commands>>
    PROVE  ReceiveInv'
  BY DEF ReceiveInv, InboxInv, LineInv, CommandsInv, CommandsInOrder, Live, Front, Ahead,
         LineFront, Gap, Place, Index

(* The server sends the character at Ahead.                                  *)
LEMMA ServerSendsInv ==
    ASSUME ReceiveInv, ServerSends
    PROVE  ReceiveInv'
<1>1. UNCHANGED <<rpc, recievedLine, commands>>
  BY DEF ServerSends, receiver
<1> DEFINE c == Char(server.line, server.part)
           n == Len(inbox)
<1>2. /\ server.line \in 1 .. MaxLines /\ server.part \in 1 .. 4
      /\ server = [line |-> server.line, part |-> server.part]
      /\ inbox \in Seq(Chars) /\ n \in Nat
      /\ \A i \in 1 .. n : Place(inbox[i]) = Front + i - 1
  BY Places, ConstantsAssumption DEF ServerSends, ReceiveInv, InboxInv
<1>3. c \in Chars /\ Place(c) = Ahead
  BY <1>2, CharPlace DEF Ahead
<1>4. inbox' = Append(inbox, c)
  BY DEF ServerSends
<1>5. /\ server' \in [line : 1 .. MaxLines + 1, part : 1 .. 4]
      /\ server'.part # 1 => server'.line <= MaxLines
      /\ 4 * server'.line + server'.part = 4 * server.line + server.part + 1
  <2>1. Len(Parts) = 4
    BY DEF Parts
  <2>2. CASE server.part = 4
    <3>1. server' = [line |-> server.line + 1, part |-> 1]
      BY <2>1, <2>2 DEF ServerSends, FirstOfLine
    <3>2. server'.line = server.line + 1 /\ server'.part = 1
      BY <3>1
    <3>3. server.line + 1 \in 1 .. MaxLines + 1
      BY <1>2, ConstantsAssumption
    <3>4. server' \in [line : 1 .. MaxLines + 1, part : 1 .. 4]
      BY <3>1, <3>3
    <3>5. 4 * server'.line + server'.part = 4 * server.line + server.part + 1
      BY <1>2, <2>2, <3>2
    <3> QED
      BY <3>2, <3>4, <3>5
  <2>3. CASE server.part # 4
    <3>1. server' = [line |-> server.line, part |-> server.part + 1]
      BY <2>1, <2>3, <1>2 DEF ServerSends
    <3>2. server'.line = server.line /\ server'.part = server.part + 1
      BY <3>1
    <3>3. server.line \in 1 .. MaxLines + 1 /\ server.part + 1 \in 1 .. 4
      BY <1>2, <2>3, ConstantsAssumption
    <3>4. server' \in [line : 1 .. MaxLines + 1, part : 1 .. 4]
      BY <3>1, <3>3
    <3>5. 4 * server'.line + server'.part = 4 * server.line + server.part + 1
      BY <1>2, <3>2
    <3> QED
      BY <1>2, <3>2, <3>4, <3>5
  <2> QED
    BY <2>2, <2>3
<1> HIDE DEF c
<1>6. /\ inbox' \in Seq(Chars) /\ Len(inbox') = n + 1
      /\ \A i \in 1 .. n : inbox'[i] = inbox[i]
      /\ inbox'[n + 1] = c
  BY <1>2, <1>3, <1>4, AppendProperties
<1>7. Ahead' = Ahead + 1 /\ Front' = Front /\ Front = Ahead - n /\ Ahead \in Nat
  BY <1>2, <1>5, <1>6, Places DEF Ahead, Front
<1>8. \A i \in 1 .. Len(inbox') : Place(inbox'[i]) = Front' + i - 1
  <2> SUFFICES ASSUME NEW i \in 1 .. n + 1 PROVE Place(inbox'[i]) = Front + i - 1
    BY <1>6, <1>7
  <2>1. CASE i = n + 1
    BY <2>1, <1>2, <1>3, <1>6, <1>7
  <2>2. CASE i # n + 1
    <3>1. i \in 1 .. n
      BY <2>2, <1>2
    <3> QED
      BY <3>1, <1>2, <1>6
  <2> QED
    BY <2>1, <2>2
<1>9. InboxInv'
  BY <1>5, <1>6, <1>8 DEF InboxInv
<1>10. LineInv' /\ CommandsInv'
  <2>1. \A r : LineFront(r)' = LineFront(r)
    BY <1>1, <1>7 DEF LineFront, Gap
  <2> HIDE DEF n
  <2> QED
    BY <1>1, <1>7, <2>1 DEF ReceiveInv, LineInv, CommandsInv, CommandsInOrder, Live, Place, Index
<1> QED
  BY <1>9, <1>10 DEF ReceiveInv

(* A receive thread without a character of a line is at Front.               *)
LEMMA EmptyFront ==
    ASSUME NEW r \in Receivers, Front' \in Int, recievedLine'[r] = <<>>,
           rpc'[r] \in {"dead", "loop", "receive"}
    PROVE  LineFront(r)' = Front'
<1>1. Gap(r)' = 0 /\ Len(recievedLine'[r]) = 0
  BY DEF Gap
<1>2. PICK f \in Int : Front' = f
  OBVIOUS
<1> QED
  BY <1>1, <1>2 DEF LineFront

(* A successful connect: the new receive thread has nothing yet, and nothing *)
(* of the old connection is left to be received.                             *)
LEMMA ConnectReceiveInv ==
    ASSUME ReceiveInv, ConnectionInv, Connect
    PROVE  ReceiveInv'
<1>1. \A r \in Receivers : rpc[r] = "dead"
  BY ConstantsAssumption DEF Connect, ConnectionInv, Live
<1>2. PICK q \in Receivers : /\ rpc' = [rpc EXCEPT ![q] = "loop"]
                             /\ recievedLine' = [recievedLine EXCEPT ![q] = <<>>]
  <2> DEFINE q == CHOOSE r \in Receivers : rpc[r] = "dead"
  <2>1. /\ \E r \in Receivers : rpc[r] = "dead"
        /\ rpc' = [rpc EXCEPT ![q] = "loop"]
        /\ recievedLine' = [recievedLine EXCEPT ![q] = <<>>]
    BY DEF Connect
  <2>2. q \in Receivers
    BY <2>1
  <2> QED
    BY <2>1, <2>2
<1>3. /\ rpc \in [Receivers -> RPCs] /\ recievedLine \in [Receivers -> Seq(Chars)]
      /\ server \in [line : 1 .. MaxLines + 1, part : 1 .. 4]
      /\ server.part # 1 => server.line <= MaxLines
  BY DEF ReceiveInv, LineInv, InboxInv
<1>4. /\ rpc' \in [Receivers -> RPCs] /\ recievedLine' \in [Receivers -> Seq(Chars)]
      /\ \A r \in Receivers : rpc'[r] # "dead" => r = q
      /\ rpc'[q] = "loop" /\ recievedLine'[q] = <<>>
  <2>1. "loop" \in RPCs /\ <<>> \in Seq(Chars)
    BY DEF RPCs
  <2> QED
    BY <1>1, <1>2, <1>3, <2>1
<1>5. /\ inbox' = <<>> /\ commands' = commands
      /\ server' = IF server.part = 1 THEN server ELSE FirstOfLine(server.line + 1)
  BY DEF Connect
<1>6. /\ server' \in [line : 1 .. MaxLines + 1, part : 1 .. 4]
      /\ server'.part # 1 => server'.line <= MaxLines
      /\ 4 * server'.line + server'.part >= 4 * server.line + server.part
  <2>1. CASE server.part = 1
    BY <1>3, <1>5, <2>1, ConstantsAssumption
  <2>2. CASE server.part # 1
    <3>1. server' = [line |-> server.line + 1, part |-> 1]
      BY <1>5, <2>2 DEF FirstOfLine
    <3>2. server.line + 1 \in 1 .. MaxLines + 1 /\ server.line \in Nat /\ server.part \in 1 .. 4
      BY <1>3, <2>2, ConstantsAssumption
    <3>3. server'.line = server.line + 1 /\ server'.part = 1
      BY <3>1
    <3>4. server' \in [line : 1 .. MaxLines + 1, part : 1 .. 4]
      BY <3>1, <3>2
    <3>5. 4 * server'.line + server'.part >= 4 * server.line + server.part
      BY <3>2, <3>3
    <3> QED
      BY <3>3, <3>4, <3>5
  <2> QED
    BY <2>1, <2>2
<1>7. Front' >= Front /\ Front \in Int /\ Front' \in Int
  <2>1. Len(inbox') = 0
    BY <1>5
  <2>2. server'.line \in Nat /\ server'.part \in Nat
    BY <1>6, ConstantsAssumption
  <2> QED
    BY <1>6, <2>1, <2>2, Places DEF Front, Ahead
<1>8. InboxInv'
  BY <1>5, <1>6 DEF InboxInv
<1>9. LineInv'
  BY <1>4 DEF LineInv, Live
<1>10. CommandsInv'
  <2>1. LineFront(q)' = Front'
    BY <1>4, <1>7, EmptyFront
  <2>2. /\ commands \in Seq(1 .. MaxLines)
        /\ \A i \in 1 .. Len(commands) : 4 * commands[i] + 3 < Front
        /\ CommandsInOrder
    BY DEF ReceiveInv, CommandsInv
  <2>3. ASSUME NEW i \in 1 .. Len(commands) PROVE 4 * commands[i] + 3 < Front'
    <3>1. commands[i] \in 1 .. MaxLines
      BY <2>2, ElementOfSeq
    <3>2. commands[i] \in Nat
      BY <3>1, ConstantsAssumption
    <3> QED
      BY <1>7, <2>2, <3>2
  <2>4. CommandsInOrder'
    BY <1>5, <2>2 DEF CommandsInOrder
  <2> QED
    BY <1>4, <1>5, <2>1, <2>2, <2>3, <2>4 DEF CommandsInv, Live
<1> QED
  BY <1>8, <1>9, <1>10 DEF ReceiveInv

-----------------------------------------------------------------------------
(* The steps of the receive thread *)

(* recv takes the oldest character, the one at Front.                        *)
LEMMA InboxPop ==
    ASSUME ReceiveInv, inbox # <<>>, inbox' = Tail(inbox), server' = server
    PROVE  /\ InboxInv' /\ Front' = Front + 1
           /\ Head(inbox) \in Chars /\ Place(Head(inbox)) = Front
<1> DEFINE n == Len(inbox)
<1>1. inbox \in Seq(Chars) /\ \A i \in 1 .. n : Place(inbox[i]) = Front + i - 1
  BY DEF ReceiveInv, InboxInv
<1>2. /\ n \in Nat /\ n >= 1 /\ Tail(inbox) \in Seq(Chars) /\ Len(Tail(inbox)) = n - 1
      /\ \A i \in 1 .. n - 1 : Tail(inbox)[i] = inbox[i + 1]
      /\ Head(inbox) = inbox[1] /\ inbox[1] \in Chars
  BY <1>1, HeadTailProperties, EmptySeq, LenProperties, ElementOfSeq
<1>3. Front' = Front + 1 /\ Front \in Int
  BY <1>2, Places DEF Front, Ahead
<1>4. ASSUME NEW i \in 1 .. n - 1 PROVE Place(Tail(inbox)[i]) = Front + 1 + i - 1
  <2>1. i + 1 \in 1 .. n /\ Tail(inbox)[i] = inbox[i + 1]
    BY <1>2
  <2>2. Place(inbox[i + 1]) = Front + (i + 1) - 1
    BY <1>1, <2>1
  <2> QED
    BY <1>3, <2>1, <2>2
<1>5. InboxInv'
  BY <1>2, <1>3, <1>4 DEF ReceiveInv, InboxInv
<1> QED
  BY <1>1, <1>2, <1>3, <1>5

(* A step after which the only receive thread has an empty line.             *)
LEMMA EmptyLine ==
    ASSUME ReceiveInv, InboxInv', NEW r \in Receivers, NEW pc \in {"dead", "loop", "receive"},
           \A q \in Receivers : rpc'[q] # "dead" => q = r,
           rpc' = [rpc EXCEPT ![r] = pc],
           recievedLine' = [recievedLine EXCEPT ![r] = <<>>],
           commands' \in Seq(1 .. MaxLines), CommandsInOrder',
           \A i \in 1 .. Len(commands') : 4 * commands'[i] + 3 < Front'
    PROVE  ReceiveInv'
<1>1. rpc \in [Receivers -> RPCs] /\ recievedLine \in [Receivers -> Seq(Chars)]
  BY DEF ReceiveInv, LineInv
<1>2. /\ rpc' \in [Receivers -> RPCs] /\ recievedLine' \in [Receivers -> Seq(Chars)]
      /\ rpc'[r] = pc /\ recievedLine'[r] = <<>>
  BY <1>1 DEF RPCs
<1>3. LineInv'
  BY <1>2 DEF LineInv, Live
<1>4. Front' \in Int
  <2>1. server'.line \in Nat /\ server'.part \in Nat /\ Len(inbox') \in Nat
    BY ConstantsAssumption, LenProperties DEF InboxInv
  <2> QED
    BY <2>1 DEF Front, Ahead
<1>5. LineFront(r)' = Front'
  BY <1>2, <1>4, EmptyFront
<1>6. CommandsInv'
  BY <1>5 DEF CommandsInv, Live
<1> QED
  BY <1>3, <1>6 DEF ReceiveInv

(* What was complete stays so as the stream goes on.                         *)
LEMMA CommandsStay ==
    ASSUME ReceiveInv, Front' \in Int, Front' >= Front, commands' = commands
    PROVE  /\ commands' \in Seq(1 .. MaxLines) /\ CommandsInOrder'
           /\ \A i \in 1 .. Len(commands') : 4 * commands'[i] + 3 < Front'
<1>1. /\ commands \in Seq(1 .. MaxLines) /\ CommandsInOrder
      /\ \A i \in 1 .. Len(commands) : 4 * commands[i] + 3 < Front
  BY DEF ReceiveInv, CommandsInv
<1>2. ASSUME NEW i \in 1 .. Len(commands) PROVE 4 * commands[i] + 3 < Front'
  <2>1. commands[i] \in 1 .. MaxLines
    BY <1>1, ElementOfSeq
  <2>2. commands[i] \in Nat /\ Front \in Int
    BY <2>1, ConstantsAssumption, Places
  <2> QED
    BY <1>1, <2>2
<1>3. CommandsInOrder'
  BY <1>1 DEF CommandsInOrder
<1> QED
  BY <1>1, <1>2, <1>3

(* A line that is a command ends with the last character of its text, so it  *)
(* was complete before Front and began after every command before it.        *)
LEMMA CommandComplete ==
    ASSUME ReceiveInv, NEW r \in Live, Gap(r) = 1, IsCommand(recievedLine[r])
    PROVE  /\ CommandLine(recievedLine[r]) \in 1 .. MaxLines
           /\ 4 * CommandLine(recievedLine[r]) + 3 < Front
           /\ \A i \in 1 .. Len(commands) : commands[i] < CommandLine(recievedLine[r])
<1> DEFINE line == recievedLine[r]
           k == Len(line)
<1>1. r \in Receivers /\ line \in Seq(Chars)
  BY DEF Live, ReceiveInv, LineInv
<1>2. PICK n \in 1 .. MaxLines : line \in { <<Char(n, 1), Char(n, 2)>>,
                                            <<Char(n - 1, 4), Char(n, 1), Char(n, 2)>> }
  BY DEF IsCommand
<1>3. k \in {2, 3} /\ line[k] = Char(n, 2)
  <2>1. CASE line = <<Char(n, 1), Char(n, 2)>>
    <3>1. Len(line) = 2 /\ line[2] = Char(n, 2)
      BY <2>1
    <3> QED
      BY <3>1
  <2>2. CASE line = <<Char(n - 1, 4), Char(n, 1), Char(n, 2)>>
    <3>1. Len(line) = 3 /\ line[3] = Char(n, 2)
      BY <2>2
    <3> QED
      BY <3>1
  <2> QED
    BY <1>2, <2>1, <2>2
<1>4. n \in 0 .. MaxLines /\ n \in Nat
  BY <1>2, ConstantsAssumption
<1>5. Place(line[k]) = 4 * n + 2 /\ line[k].line = n
  BY <1>3, <1>4, CharPlace
<1> HIDE DEF line
<1>6. Place(line[k]) = LineFront(r) + k - 1
  <2>1. k \in 1 .. Len(line)
    BY <1>3
  <2> QED
    BY <2>1 DEF ReceiveInv, LineInv, line
<1>7. LineFront(r) = Front - 1 - k /\ LineFront(r) \in Int /\ Front \in Int
  BY <1>1, Places DEF line
<1> HIDE DEF k
<1>8. LineFront(r) + k - 1 = 4 * n + 2
  BY <1>5, <1>6
<1>9. LineFront(r) <= 4 * n + 1 /\ 4 * n + 3 < Front
  BY <1>3, <1>4, <1>7, <1>8
<1>10. CommandLine(recievedLine[r]) = n
  BY <1>5 DEF CommandLine, line, k
<1>11. ASSUME NEW i \in 1 .. Len(commands) PROVE commands[i] < n
  <2>1. 4 * commands[i] + 3 < LineFront(r) /\ commands[i] \in 1 .. MaxLines
    BY ElementOfSeq DEF ReceiveInv, CommandsInv
  <2>2. commands[i] \in Nat
    BY <2>1, ConstantsAssumption
  <2> QED
    BY <1>4, <1>7, <1>9, <2>1, <2>2
<1> QED
  BY <1>2, <1>9, <1>10, <1>11

(* ReceiveLine returns a line.                                               *)
LEMMA ReturnLineInv ==
    ASSUME ReceiveInv, InboxInv', NEW r \in Receivers, r \in Live, Gap(r) = 1, ReturnLine(r),
           \A q \in Receivers : rpc'[q] # "dead" => q = r,
           Front' \in Int, Front' >= Front
    PROVE  ReceiveInv'
<1>1. /\ rpc' = [rpc EXCEPT ![r] = "loop"]
      /\ recievedLine' = [recievedLine EXCEPT ![r] = <<>>]
  BY DEF ReturnLine
<1>2. CASE ~IsCommand(recievedLine[r])
  <2>1. commands' = commands
    BY <1>2 DEF ReturnLine
  <2> QED
    BY <1>1, <2>1, CommandsStay, EmptyLine
<1>3. CASE IsCommand(recievedLine[r])
  <2> DEFINE n == CommandLine(recievedLine[r])
             m == Len(commands)
  <2>1. n \in 1 .. MaxLines /\ 4 * n + 3 < Front /\ \A i \in 1 .. m : commands[i] < n
    BY <1>3, CommandComplete
  <2>2. commands' = Append(commands, n)
    BY <1>3 DEF ReturnLine
  <2> HIDE DEF n
  <2>3. /\ commands \in Seq(1 .. MaxLines) /\ m \in Nat
        /\ \A i, j \in 1 .. m : i < j => commands[i] < commands[j]
        /\ \A i \in 1 .. m : 4 * commands[i] + 3 < Front
    <3>1. commands \in Seq(1 .. MaxLines) /\ DOMAIN commands = 1 .. m
      BY LenProperties DEF ReceiveInv, CommandsInv
    <3> QED
      BY <3>1, LenProperties DEF ReceiveInv, CommandsInv, CommandsInOrder
  <2>4. /\ commands' \in Seq(1 .. MaxLines) /\ Len(commands') = m + 1
        /\ \A i \in 1 .. m : commands'[i] = commands[i]
        /\ commands'[m + 1] = n /\ DOMAIN commands' = 1 .. m + 1
    BY <2>1, <2>2, <2>3, AppendProperties, LenProperties
  <2>5. CommandsInOrder'
    <3> SUFFICES ASSUME NEW i \in 1 .. m + 1, NEW j \in 1 .. m + 1, i < j
                 PROVE  commands'[i] < commands'[j]
      BY <2>4 DEF CommandsInOrder
    <3>1. i \in 1 .. m
      BY <2>3
    <3>2. j \in 1 .. m \/ j = m + 1
      BY <2>3
    <3> QED
      BY <2>1, <2>3, <2>4, <3>1, <3>2
  <2>6. ASSUME NEW i \in 1 .. m + 1 PROVE 4 * commands'[i] + 3 < Front'
    <3>1. commands'[i] \in 1 .. MaxLines
      BY <2>4, ElementOfSeq
    <3>2. commands'[i] \in Nat /\ Front \in Int
      BY <3>1, ConstantsAssumption, Places
    <3>3. 4 * commands'[i] + 3 < Front
      <4>1. i \in 1 .. m \/ i = m + 1
        BY <2>3
      <4> QED
        BY <2>1, <2>3, <2>4, <4>1
    <3> QED
      BY <3>2, <3>3
  <2> HIDE DEF m
  <2> QED
    BY <1>1, <2>4, <2>5, <2>6, EmptyLine
<1> QED
  BY <1>2, <1>3

(* A step that moves the receive thread inside Receive.                      *)
LEMMA MoveInv ==
    ASSUME ReceiveInv, NEW r \in Receivers, r \in Live, NEW pc \in RPCs, pc # "dead",
           rpc' = [rpc EXCEPT ![r] = pc], Gap(r)' = Gap(r),
           UNCHANGED <<server, inbox, recievedLine, commands>>
    PROVE  ReceiveInv'
<1>1. rpc \in [Receivers -> RPCs] /\ rpc[r] # "dead"
  BY DEF ReceiveInv, LineInv, Live
<1>2. rpc' \in [Receivers -> RPCs] /\ Live' = Live
  BY <1>1 DEF Live
<1>3. \A q \in Receivers : Gap(q)' = Gap(q)
  <2>1. \A q \in Receivers : q # r => rpc'[q] = rpc[q]
    BY <1>1
  <2> QED
    BY <2>1 DEF Gap
<1>4. Front' = Front /\ \A q \in Receivers : LineFront(q)' = LineFront(q)
  BY <1>3 DEF LineFront, Front, Ahead
<1>5. InboxInv'
  BY <1>4 DEF ReceiveInv, InboxInv
<1>6. LineInv'
  BY <1>2, <1>4 DEF ReceiveInv, LineInv, Live
<1>7. CommandsInv'
  BY <1>2, <1>4 DEF ReceiveInv, CommandsInv, CommandsInOrder, Live
<1> QED
  BY <1>5, <1>6, <1>7 DEF ReceiveInv

(* recv returns a character: '\r' leaves a gap behind the line, every other  *)
(* one extends it.                                                           *)
LEMMA RecvCharInv ==
    ASSUME ReceiveInv, NEW r \in Receivers, RecvChar(r),
           \A q \in Receivers : rpc'[q] # "dead" => q = r
    PROVE  ReceiveInv'
<1> DEFINE c == Head(inbox)
           line == recievedLine[r]
           k == Len(line)
<1>1. /\ rpc[r] = "recv" /\ inbox # <<>> /\ inbox' = Tail(inbox)
      /\ server' = server /\ commands' = commands
  BY DEF RecvChar
<1>2. InboxInv' /\ Front' = Front + 1 /\ c \in Chars /\ Place(c) = Front
  BY <1>1, InboxPop
<1>3. /\ rpc \in [Receivers -> RPCs] /\ recievedLine \in [Receivers -> Seq(Chars)]
      /\ line \in Seq(Chars) /\ r \in Live
      /\ \A j \in 1 .. k : Place(line[j]) = LineFront(r) + j - 1 /\ line[j].part # "CR"
  BY <1>1 DEF ReceiveInv, LineInv, Live
<1>4. Gap(r) = 0 /\ k \in Nat /\ Front \in Int /\ LineFront(r) = Front - k
  <2>1. Gap(r) = 0
    BY <1>1 DEF Gap
  <2> QED
    BY <2>1, Places
<1>5. PICK f \in Int : Front = f
  BY <1>4
<1>6. \A i \in 1 .. Len(commands) : 4 * commands[i] + 3 < LineFront(r)
  BY <1>3 DEF ReceiveInv, CommandsInv
<1>7. ASSUME LineFront(r)' = LineFront(r) PROVE CommandsInv'
  <2>1. Front' \in Int /\ Front' >= Front
    BY <1>2, <1>5
  <2>2. /\ commands' \in Seq(1 .. MaxLines) /\ CommandsInOrder'
        /\ \A i \in 1 .. Len(commands') : 4 * commands'[i] + 3 < Front'
    BY <1>1, <2>1, CommandsStay
  <2>3. \A q \in Live' : q = r
    BY DEF Live
  <2> QED
    BY <1>1, <1>6, <1>7, <2>2, <2>3 DEF CommandsInv
<1>8. CASE c.part = "CR"
  <2>1. rpc' = [rpc EXCEPT ![r] = "receiveLF"] /\ recievedLine' = recievedLine
    BY <1>8 DEF RecvChar
  <2>2. rpc' \in [Receivers -> RPCs] /\ rpc'[r] = "receiveLF"
    BY <1>3, <2>1 DEF RPCs
  <2>3. LineFront(r)' = LineFront(r)
    <3>1. Gap(r)' = 1 /\ Front' = f + 1
      BY <1>2, <1>5, <2>2 DEF Gap
    <3>2. LineFront(r)' = (f + 1) - 1 - k
      BY <2>1, <3>1 DEF LineFront
    <3> QED
      BY <1>4, <1>5, <3>2
  <2>4. LineInv'
    <3>1. \A q \in Live' : q = r
      BY DEF Live
    <3> HIDE DEF line, k
    <3>2. \A j \in 1 .. Len(recievedLine'[r]) :
             /\ Place(recievedLine'[r][j]) = LineFront(r)' + j - 1
             /\ recievedLine'[r][j].part # "CR"
      BY <1>3, <2>1, <2>3 DEF line, k
    <3> QED
      BY <1>3, <2>1, <2>2, <3>1, <3>2 DEF LineInv
  <2> QED
    BY <1>2, <1>7, <2>3, <2>4 DEF ReceiveInv
<1>9. CASE c.part # "CR"
  <2>1. rpc' = [rpc EXCEPT ![r] = "receive"]
        /\ recievedLine' = [recievedLine EXCEPT ![r] = Append(line, c)]
    BY <1>9 DEF RecvChar
  <2>2. rpc' \in [Receivers -> RPCs] /\ rpc'[r] = "receive"
    BY <1>3, <2>1 DEF RPCs
  <2>3. /\ Append(line, c) \in Seq(Chars) /\ Len(Append(line, c)) = k + 1
        /\ \A j \in 1 .. k : Append(line, c)[j] = line[j]
        /\ Append(line, c)[k + 1] = c
    BY <1>2, <1>3, AppendProperties
  <2>4. /\ recievedLine' \in [Receivers -> Seq(Chars)]
        /\ recievedLine'[r] = Append(line, c)
    BY <1>3, <2>1, <2>3
  <2>5. LineFront(r)' = LineFront(r)
    <3>1. Gap(r)' = 0 /\ Front' = f + 1 /\ Len(recievedLine'[r]) = k + 1
      BY <1>2, <1>5, <2>2, <2>3, <2>4 DEF Gap
    <3>2. LineFront(r)' = (f + 1) - 0 - (k + 1)
      BY <3>1 DEF LineFront
    <3> QED
      BY <1>4, <1>5, <3>2
  <2>6. ASSUME NEW j \in 1 .. k + 1
        PROVE  /\ Place(Append(line, c)[j]) = LineFront(r) + j - 1
               /\ Append(line, c)[j].part # "CR"
    <3>1. CASE j \in 1 .. k
      BY <1>3, <2>3, <3>1
    <3>2. CASE j = k + 1
      <4>1. LineFront(r) + j - 1 = Front
        BY <1>4, <3>2
      <4>2. Append(line, c)[j] = c
        BY <2>3, <3>2
      <4> HIDE DEF line, c
      <4> QED
        BY <1>2, <1>9, <4>1, <4>2
    <3>3. j \in 1 .. k \/ j = k + 1
      <4> HIDE DEF k
      <4> QED
        BY <1>4
    <3> QED
      BY <3>1, <3>2, <3>3
  <2>7. LineInv'
    <3>1. \A q \in Live' : q = r
      BY DEF Live
    <3> HIDE DEF line, k, c
    <3> QED
      BY <2>2, <2>3, <2>4, <2>5, <2>6, <3>1 DEF LineInv
  <2> QED
    BY <1>2, <1>7, <2>5, <2>7 DEF ReceiveInv
<1> QED
  BY <1>8, <1>9

(* The receive thread that steps is the only one after its step.             *)
LEMMA OnlyReceiver ==
    ASSUME ConnectionInv, ConnectionInv', NEW r \in Receivers, r \in Live,
           m_ReceiveThread' = m_ReceiveThread
    PROVE  \A q \in Receivers : rpc'[q] # "dead" => q = r
<1>1. r = m_ReceiveThread
  BY DEF ConnectionInv
<1>2. \A q \in Receivers : rpc'[q] # "dead" => q = m_ReceiveThread'
  BY DEF ConnectionInv, Live
<1> QED
  BY <1>1, <1>2

(* A step that gives up the line and takes nothing from the stream.          *)
LEMMA GiveUpInv ==
    ASSUME ReceiveInv, NEW r \in Receivers, NEW pc \in {"dead", "loop", "receive"},
           \A q \in Receivers : rpc'[q] # "dead" => q = r,
           rpc' = [rpc EXCEPT ![r] = pc],
           recievedLine' = [recievedLine EXCEPT ![r] = <<>>],
           UNCHANGED <<server, inbox, commands>>
    PROVE  ReceiveInv'
<1>1. Front' = Front
  BY DEF Front, Ahead
<1>2. InboxInv'
  BY <1>1 DEF ReceiveInv, InboxInv
<1>3. Front' \in Int /\ Front' >= Front
  BY <1>1, Places
<1> QED
  BY <1>2, <1>3, CommandsStay, EmptyLine

(* The switch at the head of the loop starts a new line.                     *)
LEMMA ReceiveLoopInv ==
    ASSUME ReceiveInv, NEW r \in Receivers, ReceiveLoop(r),
           \A q \in Receivers : rpc'[q] # "dead" => q = r
    PROVE  ReceiveInv'
<1> DEFINE pc == IF m_ReceiveState = 1 THEN "dead" ELSE "receive"
<1>1. /\ rpc' = [rpc EXCEPT ![r] = pc] /\ pc \in {"dead", "loop", "receive"}
      /\ recievedLine' = [recievedLine EXCEPT ![r] = <<>>]
      /\ UNCHANGED <<server, inbox, commands>>
  BY DEF ReceiveLoop, network
<1> HIDE DEF pc
<1> QED
  BY <1>1, GiveUpInv

(* A step that leaves the stream alone and returns the line.                 *)
LEMMA ReturnStayInv ==
    ASSUME ReceiveInv, NEW r \in Receivers, r \in Live, Gap(r) = 1, ReturnLine(r),
           \A q \in Receivers : rpc'[q] # "dead" => q = r,
           UNCHANGED <<server, inbox>>
    PROVE  ReceiveInv'
<1>1. Front' = Front
  BY DEF Front, Ahead
<1>2. InboxInv'
  BY <1>1 DEF ReceiveInv, InboxInv
<1>3. Front' \in Int /\ Front' >= Front
  BY <1>1, Places
<1> QED
  BY <1>2, <1>3, ReturnLineInv

(* Receive calls recv, or fails at once without a socket.                    *)
LEMMA RecvCallInv ==
    ASSUME ReceiveInv, NEW r \in Receivers, RecvCall(r),
           \A q \in Receivers : rpc'[q] # "dead" => q = r
    PROVE  ReceiveInv'
<1>1. UNCHANGED <<server, inbox>> /\ rpc[r] \in {"receive", "receiveLF"}
  BY DEF RecvCall, network
<1>2. r \in Live /\ rpc \in [Receivers -> RPCs]
  BY <1>1 DEF Live, ReceiveInv, LineInv
<1>3. CASE rpc[r] = "receive" /\ m_Sock = None
  <2>1. Nothing(r)
    BY <1>3 DEF RecvCall
  <2>2. /\ rpc' = [rpc EXCEPT ![r] = "loop"] /\ commands' = commands
        /\ recievedLine' = [recievedLine EXCEPT ![r] = <<>>]
    BY <2>1 DEF Nothing
  <2> QED
    BY <1>1, <2>2, GiveUpInv
<1>4. CASE rpc[r] = "receive" /\ m_Sock # None
  <2>1. rpc' = [rpc EXCEPT ![r] = "recv"] /\ UNCHANGED <<recievedLine, commands>>
    BY <1>4 DEF RecvCall
  <2>2. rpc'[r] = "recv"
    BY <1>2, <2>1
  <2>3. Gap(r)' = Gap(r) /\ "recv" \in RPCs
    BY <1>4, <2>2 DEF Gap, RPCs
  <2> QED
    BY <1>1, <1>2, <2>1, <2>3, MoveInv
<1>5. CASE rpc[r] = "receiveLF" /\ m_Sock = None
  <2>1. ReturnLine(r) /\ Gap(r) = 1
    BY <1>5 DEF RecvCall, Gap
  <2> QED
    BY <1>1, <1>2, <2>1, ReturnStayInv
<1>6. CASE rpc[r] = "receiveLF" /\ m_Sock # None
  <2>1. rpc' = [rpc EXCEPT ![r] = "recvLF"] /\ UNCHANGED <<recievedLine, commands>>
    BY <1>6 DEF RecvCall
  <2>2. rpc'[r] = "recvLF"
    BY <1>2, <2>1
  <2>3. Gap(r)' = Gap(r) /\ "recvLF" \in RPCs
    BY <1>6, <2>2 DEF Gap, RPCs
  <2> QED
    BY <1>1, <1>2, <2>1, <2>3, MoveInv
<1> QED
  BY <1>1, <1>3, <1>4, <1>5, <1>6

(* recv has nothing: another try at the end of the stream, or the line is    *)
(* thrown away.                                                              *)
LEMMA RecvNothingInv ==
    ASSUME ReceiveInv, NEW r \in Receivers, RecvNothing(r),
           \A q \in Receivers : rpc'[q] # "dead" => q = r
    PROVE  ReceiveInv'
<1>1. UNCHANGED <<server, inbox>> /\ rpc[r] = "recv"
  BY DEF RecvNothing
<1>2. r \in Live /\ rpc \in [Receivers -> RPCs]
  BY <1>1 DEF Live, ReceiveInv, LineInv
<1>3. CASE peer \in {"closed", "resetting", "dead"}
  <2>1. rpc' = [rpc EXCEPT ![r] = "receive"] /\ UNCHANGED <<recievedLine, commands>>
    BY <1>3 DEF RecvNothing
  <2>2. rpc'[r] = "receive"
    BY <1>2, <2>1
  <2>3. Gap(r)' = Gap(r) /\ "receive" \in RPCs
    BY <1>1, <2>2 DEF Gap, RPCs
  <2> QED
    BY <1>1, <1>2, <2>1, <2>3, MoveInv
<1>4. CASE peer \notin {"closed", "resetting", "dead"}
  <2>1. Nothing(r)
    BY <1>4 DEF RecvNothing
  <2>2. /\ rpc' = [rpc EXCEPT ![r] = "loop"] /\ commands' = commands
        /\ recievedLine' = [recievedLine EXCEPT ![r] = <<>>]
    BY <2>1 DEF Nothing
  <2> QED
    BY <1>1, <2>2, GiveUpInv
<1> QED
  BY <1>3, <1>4

(* The character after '\r' is dropped, or does not come.                    *)
LEMMA RecvLFInv ==
    ASSUME ReceiveInv, NEW r \in Receivers, RecvLF(r),
           \A q \in Receivers : rpc'[q] # "dead" => q = r
    PROVE  ReceiveInv'
<1>1. server' = server /\ rpc[r] = "recvLF" /\ ReturnLine(r)
  BY DEF RecvLF
<1>2. r \in Live /\ Gap(r) = 1
  BY <1>1 DEF Live, Gap
<1>3. CASE inbox = <<>>
  <2>1. inbox' = inbox
    BY <1>3 DEF RecvLF
  <2> QED
    BY <1>1, <1>2, <2>1, ReturnStayInv
<1>4. CASE inbox # <<>>
  <2>1. inbox' = Tail(inbox)
    BY <1>4 DEF RecvLF
  <2>2. InboxInv' /\ Front' = Front + 1
    BY <1>1, <1>4, <2>1, InboxPop
  <2>3. Front' \in Int /\ Front' >= Front
    BY <2>2, Places
  <2> QED
    BY <1>1, <1>2, <2>2, <2>3, ReturnLineInv
<1> QED
  BY <1>3, <1>4

(* Every step keeps what is known about the stream.                          *)
LEMMA NextReceiveInv ==
    ASSUME ConnectionInv, ConnectionInv', ReceiveInv, [Next]_vars
    PROVE  ReceiveInv'
<1>1. CASE Connect
  BY <1>1, ConnectReceiveInv
<1>2. CASE ServerSends
  BY <1>2, ServerSendsInv
<1>3. ASSUME NEW r \in Receivers, RunReceive(r) PROVE ReceiveInv'
  <2>1. rpc[r] # "dead" /\ m_ReceiveThread' = m_ReceiveThread
    BY <1>3 DEF RunReceive, ReceiveLoop, RecvCall, RecvChar, RecvNothing, RecvLF, shared
  <2>2. r \in Live
    BY <2>1 DEF Live
  <2>3. \A q \in Receivers : rpc'[q] # "dead" => q = r
    BY <2>1, <2>2, OnlyReceiver
  <2> QED
    BY <1>3, <2>3, ReceiveLoopInv, RecvCallInv, RecvCharInv, RecvNothingInv, RecvLFInv
       DEF RunReceive
<1>4. ASSUME UNCHANGED <<server, inbox, receiver>> PROVE ReceiveInv'
  BY <1>4, ReceiveFrame DEF receiver
<1>5. CASE LoopTest \/ HandleEnd \/ ConnectFails \/ EndReceive \/ JoinReceive \/ Disconnect
  BY <1>4, <1>5 DEF LoopTest, HandleEnd, ConnectFails, EndReceive, JoinReceive, Disconnect, network
<1>6. CASE Subscribe \/ SendAlive \/ SendQueued
  BY <1>4, <1>6 DEF Subscribe, SendAlive, SendQueued, SendEffect, network
<1>7. CASE \/ ParseMessage \/ ParseStop \/ Timer \/ PeerLoss \/ ResetArrives \/ Reachability
           \/ Destroy \/ UNCHANGED vars
  BY <1>4, <1>7 DEF ParseMessage, ParseStop, Timer, PeerLoss, ResetArrives, Reachability, Destroy,
                    network, vars
<1> QED
  BY <1>1, <1>2, <1>3, <1>5, <1>6, <1>7 DEF Next, Worker

-----------------------------------------------------------------------------
(* The theorems *)

(* The lines of the server are received in place, whatever is cut off.       *)
THEOREM ReceiveInvariance == Spec => []ReceiveInv
<1>1. Init => ReceiveInv
  BY InitReceiveInv
<1>2. ConnectionInv /\ ConnectionInv' /\ ReceiveInv /\ [Next]_vars => ReceiveInv'
  BY NextReceiveInv
<1> QED
  BY <1>1, <1>2, ConnectionInvariance, PTL DEF Spec

(* What a receive thread has of its line has no gap, so no two lines of the  *)
(* server are in it.                                                         *)
LEMMA ReceiveNoSplice ==
    ASSUME ReceiveInv
    PROVE  NoSplice
<1> SUFFICES ASSUME NEW r \in Live,
                    NEW i \in DOMAIN recievedLine[r], NEW j \in DOMAIN recievedLine[r],
                    recievedLine[r][i].part # "LF", recievedLine[r][j].part # "LF"
             PROVE  recievedLine[r][i].line = recievedLine[r][j].line
  BY DEF NoSplice
<1> DEFINE s == recievedLine[r]
           p == LineFront(r)
<1>1. r \in Receivers /\ s \in Seq(Chars) /\ p \in Int
  BY Places DEF Live, ReceiveInv, LineInv
<1>2. \A k \in 1 .. Len(s) : Place(s[k]) = p + k - 1 /\ s[k].part # "CR"
  BY DEF ReceiveInv, LineInv
<1>3. i \in 1 .. Len(s) /\ j \in 1 .. Len(s)
  BY <1>1, LenProperties
<1>4. s[i].part # "LF" /\ s[j].part # "LF"
  OBVIOUS
<1> HIDE DEF s, p
<1>5. s[i].line = s[j].line
  <2>1. CASE i <= j
    BY <1>1, <1>2, <1>3, <1>4, <2>1, SameLine
  <2>2. CASE j <= i
    BY <1>1, <1>2, <1>3, <1>4, <2>2, SameLine
  <2> QED
    BY <1>1, <1>3, <2>1, <2>2
<1> QED
  BY <1>5 DEF s

(* NoSplice for every number of lines, receive threads and reconnections.    *)
THEOREM LinesNotSpliced == Spec => []NoSplice
<1>1. ReceiveInv => NoSplice
  BY ReceiveNoSplice
<1> QED
  BY <1>1, ReceiveInvariance, PTL

(* CommandsInOrder for every number of lines, receive threads and            *)
(* reconnections.                                                            *)
THEOREM CommandOrder == Spec => []CommandsInOrder
<1>1. ReceiveInv => CommandsInOrder
  BY DEF ReceiveInv, CommandsInv
<1> QED
  BY <1>1, ReceiveInvariance, PTL

-----------------------------------------------------------------------------
(* The types *)

(* The variables that are neither numbers nor sequences.                     *)
FlagTypes == m_RequestStop \in BOOLEAN /\ aliveDue \in BOOLEAN /\ reachable \in BOOLEAN
ControlTypes ==
    /\ wpc \in {"test", "handle", "connect", "subscribe", "alive", "send",
                "disconnect", "endReceive", "join", "done"}
    /\ m_State \in {0, 1, 2}
    /\ m_ReceiveState \in {0, 1}
    /\ m_ReceiveThread \in Receivers \union {None}
    /\ peer \in {"up", "closed", "resetting", "reset", "dead", "none"}
    /\ life \in {"running", "destroyed", "terminated"}
    /\ firstLine \in {None, "SUBSCRIBE", "ALIVE_MESSAGE", "MESSAGE"}

(* A socket is open from a successful connect until Disconnect closes it, so *)
(* what Disconnect closes was open.                                          *)
SocketTypes ==
    /\ m_Sock \in {None, "socket"}
    /\ openFds \in 0 .. MaxFds
    /\ m_Sock # None => openFds # 0
    /\ m_State # 0 /\ wpc # "endReceive" => m_Sock # None
    /\ wpc = "disconnect" => m_State = 2
    /\ wpc \in {"subscribe", "alive", "send"} => m_State = 1
    /\ wpc = "connect" => m_State = 0

(* The queue is never fuller than Size.                                      *)
QueueTypes ==
    /\ m_MsgToSendQueue \in Seq(1 .. MaxMessages) /\ Len(m_MsgToSendQueue) <= Size
    /\ queued \in 0 .. MaxMessages
    /\ sentHere \in Seq([message : 1 .. MaxMessages, result : Results])
    /\ sentInRun \in 0 .. MESSAGES_PER_RUN

TypeInv == FlagTypes /\ ControlTypes /\ SocketTypes /\ QueueTypes

(* No socket, no message and no thread at the start.                         *)
LEMMA InitTypeInv == Init => TypeInv
<1> SUFFICES ASSUME Init PROVE TypeInv
  OBVIOUS
<1>1. FlagTypes
  BY DEF Init, FlagTypes
<1>2. ControlTypes
  BY DEF Init, ControlTypes
<1>3. SocketTypes
  BY ConstantsAssumption DEF Init, SocketTypes
<1>4. QueueTypes
  <2>1. m_MsgToSendQueue = <<>> /\ queued = 0 /\ sentHere = <<>> /\ sentInRun = 0
    BY DEF Init
  <2> QED
    BY <2>1, ConstantsAssumption DEF QueueTypes
<1> QED
  BY <1>1, <1>2, <1>3, <1>4 DEF TypeInv

(* The worker's steps keep the flags.                                        *)
LEMMA FlagStep ==
    ASSUME FlagTypes, Worker \/ ParseMessage \/ ParseStop
    PROVE  FlagTypes'
<1> USE DEF FlagTypes, worker, outgoing, socket, shared, receiver, network
<1>1. CASE LoopTest
  BY <1>1 DEF LoopTest
<1>2. CASE HandleEnd
  BY <1>2 DEF HandleEnd
<1>3. CASE ConnectFails
  BY <1>3 DEF ConnectFails
<1>4. CASE Connect
  BY <1>4 DEF Connect
<1>5. CASE Subscribe
  BY <1>5 DEF Subscribe, SendEffect
<1>6. CASE SendAlive
  BY <1>6 DEF SendAlive, SendEffect
<1>7. CASE SendQueued
  BY <1>7 DEF SendQueued, SendEffect
<1>8. CASE Disconnect
  BY <1>8 DEF Disconnect
<1>9. CASE EndReceive
  BY <1>9 DEF EndReceive
<1>10. CASE JoinReceive
  BY <1>10 DEF JoinReceive
<1>11. CASE ParseMessage
  BY <1>11 DEF ParseMessage
<1>12. CASE ParseStop
  BY <1>12 DEF ParseStop
<1> QED
  BY <1>1, <1>2, <1>3, <1>4, <1>5, <1>6, <1>7, <1>8, <1>9, <1>10, <1>11, <1>12 DEF Worker

(* The worker's steps keep the rest; m_ReceiveThread gets a receive thread.  *)
LEMMA ControlStep ==
    ASSUME ControlTypes, Worker \/ ParseMessage \/ ParseStop
    PROVE  ControlTypes'
<1> USE DEF ControlTypes, worker, outgoing, socket, shared, receiver, network
<1>1. CASE LoopTest
  BY <1>1 DEF LoopTest
<1>2. CASE HandleEnd
  BY <1>2 DEF HandleEnd
<1>3. CASE ConnectFails
  BY <1>3 DEF ConnectFails
<1>4. CASE Connect
  <2>1. /\ \E r \in Receivers : rpc[r] = "dead"
        /\ m_ReceiveThread' = CHOOSE r \in Receivers : rpc[r] = "dead"
    BY <1>4 DEF Connect
  <2>2. m_ReceiveThread' \in Receivers
    BY <2>1
  <2>3. /\ wpc' = "subscribe" /\ m_State' = 1 /\ m_ReceiveState' = 0 /\ peer' = "up"
        /\ firstLine' = None /\ life' \in {"terminated", life}
    BY <1>4 DEF Connect
  <2> QED
    BY <2>2, <2>3
<1>5. CASE Subscribe
  BY <1>5 DEF Subscribe, SendEffect
<1>6. CASE SendAlive
  BY <1>6 DEF SendAlive, SendEffect
<1>7. CASE SendQueued
  BY <1>7 DEF SendQueued, SendEffect
<1>8. CASE Disconnect
  BY <1>8 DEF Disconnect
<1>9. CASE EndReceive
  BY <1>9 DEF EndReceive
<1>10. CASE JoinReceive
  BY <1>10 DEF JoinReceive
<1>11. CASE ParseMessage
  BY <1>11 DEF ParseMessage
<1>12. CASE ParseStop
  BY <1>12 DEF ParseStop
<1> QED
  BY <1>1, <1>2, <1>3, <1>4, <1>5, <1>6, <1>7, <1>8, <1>9, <1>10, <1>11, <1>12 DEF Worker

(* Disconnect closes a socket that is open: m_State is 2 there.              *)
LEMMA SocketStep ==
    ASSUME SocketTypes, m_State \in {0, 1, 2}, Worker \/ ParseMessage \/ ParseStop
    PROVE  SocketTypes'
<1> USE DEF SocketTypes, worker, outgoing, socket, shared, receiver, network
<1>1. CASE LoopTest
  BY <1>1, ConstantsAssumption DEF LoopTest
<1>2. CASE HandleEnd
  BY <1>2, ConstantsAssumption DEF HandleEnd
<1>3. CASE ConnectFails
  BY <1>3, ConstantsAssumption DEF ConnectFails
<1>4. CASE Connect
  BY <1>4, ConstantsAssumption DEF Connect
<1>5. CASE Subscribe
  BY <1>5, ConstantsAssumption DEF Subscribe, SendEffect
<1>6. CASE SendAlive
  BY <1>6, ConstantsAssumption DEF SendAlive, SendEffect
<1>7. CASE SendQueued
  BY <1>7, ConstantsAssumption DEF SendQueued, SendEffect
<1>8. CASE Disconnect
  BY <1>8, ConstantsAssumption DEF Disconnect
<1>9. CASE EndReceive
  BY <1>9, ConstantsAssumption DEF EndReceive
<1>10. CASE JoinReceive
  BY <1>10, ConstantsAssumption DEF JoinReceive
<1>11. CASE ParseMessage
  BY <1>11, ConstantsAssumption DEF ParseMessage
<1>12. CASE ParseStop
  BY <1>12, ConstantsAssumption DEF ParseStop
<1> QED
  BY <1>1, <1>2, <1>3, <1>4, <1>5, <1>6, <1>7, <1>8, <1>9, <1>10, <1>11, <1>12 DEF Worker

(* ParseMessage never fills the queue above Size.                            *)
LEMMA ParseQueueTypes ==
    ASSUME QueueTypes, ParseMessage
    PROVE  QueueTypes'
<1> DEFINE Q == m_MsgToSendQueue
<1>1. sentHere' = sentHere /\ sentInRun' = sentInRun
  BY DEF ParseMessage, worker
<1>2. CASE HasSpace(Q, Size)
  <2>1. Q' = Append(Q, queued + 1) /\ queued' = queued + 1 /\ queued < MaxMessages
    BY <1>2 DEF ParseMessage, Push
  <2>2. queued + 1 \in 1 .. MaxMessages
    BY <2>1, ConstantsAssumption DEF QueueTypes
  <2>3. Q' \in Seq(1 .. MaxMessages) /\ Len(Q') = Len(Q) + 1
    BY <2>1, <2>2, AppendProperties DEF QueueTypes
  <2>4. Len(Q) + 1 <= Size
    <3>1. Len(Q) \in Nat
      BY LenProperties DEF QueueTypes
    <3> QED
      BY <1>2, <3>1, ConstantsAssumption DEF HasSpace
  <2>5. queued' \in 0 .. MaxMessages
    BY <2>1, <2>2, ConstantsAssumption DEF QueueTypes
  <2> QED
    BY <1>1, <2>3, <2>4, <2>5 DEF QueueTypes
<1>3. CASE ~HasSpace(Q, Size)
  <2>1. Q' = Q /\ queued' = queued
    BY <1>3 DEF ParseMessage, Push
  <2> QED
    BY <1>1, <2>1 DEF QueueTypes
<1> QED
  BY <1>2, <1>3

(* The loop pops a message only from a queue that has one.                   *)
LEMMA SendQueueTypes ==
    ASSUME QueueTypes, SendQueued
    PROVE  QueueTypes'
<1> DEFINE Q == m_MsgToSendQueue
<1>1. CASE sentInRun >= MESSAGES_PER_RUN \/ Q = <<>>
  BY <1>1 DEF SendQueued, IsEmpty, outgoing, QueueTypes
<1>2. CASE ~(sentInRun >= MESSAGES_PER_RUN \/ Q = <<>>)
  <2>1. /\ Q' = Tail(Q) /\ sentInRun' = sentInRun + 1 /\ queued' = queued
        /\ sentHere' = Append(sentHere, [message |-> Head(Q), result |-> Result(Head(Q))])
        /\ sentInRun < MESSAGES_PER_RUN /\ Q # <<>>
    BY <1>2, ConstantsAssumption DEF SendQueued, IsEmpty, QueueTypes
  <2>2. /\ Q' \in Seq(1 .. MaxMessages) /\ Len(Q') = Len(Q) - 1 /\ Len(Q) \in Nat
        /\ Head(Q) \in 1 .. MaxMessages
    BY <2>1, HeadTailProperties, EmptySeq, LenProperties DEF QueueTypes
  <2>3. Len(Q') <= Size
    BY <2>2, ConstantsAssumption DEF QueueTypes
  <2>4. [message |-> Head(Q), result |-> Result(Head(Q))]
          \in [message : 1 .. MaxMessages, result : Results]
    BY <2>2, ResultOf
  <2>5. sentHere' \in Seq([message : 1 .. MaxMessages, result : Results])
    BY <2>1, <2>4, AppendProperties DEF QueueTypes
  <2>6. sentInRun' \in 0 .. MESSAGES_PER_RUN
    BY <2>1, ConstantsAssumption DEF QueueTypes
  <2> QED
    BY <2>1, <2>2, <2>3, <2>5, <2>6 DEF QueueTypes
<1> QED
  BY <1>1, <1>2

(* The end of a connection forgets what was popped on it, and a new loop over*)
(* the queue counts from 0; all other steps leave the queue and these alone. *)
LEMMA QueueTypesFrame ==
    ASSUME QueueTypes, [Next]_vars, ~ParseMessage, ~SendQueued
    PROVE  QueueTypes'
<1>1. UNCHANGED <<m_MsgToSendQueue, queued>>
  BY QueueFrame
<1>2. sentHere' \in {<<>>, sentHere} /\ sentInRun' \in {0, sentInRun}
  <2>1. CASE Worker
    BY <2>1 DEF Worker, LoopTest, HandleEnd, ConnectFails, Connect, Subscribe, SendAlive,
                Disconnect, EndReceive, JoinReceive, outgoing
  <2>2. ASSUME NEW r \in Receivers, RunReceive(r)
        PROVE  sentHere' = sentHere /\ sentInRun' = sentInRun
    BY <2>2 DEF RunReceive, ReceiveLoop, RecvCall, RecvChar, RecvNothing, RecvLF,
                outgoing, worker
  <2>3. CASE \/ ParseStop \/ Timer \/ ServerSends \/ PeerLoss \/ ResetArrives \/ Reachability
             \/ Destroy
    BY <2>3 DEF ParseStop, Timer, ServerSends, PeerLoss, ResetArrives, Reachability, Destroy,
                outgoing, worker
  <2> QED
    BY <2>1, <2>2, <2>3 DEF Next, vars, outgoing, worker
<1>3. sentHere' \in Seq([message : 1 .. MaxMessages, result : Results])
  <2>1. <<>> \in Seq([message : 1 .. MaxMessages, result : Results])
    OBVIOUS
  <2> QED
    BY <1>2, <2>1 DEF QueueTypes
<1> QED
  BY <1>1, <1>2, <1>3, ConstantsAssumption DEF QueueTypes

(* The threads and the environment change little of this.                    *)
LEMMA OtherStep ==
    ASSUME TypeInv, UNCHANGED <<wpc, m_State, m_RequestStop, m_ReceiveState, m_ReceiveThread,
                                socket, firstLine>>,
           aliveDue' \in BOOLEAN, reachable' \in BOOLEAN,
           peer' \in {"up", "closed", "resetting", "reset", "dead", "none"},
           life' \in {"running", "destroyed", "terminated"}
    PROVE  FlagTypes' /\ ControlTypes' /\ SocketTypes'
<1>1. FlagTypes'
  BY DEF TypeInv, FlagTypes
<1>2. ControlTypes'
  BY DEF TypeInv, ControlTypes
<1>3. SocketTypes'
  BY DEF TypeInv, SocketTypes, socket
<1> QED
  BY <1>1, <1>2, <1>3

(* Every step keeps the types.                                               *)
LEMMA NextTypeInv ==
    ASSUME TypeInv, [Next]_vars
    PROVE  TypeInv'
<1>1. FlagTypes /\ ControlTypes /\ SocketTypes /\ QueueTypes
  BY DEF TypeInv
<1>2. QueueTypes'
  BY <1>1, ParseQueueTypes, SendQueueTypes, QueueTypesFrame
<1>3. m_State \in {0, 1, 2} /\ peer \in {"up", "closed", "resetting", "reset", "dead", "none"}
  BY <1>1 DEF ControlTypes
<1>4. aliveDue \in BOOLEAN /\ reachable \in BOOLEAN
  BY <1>1 DEF FlagTypes
<1>5. life \in {"running", "destroyed", "terminated"}
  BY <1>1 DEF ControlTypes
<1>6. CASE Worker \/ ParseMessage \/ ParseStop
  <2>1. FlagTypes' /\ ControlTypes' /\ SocketTypes'
    BY <1>1, <1>3, <1>6, FlagStep, ControlStep, SocketStep
  <2> QED
    BY <1>2, <2>1 DEF TypeInv
<1>7. ASSUME NEW r \in Receivers, RunReceive(r)
      PROVE  FlagTypes' /\ ControlTypes' /\ SocketTypes'
  <2>1. /\ UNCHANGED <<worker, outgoing, aliveDue, socket, shared, reachable, life>>
        /\ peer' \in {peer, RecvPeer}
    BY <1>7 DEF RunReceive, ReceiveLoop, RecvCall, RecvChar, RecvNothing, RecvLF, network
  <2>2. peer' \in {"up", "closed", "resetting", "reset", "dead", "none"}
    BY <1>3, <2>1 DEF RecvPeer
  <2>3. aliveDue' \in BOOLEAN /\ reachable' \in BOOLEAN
    BY <1>4, <2>1
  <2>4. life' \in {"running", "destroyed", "terminated"}
    BY <1>5, <2>1
  <2>5. UNCHANGED <<wpc, m_State, m_RequestStop, m_ReceiveState, m_ReceiveThread,
                    socket, firstLine>>
    BY <2>1 DEF worker, outgoing, shared
  <2> QED
    BY <2>2, <2>3, <2>4, <2>5, OtherStep
<1>8. CASE \/ Timer \/ ServerSends \/ PeerLoss \/ ResetArrives \/ Reachability \/ Destroy
           \/ UNCHANGED vars
  <2>1. UNCHANGED <<worker, outgoing, socket, shared>>
    BY <1>8 DEF Timer, ServerSends, PeerLoss, ResetArrives, Reachability, Destroy, vars
  <2>2. UNCHANGED <<wpc, m_State, m_RequestStop, m_ReceiveState, m_ReceiveThread,
                    socket, firstLine>>
    BY <2>1 DEF worker, outgoing, shared
  <2>3. aliveDue' \in {TRUE, aliveDue} /\ reachable' \in {~reachable, reachable}
    BY <1>8 DEF Timer, ServerSends, PeerLoss, ResetArrives, Reachability, Destroy, vars, network
  <2>4. peer' \in {"closed", "reset", peer} /\ life' \in {"destroyed", "terminated", life}
    BY <1>8 DEF Timer, ServerSends, PeerLoss, ResetArrives, Reachability, Destroy, vars, network
  <2>5. peer' \in {"up", "closed", "resetting", "reset", "dead", "none"}
    BY <1>3, <2>4
  <2>6. life' \in {"running", "destroyed", "terminated"}
    BY <1>5, <2>4
  <2>7. aliveDue' \in BOOLEAN /\ reachable' \in BOOLEAN
    BY <1>4, <2>3
  <2>8. FlagTypes' /\ ControlTypes' /\ SocketTypes'
    BY <2>2, <2>5, <2>6, <2>7, OtherStep
  <2> QED
    BY <1>2, <2>8 DEF TypeInv
<1> QED
  BY <1>2, <1>6, <1>7, <1>8 DEF Next, TypeInv

(* Every variable keeps its type, and no socket is closed that was not open. *)
THEOREM TypeInvariance == Spec => []TypeInv
<1>1. TypeInv /\ [Next]_vars => TypeInv'
  BY NextTypeInv
<1> QED
  BY <1>1, InitTypeInv, PTL DEF Spec

(* TypeOK for every value of the constants.                                  *)
THEOREM TypeCorrect == Spec => []TypeOK
<1>1. ASSUME TypeInv, QueueInv, ReceiveInv PROVE TypeOK
  <2>1. /\ m_RequestStop \in BOOLEAN /\ aliveDue \in BOOLEAN /\ reachable \in BOOLEAN
    BY <1>1 DEF TypeInv, FlagTypes
  <2>2. /\ wpc \in {"test", "handle", "connect", "subscribe", "alive", "send",
                    "disconnect", "endReceive", "join", "done"}
        /\ m_State \in 0 .. 2 /\ m_ReceiveState \in 0 .. 1
        /\ m_ReceiveThread \in Receivers \union {None}
        /\ peer \in {"up", "closed", "resetting", "reset", "dead", "none"}
        /\ life \in {"running", "destroyed", "terminated"}
        /\ firstLine \in {None, "SUBSCRIBE", "ALIVE_MESSAGE", "MESSAGE"}
    BY <1>1 DEF TypeInv, ControlTypes
  <2>3. m_Sock \in {None, "socket"} /\ openFds \in 0 .. MaxFds
    BY <1>1 DEF TypeInv, SocketTypes
  <2>4. /\ m_MsgToSendQueue \in Seq(1 .. MaxMessages) /\ Len(m_MsgToSendQueue) <= Size
        /\ queued \in 0 .. MaxMessages
        /\ sentHere \in Seq([message : 1 .. MaxMessages, result : Results])
        /\ sentInRun \in 0 .. MESSAGES_PER_RUN
    BY <1>1 DEF TypeInv, QueueTypes
  <2>5. lastSent \in 0 .. queued
    <3>1. Len(m_MsgToSendQueue) \in Nat
      BY <2>4, LenProperties
    <3> QED
      BY <1>1, <3>1 DEF QueueInv
  <2>6. /\ rpc \in [Receivers -> {"dead", "loop", "receive", "recv", "receiveLF", "recvLF"}]
        /\ \A r \in Receivers : recievedLine[r] \in Seq(Chars)
    BY <1>1 DEF ReceiveInv, LineInv, RPCs
  <2>7. inbox \in Seq(Chars) /\ commands \in Seq(1 .. MaxLines)
    BY <1>1 DEF ReceiveInv, InboxInv, CommandsInv
  <2>8. server \in [line : 1 .. MaxLines + 2, part : 1 .. Len(Parts)]
    <3>1. server \in [line : 1 .. MaxLines + 1, part : 1 .. 4]
      BY <1>1 DEF ReceiveInv, InboxInv
    <3>2. Len(Parts) = 4 /\ 1 .. MaxLines + 1 \subseteq 1 .. MaxLines + 2
      BY ConstantsAssumption DEF Parts
    <3> QED
      BY <3>1, <3>2
  <2> QED
    BY <2>1, <2>2, <2>3, <2>4, <2>5, <2>6, <2>7, <2>8 DEF TypeOK
<1> QED
  BY <1>1, TypeInvariance, QueueInvariance, ReceiveInvariance, PTL

=============================================================================
