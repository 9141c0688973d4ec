----------------------------- MODULE TcpManager -----------------------------
(***************************************************************************)
(* TCPManager and its TCPClient: the connection to the home control        *)
(* server.  The thread's worker connects, sends SUBSCRIBE, alive messages  *)
(* and queued messages, and takes the connection down when a send fails; a *)
(* receive thread, started at every connect, reads the server's commands   *)
(* one character at a time.  The two share m_Sock and m_ReceiveState.      *)
(*                                                                         *)
(* External: the server and the network, which may be unreachable, delay   *)
(* any character, and close or reset the connection at any moment.  A line *)
(* of the server is four characters here: two of text, '\r' and '\n'.      *)
(***************************************************************************)
EXTENDS MessageQueue, Integers, FiniteSets

CONSTANTS Receivers,         \* receive threads, as many as could exist at once
          None,              \* no socket (-1), no thread
          Size,              \* NR_OF_MESSAGES_IN_A_QUEUE
          MESSAGES_PER_RUN,
          MaxFds,            \* sockets the process may have open
          Unsendable,        \* messages whose id has an empty case in Run
          MaxMessages,       \* bound: messages to be sent to the server
          MaxLines           \* bound: lines the server sends

ASSUME ConstantsAssumption ==
    /\ Size \in Nat \ {0} /\ MESSAGES_PER_RUN \in Nat \ {0} /\ MaxFds \in Nat \ {0}
    /\ MaxMessages \in Nat /\ MaxLines \in Nat
    /\ None \notin Receivers \union {"socket", "SUBSCRIBE", "ALIVE_MESSAGE", "MESSAGE"}

VARIABLES
    wpc,              \* where the worker is in RunThread and Run
    m_RequestStop,    \* STOP_ALL was parsed
    m_State,          \* 0 not connected, 1 connected, 2 the connection is lost
    m_MsgToSendQueue, \* numbers of the messages to send
    sentInRun,        \* messages taken in this Run
    aliveDue,         \* m_CyclicSendTimer has reached 5000 ms
    m_Sock,           \* None or the connection's socket
    openFds,          \* sockets of this process that are open
    m_ReceiveState,   \* 0 receive, 1 end the receive thread
    m_ReceiveThread,  \* the joinable receive thread, or None
    rpc,              \* where each receive thread is in RunReceive
    recievedLine,     \* its local variable: the characters read so far
    peer,             \* "up", "closed" by the server, "resetting" after a send to the
                      \* closed connection, "reset" with the error not yet reported,
                      \* "dead" after it was, "none" without a socket
    inbox,            \* characters that arrived and were not read
    server,           \* [line, part]: what the server sends next
    reachable,        \* a connect would succeed
    life,             \* "running", "destroyed" or "terminated"
    queued,           \* ghost: messages ParseMessage has put in the queue
    lastSent,         \* ghost: the last message a send accepted
    sentHere,         \* ghost: the messages popped on this connection, each with
                      \* what became of it
    firstLine,        \* ghost: first line sent on this connection
    commands          \* ghost: lines of the commands pushed to m_TxQueue

worker == <<wpc, m_RequestStop, m_State, sentInRun>>
outgoing == <<m_MsgToSendQueue, queued, lastSent, sentHere, firstLine>>
socket == <<m_Sock, openFds>>
network == <<peer, inbox, server, reachable>>
receiver == <<rpc, recievedLine, commands>>
shared == <<m_ReceiveState, m_ReceiveThread>>
vars == <<worker, outgoing, aliveDue, socket, shared, receiver, network, life>>

-----------------------------------------------------------------------------
Parts == <<"head", "tail", "CR", "LF">>
Char(line, i) == [line |-> line, part |-> Parts[i]]
FirstOfLine(line) == [line |-> line, part |-> 1]

Init ==
    /\ wpc = "test" /\ m_RequestStop = FALSE /\ m_State = 0 /\ sentInRun = 0
    /\ m_MsgToSendQueue = <<>> /\ queued = 0 /\ lastSent = 0
    /\ sentHere = <<>> /\ firstLine = None
    /\ aliveDue = FALSE
    /\ m_Sock = None /\ openFds = 0
    /\ m_ReceiveState = 0 /\ m_ReceiveThread = None
    /\ rpc = [r \in Receivers |-> "dead"]
    /\ recievedLine = [r \in Receivers |-> <<>>]
    /\ commands = <<>>
    /\ peer = "none" /\ inbox = <<>>
    /\ server = FirstOfLine(1)
    /\ reachable \in BOOLEAN
    /\ life = "running"

-----------------------------------------------------------------------------
(* The worker: RunThread and HandleQueue *)

LoopTest ==
    /\ wpc = "test"
    /\ wpc' = IF m_RequestStop THEN "done" ELSE "handle"
    /\ sentInRun' = 0
    /\ UNCHANGED <<m_RequestStop, m_State, outgoing, aliveDue, socket, shared,
                   receiver, network, life>>

\* A message of m_MsgsToForward.  The result of Push is not looked at: a full
\* queue refuses the message and nothing else happens.
ParseMessage ==
    /\ wpc = "handle"
    /\ queued < MaxMessages
    /\ m_MsgToSendQueue' = Push(m_MsgToSendQueue, Size, queued + 1)
    /\ queued' = IF HasSpace(m_MsgToSendQueue, Size) THEN queued + 1 ELSE queued
    /\ UNCHANGED <<worker, lastSent, sentHere, firstLine, aliveDue, socket, shared,
                   receiver, network, life>>

\* STOP_ALL, pushed by the destructor.
ParseStop ==
    /\ wpc = "handle"
    /\ m_RequestStop' = TRUE
    /\ UNCHANGED <<wpc, m_State, sentInRun, outgoing, aliveDue, socket, shared,
                   receiver, network, life>>

HandleEnd ==
    /\ wpc = "handle"
    /\ wpc' = CASE m_State = 0 -> "connect"
                [] m_State = 1 -> "alive"
                [] m_State = 2 -> "disconnect"
    /\ UNCHANGED <<m_RequestStop, m_State, sentInRun, outgoing, aliveDue, socket, shared,
                   receiver, network, life>>

-----------------------------------------------------------------------------
(* The worker: Run *)

\* ::send on the socket: the kernel takes the line while the connection is up,
\* and goes on to take lines after the server has closed it; the first of them
\* provokes a reset, but only when that has arrived does a send fail.
SendSucceeds == m_Sock # None /\ peer \in {"up", "closed", "resetting"}
SendEffect(line) ==
    /\ peer' = CASE peer = "closed" -> "resetting"
                 [] peer = "reset" -> "dead"
                 [] OTHER -> peer
    /\ firstLine' = IF SendSucceeds /\ firstLine = None THEN line ELSE firstLine
    /\ UNCHANGED <<inbox, server, reachable>>

\* What becomes of message n, popped now: there is nothing to send for an id
\* with an empty case; a send fails, or it succeeds although the server has gone
\* and the line is "unheard", or the kernel has it to deliver.
Results == {"skipped", "refused", "unheard", "accepted"}
Result(n) == CASE n \in Unsendable -> "skipped"
               [] n \notin Unsendable /\ ~SendSucceeds -> "refused"
               [] n \notin Unsendable /\ SendSucceeds ->
                      IF peer = "up" THEN "accepted" ELSE "unheard"

\* State 0, the connect fails.  A socket that was created is forgotten.
ConnectFails ==
    /\ wpc = "connect"
    /\ ~reachable \/ (m_Sock = None /\ openFds >= MaxFds)
    /\ openFds' = IF m_Sock = None /\ openFds < MaxFds THEN openFds + 1 ELSE openFds
    /\ m_Sock' = None
    /\ wpc' = "test"
    /\ UNCHANGED <<m_RequestStop, m_State, sentInRun, outgoing, aliveDue, shared,
                   receiver, network, life>>

\* State 0, the connect succeeds: start the receive thread and the timer.
\* Assigning to a joinable std::thread would end the program.
Connect ==
    /\ wpc = "connect"
    /\ reachable /\ (m_Sock # None \/ openFds < MaxFds)
    /\ openFds' = IF m_Sock = None THEN openFds + 1 ELSE openFds
    /\ m_Sock' = "socket"
    /\ m_State' = 1
    /\ m_ReceiveState' = 0
    /\ \E r \in Receivers : rpc[r] = "dead"
    /\ LET r == CHOOSE q \in Receivers : rpc[q] = "dead"      \* the ended ones are alike
       IN /\ m_ReceiveThread' = r
          /\ rpc' = [rpc EXCEPT ![r] = "loop"]
          /\ recievedLine' = [recievedLine EXCEPT ![r] = <<>>]
    /\ life' = IF m_ReceiveThread # None THEN "terminated" ELSE life
    /\ aliveDue' = FALSE
    /\ peer' = "up" /\ inbox' = <<>>
    /\ server' = IF server.part = 1 THEN server ELSE FirstOfLine(server.line + 1)
    /\ firstLine' = None
    /\ wpc' = "subscribe"
    /\ UNCHANGED <<m_RequestStop, sentInRun, m_MsgToSendQueue, queued, lastSent, sentHere,
                   commands, reachable>>

\* Mutant: nobody subscribes.
SubscribeForgotten ==
    /\ wpc = "subscribe"
    /\ wpc' = "test"
    /\ UNCHANGED <<m_RequestStop, m_State, sentInRun, outgoing, aliveDue, socket, shared,
                   receiver, network, life>>

\* The rest of state 0: whether this send succeeds is not looked at.
Subscribe ==
    /\ wpc = "subscribe"
    /\ SendEffect("SUBSCRIBE")
    /\ wpc' = "test"
    /\ UNCHANGED <<m_RequestStop, m_State, sentInRun, m_MsgToSendQueue, queued,
                   lastSent, sentHere, aliveDue, socket, shared, receiver, life>>

\* State 1: an alive message every 5000 ms.
SendAlive ==
    /\ wpc = "alive"
    /\ IF ~aliveDue
         THEN wpc' = "send" /\ UNCHANGED <<m_State, aliveDue, firstLine, network>>
         ELSE /\ SendEffect("ALIVE_MESSAGE")
              /\ wpc' = IF SendSucceeds THEN "send" ELSE "test"
              /\ m_State' = IF SendSucceeds THEN 1 ELSE 2
              /\ aliveDue' = ~SendSucceeds
    /\ UNCHANGED <<m_RequestStop, sentInRun, m_MsgToSendQueue, queued, lastSent, sentHere,
                   socket, shared, receiver, life>>

\* Mutant: a message that could not be sent goes back to the end of the queue.
SendQueuedRequeue ==
    /\ wpc = "send"
    /\ IF sentInRun >= MESSAGES_PER_RUN \/ IsEmpty(m_MsgToSendQueue)
         THEN wpc' = "test" /\ UNCHANGED <<m_State, sentInRun, outgoing, network>>
         ELSE LET n == Head(m_MsgToSendQueue) IN
              /\ sentInRun' = sentInRun + 1
              /\ SendEffect("MESSAGE")
              /\ lastSent' = IF SendSucceeds THEN n ELSE lastSent
              /\ m_MsgToSendQueue' = IF SendSucceeds THEN Tail(m_MsgToSendQueue)
                                     ELSE Append(Tail(m_MsgToSendQueue), n)
              /\ m_State' = IF SendSucceeds THEN m_State ELSE 2
              /\ wpc' = IF SendSucceeds THEN wpc ELSE "test"
              /\ sentHere' = Append(sentHere, [message |-> n, result |-> Result(n)])
              /\ UNCHANGED queued
    /\ UNCHANGED <<m_RequestStop, aliveDue, socket, shared, receiver, life>>

\* Mutant: a failed send does not end the loop over the queue.
SendQueuedNoBreak ==
    /\ wpc = "send"
    /\ IF sentInRun >= MESSAGES_PER_RUN \/ IsEmpty(m_MsgToSendQueue)
         THEN wpc' = "test" /\ UNCHANGED <<m_State, sentInRun, outgoing, network>>
         ELSE LET n == Head(m_MsgToSendQueue) IN
              /\ m_MsgToSendQueue' = Tail(m_MsgToSendQueue)
              /\ sentInRun' = sentInRun + 1
              /\ SendEffect("MESSAGE")
              /\ lastSent' = IF SendSucceeds THEN n ELSE lastSent
              /\ sentHere' = Append(sentHere, [message |-> n, result |-> Result(n)])
              /\ m_State' = IF SendSucceeds THEN m_State ELSE 2
              /\ UNCHANGED <<queued, wpc>>
    /\ UNCHANGED <<m_RequestStop, aliveDue, socket, shared, receiver, life>>

\* State 1: one round of the loop over m_MsgToSendQueue, or its end.  The
\* message is popped before it is sent; an id with an empty case is dropped.
SendQueued ==
    /\ wpc = "send"
    /\ IF sentInRun >= MESSAGES_PER_RUN \/ IsEmpty(m_MsgToSendQueue)
         THEN wpc' = "test" /\ UNCHANGED <<m_State, sentInRun, outgoing, network>>
         ELSE LET n == Head(m_MsgToSendQueue)
                  sendOk == n \in Unsendable \/ SendSucceeds
              IN  /\ m_MsgToSendQueue' = Tail(m_MsgToSendQueue)
                  /\ sentInRun' = sentInRun + 1
                  /\ IF n \in Unsendable
                       THEN UNCHANGED <<network, firstLine, lastSent>>
                       ELSE /\ SendEffect("MESSAGE")
                            /\ lastSent' = IF SendSucceeds THEN n ELSE lastSent
                  /\ sentHere' = Append(sentHere, [message |-> n, result |-> Result(n)])
                  /\ m_State' = IF sendOk THEN m_State ELSE 2
                  /\ wpc' = IF sendOk THEN wpc ELSE "test"
                  /\ UNCHANGED queued
    /\ UNCHANGED <<m_RequestStop, aliveDue, socket, shared, receiver, life>>

\* Mutant: the socket stays open until after the join.
DisconnectForgotten ==
    /\ wpc = "disconnect"
    /\ wpc' = "endReceive"
    /\ UNCHANGED <<m_RequestStop, m_State, sentInRun, outgoing, aliveDue, socket, shared,
                   receiver, network, life>>

\* Mutant: Disconnect forgets "m_Sock = -1", the next one closes it again.
DisconnectKeepsSocket ==
    /\ wpc = "disconnect"
    /\ openFds' = openFds - 1
    /\ peer' = "none"
    /\ wpc' = "endReceive"
    /\ UNCHANGED <<m_RequestStop, m_State, sentInRun, outgoing, aliveDue, m_Sock, shared,
                   receiver, inbox, server, reachable, life>>

\* State 2: m_TCPClient.Disconnect().
Disconnect ==
    /\ wpc = "disconnect"
    /\ m_Sock' = None
    /\ openFds' = openFds - 1
    /\ peer' = "none"
    /\ wpc' = "endReceive"
    /\ UNCHANGED <<m_RequestStop, m_State, sentInRun, outgoing, aliveDue, shared,
                   receiver, inbox, server, reachable, life>>

\* State 2: ask the receive thread to end.
EndReceive ==
    /\ wpc = "endReceive"
    /\ m_State' = 0
    /\ m_ReceiveState' = 1
    /\ wpc' = "join"
    /\ sentHere' = <<>>
    /\ UNCHANGED <<m_RequestStop, sentInRun, m_MsgToSendQueue, queued, lastSent, firstLine,
                   aliveDue, socket, m_ReceiveThread, receiver, network, life>>

\* Mutant: m_ReceiveThread.detach().
DetachReceive ==
    /\ wpc = "join"
    /\ m_ReceiveThread' = None
    /\ wpc' = "test"
    /\ UNCHANGED <<m_RequestStop, m_State, sentInRun, outgoing, aliveDue, socket,
                   m_ReceiveState, receiver, network, life>>

\* State 2: m_ReceiveThread.join().
JoinReceive ==
    /\ wpc = "join"
    /\ rpc[m_ReceiveThread] = "dead"
    /\ m_ReceiveThread' = None
    /\ wpc' = "test"
    /\ UNCHANGED <<m_RequestStop, m_State, sentInRun, outgoing, aliveDue, socket,
                   m_ReceiveState, receiver, network, life>>

Worker == \/ LoopTest \/ HandleEnd
          \/ ConnectFails \/ Connect \/ Subscribe
          \/ SendAlive \/ SendQueued
          \/ Disconnect \/ EndReceive \/ JoinReceive

-----------------------------------------------------------------------------
(* The receive thread: RunReceive, ReceiveLine and Receive *)

\* switch (m_ReceiveState)
ReceiveLoop(r) ==
    /\ life = "running"
    /\ rpc[r] = "loop"
    /\ rpc' = [rpc EXCEPT ![r] = IF m_ReceiveState = 1 THEN "dead" ELSE "receive"]
    /\ recievedLine' = [recievedLine EXCEPT ![r] = <<>>]
    /\ UNCHANGED <<worker, outgoing, aliveDue, socket, shared, commands, network, life>>

\* A line is a command if it is the whole text of a line of the server; a '\n'
\* that came too late for the line before is white space to the parser.
IsCommand(line) ==
    \E n \in 1 .. MaxLines : line \in { <<Char(n, 1), Char(n, 2)>>,
                                        <<Char(n - 1, 4), Char(n, 1), Char(n, 2)>> }
CommandLine(line) == line[Len(line)].line

\* ReceiveLine returns "": back to the loop, which sleeps 100 ms.
Nothing(r) ==
    /\ rpc' = [rpc EXCEPT ![r] = "loop"]
    /\ recievedLine' = [recievedLine EXCEPT ![r] = <<>>]
    /\ UNCHANGED commands

\* ReceiveLine returns the line; a command is pushed to m_TxQueue.
ReturnLine(r) ==
    /\ rpc' = [rpc EXCEPT ![r] = "loop"]
    /\ commands' = IF IsCommand(recievedLine[r])
                     THEN Append(commands, CommandLine(recievedLine[r])) ELSE commands
    /\ recievedLine' = [recievedLine EXCEPT ![r] = <<>>]

\* Receive: recv on the socket m_Sock holds at the call; on -1 it fails at once.
RecvCall(r) ==
    /\ life = "running"
    /\ \/ /\ rpc[r] = "receive"
          /\ IF m_Sock = None
               THEN Nothing(r)
               ELSE rpc' = [rpc EXCEPT ![r] = "recv"] /\ UNCHANGED <<recievedLine, commands>>
       \/ /\ rpc[r] = "receiveLF"
          /\ IF m_Sock = None
               THEN ReturnLine(r)
               ELSE rpc' = [rpc EXCEPT ![r] = "recvLF"] /\ UNCHANGED <<recievedLine, commands>>
    /\ UNCHANGED <<worker, outgoing, aliveDue, socket, shared, network, life>>

\* recv returns a character.
RecvChar(r) ==
    /\ life = "running"
    /\ rpc[r] = "recv"
    /\ inbox # <<>>
    /\ inbox' = Tail(inbox)
    /\ IF Head(inbox).part = "CR"
         THEN rpc' = [rpc EXCEPT ![r] = "receiveLF"] /\ UNCHANGED recievedLine
         ELSE /\ rpc' = [rpc EXCEPT ![r] = "receive"]
              /\ recievedLine' = [recievedLine EXCEPT ![r] = Append(@, Head(inbox))]
    /\ UNCHANGED <<worker, outgoing, aliveDue, socket, shared, commands, peer, server,
                   reachable, life>>

\* A recv that finds no character reports the error of a reset, once.
RecvPeer == IF peer = "reset" THEN "dead" ELSE peer

\* recv has nothing: at the end of the stream it returns 0, which Receive takes
\* for a success, so ReceiveLine goes on; after a second without a character,
\* or at a reset, it fails and what was read is thrown away.
RecvNothing(r) ==
    /\ life = "running"
    /\ rpc[r] = "recv"
    /\ inbox = <<>>
    /\ peer' = RecvPeer
    /\ IF peer \in {"closed", "resetting", "dead"}
         THEN rpc' = [rpc EXCEPT ![r] = "receive"] /\ UNCHANGED <<recievedLine, commands>>
         ELSE Nothing(r)
    /\ UNCHANGED <<worker, outgoing, aliveDue, socket, shared, inbox, server, reachable, life>>

\* The character after '\r', whatever it is and whether it comes or not.
RecvLF(r) ==
    /\ life = "running"
    /\ rpc[r] = "recvLF"
    /\ IF inbox = <<>> THEN peer' = RecvPeer /\ UNCHANGED inbox
                       ELSE inbox' = Tail(inbox) /\ UNCHANGED peer
    /\ ReturnLine(r)
    /\ UNCHANGED <<worker, outgoing, aliveDue, socket, shared, server, reachable, life>>

RunReceive(r) == ReceiveLoop(r) \/ RecvCall(r) \/ RecvChar(r) \/ RecvNothing(r) \/ RecvLF(r)

-----------------------------------------------------------------------------
(* The environment *)

\* 5000 ms have passed; it matters only where the worker looks at the timer.
Timer ==
    /\ life = "running"
    /\ wpc = "alive" /\ ~aliveDue
    /\ aliveDue' = TRUE
    /\ UNCHANGED <<worker, outgoing, socket, shared, receiver, network, life>>

\* The next character of a line of the server arrives.
ServerSends ==
    /\ life = "running"
    /\ peer = "up"
    /\ server.line <= MaxLines
    /\ inbox' = Append(inbox, Char(server.line, server.part))
    /\ server' = IF server.part = Len(Parts) THEN FirstOfLine(server.line + 1)
                                             ELSE [server EXCEPT !.part = @ + 1]
    /\ UNCHANGED <<worker, outgoing, aliveDue, socket, shared, receiver, peer, reachable, life>>

\* The server closes the connection, or the network resets it.
PeerLoss ==
    /\ life = "running"
    /\ peer = "up"
    /\ peer' \in {"closed", "reset"}
    /\ UNCHANGED <<worker, outgoing, aliveDue, socket, shared, receiver, inbox, server,
                   reachable, life>>

\* The reset that a send to the closed connection provoked arrives, or the
\* network has given up on that line.
ResetArrives ==
    /\ life = "running"
    /\ peer = "resetting"
    /\ peer' = "reset"
    /\ UNCHANGED <<worker, outgoing, aliveDue, socket, shared, receiver, inbox, server,
                   reachable, life>>

\* The server goes away and comes back; it matters only in front of a connect,
\* where it may happen any number of times.
Reachability ==
    /\ life = "running"
    /\ wpc = "connect"
    /\ reachable' = ~reachable
    /\ UNCHANGED <<worker, outgoing, aliveDue, socket, shared, receiver, peer, inbox, server,
                   life>>

\* End of the destructor of TCPManager, after RequestStop has joined the
\* worker: destroying a joinable std::thread calls std::terminate.
Destroy ==
    /\ life = "running"
    /\ wpc = "done"
    /\ life' = IF m_ReceiveThread # None THEN "terminated" ELSE "destroyed"
    /\ UNCHANGED <<worker, outgoing, aliveDue, socket, shared, receiver, network>>

Next ==
    \/ Worker
    \/ ParseMessage
    \/ ParseStop
    \/ \E r \in Receivers : RunReceive(r)
    \/ Timer
    \/ ServerSends
    \/ PeerLoss
    \/ ResetArrives
    \/ Reachability
    \/ Destroy

\* The operating system runs both threads (of the receive threads there is one
\* at most, OneReceiver); time passes, so that a worker that looks at its timer
\* again and again finds it due; TCP tells a sender in the end that nobody takes
\* its data.
Fairness ==
    /\ WF_vars(Worker)
    /\ WF_vars(\E r \in Receivers : RunReceive(r))
    /\ SF_vars(Timer)
    /\ WF_vars(ResetArrives)

Spec == Init /\ [][Next]_vars /\ Fairness

-----------------------------------------------------------------------------
(* Properties *)

Chars == [line : 0 .. MaxLines, part : {Parts[i] : i \in DOMAIN Parts}]
Live == {r \in Receivers : rpc[r] # "dead"}

TypeOK ==
    /\ wpc \in {"test", "handle", "connect", "subscribe", "alive", "send",
                "disconnect", "endReceive", "join", "done"}
    /\ m_RequestStop \in BOOLEAN
    /\ m_State \in 0 .. 2
    /\ m_MsgToSendQueue \in Seq(1 .. MaxMessages) /\ Len(m_MsgToSendQueue) <= Size
    /\ sentInRun \in 0 .. MESSAGES_PER_RUN
    /\ aliveDue \in BOOLEAN
    /\ m_Sock \in {None, "socket"}
    /\ openFds \in 0 .. MaxFds
    /\ m_ReceiveState \in 0 .. 1
    /\ m_ReceiveThread \in Receivers \union {None}
    /\ rpc \in [Receivers -> {"dead", "loop", "receive", "recv", "receiveLF", "recvLF"}]
    /\ \A r \in Receivers : recievedLine[r] \in Seq(Chars)
    /\ peer \in {"up", "closed", "resetting", "reset", "dead", "none"}
    /\ inbox \in Seq(Chars)
    /\ server \in [line : 1 .. MaxLines + 2, part : 1 .. Len(Parts)]
    /\ reachable \in BOOLEAN
    /\ life \in {"running", "destroyed", "terminated"}
    /\ queued \in 0 .. MaxMessages /\ lastSent \in 0 .. queued
    /\ sentHere \in Seq([message : 1 .. MaxMessages, result : Results])
    /\ firstLine \in {None, "SUBSCRIBE", "ALIVE_MESSAGE", "MESSAGE"}
    /\ commands \in Seq(1 .. MaxLines)

\* There is never more than one receive thread, it is the one the worker would
\* join, and a connection is never set up while a receive thread of the one
\* before still runs: m_Sock, m_ReceiveState and the producer side of m_TxQueue
\* have one user each besides the worker.
OneReceiver ==
    /\ \A r \in Live : r = m_ReceiveThread
    /\ wpc = "connect" => Live = {}

\* A line that ReceiveLine puts together never mixes characters of two lines of
\* the server, although a timeout may cut a line at any place and a connection
\* may end in the middle of one ('\n' of the line before apart).
NoSplice ==
    \A r \in Live : \A i, j \in DOMAIN recievedLine[r] :
        LET c == recievedLine[r][i]  d == recievedLine[r][j]
        IN  "LF" \notin {c.part, d.part} => c.line = d.line

\* The server gets the subscription before anything else on every connection,
\* or it would not report what the client is to do.
SubscribedFirst == firstLine \in {None, "SUBSCRIBE"}

\* What a connection costs.  The messages popped on it are the last ones that
\* left the queue, one after the other: none is passed over and none is popped a
\* second time.  A send fails at most once, for the last of them, and then the
\* connection is given up.  Besides that message the server cannot have those
\* the kernel took after it had gone, however many; all it may have were popped
\* before these, so it never gets a message after one it missed.
CostOfConnection ==
    LET popped == queued - Len(m_MsgToSendQueue)
        n == Len(sentHere)
    IN  /\ \A i \in 1 .. n : sentHere[i].message = popped - n + i
        /\ \A i \in 1 .. n : sentHere[i].result = "refused" => i = n /\ m_State # 1
        /\ \A i, j \in 1 .. n :
               i < j /\ sentHere[i].result = "unheard" => sentHere[j].result # "accepted"

\* Messages leave in the order in which they were queued, over all connections;
\* that none leaves twice is part of QueueInv.
SentInOrder == [][lastSent' # lastSent => lastSent' > lastSent]_vars

\* Commands are pushed to m_TxQueue in the order in which the server sent them,
\* each at most once.
CommandsInOrder ==
    \A i, j \in DOMAIN commands : i < j => commands[i] < commands[j]

\* A lost connection is always noticed and taken down, the receive thread joined
\* although it may be in the middle of ReceiveLine, which spins after an orderly
\* close; unless the program stops.
LossNoticed ==
    (m_State = 1 /\ peer \in {"closed", "resetting", "reset", "dead"})
    ~> (wpc = "connect" \/ m_RequestStop)

\* The invariant behind the properties of a connection: what the worker knows
\* about its thread and its connection at each place of Run.
ConnectionInv ==
    /\ m_State \in 0 .. 2
    /\ DOMAIN rpc = Receivers
    /\ wpc = "connect" => m_State = 0
    /\ wpc \in {"subscribe", "alive", "send"} => m_State = 1
    /\ m_State = 0 /\ wpc # "join" => m_ReceiveThread = None
    /\ \A r \in Live : r = m_ReceiveThread
    /\ wpc = "subscribe" => firstLine = None
    /\ firstLine = None /\ m_Sock # None /\ wpc # "subscribe"
         => peer \notin {"up", "closed", "resetting"}
    /\ firstLine \in {None, "SUBSCRIBE"}

\* The invariant behind SentInOrder: the queue holds the messages queued last,
\* in the order in which they were queued, and none of them was sent.
QueueInv ==
    /\ m_MsgToSendQueue \in Seq(Nat)
    /\ queued \in Nat /\ lastSent \in Nat
    /\ lastSent <= queued - Len(m_MsgToSendQueue)
    /\ \A i \in 1 .. Len(m_MsgToSendQueue) :
           m_MsgToSendQueue[i] = queued - Len(m_MsgToSendQueue) + i

\* The invariant behind CostOfConnection: a new connection starts with nothing
\* popped, and once a line was unheard it is not up again.
CostInv ==
    /\ sentHere \in Seq([message : Nat, result : Results])
    /\ CostOfConnection
    /\ m_State = 0 => sentHere = <<>>
    /\ \A i \in 1 .. Len(sentHere) : sentHere[i].result = "unheard" => peer # "up"

\* "need to send later" (TCPManager.cpp:254): a message that was queued is still
\* in the queue until a send has accepted it.
NeedToSendLater ==
    \A n \in lastSent + 1 .. queued : \E i \in DOMAIN m_MsgToSendQueue : m_MsgToSendQueue[i] = n

\* "check signal reload", "continue" (main.cpp:50 and 57): deleting the program
\* manager, and TCPManager with it, is survived.
ReloadSurvives == life # "terminated"

\* "connection failed" is followed by another try, "reconnect" (TCPManager.cpp:
\* 174 and 252): a server that stays reachable is connected again and again.
Reconnects == <>[]reachable => []<>(m_State = 1 \/ m_RequestStop)

=============================================================================
