------------------------------ MODULE TcpSender ------------------------------
(***************************************************************************)
(* The TCP sending thread and its server: sendData and                     *)
(* waitForHeartbeatResponse of dataio/thread_tcpComm.cpp, acceptClient,    *)
(* sendVector and closeConnection of dataio/tcpServer.cpp, the destructor  *)
(* that stops the thread, and the client at the other end.                 *)
(*                                                                         *)
(* Time: "5 s since the last heartbeat" is the flag beatDue, which Tick    *)
(* may raise at any moment; a select that times out is a step that its     *)
(* awaited event has not yet enabled.  The socket is modelled from what    *)
(* the calls on it can return: the process ignores no signal, so a send on *)
(* a socket already known to be broken ends it with SIGPIPE.               *)
(***************************************************************************)
EXTENDS Naturals, Sequences

CONSTANTS
    ClientMoves,   \* what clients may do besides connecting and reading:
                   \* a subset of {"respond", "stall", "leave"}
    MaxQueue,      \* bound of the model: frames waiting to be sent
    MaxInbox       \* bound of the model: packets of the client not yet read

ASSUME TcpAssumption ==
    /\ ClientMoves \subseteq {"respond", "stall", "leave"}
    /\ MaxQueue \in Nat /\ MaxInbox \in Nat

maxMissedHeartbeats == 3

VARIABLES
    pc,              \* where sendData is
    signalQueue,     \* frames to send: "fresh", or "stale" when they were
                     \* queued already as an attempt to connect failed
    toDrain,         \* try_pops left of the loop that empties the queue
    packet,          \* what sendVector is sending: a heartbeat or a frame
    missed,          \* missedHeartbeats; 3 stands for 3 or more
    beatDue,         \* heartbeatInterval has elapsed since lastHeartbeatTime
    conn_mutex,      \* tcpServer::conn_mutex is held
    connection_open, \* tcpServer::connection_open
    peer,            \* the client at the other end of client_fd
    writable,        \* the socket's send buffer has room
    inbox,           \* packets of the client waiting in the socket
    listening,       \* listen was called: clients can connect
    backlog,         \* a client waits to be accepted
    stopFlag         \* the destructor called stopThread

thread == <<pc, toDrain, packet, missed>>
server == <<conn_mutex, connection_open>>
socket == <<peer, writable, inbox>>
clients == <<listening, backlog>>
vars == <<thread, signalQueue, beatDue, server, socket, clients, stopFlag>>

PCs == {"offline", "accept", "size", "drain", "online", "pop", "lock", "select",
        "send", "closeOnTimeout", "await", "close", "stopped", "killed"}

\* The statements between taking conn_mutex in sendVector and its return.
InSendVector == {"select", "send", "closeOnTimeout"}

Init ==
    /\ pc = "offline" /\ toDrain = 0 /\ packet = "none"
    /\ missed = 0
    /\ signalQueue = << >> /\ beatDue = FALSE
    /\ conn_mutex = FALSE /\ connection_open = FALSE
    /\ peer = "none" /\ writable = TRUE /\ inbox = << >>
    /\ listening = FALSE /\ backlog = FALSE /\ stopFlag = FALSE

Goto(from, to) == pc = from /\ pc' = to

-----------------------------------------------------------------------------
(* Waiting for a client. *)

\* The stop flag is looked at before each attempt and before each packet.
SeeStop ==
    /\ pc \in {"offline", "online"}
    /\ stopFlag
    /\ pc' = "stopped"
    /\ UNCHANGED <<toDrain, packet, missed, signalQueue, beatDue,
                   server, socket, clients, stopFlag>>

TryConnect ==
    /\ Goto("offline", "accept")
    /\ ~stopFlag
    /\ listening' = TRUE
    /\ UNCHANGED <<toDrain, packet, missed, signalQueue, beatDue,
                   server, socket, backlog, stopFlag>>

\* Neither missedHeartbeats nor lastHeartbeatTime starts afresh.
Accept ==
    /\ Goto("accept", "online")
    /\ backlog
    /\ backlog' = FALSE
    /\ peer' = "up" /\ writable' = TRUE /\ inbox' = << >>
    /\ connection_open' = TRUE
    /\ UNCHANGED <<toDrain, packet, missed, signalQueue, beatDue, conn_mutex,
                   listening, stopFlag>>

\* No client within connectTimeout: what is queued now is not to be sent.
AcceptTimeout ==
    /\ Goto("accept", "size")
    /\ ~backlog
    /\ signalQueue' = [i \in DOMAIN signalQueue |-> "stale"]
    /\ UNCHANGED <<toDrain, packet, missed, beatDue, server, socket,
                   clients, stopFlag>>

\* Mutants: one frame too few, one too many.
CountQueue_OneLess ==
    /\ Goto("size", "drain")
    /\ toDrain' = IF signalQueue = << >> THEN 0 ELSE Len(signalQueue) - 1
    /\ UNCHANGED <<packet, missed, signalQueue, beatDue, server,
                   socket, clients, stopFlag>>

CountQueue_OneMore ==
    /\ Goto("size", "drain")
    /\ toDrain' = Len(signalQueue) + 1
    /\ UNCHANGED <<packet, missed, signalQueue, beatDue, server,
                   socket, clients, stopFlag>>

CountQueue ==
    /\ Goto("size", "drain")
    /\ toDrain' = Len(signalQueue)
    /\ UNCHANGED <<packet, missed, signalQueue, beatDue, server,
                   socket, clients, stopFlag>>

\* Mutant: the loop runs once too often.
Drain_OnceMore ==
    /\ pc = "drain"
    /\ \/ /\ toDrain >= 0
          /\ toDrain' = toDrain - 1
          /\ signalQueue' = IF signalQueue = << >> THEN << >> ELSE Tail(signalQueue)
          /\ UNCHANGED pc
       \/ /\ toDrain < 0
          /\ pc' = "offline"
          /\ UNCHANGED <<toDrain, signalQueue>>
    /\ UNCHANGED <<packet, missed, beatDue, server, socket, clients,
                   stopFlag>>

Drain ==
    /\ pc = "drain"
    /\ \/ /\ toDrain > 0
          /\ toDrain' = toDrain - 1
          /\ signalQueue' = Tail(signalQueue)
          /\ UNCHANGED pc
       \/ /\ toDrain = 0
          /\ pc' = "offline"
          /\ UNCHANGED <<toDrain, signalQueue>>
    /\ UNCHANGED <<packet, missed, beatDue, server, socket, clients,
                   stopFlag>>

-----------------------------------------------------------------------------
(* The sending loop. *)

\* A heartbeat is sent first when the last one is heartbeatInterval old.
StartPacket ==
    /\ pc = "online" /\ ~stopFlag
    /\ \/ beatDue /\ pc' = "lock" /\ packet' = "heartbeat"
       \/ ~beatDue /\ pc' = "pop" /\ UNCHANGED packet
    /\ UNCHANGED <<toDrain, missed, signalQueue, beatDue, server,
                   socket, clients, stopFlag>>

\* wait_and_pop blocks while the queue is empty, whatever else happens.
TakeFrame ==
    /\ Goto("pop", "lock")
    /\ signalQueue # << >>
    /\ packet' = Head(signalQueue)
    /\ signalQueue' = Tail(signalQueue)
    /\ UNCHANGED <<toDrain, missed, beatDue, server, socket,
                   clients, stopFlag>>

EnterSendVector ==
    /\ Goto("lock", "select")
    /\ ~conn_mutex
    /\ conn_mutex' = TRUE
    /\ UNCHANGED <<toDrain, packet, missed, signalQueue, beatDue,
                   connection_open, socket, clients, stopFlag>>

\* A broken connection counts as writable: the send is to report the error.
SelectReady ==
    /\ Goto("select", "send")
    /\ writable \/ peer # "up"
    /\ UNCHANGED <<toDrain, packet, missed, signalQueue, beatDue,
                   server, socket, clients, stopFlag>>

\* sendTimeout passes: closeConnection is called with conn_mutex still held.
SelectTimeout ==
    /\ Goto("select", "closeOnTimeout")
    /\ ~writable /\ peer = "up"
    /\ UNCHANGED <<toDrain, packet, missed, signalQueue, beatDue,
                   server, socket, clients, stopFlag>>

AtMost(n, m) == IF n < m THEN n ELSE m

MissHeartbeat ==
    missed' = AtMost(missed + 1, maxMissedHeartbeats)

\* sendVector releases the mutex and returns whether the packet was sent.
\* After a heartbeat that could not be sent the loop goes on without looking
\* at the limit; a frame that could not be sent is given up.
SendReturns(ok) ==
    /\ conn_mutex' = FALSE
    /\ CASE packet = "heartbeat" /\ ok ->
              pc' = "await" /\ UNCHANGED <<missed, beatDue>>
         [] packet = "heartbeat" /\ ~ok ->
              pc' = "pop" /\ MissHeartbeat /\ beatDue' = FALSE
         [] OTHER ->
              pc' = "online" /\ UNCHANGED <<missed, beatDue>>
    /\ UNCHANGED <<toDrain, packet, signalQueue, connection_open, writable, inbox,
                   clients, stopFlag>>

\* The first packet sent after the client has left is accepted by the kernel
\* and answered with a reset.  send blocks while the buffer has no room.
SendSucceeds ==
    /\ pc = "send" /\ connection_open
    /\ \/ peer = "up" /\ writable /\ UNCHANGED peer
       \/ peer = "closed" /\ peer' = "reset"
    /\ SendReturns(TRUE)

SendFails ==
    /\ pc = "send"
    /\ connection_open => peer = "reset"
    /\ peer' = IF connection_open THEN "broken" ELSE peer
    /\ SendReturns(FALSE)

\* send without MSG_NOSIGNAL on a connection known to be gone: SIGPIPE.
SendKills ==
    /\ Goto("send", "killed")
    /\ peer \in {"reset", "broken"}
    /\ UNCHANGED <<toDrain, packet, missed, signalQueue, beatDue,
                   server, socket, clients, stopFlag>>

\* recv takes all that is waiting and looks at the first packet only.
Answered == inbox # << >> /\ Head(inbox) = "beat"

HeartbeatAnswered ==
    /\ Goto("await", "pop")
    /\ Answered
    /\ inbox' = << >>
    /\ missed' = 0
    /\ beatDue' = FALSE
    /\ UNCHANGED <<toDrain, packet, signalQueue, server, peer, writable, clients,
                   stopFlag>>

\* Mutant: the connection is left without being closed.
HeartbeatMissed_NoClose ==
    /\ pc = "await"
    /\ ~Answered
    /\ inbox' = << >>
    /\ MissHeartbeat
    /\ IF missed + 1 >= maxMissedHeartbeats
       THEN pc' = "offline" /\ UNCHANGED beatDue
       ELSE pc' = "pop" /\ beatDue' = FALSE
    /\ UNCHANGED <<toDrain, packet, signalQueue, server, peer, writable, clients,
                   stopFlag>>

\* Mutant: missed heartbeats are not counted.
HeartbeatMissed_NotCounted ==
    /\ Goto("await", "pop")
    /\ ~Answered
    /\ inbox' = << >>
    /\ beatDue' = FALSE
    /\ UNCHANGED <<toDrain, packet, missed, signalQueue, server, peer,
                   writable, clients, stopFlag>>

\* Another packet, nothing within 300 ms, the end of the stream, or the error
\* of a reset, which recv reports once.  The third miss closes the connection,
\* without bringing lastHeartbeatTime up to date.
HeartbeatMissed ==
    /\ pc = "await"
    /\ ~Answered
    /\ inbox' = << >>
    /\ peer' = IF peer = "reset" /\ inbox = << >> THEN "broken" ELSE peer
    /\ MissHeartbeat
    /\ IF missed + 1 >= maxMissedHeartbeats
       THEN pc' = "close" /\ UNCHANGED beatDue
       ELSE pc' = "pop" /\ beatDue' = FALSE
    /\ UNCHANGED <<toDrain, packet, signalQueue, server, writable, clients,
                   stopFlag>>

\* closeConnection takes conn_mutex; called by sendData, or within sendVector.
CloseConnection ==
    /\ pc \in {"close", "closeOnTimeout"}
    /\ ~conn_mutex
    /\ connection_open' = FALSE
    /\ peer' = "none" /\ inbox' = << >>
    /\ pc' = IF pc = "close" THEN "offline" ELSE "online"
    /\ UNCHANGED <<toDrain, packet, missed, signalQueue, beatDue,
                   conn_mutex, writable, clients, stopFlag>>

SendData ==
    \/ SeeStop \/ TryConnect \/ Accept \/ AcceptTimeout \/ CountQueue \/ Drain
    \/ StartPacket \/ TakeFrame \/ EnterSendVector \/ SelectReady
    \/ SelectTimeout \/ SendSucceeds \/ SendFails \/ SendKills
    \/ HeartbeatAnswered \/ HeartbeatMissed \/ CloseConnection

-----------------------------------------------------------------------------
(* The rest of the program, the clock and the client. *)

FrameArrives ==
    /\ Len(signalQueue) < MaxQueue
    /\ signalQueue' = Append(signalQueue, "fresh")
    /\ UNCHANGED <<thread, beatDue, server, socket, clients, stopFlag>>

Tick ==
    /\ ~beatDue
    /\ beatDue' = TRUE
    /\ UNCHANGED <<thread, signalQueue, server, socket, clients, stopFlag>>

StopThread ==
    /\ ~stopFlag
    /\ stopFlag' = TRUE
    /\ UNCHANGED <<thread, signalQueue, beatDue, server, socket, clients>>

ClientConnects ==
    /\ listening /\ ~backlog
    /\ backlog' = TRUE
    /\ UNCHANGED <<thread, signalQueue, beatDue, server, socket, listening, stopFlag>>

ClientResponds ==
    /\ "respond" \in ClientMoves
    /\ peer = "up" /\ Len(inbox) < MaxInbox
    /\ \E p \in {"beat", "other"} : inbox' = Append(inbox, p)
    /\ UNCHANGED <<thread, signalQueue, beatDue, server, peer, writable, clients,
                   stopFlag>>

\* The client stops reading until the buffer is full, or reads again.
ClientStalls ==
    /\ "stall" \in ClientMoves
    /\ peer = "up"
    /\ writable' = ~writable
    /\ UNCHANGED <<thread, signalQueue, beatDue, server, peer, inbox, clients,
                   stopFlag>>

\* The client closes its socket, or is gone without having read everything.
ClientLeaves ==
    /\ "leave" \in ClientMoves
    /\ peer = "up"
    /\ peer' \in {"closed", "reset"}
    /\ UNCHANGED <<thread, signalQueue, beatDue, server, writable, inbox, clients,
                   stopFlag>>

Environment ==
    \/ FrameArrives \/ Tick \/ StopThread
    \/ ClientConnects \/ ClientResponds \/ ClientStalls \/ ClientLeaves

Next == SendData \/ Environment

Spec == Init /\ [][Next]_vars

\* The thread runs when it can, and time passes.
Fairness == WF_vars(SendData) /\ WF_vars(Tick)

\* While the scan is on, frames keep coming.
FairSpec == Spec /\ Fairness
FlowingSpec == FairSpec /\ WF_vars(FrameArrives)

-----------------------------------------------------------------------------
ThreadOK ==
    /\ pc \in PCs
    /\ toDrain \in Nat
    /\ packet \in {"none", "heartbeat", "fresh", "stale"}
    /\ missed \in 0 .. maxMissedHeartbeats

QueuesOK ==
    /\ signalQueue \in Seq({"fresh", "stale"})
    /\ inbox \in Seq({"beat", "other"})

FlagsOK ==
    /\ beatDue \in BOOLEAN /\ conn_mutex \in BOOLEAN
    /\ connection_open \in BOOLEAN /\ writable \in BOOLEAN
    /\ listening \in BOOLEAN /\ backlog \in BOOLEAN /\ stopFlag \in BOOLEAN
    /\ peer \in {"none", "up", "closed", "reset", "broken"}

\* The types; the loop that empties the queue never counts below zero.
TypeOK == ThreadOK /\ QueuesOK /\ FlagsOK

\* acceptClient overwrites client_fd: it must never run while a client is
\* connected, or that socket is lost and its client never told.
NoSocketLeak == pc \in {"offline", "accept", "size", "drain"} => ~connection_open

\* A frame that was waiting when an attempt to connect failed is thrown away:
\* no client ever gets it, although frames keep arriving while the queue is
\* emptied by a count taken beforehand.
NothingStaleSent == packet # "stale"

\* The queue is never emptied beyond what it held: each try_pop of the loop
\* finds an element, for the sending thread is its only consumer.
DrainFindsFrames == pc = "drain" => toDrain <= Len(signalQueue)

\* A client that reads but never answers is given up in the end, whatever it did
\* before, unless the thread was stopped or hangs (TimeoutClosesConnection).
Silent == connection_open /\ peer = "up" /\ writable /\ inbox = << >>
SilentClientDropped == []<>(~Silent \/ pc \in {"stopped", "closeOnTimeout"})

\* "stop thread" (dataio/thread_tcpComm.h:47).
StopEndsThread == stopFlag ~> (pc \in {"stopped", "killed"})

\* "close the connection when timeout" (dataio/tcpServer.cpp:127).
TimeoutClosesConnection == pc = "closeOnTimeout" ~> ~connection_open

\* "after connection closed, re-enter waiting for connection state"
\* (dataio/thread_tcpComm.cpp:218).
ReconnectsAfterLoss ==
    peer \in {"closed", "reset"} ~> (pc \in {"offline", "accept", "stopped"})
=============================================================================
