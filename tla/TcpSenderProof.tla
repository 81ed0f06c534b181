--------------------------- MODULE TcpSenderProof ---------------------------
(***************************************************************************)
(* Proofs about module TcpSender, for any bounds and any clients.          *)
(*                                                                         *)
(* Drained is the strengthening that makes NothingStaleSent inductive: the *)
(* loop that empties the queue removes the stale frames even while fresh   *)
(* ones arrive behind them.                                                *)
(***************************************************************************)
EXTENDS TcpSender, TLAPS

\* Stale frames are found only where the emptying loop still gets to.
Drained ==
    \A i \in 1 .. Len(signalQueue) :
        signalQueue[i] = "stale" =>
            pc = "size" \/ (pc = "drain" /\ i <= toDrain)

\* sendVector holds conn_mutex from its entry until it returns, if it does.
SendVectorLocks == conn_mutex <=> pc \in InSendVector \cup {"killed"}

Control ==
    /\ NoSocketLeak /\ NothingStaleSent /\ DrainFindsFrames
    /\ Drained /\ SendVectorLocks

Inv == TypeOK /\ Control

-----------------------------------------------------------------------------
LEMMA InvInit == Init => Inv
<1>1. Init => TypeOK
  <2>1. Init => ThreadOK
    BY DEF Init, ThreadOK, PCs, maxMissedHeartbeats
  <2>2. Init => QueuesOK
    BY DEF Init, QueuesOK
  <2>3. Init => FlagsOK
    BY DEF Init, FlagsOK
  <2> QED
    BY <2>1, <2>2, <2>3 DEF TypeOK
<1>2. Init => Control
  BY DEF Init, Control, NoSocketLeak, NothingStaleSent, DrainFindsFrames,
         Drained, SendVectorLocks, InSendVector
<1> QED
  BY <1>1, <1>2 DEF Inv

LEMMA ThreadTyped == TypeOK /\ [Next]_vars => ThreadOK'
<1> SUFFICES ASSUME TypeOK, [Next]_vars PROVE ThreadOK'
  OBVIOUS
<1> USE DEF TypeOK, ThreadOK, QueuesOK, PCs, maxMissedHeartbeats,
            Goto, thread, server, socket, clients
<1>1. CASE SeeStop
  BY <1>1 DEF SeeStop
<1>2. CASE TryConnect
  BY <1>2 DEF TryConnect
<1>3. CASE Accept
  BY <1>3 DEF Accept
<1>4. CASE AcceptTimeout
  BY <1>4 DEF AcceptTimeout
<1>5. CASE CountQueue
  BY <1>5 DEF CountQueue
<1>6. CASE Drain
  BY <1>6 DEF Drain
<1>7. CASE StartPacket
  BY <1>7 DEF StartPacket
<1>8. CASE TakeFrame
  BY <1>8 DEF TakeFrame
<1>9. CASE EnterSendVector
  BY <1>9 DEF EnterSendVector
<1>10. CASE SelectReady
  BY <1>10 DEF SelectReady
<1>11. CASE SelectTimeout
  BY <1>11 DEF SelectTimeout
<1>12. CASE SendSucceeds
  BY <1>12 DEF SendSucceeds, SendReturns, MissHeartbeat, AtMost
<1>13. CASE SendFails
  BY <1>13 DEF SendFails, SendReturns, MissHeartbeat, AtMost
<1>14. CASE SendKills
  BY <1>14 DEF SendKills
<1>15. CASE HeartbeatAnswered
  BY <1>15 DEF HeartbeatAnswered
<1>16. CASE HeartbeatMissed
  BY <1>16 DEF HeartbeatMissed, MissHeartbeat, AtMost
<1>17. CASE CloseConnection
  BY <1>17 DEF CloseConnection
<1>18. CASE FrameArrives
  BY <1>18 DEF FrameArrives
<1>19. CASE Tick
  BY <1>19 DEF Tick
<1>20. CASE StopThread
  BY <1>20 DEF StopThread
<1>21. CASE ClientConnects
  BY <1>21 DEF ClientConnects
<1>22. CASE ClientResponds
  BY <1>22 DEF ClientResponds
<1>23. CASE ClientStalls
  BY <1>23 DEF ClientStalls
<1>24. CASE ClientLeaves
  BY <1>24 DEF ClientLeaves
<1>25. CASE UNCHANGED vars
  BY <1>25 DEF vars
<1> QED
  BY <1>1, <1>2, <1>3, <1>4, <1>5, <1>6, <1>7, <1>8, <1>9, <1>10, <1>11,
     <1>12, <1>13, <1>14, <1>15, <1>16, <1>17, <1>18, <1>19, <1>20, <1>21,
     <1>22, <1>23, <1>24, <1>25
  DEF Next, SendData, Environment

LEMMA QueuesTyped == Inv /\ [Next]_vars => QueuesOK'
<1> SUFFICES ASSUME Inv, [Next]_vars PROVE QueuesOK'
  OBVIOUS
<1> USE DEF Inv, TypeOK, ThreadOK, QueuesOK, Goto, thread, server, socket, clients
<1>1. CASE SeeStop
  BY <1>1 DEF SeeStop
<1>2. CASE TryConnect
  BY <1>2 DEF TryConnect
<1>3. CASE Accept
  BY <1>3 DEF Accept
<1>4. CASE AcceptTimeout
  BY <1>4 DEF AcceptTimeout
<1>5. CASE CountQueue
  BY <1>5 DEF CountQueue
<1>6. CASE Drain
  <2>1. toDrain > 0 => signalQueue # << >>
    BY <1>6 DEF Drain, Control, DrainFindsFrames
  <2> QED
    BY <1>6, <2>1 DEF Drain
<1>7. CASE StartPacket
  BY <1>7 DEF StartPacket
<1>8. CASE TakeFrame
  BY <1>8 DEF TakeFrame
<1>9. CASE EnterSendVector
  BY <1>9 DEF EnterSendVector
<1>10. CASE SelectReady
  BY <1>10 DEF SelectReady
<1>11. CASE SelectTimeout
  BY <1>11 DEF SelectTimeout
<1>12. CASE SendSucceeds
  BY <1>12 DEF SendSucceeds, SendReturns, MissHeartbeat, AtMost
<1>13. CASE SendFails
  BY <1>13 DEF SendFails, SendReturns, MissHeartbeat, AtMost
<1>14. CASE SendKills
  BY <1>14 DEF SendKills
<1>15. CASE HeartbeatAnswered
  BY <1>15 DEF HeartbeatAnswered
<1>16. CASE HeartbeatMissed
  BY <1>16 DEF HeartbeatMissed, MissHeartbeat, AtMost
<1>17. CASE CloseConnection
  BY <1>17 DEF CloseConnection
<1>18. CASE FrameArrives
  BY <1>18 DEF FrameArrives
<1>19. CASE Tick
  BY <1>19 DEF Tick
<1>20. CASE StopThread
  BY <1>20 DEF StopThread
<1>21. CASE ClientConnects
  BY <1>21 DEF ClientConnects
<1>22. CASE ClientResponds
  BY <1>22 DEF ClientResponds
<1>23. CASE ClientStalls
  BY <1>23 DEF ClientStalls
<1>24. CASE ClientLeaves
  BY <1>24 DEF ClientLeaves
<1>25. CASE UNCHANGED vars
  BY <1>25 DEF vars
<1> QED
  BY <1>1, <1>2, <1>3, <1>4, <1>5, <1>6, <1>7, <1>8, <1>9, <1>10, <1>11,
     <1>12, <1>13, <1>14, <1>15, <1>16, <1>17, <1>18, <1>19, <1>20, <1>21,
     <1>22, <1>23, <1>24, <1>25
  DEF Next, SendData, Environment

LEMMA FlagsTyped == TypeOK /\ [Next]_vars => FlagsOK'
<1> SUFFICES ASSUME TypeOK, [Next]_vars PROVE FlagsOK'
  OBVIOUS
<1> USE DEF TypeOK, FlagsOK, Goto, thread, server, socket, clients
<1>1. CASE SeeStop
  BY <1>1 DEF SeeStop
<1>2. CASE TryConnect
  BY <1>2 DEF TryConnect
<1>3. CASE Accept
  BY <1>3 DEF Accept
<1>4. CASE AcceptTimeout
  BY <1>4 DEF AcceptTimeout
<1>5. CASE CountQueue
  BY <1>5 DEF CountQueue
<1>6. CASE Drain
  BY <1>6 DEF Drain
<1>7. CASE StartPacket
  BY <1>7 DEF StartPacket
<1>8. CASE TakeFrame
  BY <1>8 DEF TakeFrame
<1>9. CASE EnterSendVector
  BY <1>9 DEF EnterSendVector
<1>10. CASE SelectReady
  BY <1>10 DEF SelectReady
<1>11. CASE SelectTimeout
  BY <1>11 DEF SelectTimeout
<1>12. CASE SendSucceeds
  BY <1>12 DEF SendSucceeds, SendReturns, MissHeartbeat, AtMost
<1>13. CASE SendFails
  BY <1>13 DEF SendFails, SendReturns, MissHeartbeat, AtMost
<1>14. CASE SendKills
  BY <1>14 DEF SendKills
<1>15. CASE HeartbeatAnswered
  BY <1>15 DEF HeartbeatAnswered
<1>16. CASE HeartbeatMissed
  BY <1>16 DEF HeartbeatMissed, MissHeartbeat, AtMost
<1>17. CASE CloseConnection
  BY <1>17 DEF CloseConnection
<1>18. CASE FrameArrives
  BY <1>18 DEF FrameArrives
<1>19. CASE Tick
  BY <1>19 DEF Tick
<1>20. CASE StopThread
  BY <1>20 DEF StopThread
<1>21. CASE ClientConnects
  BY <1>21 DEF ClientConnects
<1>22. CASE ClientResponds
  BY <1>22 DEF ClientResponds
<1>23. CASE ClientStalls
  BY <1>23 DEF ClientStalls
<1>24. CASE ClientLeaves
  BY <1>24 DEF ClientLeaves
<1>25. CASE UNCHANGED vars
  BY <1>25 DEF vars
<1> QED
  BY <1>1, <1>2, <1>3, <1>4, <1>5, <1>6, <1>7, <1>8, <1>9, <1>10, <1>11,
     <1>12, <1>13, <1>14, <1>15, <1>16, <1>17, <1>18, <1>19, <1>20, <1>21,
     <1>22, <1>23, <1>24, <1>25
  DEF Next, SendData, Environment

LEMMA ControlStep == Inv /\ [Next]_vars => Control'
<1> SUFFICES ASSUME Inv, [Next]_vars PROVE Control'
  OBVIOUS
<1> USE DEF Inv, Control, TypeOK, ThreadOK, QueuesOK, NoSocketLeak,
            NothingStaleSent, DrainFindsFrames, Drained, SendVectorLocks,
            InSendVector, Goto, thread, server, socket, clients
<1>1. CASE SeeStop
  BY <1>1 DEF SeeStop
<1>2. CASE TryConnect
  BY <1>2 DEF TryConnect
<1>3. CASE Accept
  BY <1>3 DEF Accept
<1>4. CASE AcceptTimeout
  BY <1>4 DEF AcceptTimeout
<1>5. CASE CountQueue
  BY <1>5 DEF CountQueue
<1>6. CASE Drain
  <2>1. CASE toDrain > 0 /\ signalQueue' = Tail(signalQueue)
    <3>1. signalQueue # << >>
      BY <1>6, <2>1 DEF Drain
    <3>2. /\ Len(signalQueue') = Len(signalQueue) - 1
          /\ \A i \in 1 .. Len(signalQueue') : signalQueue'[i] = signalQueue[i + 1]
      BY <2>1, <3>1
    <3>3. pc' = "drain" /\ toDrain' = toDrain - 1 /\ UNCHANGED packet
      BY <1>6, <2>1 DEF Drain
    <3>4. UNCHANGED <<conn_mutex, connection_open>>
      BY <1>6 DEF Drain
    <3>5. Drained'
      BY <1>6, <3>1, <3>2, <3>3 DEF Drain
    <3>6. DrainFindsFrames' /\ NothingStaleSent'
      BY <1>6, <2>1, <3>1, <3>2, <3>3 DEF Drain
    <3>7. NoSocketLeak' /\ SendVectorLocks'
      BY <1>6, <3>3, <3>4 DEF Drain
    <3> QED
      BY <3>5, <3>6, <3>7
  <2>2. CASE toDrain = 0 /\ UNCHANGED signalQueue
    BY <1>6, <2>2 DEF Drain
  <2> QED
    BY <1>6, <2>1, <2>2 DEF Drain
<1>7. CASE StartPacket
  BY <1>7 DEF StartPacket
<1>8. CASE TakeFrame
  <2>1. /\ signalQueue # << >>
        /\ signalQueue' = Tail(signalQueue) /\ packet' = signalQueue[1]
    BY <1>8 DEF TakeFrame
  <2>2. /\ Len(signalQueue') = Len(signalQueue) - 1
        /\ \A i \in 1 .. Len(signalQueue') : signalQueue'[i] = signalQueue[i + 1]
    BY <2>1
  <2> QED
    BY <1>8, <2>1, <2>2 DEF TakeFrame
<1>9. CASE EnterSendVector
  BY <1>9 DEF EnterSendVector
<1>10. CASE SelectReady
  BY <1>10 DEF SelectReady
<1>11. CASE SelectTimeout
  BY <1>11 DEF SelectTimeout
<1>12. CASE SendSucceeds
  BY <1>12 DEF SendSucceeds, SendReturns, MissHeartbeat, AtMost
<1>13. CASE SendFails
  BY <1>13 DEF SendFails, SendReturns, MissHeartbeat, AtMost
<1>14. CASE SendKills
  BY <1>14 DEF SendKills
<1>15. CASE HeartbeatAnswered
  BY <1>15 DEF HeartbeatAnswered
<1>16. CASE HeartbeatMissed
  BY <1>16 DEF HeartbeatMissed, MissHeartbeat, AtMost
<1>17. CASE CloseConnection
  BY <1>17 DEF CloseConnection
<1>18. CASE FrameArrives
  <2>1. /\ Len(signalQueue') = Len(signalQueue) + 1
        /\ \A i \in 1 .. Len(signalQueue) : signalQueue'[i] = signalQueue[i]
        /\ signalQueue'[Len(signalQueue) + 1] = "fresh"
    BY <1>18 DEF FrameArrives
  <2> QED
    BY <1>18, <2>1 DEF FrameArrives
<1>19. CASE Tick
  BY <1>19 DEF Tick
<1>20. CASE StopThread
  BY <1>20 DEF StopThread
<1>21. CASE ClientConnects
  BY <1>21 DEF ClientConnects
<1>22. CASE ClientResponds
  BY <1>22 DEF ClientResponds
<1>23. CASE ClientStalls
  BY <1>23 DEF ClientStalls
<1>24. CASE ClientLeaves
  BY <1>24 DEF ClientLeaves
<1>25. CASE UNCHANGED vars
  BY <1>25 DEF vars
<1> QED
  BY <1>1, <1>2, <1>3, <1>4, <1>5, <1>6, <1>7, <1>8, <1>9, <1>10, <1>11,
     <1>12, <1>13, <1>14, <1>15, <1>16, <1>17, <1>18, <1>19, <1>20, <1>21,
     <1>22, <1>23, <1>24, <1>25
  DEF Next, SendData, Environment

LEMMA InvStep == Inv /\ [Next]_vars => Inv'
  BY ThreadTyped, QueuesTyped, FlagsTyped, ControlStep DEF Inv, TypeOK

LEMMA Invariance == Spec => []Inv
  BY InvInit, InvStep, PTL DEF Spec

\* The variables of the sender and its server keep their types.
THEOREM TypeCorrect == Spec => []TypeOK
<1>1. Inv => TypeOK
  BY DEF Inv, Control
<1> QED
  BY <1>1, Invariance, PTL

\* No accepted socket is ever overwritten by the next.
THEOREM SocketsNotLeaked == Spec => []NoSocketLeak
<1>1. Inv => NoSocketLeak
  BY DEF Inv, Control
<1> QED
  BY <1>1, Invariance, PTL

\* However long the queue and whatever arrives while it is emptied, a frame
\* that waited through a failed attempt to connect is not sent.
THEOREM StaleFramesNotSent == Spec => []NothingStaleSent
<1>1. Inv => NothingStaleSent
  BY DEF Inv, Control
<1> QED
  BY <1>1, Invariance, PTL

\* The loop that empties the queue never meets an empty queue.
THEOREM DrainingFindsFrames == Spec => []DrainFindsFrames
<1>1. Inv => DrainFindsFrames
  BY DEF Inv, Control
<1> QED
  BY <1>1, Invariance, PTL

\* A thread in closeOnTimeout is there for good: closeConnection waits for the
\* mutex its own caller holds.  (The reason why TimeoutClosesConnection fails.)
THEOREM TimeoutHangs ==
    Spec => [][pc = "closeOnTimeout" => pc' = "closeOnTimeout"]_vars
<1>1. Inv /\ [Next]_vars => [pc = "closeOnTimeout" => pc' = "closeOnTimeout"]_vars
  <2> SUFFICES ASSUME Inv, Next, pc = "closeOnTimeout"
               PROVE  pc' = "closeOnTimeout"
    OBVIOUS
  <2>1. conn_mutex
    BY DEF Inv, Control, SendVectorLocks, InSendVector
  <2>2. ~SendData
    BY <2>1
    DEF SendData, SeeStop, TryConnect, Accept, AcceptTimeout, CountQueue, Drain,
        StartPacket, TakeFrame, EnterSendVector, SelectReady, SelectTimeout,
        SendSucceeds, SendFails, SendKills, HeartbeatAnswered, HeartbeatMissed,
        CloseConnection, Goto
  <2>3. Environment
    BY <2>2 DEF Next
  <2> QED
    BY <2>3
    DEF Environment, FrameArrives, Tick, StopThread, ClientConnects,
        ClientResponds, ClientStalls, ClientLeaves, thread
<1> QED
  BY <1>1, Invariance, PTL DEF Spec


\* A connection whose loss has been reported, by send or at a missed heartbeat that
\* is not the third: the sending loop has gone on.
Lost == peer = "broken" /\ pc \in {"online", "pop", "lock", "select", "send", "killed", "stopped"}

\* A reported loss leads back to waiting for a client only where it was noticed at
\* the third missed heartbeat.
LossReported == peer = "broken" => Lost \/ pc = "close"

\* After a loss that send reports, the thread never waits for a client again: it
\* waits for a frame, is stopped, or the next send ends the program.  (The reason
\* why ReconnectsAfterLoss fails.)
THEOREM LossIsFinal == Spec => []LossReported /\ [][Lost => Lost']_vars
<1>1. Init => LossReported
  BY DEF Init, LossReported
<1>2. LossReported /\ [Next]_vars => LossReported' /\ (Lost => Lost')
  <2> SUFFICES ASSUME LossReported, [Next]_vars PROVE LossReported' /\ (Lost => Lost')
    OBVIOUS
  <2> USE DEF LossReported, Lost, Goto, server, socket, clients
  <2>1. CASE SeeStop \/ TryConnect \/ Accept \/ AcceptTimeout \/ CountQueue \/ Drain
    BY <2>1 DEF SeeStop, TryConnect, Accept, AcceptTimeout, CountQueue, Drain
  <2>2. CASE StartPacket \/ TakeFrame \/ EnterSendVector \/ SelectReady \/ SelectTimeout
    BY <2>2 DEF StartPacket, TakeFrame, EnterSendVector, SelectReady, SelectTimeout
  <2>3. CASE SendSucceeds
    BY <2>3 DEF SendSucceeds, SendReturns
  <2>4. CASE SendFails
    <3>1. pc' \in {"pop", "online"}
      BY <2>4 DEF SendFails, SendReturns
    <3>2. peer' = "broken" \/ peer' = peer
      BY <2>4 DEF SendFails
    <3> QED
      BY <3>1, <3>2
  <2>5. CASE SendKills \/ HeartbeatAnswered \/ HeartbeatMissed \/ CloseConnection
    BY <2>5 DEF SendKills, HeartbeatAnswered, HeartbeatMissed, CloseConnection
  <2>6. CASE Environment
    BY <2>6 DEF Environment, FrameArrives, Tick, StopThread, ClientConnects,
                ClientResponds, ClientStalls, ClientLeaves, thread
  <2>7. CASE UNCHANGED vars
    BY <2>7 DEF vars, thread
  <2> QED
    BY <2>1, <2>2, <2>3, <2>4, <2>5, <2>6, <2>7 DEF Next, SendData
<1> QED
  BY <1>1, <1>2, PTL DEF Spec
=============================================================================
