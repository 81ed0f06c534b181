-------------------------------- MODULE Fifo --------------------------------
(***************************************************************************)
(* What sfq::Safe_Queue promises its callers (tool/SafeQueue.hpp): an      *)
(* unbounded first-in first-out queue whose operations take effect in one  *)
(* step, at some moment between the call and the return.  A call of        *)
(* wait_and_pop takes effect only when the queue holds an element; the     *)
(* other operations never wait.                                            *)
(***************************************************************************)
EXTENDS Naturals, Sequences

CONSTANTS Producers, Consumers,  \* threads that push, threads that take
          Values,                \* what the queue may hold
          Nothing                \* the result of a try_pop that found nothing

Threads == Producers \cup Consumers

VARIABLES queue,   \* the elements, the oldest first
          op,      \* the operation each thread is in, or last was in
          phase,   \* idle, called (no effect yet) or done (about to return)
          val      \* the argument of a call, then its result

vars == <<queue, op, phase, val>>

Init ==
    /\ queue = << >>
    /\ op = [t \in Threads |-> "none"]
    /\ phase = [t \in Threads |-> "idle"]
    /\ val = [t \in Threads |-> Nothing]

\* A thread enters an operation.
Call(t, o, v) ==
    /\ phase[t] = "idle"
    /\ phase' = [phase EXCEPT ![t] = "called"]
    /\ op' = [op EXCEPT ![t] = o]
    /\ val' = [val EXCEPT ![t] = v]
    /\ UNCHANGED queue

\* The single step at which an operation takes effect, giving v to its caller.
Effect(t, o, q, v) ==
    /\ phase[t] = "called"
    /\ op[t] = o
    /\ queue' = q
    /\ val' = [val EXCEPT ![t] = v]
    /\ phase' = [phase EXCEPT ![t] = "done"]
    /\ UNCHANGED op

Push(t) == Effect(t, "push", Append(queue, val[t]), val[t])

WaitAndPop(t) ==
    /\ queue # << >>
    /\ Effect(t, "wait_and_pop", Tail(queue), Head(queue))

TryPop(t) ==
    \/ queue # << >> /\ Effect(t, "try_pop", Tail(queue), Head(queue))
    \/ queue = << >> /\ Effect(t, "try_pop", queue, Nothing)

Size(t) == Effect(t, "size", queue, Len(queue))

Return(t) ==
    /\ phase[t] = "done"
    /\ phase' = [phase EXCEPT ![t] = "idle"]
    /\ UNCHANGED <<queue, op, val>>

Next ==
    \/ \E t \in Producers, v \in Values : Call(t, "push", v)
    \/ \E t \in Consumers, o \in {"wait_and_pop", "try_pop", "size"} :
          Call(t, o, Nothing)
    \/ \E t \in Threads :
          Push(t) \/ WaitAndPop(t) \/ TryPop(t) \/ Size(t) \/ Return(t)

\* A call that can take effect does; an element someone waits for is handed
\* over, though not necessarily to the thread that has waited longest.
Fairness ==
    /\ \A t \in Threads : WF_vars(Push(t)) /\ WF_vars(TryPop(t) \/ Size(t))
    /\ WF_vars(\E t \in Threads : WaitAndPop(t))
    /\ \A t \in Threads : WF_vars(Return(t))

Spec == Init /\ [][Next]_vars

FairSpec == Spec /\ Fairness

=============================================================================
