------------------------------ MODULE SafeQueue ------------------------------
(***************************************************************************)
(* sfq::Safe_Queue<T> (tool/SafeQueue.hpp), the only channel between the   *)
(* threads of the program: a std::queue under a std::mutex, with a         *)
(* std::condition_variable that wait_and_pop sleeps on and push notifies.  *)
(*                                                                         *)
(* A step is one section of an operation between two points at which       *)
(* another thread may see the difference: taking the mutex, the change of  *)
(* the queue, notify_one (made with the mutex held), falling asleep (which *)
(* releases the mutex), waking, and the release at the end of the scope.   *)
(***************************************************************************)
EXTENDS Naturals, Sequences, FiniteSets

CONSTANTS Producers, Consumers, Values, Nothing,
          NoThread,   \* the owner of a free mutex
          MaxLen      \* bound of the model: elements queued or being pushed

Threads == Producers \cup Consumers

Idle == "idle"

ASSUME SafeQueueAssumption ==
    /\ IsFiniteSet(Producers) /\ IsFiniteSet(Consumers)
    /\ Producers \cap Consumers = {}
    /\ NoThread \notin Threads
    /\ Nothing \notin Values
    /\ MaxLen \in Nat

VARIABLES queue_data,  \* the std::queue
          owner,       \* the thread that holds _mutex
          pc,          \* where each thread is in its operation
          op,          \* the operation it executes, or last executed
          val          \* new_val of push; the value a pop or size returns

vars == <<queue_data, owner, pc, op, val>>

PopOps == {"wait_and_pop", "try_pop", "size"}
Ops == PopOps \cup {"push"}
PCs == {Idle, "lock", "body", "notify", "asleep", "woken", "unlock"}

Asleep == {t \in Consumers : pc[t] = "asleep"}

\* Consumers on their way to (re)test the predicate of wait_and_pop.
Testing ==
    {t \in Consumers :
        \/ pc[t] = "woken"
        \/ pc[t] = "body" /\ op[t] = "wait_and_pop"}

\* Pushes whose element is in the queue but not yet announced.
Notifying == {t \in Producers : pc[t] = "notify"}

\* Pushes whose element is not yet in the queue.
Pushing == {t \in Producers : pc[t] \in {"lock", "body"}}

Init ==
    /\ queue_data = << >>
    /\ owner = NoThread
    /\ pc = [t \in Threads |-> Idle]
    /\ op = [t \in Threads |-> "none"]
    /\ val = [t \in Threads |-> Nothing]

\* A thread calls an operation and asks for the mutex.
Call(t, o, v) ==
    /\ pc[t] = Idle
    /\ pc' = [pc EXCEPT ![t] = "lock"]
    /\ op' = [op EXCEPT ![t] = o]
    /\ val' = [val EXCEPT ![t] = v]
    /\ UNCHANGED <<queue_data, owner>>

CallPush(t, v) ==
    /\ Len(queue_data) + Cardinality(Pushing) < MaxLen
    /\ Call(t, "push", v)

\* Mutant: the lock is taken without waiting for its owner.
Lock_Unguarded(t) ==
    /\ pc[t] \in {"lock", "woken"}
    /\ owner' = t
    /\ pc' = [pc EXCEPT ![t] = "body"]
    /\ UNCHANGED <<queue_data, op, val>>

\* lock_guard / unique_lock, and the relock inside condition_variable::wait.
Lock(t) ==
    /\ pc[t] \in {"lock", "woken"}
    /\ owner = NoThread
    /\ owner' = t
    /\ pc' = [pc EXCEPT ![t] = "body"]
    /\ UNCHANGED <<queue_data, op, val>>

\* The lock holder moves on within the operation it executes.
Step(t, o, to) ==
    /\ pc[t] = "body"
    /\ op[t] = o
    /\ pc' = [pc EXCEPT ![t] = to]
    /\ UNCHANGED op

\* front() and pop(), the element going to the caller.
TakeFront(t) ==
    /\ queue_data # << >>
    /\ queue_data' = Tail(queue_data)
    /\ val' = [val EXCEPT ![t] = Head(queue_data)]

\* Mutant: the element is moved from before it is put into the queue.
Push_MovedFrom(t) ==
    /\ Step(t, "push", "notify")
    /\ queue_data' = Append(queue_data, Nothing)
    /\ UNCHANGED <<owner, val>>

Push(t) ==
    /\ Step(t, "push", "notify")
    /\ queue_data' = Append(queue_data, val[t])
    /\ UNCHANGED <<owner, val>>

\* Mutant: notify only when the queue was empty before.
NotifyOne_WhenEmpty(t) ==
    /\ pc[t] = "notify"
    /\ \/ /\ Asleep = {} \/ Len(queue_data) > 1
          /\ pc' = [pc EXCEPT ![t] = "unlock"]
       \/ /\ Len(queue_data) <= 1
          /\ \E w \in Asleep :
                pc' = [pc EXCEPT ![t] = "unlock", ![w] = "woken"]
    /\ UNCHANGED <<queue_data, owner, op, val>>

\* Mutant: notify_one is forgotten.
NotifyOne_Never(t) ==
    /\ pc[t] = "notify"
    /\ pc' = [pc EXCEPT ![t] = "unlock"]
    /\ UNCHANGED <<queue_data, owner, op, val>>

\* notify_one wakes one sleeper if there is any, and never more.
NotifyOne(t) ==
    /\ pc[t] = "notify"
    /\ \/ /\ Asleep = {}
          /\ pc' = [pc EXCEPT ![t] = "unlock"]
       \/ \E w \in Asleep :
             pc' = [pc EXCEPT ![t] = "unlock", ![w] = "woken"]
    /\ UNCHANGED <<queue_data, owner, op, val>>

\* Mutant: the front is read but not popped.
WaitAndPop_Peek(t) ==
    /\ Step(t, "wait_and_pop", "unlock")
    /\ queue_data # << >>
    /\ val' = [val EXCEPT ![t] = Head(queue_data)]
    /\ UNCHANGED <<queue_data, owner>>

\* The predicate holds: take the front element.
WaitAndPop(t) ==
    /\ Step(t, "wait_and_pop", "unlock")
    /\ TakeFront(t)
    /\ UNCHANGED owner

\* The predicate fails: release the mutex and sleep, in one step.
Sleep(t) ==
    /\ Step(t, "wait_and_pop", "asleep")
    /\ queue_data = << >>
    /\ owner' = NoThread
    /\ UNCHANGED <<queue_data, val>>

\* A condition variable may wake a sleeper without a notification.
SpuriousWakeup(t) ==
    /\ pc[t] = "asleep"
    /\ pc' = [pc EXCEPT ![t] = "woken"]
    /\ UNCHANGED <<queue_data, owner, op, val>>

TryPop(t) ==
    /\ Step(t, "try_pop", "unlock")
    /\ \/ TakeFront(t)
       \/ /\ queue_data = << >>
          /\ UNCHANGED <<queue_data, val>>
    /\ UNCHANGED owner

Size(t) ==
    /\ Step(t, "size", "unlock")
    /\ val' = [val EXCEPT ![t] = Len(queue_data)]
    /\ UNCHANGED <<queue_data, owner>>

\* The end of the scope releases the mutex and the call returns.
Unlock(t) ==
    /\ pc[t] = "unlock"
    /\ owner' = NoThread
    /\ pc' = [pc EXCEPT ![t] = Idle]
    /\ UNCHANGED <<queue_data, op, val>>

Body(t) ==
    \/ Push(t) \/ NotifyOne(t) \/ WaitAndPop(t) \/ Sleep(t)
    \/ TryPop(t) \/ Size(t) \/ Unlock(t)

Next ==
    \/ \E t \in Producers, v \in Values : CallPush(t, v)
    \/ \E t \in Consumers, o \in PopOps : Call(t, o, Nothing)
    \/ \E t \in Threads : Lock(t) \/ Body(t) \/ SpuriousWakeup(t)

Spec == Init /\ [][Next]_vars

\* A thread that holds the mutex goes on; one that asks for it again and again
\* while it is free in between gets it (pthread mutexes starve nobody for ever
\* when the critical sections are this short).  No thread has to call anything,
\* and no wakeup but notify_one's may be relied on.
Fairness ==
    \A t \in Threads : WF_vars(Body(t)) /\ SF_vars(Lock(t))

FairSpec == Spec /\ Fairness

-----------------------------------------------------------------------------
\* The types; only values that were pushed are ever queued.
TypeOK ==
    /\ queue_data \in Seq(Values)
    /\ owner \in Threads \cup {NoThread}
    /\ pc \in [Threads -> PCs]
    /\ op \in [Threads -> Ops \cup {"none"}]
    /\ val \in [Threads -> Values \cup Nat \cup {Nothing}]

\* Whoever is between the lock and the unlock of an operation owns the mutex,
\* so two threads are never inside at once and nobody owns it while outside:
\* a sleeper has given it back, a woken thread has taken it again.
MutexHeldInside ==
    \A t \in Threads :
        pc[t] \in {"body", "notify", "unlock"} <=> owner = t

\* No wakeup is lost.  While a consumer sleeps in wait_and_pop, every element
\* in the queue has a consumer of its own that is awake and about to test the
\* predicate; the push that has not yet reached notify_one accounts for one.
NoLostWakeup ==
    Asleep # {} =>
        Len(queue_data)
          <= Cardinality(Testing) + Cardinality(Notifying)

\* The phase of Fifo a thread is in.
Phase ==
    [t \in Threads |-> CASE pc[t] = Idle -> "idle"
                         [] pc[t] \in {"notify", "unlock"} -> "done"
                         [] OTHER -> "called"]

Abstract == INSTANCE Fifo WITH queue <- queue_data, phase <- Phase

\* Every operation takes effect in one step, as in Fifo: nothing is lost,
\* duplicated or reordered, and only wait_and_pop waits.
AtomicQueue == Abstract!Spec

\* Under Fairness the operations are also as live as those of Fifo: an element
\* is not left lying while a consumer waits for one.
AtomicQueueFair == Abstract!FairSpec

=============================================================================
