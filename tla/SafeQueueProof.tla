--------------------------- MODULE SafeQueueProof ---------------------------
(***************************************************************************)
(* Proofs about module SafeQueue, for any finite number of threads.        *)
(*                                                                         *)
(* TypeOK and OperationOK say which thread can be where in which operation *)
(* and what it carries; with MutexHeldInside they make NoLostWakeup        *)
(* inductive, and they suffice to map every step to a step of Fifo.        *)
(***************************************************************************)
EXTENDS SafeQueue, FiniteSetTheorems, TLAPS

\* A push carries its element from the call on, a pop nothing until it takes
\* effect; only wait_and_pop sleeps, and only push notifies.
OperationOK ==
    \A t \in Threads :
        /\ op[t] = "push" => t \in Producers /\ val[t] \in Values
        /\ op[t] \in PopOps => t \in Consumers
        /\ op[t] \in PopOps /\ pc[t] \in {"lock", "body", "asleep", "woken"}
              => val[t] = Nothing
        /\ pc[t] = "notify" => op[t] = "push"
        /\ pc[t] \in {"asleep", "woken"} => op[t] = "wait_and_pop"

Typed == TypeOK /\ OperationOK

-----------------------------------------------------------------------------
LEMMA TypedInit == Init => Typed
  BY DEF Init, Typed, TypeOK, OperationOK, PCs, Ops, PopOps, Idle

LEMMA TypedStep == Typed /\ [Next]_vars => Typed'
<1> SUFFICES ASSUME Typed, [Next]_vars PROVE Typed'
  OBVIOUS
<1> USE DEF Typed, TypeOK, OperationOK, PCs, Ops, PopOps, Threads, Idle
<1>1. ASSUME NEW t \in Producers, NEW v \in Values, CallPush(t, v) PROVE Typed'
  BY <1>1 DEF CallPush, Call
<1>2. ASSUME NEW t \in Consumers, NEW o \in PopOps, Call(t, o, Nothing)
      PROVE  Typed'
  BY <1>2, SafeQueueAssumption DEF Call
<1>3. ASSUME NEW t \in Threads, Lock(t) PROVE Typed'
  BY <1>3 DEF Lock
<1>4. ASSUME NEW t \in Threads, Push(t) PROVE Typed'
  BY <1>4 DEF Push, Step
<1>5. ASSUME NEW t \in Threads, NotifyOne(t) PROVE Typed'
  BY <1>5 DEF NotifyOne, Asleep
<1>6. ASSUME NEW t \in Threads, WaitAndPop(t) PROVE Typed'
  BY <1>6 DEF WaitAndPop, TakeFront, Step
<1>7. ASSUME NEW t \in Threads, Sleep(t) PROVE Typed'
  BY <1>7 DEF Sleep, Step
<1>8. ASSUME NEW t \in Threads, TryPop(t) PROVE Typed'
  <2>1. CASE TakeFront(t)
    BY <1>8, <2>1 DEF TryPop, TakeFront, Step
  <2>2. CASE UNCHANGED <<queue_data, val>>
    BY <1>8, <2>2 DEF TryPop, Step
  <2> QED
    BY <1>8, <2>1, <2>2 DEF TryPop
<1>9. ASSUME NEW t \in Threads, Size(t) PROVE Typed'
  BY <1>9 DEF Size, Step
<1>10. ASSUME NEW t \in Threads, Unlock(t) PROVE Typed'
  BY <1>10 DEF Unlock
<1>11. ASSUME NEW t \in Threads, SpuriousWakeup(t) PROVE Typed'
  BY <1>11 DEF SpuriousWakeup
<1>12. CASE UNCHANGED vars
  BY <1>12 DEF vars
<1> QED
  BY <1>1, <1>2, <1>3, <1>4, <1>5, <1>6, <1>7, <1>8, <1>9, <1>10, <1>11, <1>12
  DEF Next, Body

\* The variables keep their types: above all, what is taken from the queue was
\* put there, and a size is a number.
THEOREM TypeCorrect == Spec => []TypeOK
<1>1. Spec => []Typed
  BY TypedInit, TypedStep, PTL DEF Spec
<1>2. Typed => TypeOK
  BY DEF Typed
<1> QED
  BY <1>1, <1>2, PTL

-----------------------------------------------------------------------------
(* Mutual exclusion. *)

LEMMA MutexStep ==
    Typed /\ MutexHeldInside /\ [Next]_vars => MutexHeldInside'
<1> SUFFICES ASSUME Typed, MutexHeldInside, [Next]_vars PROVE MutexHeldInside'
  OBVIOUS
<1> USE SafeQueueAssumption
        DEF Typed, TypeOK, OperationOK, MutexHeldInside, Threads, Idle
<1>1. ASSUME NEW t \in Threads, NEW o, NEW v, Call(t, o, v)
      PROVE  MutexHeldInside'
  BY <1>1 DEF Call
<1>2. ASSUME NEW t \in Threads, Lock(t) PROVE MutexHeldInside'
  BY <1>2 DEF Lock
<1>3. ASSUME NEW t \in Threads, Push(t) \/ WaitAndPop(t) \/ TryPop(t) \/ Size(t)
      PROVE  MutexHeldInside'
  BY <1>3 DEF Push, WaitAndPop, TryPop, Size, Step
<1>4. ASSUME NEW t \in Threads, NotifyOne(t) PROVE MutexHeldInside'
  BY <1>4 DEF NotifyOne, Asleep
<1>5. ASSUME NEW t \in Threads, Sleep(t) PROVE MutexHeldInside'
  BY <1>5 DEF Sleep, Step
<1>6. ASSUME NEW t \in Threads, Unlock(t) PROVE MutexHeldInside'
  BY <1>6 DEF Unlock
<1>7. ASSUME NEW t \in Threads, SpuriousWakeup(t) PROVE MutexHeldInside'
  BY <1>7 DEF SpuriousWakeup
<1>8. CASE UNCHANGED vars
  BY <1>8 DEF vars
<1> QED
  BY <1>1, <1>2, <1>3, <1>4, <1>5, <1>6, <1>7, <1>8 DEF Next, Body, CallPush

\* Exactly the thread that is inside an operation holds the mutex.
THEOREM MutualExclusion == Spec => []MutexHeldInside
<1>1. Init => MutexHeldInside
  BY SafeQueueAssumption DEF Init, MutexHeldInside, Idle
<1> QED
  BY <1>1, TypedInit, TypedStep, MutexStep, PTL DEF Spec

-----------------------------------------------------------------------------
(* No lost wakeup. *)

\* The three sets that NoLostWakeup speaks of, and what they count.
LEMMA CountsAreNumbers ==
    /\ IsFiniteSet(Testing) /\ IsFiniteSet(Notifying)
    /\ Cardinality(Testing) \in Nat /\ Cardinality(Notifying) \in Nat
<1>1. Testing \in SUBSET Consumers /\ Notifying \in SUBSET Producers
  BY DEF Testing, Notifying
<1>2. IsFiniteSet(Testing) /\ IsFiniteSet(Notifying)
  BY <1>1, SafeQueueAssumption, FS_Subset
<1> QED
  BY <1>2, FS_CardinalityType

\* A step that puts nobody to sleep and takes nobody from those who test or
\* notify keeps NoLostWakeup, if it adds nothing to the queue.
LEMMA MoreAwake ==
    ASSUME Typed, Typed', NoLostWakeup,
           Asleep' \subseteq Asleep,
           Testing \subseteq Testing', Notifying \subseteq Notifying',
           Len(queue_data') <= Len(queue_data)
    PROVE  NoLostWakeup'
<1>1. Len(queue_data) \in Nat /\ Len(queue_data') \in Nat
  BY DEF Typed, TypeOK
<1>2. /\ IsFiniteSet(Testing') /\ IsFiniteSet(Notifying')
      /\ Cardinality(Testing') \in Nat /\ Cardinality(Notifying') \in Nat
  <2>1. Testing' \in SUBSET Consumers /\ Notifying' \in SUBSET Producers
    BY DEF Testing, Notifying
  <2>2. IsFiniteSet(Testing') /\ IsFiniteSet(Notifying')
    BY <2>1, SafeQueueAssumption, FS_Subset
  <2> QED
    BY <2>2, FS_CardinalityType
<1>3. /\ Cardinality(Testing) <= Cardinality(Testing')
      /\ Cardinality(Notifying) <= Cardinality(Notifying')
  BY <1>2, FS_Subset
<1> QED
  BY <1>1, <1>2, <1>3, CountsAreNumbers DEF NoLostWakeup

LEMMA WakeupStep ==
    Typed /\ NoLostWakeup /\ [Next]_vars => NoLostWakeup'
<1> SUFFICES ASSUME Typed, NoLostWakeup, [Next]_vars PROVE NoLostWakeup'
  OBVIOUS
<1>a. Typed'
  BY TypedStep
<1>b. Len(queue_data) \in Nat /\ Len(queue_data') \in Nat
  BY <1>a DEF Typed, TypeOK
<1> USE SafeQueueAssumption DEF Threads, Idle
<1>1. ASSUME NEW t \in Threads, NEW o, NEW v, Call(t, o, v)
      PROVE  NoLostWakeup'
  BY <1>1, <1>a, <1>b, MoreAwake
  DEF Call, Typed, TypeOK, Asleep, Testing, Notifying
<1>2. ASSUME NEW t \in Threads, Lock(t) PROVE NoLostWakeup'
  BY <1>2, <1>a, <1>b, MoreAwake
  DEF Lock, Typed, TypeOK, OperationOK, Asleep, Testing, Notifying
\* The new element is accounted for by the push that is about to notify.
<1>3. ASSUME NEW t \in Threads, Push(t) PROVE NoLostWakeup'
  <2>1. t \in Producers /\ t \notin Notifying
    BY <1>3 DEF Push, Step, Typed, OperationOK, Notifying
  <2>2. /\ Asleep' = Asleep /\ Testing' = Testing
        /\ Notifying' = Notifying \cup {t}
    BY <1>3, <2>1 DEF Push, Step, Typed, TypeOK, Asleep, Testing, Notifying
  <2>3. Cardinality(Notifying') = Cardinality(Notifying) + 1
    BY <2>1, <2>2, CountsAreNumbers, FS_AddElement
  <2>4. Len(queue_data') = Len(queue_data) + 1
    BY <1>3 DEF Push, Typed, TypeOK
  <2> QED
    BY <2>2, <2>3, <2>4, <1>b, CountsAreNumbers DEF NoLostWakeup
\* It hands its part over to the sleeper it wakes.
<1>4. ASSUME NEW t \in Threads, NotifyOne(t) PROVE NoLostWakeup'
  <2>1. queue_data' = queue_data
    BY <1>4 DEF NotifyOne
  <2>2. CASE Asleep = {} /\ pc' = [pc EXCEPT ![t] = "unlock"]
    BY <1>4, <2>2 DEF Typed, TypeOK, NotifyOne, Asleep, NoLostWakeup
  <2>3. ASSUME NEW w \in Asleep,
               pc' = [pc EXCEPT ![t] = "unlock", ![w] = "woken"]
        PROVE  NoLostWakeup'
    <3>1. /\ pc[t] = "notify" /\ t \in Producers /\ t \notin Consumers
          /\ w \in Consumers /\ pc[w] = "asleep"
      BY <1>4, <2>3 DEF NotifyOne, Typed, OperationOK, Asleep
    <3>2. /\ Testing' = Testing \cup {w} /\ w \notin Testing
          /\ Notifying' = Notifying \ {t} /\ t \in Notifying
      BY <1>4, <2>3, <3>1
      DEF NotifyOne, Typed, TypeOK, Testing, Notifying
    <3>3. /\ Cardinality(Testing') = Cardinality(Testing) + 1
          /\ Cardinality(Notifying') = Cardinality(Notifying) - 1
      BY <3>2, CountsAreNumbers, FS_AddElement, FS_RemoveElement
    <3> QED
      BY <2>1, <2>3, <3>3, <1>b, CountsAreNumbers DEF NoLostWakeup
  <2> QED
    BY <1>4, <2>2, <2>3 DEF NotifyOne
\* The consumer that stops testing takes an element along.
<1>5. ASSUME NEW t \in Threads, WaitAndPop(t) PROVE NoLostWakeup'
  <2>1. t \in Testing
    BY <1>5 DEF WaitAndPop, Step, Typed, OperationOK, PopOps, Testing
  <2>2. /\ Asleep' = Asleep /\ Notifying' = Notifying
        /\ Testing' = Testing \ {t}
    BY <1>5 DEF WaitAndPop, Step, Typed, TypeOK, Asleep, Testing, Notifying
  <2>3. Cardinality(Testing') = Cardinality(Testing) - 1
    BY <2>1, <2>2, CountsAreNumbers, FS_RemoveElement
  <2>4. Len(queue_data') = Len(queue_data) - 1
    BY <1>5 DEF WaitAndPop, TakeFront, Typed, TypeOK
  <2> QED
    BY <2>2, <2>3, <2>4, <1>b, CountsAreNumbers DEF NoLostWakeup
\* A thread falls asleep only when there is nothing to wait for.
<1>6. ASSUME NEW t \in Threads, Sleep(t) PROVE NoLostWakeup'
  <2>1. Len(queue_data') = 0
    BY <1>6 DEF Sleep
  <2>2. Testing' \in SUBSET Consumers /\ Notifying' \in SUBSET Producers
    BY DEF Testing, Notifying
  <2>3. IsFiniteSet(Testing') /\ IsFiniteSet(Notifying')
    BY <2>2, FS_Subset
  <2>4. Cardinality(Testing') \in Nat /\ Cardinality(Notifying') \in Nat
    BY <2>3, FS_CardinalityType
  <2> QED
    BY <2>1, <2>4 DEF NoLostWakeup
<1>7. ASSUME NEW t \in Threads, TryPop(t) PROVE NoLostWakeup'
  <2>1. Len(queue_data') <= Len(queue_data)
    <3>1. CASE TakeFront(t)
      BY <3>1, <1>b DEF TakeFront, Typed, TypeOK
    <3>2. CASE UNCHANGED queue_data
      BY <3>2, <1>b
    <3> QED
      BY <1>7, <3>1, <3>2 DEF TryPop
  <2>2. Asleep' = Asleep /\ Notifying' = Notifying /\ Testing' = Testing
    BY <1>7 DEF TryPop, Step, Typed, TypeOK, Asleep, Testing, Notifying
  <2> QED
    BY <2>1, <2>2, <1>a, MoreAwake
<1>8. ASSUME NEW t \in Threads, Size(t) \/ Unlock(t) PROVE NoLostWakeup'
  <2>1. Asleep' = Asleep /\ Notifying' = Notifying /\ Testing' = Testing
    BY <1>8 DEF Size, Unlock, Step, Typed, TypeOK, Asleep, Testing, Notifying
  <2>2. queue_data' = queue_data
    BY <1>8 DEF Size, Unlock
  <2> QED
    BY <2>1, <2>2, <1>a, <1>b, MoreAwake
<1>9. ASSUME NEW t \in Threads, SpuriousWakeup(t) PROVE NoLostWakeup'
  BY <1>9, <1>a, <1>b, MoreAwake
  DEF SpuriousWakeup, Typed, TypeOK, Asleep, Testing, Notifying
<1>10. CASE UNCHANGED vars
  BY <1>10 DEF vars, NoLostWakeup, Asleep, Testing, Notifying
<1> QED
  BY <1>1, <1>2, <1>3, <1>4, <1>5, <1>6, <1>7, <1>8, <1>9, <1>10
  DEF Next, Body, CallPush

\* However many threads wait, no element lies in the queue unannounced while
\* one of them sleeps.
THEOREM WakeupsNotLost == Spec => []NoLostWakeup
<1>1. Init => NoLostWakeup
  BY DEF Init, NoLostWakeup, Asleep, Threads, Idle
<1> QED
  BY <1>1, TypedInit, TypedStep, WakeupStep, PTL DEF Spec

-----------------------------------------------------------------------------
(* SafeQueue implements Fifo. *)

\* The phase of a thread, one thread at a time.
LEMMA PhaseOf ==
    ASSUME NEW t \in Threads
    PROVE  /\ pc[t] = "idle" => Phase[t] = "idle"
           /\ pc[t] \in {"notify", "unlock"} => Phase[t] = "done"
           /\ pc[t] \in {"lock", "body", "asleep", "woken"} => Phase[t] = "called"
  BY DEF Phase, Idle

\* A thread whose pc changes from a to b, alone, changes its phase likewise.
LEMMA PhaseStep ==
    ASSUME Typed, NEW t \in Threads, NEW b \in PCs,
           pc' = [pc EXCEPT ![t] = b]
    PROVE  Phase' = [Phase EXCEPT ![t] = IF b = "idle" THEN "idle"
                                         ELSE IF b \in {"notify", "unlock"}
                                         THEN "done" ELSE "called"]
  BY DEF Typed, TypeOK, Phase, PCs, Idle

LEMMA RefineInit == Init => Abstract!Init
  BY DEF Init, Abstract!Init, Abstract!Threads, Phase, Threads, Idle

LEMMA RefineStep == Typed /\ [Next]_vars => [Abstract!Next]_(Abstract!vars)
<1> SUFFICES ASSUME Typed, [Next]_vars PROVE [Abstract!Next]_(Abstract!vars)
  OBVIOUS
<1>t. /\ Abstract!Threads = Threads
      /\ DOMAIN Phase = Threads
  BY DEF Abstract!Threads, Threads, Phase
<1> DEFINE Stutter == /\ UNCHANGED <<queue_data, op, val>>
                      /\ Phase' = Phase
<1>s. Stutter => UNCHANGED Abstract!vars
  BY DEF Abstract!vars
<1>1. ASSUME NEW t \in Threads, NEW o, NEW v, Call(t, o, v)
      PROVE  Abstract!Call(t, o, v)
  <2>1. Phase[t] = "idle" /\ Phase' = [Phase EXCEPT ![t] = "called"]
    BY <1>1, PhaseOf, PhaseStep DEF Call, PCs, Idle
  <2> QED
    BY <1>1, <2>1 DEF Call, Abstract!Call
<1>2. ASSUME NEW t \in Threads, Lock(t) PROVE Stutter
  <2>1. Phase[t] = "called" /\ Phase' = [Phase EXCEPT ![t] = "called"]
    BY <1>2, PhaseOf, PhaseStep DEF Lock, PCs
  <2> QED
    BY <1>2, <2>1, <1>t DEF Lock, Phase
<1>3. ASSUME NEW t \in Threads, Push(t) PROVE Abstract!Push(t)
  <2>1. Phase[t] = "called" /\ Phase' = [Phase EXCEPT ![t] = "done"]
    BY <1>3, PhaseOf, PhaseStep DEF Push, Step, PCs
  <2>2. val' = [val EXCEPT ![t] = val[t]]
    BY <1>3 DEF Push, Typed, TypeOK
  <2> QED
    BY <1>3, <2>1, <2>2 DEF Push, Step, Abstract!Push, Abstract!Effect
<1>4. ASSUME NEW t \in Threads, NotifyOne(t) PROVE Stutter
  <2>1. \A u \in Threads : Phase'[u] = Phase[u]
    BY <1>4 DEF NotifyOne, Asleep, Typed, TypeOK, Phase, Threads, Idle
  <2> QED
    BY <1>4, <2>1 DEF NotifyOne, Phase
<1>5. ASSUME NEW t \in Threads, WaitAndPop(t) PROVE Abstract!WaitAndPop(t)
  <2>1. Phase[t] = "called" /\ Phase' = [Phase EXCEPT ![t] = "done"]
    BY <1>5, PhaseOf, PhaseStep DEF WaitAndPop, Step, PCs
  <2> QED
    BY <1>5, <2>1
    DEF WaitAndPop, TakeFront, Step, Abstract!WaitAndPop, Abstract!Effect
<1>6. ASSUME NEW t \in Threads, Sleep(t) PROVE Stutter
  <2>1. Phase[t] = "called" /\ Phase' = [Phase EXCEPT ![t] = "called"]
    BY <1>6, PhaseOf, PhaseStep DEF Sleep, Step, PCs
  <2> QED
    BY <1>6, <2>1, <1>t DEF Sleep, Step, Phase
\* A try_pop that finds nothing leaves the caller with the nothing it came with.
<1>7. ASSUME NEW t \in Threads, TryPop(t) PROVE Abstract!TryPop(t)
  <2>1. Phase[t] = "called" /\ Phase' = [Phase EXCEPT ![t] = "done"]
    BY <1>7, PhaseOf, PhaseStep DEF TryPop, Step, PCs
  <2>2. CASE TakeFront(t)
    BY <1>7, <2>1, <2>2
    DEF TryPop, TakeFront, Step, Abstract!TryPop, Abstract!Effect
  <2>3. CASE queue_data = << >> /\ UNCHANGED <<queue_data, val>>
    <3>1. val[t] = Nothing
      BY <1>7 DEF TryPop, Step, Typed, OperationOK, PopOps
    <3>2. val' = [val EXCEPT ![t] = Nothing]
      BY <2>3, <3>1 DEF Typed, TypeOK
    <3> QED
      BY <1>7, <2>1, <2>3, <3>2
      DEF TryPop, Step, Abstract!TryPop, Abstract!Effect
  <2> QED
    BY <1>7, <2>2, <2>3 DEF TryPop
<1>8. ASSUME NEW t \in Threads, Size(t) PROVE Abstract!Size(t)
  <2>1. Phase[t] = "called" /\ Phase' = [Phase EXCEPT ![t] = "done"]
    BY <1>8, PhaseOf, PhaseStep DEF Size, Step, PCs
  <2> QED
    BY <1>8, <2>1 DEF Size, Step, Abstract!Size, Abstract!Effect
<1>9. ASSUME NEW t \in Threads, Unlock(t) PROVE Abstract!Return(t)
  <2>1. Phase[t] = "done" /\ Phase' = [Phase EXCEPT ![t] = "idle"]
    BY <1>9, PhaseOf, PhaseStep DEF Unlock, PCs, Idle
  <2> QED
    BY <1>9, <2>1 DEF Unlock, Abstract!Return
<1>10. ASSUME NEW t \in Threads, SpuriousWakeup(t) PROVE Stutter
  <2>1. Phase[t] = "called" /\ Phase' = [Phase EXCEPT ![t] = "called"]
    BY <1>10, PhaseOf, PhaseStep DEF SpuriousWakeup, PCs
  <2> QED
    BY <1>10, <2>1, <1>t DEF SpuriousWakeup, Phase
<1>11. CASE UNCHANGED vars
  BY <1>11 DEF vars, Abstract!vars, Phase
<1>12. ASSUME NEW t \in Producers, NEW v \in Values, CallPush(t, v)
       PROVE  Abstract!Next
  BY <1>12, <1>1 DEF CallPush, Abstract!Next, Threads
<1>13. ASSUME NEW t \in Consumers, NEW o \in PopOps, Call(t, o, Nothing)
       PROVE  Abstract!Next
  BY <1>13, <1>1 DEF PopOps, Abstract!Next, Threads
<1>14. ASSUME NEW t \in Threads, Body(t)
       PROVE  Abstract!Next \/ Stutter
  BY <1>14, <1>t, <1>3, <1>4, <1>5, <1>6, <1>7, <1>8, <1>9
  DEF Body, Abstract!Next
<1> QED
  BY <1>s, <1>2, <1>10, <1>11, <1>12, <1>13, <1>14 DEF Next

\* The queue used by every thread of the program behaves as a queue whose
\* operations are single steps.
THEOREM Linearizable == Spec => AtomicQueue
<1>1. Spec => []Typed
  BY TypedInit, TypedStep, PTL DEF Spec
<1> QED
  BY <1>1, RefineInit, RefineStep, PTL DEF Spec, AtomicQueue, Abstract!Spec

=============================================================================
