------------------------------ MODULE Delivery ------------------------------
(***************************************************************************)
(* What the acquisition promises the threads behind it: each queue is fed  *)
(* the frames of the device, whole, once and in the order of their         *)
(* triggers, and no frame is completed before all queues have the frames   *)
(* before it.  When the acquisition is closed nothing more is fed; frames  *)
(* the device completes then, and one that waits, are lost.                *)
(***************************************************************************)
EXTENDS Naturals, Sequences

CONSTANTS Queues, Parts, MaxTriggers

VARIABLES open,       \* the acquisition is not closed
          completed,  \* the triggers of the completed frames
          queue       \* what each queue was fed

vars == <<open, completed, queue>>

Frame(k) == [i \in 1 .. Parts |-> k]

Init ==
    /\ open = TRUE
    /\ completed = << >>
    /\ queue = [q \in Queues |-> << >>]

Complete ==
    /\ open => \A q \in Queues : Len(queue[q]) = Len(completed)
    /\ \E k \in 1 .. MaxTriggers :
          /\ \A i \in 1 .. Len(completed) : completed[i] < k
          /\ completed' = Append(completed, k)
    /\ UNCHANGED <<open, queue>>

Feed(q) ==
    /\ open
    /\ Len(queue[q]) < Len(completed)
    /\ queue' = [queue EXCEPT ![q] = Append(@, Frame(completed[Len(queue[q]) + 1]))]
    /\ UNCHANGED <<open, completed>>

Close ==
    /\ open
    /\ open' = FALSE
    /\ UNCHANGED <<completed, queue>>

Next == Complete \/ (\E q \in Queues : Feed(q)) \/ Close

Spec == Init /\ [][Next]_vars
=============================================================================
