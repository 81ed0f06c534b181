----------------------------- MODULE Acquisition -----------------------------
(***************************************************************************)
(* The triggered analog input scan (daq/ai/aiScanWithTrigger.cpp, built    *)
(* with _DAQAI_MCC1608FSPLUS_, config/defineconfig.h:21): the main thread  *)
(* starts the scan, sleeps, stops it and releases everything; the device   *)
(* fills the buffer of a scan once it is triggered; the event thread of    *)
(* the uldaq library runs the callback eventRecoverySampling, which copies *)
(* the buffer to the queues and, at the end of a scan, replaces the buffer *)
(* and starts the next scan.                                               *)
(*                                                                         *)
(* Of uldaq is assumed: callbacks run one at a time, in the order of the   *)
(* events; the data event of a scan precedes its end event; stopping a     *)
(* running scan raises its end event; ulDisableEvent waits for a callback  *)
(* that runs and drops the events that wait; ulDisconnectDaqDevice ends    *)
(* the scan.                                                               *)
(*                                                                         *)
(* A buffer holds its samples in Parts; a sample is the number of the      *)
(* trigger it was taken after, or NaN.                                     *)
(***************************************************************************)
EXTENDS Naturals, Sequences

CONSTANTS
    Blocks,        \* addresses that malloc may return
    Null,          \* the null pointer
    Parts,         \* the device writes a frame part by part: 1 .. Parts
    Faults,        \* what may go wrong: a subset of {"malloc", "scan"}
    MaxTriggers    \* bound of the model: pings received

ASSUME AcquisitionAssumption ==
    /\ Null \notin Blocks
    /\ Parts \in Nat \ {0}
    /\ Faults \subseteq {"malloc", "scan"}
    /\ MaxTriggers \in Nat

NaN == 0
Whole(k) == [i \in 1 .. Parts |-> k]

Queues == {"dataQueue", "dataSaveQueue", "dataSendQueue"}

VARIABLES
    mainAt,     \* where dataAcquisition and the destructor are
    live,       \* blocks allocated
    memory,     \* what each block holds
    buffer_,    \* AIScanWithTrigger::buffer_
    buffer,     \* scanEventParameters->buffer
    scan,       \* the device's scan: target block, trigger (0: none yet) and
                \* parts written; target Null when no scan is on
    triggers,   \* triggers so far
    completed,  \* history: the triggers whose scan was completed, in order
    events,     \* events the callback is still to be called for
    callback,   \* where the callback is
    terminated, \* an exception left the callback
    failed,     \* history: malloc or ulAInScan failed in the callback
    queue       \* what was pushed to each queue; its consumer is elsewhere

heap == <<live, memory, buffer_, buffer>>
device == <<scan, triggers, completed>>
handler == <<events, callback, terminated, failed>>
vars == <<mainAt, heap, device, handler, queue>>

NoScan == [target |-> Null, trigger |-> 0, written |-> 0]
ScanInto(b) == [target |-> b, trigger |-> 0, written |-> 0]
Scanning == scan.target # Null

\* Mutant: the library reports data as soon as some samples are there.
availableSampleCount_One == 1

\* ulEnableEvent is told to report data when so many samples are new: not the
\* number of the configuration, but a whole frame.
availableSampleCount == Parts

\* createDaqConnection has allocated the buffer and filled it with NaN, and
\* saveToScanEventParameters has passed it on.
Init ==
    /\ mainAt = "start"
    /\ \E b \in Blocks :
          /\ live = {b}
          /\ buffer_ = b
          /\ buffer = b
    /\ memory = [b \in Blocks |-> Whole(NaN)]
    /\ scan = NoScan /\ triggers = 0 /\ completed = << >>
    /\ events = << >> /\ callback = "idle" /\ terminated = FALSE
    /\ failed = FALSE
    /\ queue = [q \in Queues |-> << >>]

-----------------------------------------------------------------------------
(* The main thread: dataAcquisition, then the destructor. *)

Main(from, to) ==
    /\ ~terminated
    /\ mainAt = from
    /\ mainAt' = to

\* ulAInScan; when it fails the scan is neither waited for nor stopped.
StartScan ==
    /\ \/ Main("start", "sleep") /\ scan' = ScanInto(buffer_)
       \/ "scan" \in Faults /\ Main("start", "disable") /\ UNCHANGED scan
    /\ UNCHANGED <<heap, triggers, completed, handler, queue>>

\* The scan's duration is over.
AInScanStop ==
    /\ Main("sleep", "disable")
    /\ scan' = NoScan
    /\ events' = IF Scanning THEN Append(events, "end") ELSE events
    /\ UNCHANGED <<heap, triggers, completed, callback, terminated, failed, queue>>

DisableEvent ==
    /\ Main("disable", "disconnect")
    /\ callback = "idle"
    /\ events' = << >>
    /\ UNCHANGED <<heap, device, callback, terminated, failed, queue>>

DisconnectDaqDevice ==
    /\ Main("disconnect", "free")
    /\ scan' = NoScan
    /\ UNCHANGED <<heap, triggers, completed, handler, queue>>

\* The destructor frees buffer_, the block of the first scan.
FreeBuffer ==
    /\ Main("free", "end")
    /\ live' = live \ {buffer_}
    /\ UNCHANGED <<memory, buffer_, buffer, device, handler, queue>>

MainThread ==
    StartScan \/ AInScanStop \/ DisableEvent \/ DisconnectDaqDevice \/ FreeBuffer

-----------------------------------------------------------------------------
(* The device. *)

\* A trigger starts an armed scan; it is missed when none is armed.
Trigger ==
    /\ triggers < MaxTriggers
    /\ triggers' = triggers + 1
    /\ scan' = IF Scanning /\ scan.trigger = 0
               THEN [scan EXCEPT !.trigger = triggers + 1] ELSE scan
    /\ UNCHANGED <<mainAt, heap, completed, handler, queue>>

\* The next part is written; every availableSampleCount of them are reported,
\* and with the last one the scan is over and its end is reported.
WritePart ==
    /\ scan.trigger # 0
    /\ LET n == scan.written + 1
           last == n = Parts
       IN  /\ memory' = [memory EXCEPT ![scan.target][n] = scan.trigger]
           /\ scan' = IF last THEN NoScan ELSE [scan EXCEPT !.written = n]
           /\ completed' = IF last THEN Append(completed, scan.trigger) ELSE completed
           /\ events' = events
                 \o (IF n % availableSampleCount = 0 THEN <<"data">> ELSE << >>)
                 \o (IF last THEN <<"end">> ELSE << >>)
    /\ UNCHANGED <<mainAt, live, buffer_, buffer, triggers, callback, terminated,
                   failed, queue>>

-----------------------------------------------------------------------------
(* The event thread: eventRecoverySampling. *)

Callback(from) == ~terminated /\ callback = from

\* Mutant: of several events only the last is reported.
NextEvent_LastOnly ==
    /\ Callback("idle")
    /\ events # << >>
    /\ mainAt \in {"sleep", "disable"}
    /\ callback' = events[Len(events)]
    /\ events' = << >>
    /\ UNCHANGED <<mainAt, heap, device, terminated, failed, queue>>

\* The events are no longer reported once ulDisableEvent has returned.
NextEvent ==
    /\ Callback("idle")
    /\ events # << >>
    /\ mainAt \in {"sleep", "disable"}
    /\ callback' = Head(events)
    /\ events' = Tail(events)
    /\ UNCHANGED <<mainAt, heap, device, terminated, failed, queue>>

checkBufferFull == \A i \in 1 .. Parts : memory[buffer][i] # NaN

\* A buffer that is not full raises an exception nobody catches.
CheckBuffer ==
    /\ Callback("data")
    /\ IF checkBufferFull THEN callback' = "dataQueue" /\ UNCHANGED terminated
                          ELSE terminated' = TRUE /\ UNCHANGED callback
    /\ UNCHANGED <<mainAt, heap, device, events, failed, queue>>

PushTo(q) ==
    /\ Callback(q)
    /\ queue' = [queue EXCEPT ![q] = Append(@, memory[buffer])]
    /\ callback' = CASE q = "dataQueue" -> "dataSaveQueue"
                     [] q = "dataSaveQueue" -> "dataSendQueue"
                     [] q = "dataSendQueue" -> "clear"
    /\ UNCHANGED <<mainAt, heap, device, events, terminated, failed>>

ClearBuffer ==
    /\ Callback("clear")
    /\ memory' = [memory EXCEPT ![buffer] = Whole(NaN)]
    /\ callback' = "idle"
    /\ UNCHANGED <<mainAt, live, buffer_, buffer, device, events, terminated,
                   failed, queue>>

\* Mutant: the next scan is not started.
ReplaceBuffer_NoRestart ==
    /\ Callback("end")
    /\ LET freed == live \ {buffer}
       IN  \E b \in Blocks \ freed :
              /\ buffer' = b
              /\ live' = freed \cup {b}
    /\ callback' = "idle"
    /\ UNCHANGED <<mainAt, memory, buffer_, device, events, terminated, failed,
                   queue>>

\* Mutant: a failed malloc is not noticed.
ReplaceBuffer_NoCheck ==
    /\ Callback("end")
    /\ LET freed == live \ {buffer}
       IN  \/ \E b \in Blocks \ freed :
                 /\ buffer' = b
                 /\ live' = freed \cup {b}
                 /\ UNCHANGED failed
           \/ /\ "malloc" \in Faults
              /\ buffer' = Null
              /\ live' = freed
              /\ failed' = TRUE
    /\ callback' = "scan"
    /\ UNCHANGED <<mainAt, memory, buffer_, device, events, terminated, queue>>

\* free, then malloc, whose block may be any free one, the old one included,
\* and holds whatever was left there.
ReplaceBuffer ==
    /\ Callback("end")
    /\ LET freed == live \ {buffer}
       IN  \/ \E b \in Blocks \ freed :
                 /\ buffer' = b
                 /\ live' = freed \cup {b}
                 /\ UNCHANGED failed
                 /\ callback' = "scan"
           \/ /\ "malloc" \in Faults
              /\ buffer' = Null
              /\ live' = freed
              /\ failed' = TRUE
              /\ callback' = "idle"
    /\ UNCHANGED <<mainAt, memory, buffer_, device, events, terminated, queue>>

\* Mutant: the next scan writes to the buffer of the first.
RestartScan_OldBuffer ==
    /\ Callback("scan")
    /\ scan' = ScanInto(buffer_)
    /\ callback' = "idle"
    /\ UNCHANGED <<mainAt, heap, triggers, completed, events, terminated, failed,
                   queue>>

\* ulAInScan for the next frame; its result is not looked at.
RestartScan ==
    /\ Callback("scan")
    /\ \/ scan' = ScanInto(buffer) /\ UNCHANGED failed
       \/ "scan" \in Faults /\ failed' = TRUE /\ UNCHANGED scan
    /\ callback' = "idle"
    /\ UNCHANGED <<mainAt, heap, triggers, completed, events, terminated, queue>>

EventThread ==
    \/ NextEvent \/ CheckBuffer \/ (\E q \in Queues : PushTo(q)) \/ ClearBuffer
    \/ ReplaceBuffer \/ RestartScan

-----------------------------------------------------------------------------
Next == MainThread \/ Trigger \/ WritePart \/ EventThread

Spec == Init /\ [][Next]_vars

\* The device and the event thread go on; the main thread may sleep for ever.
FairSpec == Spec /\ WF_vars(WritePart) /\ WF_vars(EventThread)

-----------------------------------------------------------------------------
Samples == [1 .. Parts -> Nat]

\* The types; after a failed malloc no callback works on the null buffer.
TypeOK ==
    /\ mainAt \in {"start", "sleep", "disable", "disconnect", "free", "end"}
    /\ live \subseteq Blocks
    /\ memory \in [Blocks -> Samples]
    /\ buffer_ \in Blocks /\ buffer \in Blocks \cup {Null}
    /\ scan \in [target : Blocks \cup {Null}, trigger : Nat, written : 0 .. Parts - 1]
    /\ triggers \in Nat
    /\ completed \in Seq(Nat)
    /\ events \in Seq({"data", "end"})
    /\ callback \in {"idle", "data", "clear", "end", "scan"} \cup Queues
    /\ buffer = Null => callback = "idle"
    /\ terminated \in BOOLEAN /\ failed \in BOOLEAN
    /\ queue \in [Queues -> Seq(Samples)]

\* The device writes samples only to a buffer that is allocated, although the
\* event thread frees and replaces buffers and the main thread stops scans.
WritesToLiveBlock == Scanning => scan.target \in live

\* The events of a completed scan find its samples in the buffer: the callback
\* never meets a buffer that is not full, which would end the program.
BufferFullAtEvent == ~terminated

\* The events are reported until ulDisableEvent has returned.
Feeding == INSTANCE Delivery WITH open <- mainAt \in {"start", "sleep", "disable"}

\* The callback, the scans it starts and the buffers it replaces feed the queues
\* as in Delivery: no frame is mixed from two scans, lost, pushed twice or out of
\* order while the scans go on, and none is overwritten before it was pushed.
FramesFed == Feeding!Spec

\* While the program runs, the end of each scan is followed by a new one, so
\* that the next ping finds the device armed, unless malloc or ulAInScan failed.
Rearmed ==
    (mainAt = "sleep" /\ ~Scanning) ~> (Scanning \/ mainAt # "sleep" \/ failed)

\* "release the data buffer" (daq/ai/aiScanWithTrigger.cpp:55): what the
\* destructor frees is allocated, and then nothing is left allocated.
DestructorFreesAll == mainAt = "free" => live = {buffer_}

=============================================================================
