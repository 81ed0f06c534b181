-------------------------- MODULE AcquisitionProof --------------------------
(***************************************************************************)
(* Proofs about module Acquisition, for any blocks, any number of parts of *)
(* a frame and any number of triggers, with allocations and scans that may *)
(* fail.                                                                   *)
(***************************************************************************)
EXTENDS Acquisition, SequenceTheorems, TLAPS

\* Where the acquisition is in its cycle: scanning, or with events waiting, or
\* in the callback, and never in two of them.
Cycle ==
    /\ scan.trigger # 0 => Scanning
    /\ Scanning => events = << >> /\ callback = "idle" /\ scan.target = buffer
    /\ events \in {<< >>, <<"end">>, <<"data", "end">>}
    /\ events = <<"data", "end">> => callback = "idle"
    /\ callback \in {"data", "clear"} \cup Queues => events = <<"end">>
    /\ callback \in {"end", "scan"} => events = << >>
    /\ events # << >> => buffer # Null
    /\ buffer = Null => callback = "idle"

\* The main thread has waited for the callback before it goes on.
MainWaits ==
    /\ mainAt = "start" =>
          /\ ~Scanning /\ events = << >> /\ callback = "idle"
          /\ buffer = buffer_ /\ completed = << >>
          /\ \A q \in Queues : queue[q] = << >>
    /\ callback # "idle" => mainAt \in {"sleep", "disable"}
    /\ Scanning => mainAt \in {"sleep", "disable", "disconnect"}

\* The buffer in use is allocated.
BufferLive ==
    /\ mainAt = "start" => buffer \in live
    /\ Scanning \/ callback = "scan" => buffer \in live

Types ==
    /\ mainAt \in {"start", "sleep", "disable", "disconnect", "free", "end"}
    /\ live \subseteq Blocks
    /\ memory \in [Blocks -> Samples]
    /\ buffer_ \in Blocks /\ buffer \in Blocks \cup {Null}
    /\ scan \in [target : Blocks \cup {Null}, trigger : Nat, written : 0 .. Parts - 1]
    /\ triggers \in Nat
    /\ completed \in Seq(Nat)
    /\ events \in Seq({"data", "end"})
    /\ callback \in {"idle", "data", "clear", "end", "scan"} \cup Queues
    /\ terminated \in BOOLEAN /\ failed \in BOOLEAN
    /\ queue \in [Queues -> Seq(Samples)]

\* The callback has still to push the last completed frame.
Pending == events = <<"data", "end">> \/ callback \in {"data"} \cup Queues

\* The samples: those of the scan under way, or those of the last frame.
SamplesInPlace ==
    /\ ~terminated
    /\ scan.trigger # 0 => \A i \in 1 .. scan.written : memory[buffer][i] = scan.trigger
    /\ scan.trigger = 0 => scan.written = 0
    /\ \A i \in 1 .. Len(completed) : completed[i] # 0
    /\ Pending => /\ completed # << >>
                  /\ memory[buffer] = Whole(completed[Len(completed)])

\* The callback has not yet pushed the pending frame to queue q.
Lacks(q) ==
    \/ events = <<"data", "end">>
    \/ callback \in {"data", "dataQueue"}
    \/ callback = "dataSaveQueue" /\ q # "dataQueue"
    \/ callback = "dataSendQueue" /\ q = "dataSendQueue"

\* Each queue holds the completed frames in order; until the events are disabled
\* it lacks the pending one at most.
QueuesFilled ==
    \A q \in Queues :
        /\ Len(queue[q]) <= Len(completed)
        /\ \A i \in 1 .. Len(queue[q]) : queue[q][i] = Whole(completed[i])
        /\ mainAt \in {"start", "sleep", "disable"} =>
              /\ Lacks(q) => Len(queue[q]) = Len(completed) - 1
              /\ ~Lacks(q) => Len(queue[q]) = Len(completed)

----------------------------------------------------------------------------
(* Types.                                                                  *)

LEMMA WholeType == \A k \in Nat : Whole(k) \in Samples
BY DEF Whole, Samples

LEMMA TypesInit == Init => Types
<1> SUFFICES ASSUME Init PROVE Types
  OBVIOUS
<1>1. NoScan \in [target : Blocks \cup {Null}, trigger : Nat, written : 0 .. Parts - 1]
  BY AcquisitionAssumption DEF NoScan
<1>2. memory \in [Blocks -> Samples]
  BY WholeType DEF Init, NaN
<1>3. completed \in Seq(Nat) /\ events \in Seq({"data", "end"}) /\ queue \in [Queues -> Seq(Samples)]
  BY EmptySeq DEF Init
<1>4. QED
  BY <1>1, <1>2, <1>3 DEF Init, Types

LEMMA WriteType ==
  ASSUME Types, Cycle, WritePart
  PROVE  /\ scan.target = buffer /\ buffer \in Blocks
         /\ memory' = [memory EXCEPT ![buffer][scan.written + 1] = scan.trigger]
         /\ memory' \in [Blocks -> Samples]
<1>1. Scanning /\ scan.target = buffer /\ buffer \in Blocks
  BY DEF Types, Cycle, WritePart, Scanning
<1>2. memory' = [memory EXCEPT ![buffer][scan.written + 1] = scan.trigger]
  BY <1>1 DEF WritePart
<1>3. scan.trigger \in Nat /\ scan.written + 1 \in 1 .. Parts
  BY AcquisitionAssumption DEF Types
<1>4. memory' \in [Blocks -> Samples]
  BY <1>1, <1>2, <1>3 DEF Types, Samples
<1>5. QED
  BY <1>1, <1>2, <1>4

\* A frame is reported when its last part is written and not before.
LEMMA WholeFrames ==
  ASSUME NEW n \in 1 .. Parts
  PROVE  n % availableSampleCount = 0 <=> n = Parts
<1>1. Parts \in Nat \ {0}
  BY AcquisitionAssumption
<1>2. CASE n = Parts
  BY <1>1, <1>2 DEF availableSampleCount
<1>3. CASE n < Parts
  <2>1. n % Parts = n
    BY <1>1, <1>3
  <2>2. QED
    BY <2>1, <1>3 DEF availableSampleCount
<1>4. QED
  BY <1>1, <1>2, <1>3

LEMMA BothEvents == << >> \o <<"data">> \o <<"end">> = <<"data", "end">>
<1> DEFINE E == {"data", "end"}
<1>1. <<"data">> \in Seq(E) /\ "end" \in E
  OBVIOUS
<1>2. << >> \o <<"data">> = <<"data">>
  BY <1>1, ConcatEmptySeq
<1>3. Append(<<"data">>, "end") = <<"data">> \o <<"end">>
  BY <1>1, AppendIsConcat
<1> DEFINE a == Append(<<"data">>, "end")  b == <<"data", "end">>
<1>4. a = b
  <2>1. a \in Seq(E) /\ Len(a) = 2 /\ a[1] = "data" /\ a[2] = "end"
    BY <1>1, AppendProperties
  <2>2. b \in Seq(E) /\ Len(b) = 2 /\ b[1] = "data" /\ b[2] = "end"
    OBVIOUS
  <2> HIDE DEF a, b
  <2>3. QED
    BY <2>1, <2>2, SeqEqual
<1>5. QED
  BY <1>2, <1>3, <1>4

LEMMA WriteEvents ==
  ASSUME Types, Cycle, WritePart
  PROVE  /\ events = << >> /\ callback = "idle"
         /\ IF scan.written + 1 = Parts
            THEN /\ events' = <<"data", "end">> /\ scan' = NoScan
                 /\ completed' = Append(completed, scan.trigger)
            ELSE /\ events' = << >> /\ completed' = completed
                 /\ scan' = [scan EXCEPT !.written = scan.written + 1]
<1>1. events = << >> /\ callback = "idle"
  BY DEF Cycle, WritePart
<1>2. scan.written + 1 \in 1 .. Parts
  BY AcquisitionAssumption DEF Types
<1>3. CASE scan.written + 1 = Parts
  <2>1. (scan.written + 1) % availableSampleCount = 0
    BY <1>2, <1>3, WholeFrames
  <2>2. events' = << >> \o <<"data">> \o <<"end">>
    BY <1>1, <1>3, <2>1 DEF WritePart
  <2>3. << >> \o <<"data">> \o <<"end">> = <<"data", "end">>
    BY BothEvents
  <2>4. QED
    BY <1>1, <1>3, <2>2, <2>3 DEF WritePart
<1>4. CASE scan.written + 1 # Parts
  <2>1. (scan.written + 1) % availableSampleCount # 0
    BY <1>2, <1>4, WholeFrames
  <2>2. events' = << >> \o << >> \o << >>
    BY <1>1, <1>4, <2>1 DEF WritePart
  <2>3. QED
    BY <1>1, <1>4, <2>2 DEF WritePart
<1>5. QED
  BY <1>3, <1>4
LEMMA TriggeredType ==
  ASSUME NEW T, NEW W, NEW s \in [target : T, trigger : Nat, written : W], NEW k \in Nat
  PROVE  [s EXCEPT !.trigger = k] \in [target : T, trigger : Nat, written : W]
OBVIOUS

LEMMA TypesStep ==
  ASSUME Types, Cycle, [Next]_vars
  PROVE  Types'
<1> USE AcquisitionAssumption DEF Types, heap, device, handler, Main, Callback, Scanning
<1>0. NoScan \in [target : Blocks \cup {Null}, trigger : Nat, written : 0 .. Parts - 1]
  BY DEF NoScan
<1>1. \A b \in Blocks \cup {Null} :
          ScanInto(b) \in [target : Blocks \cup {Null}, trigger : Nat, written : 0 .. Parts - 1]
  BY DEF ScanInto
<1>2. CASE StartScan
  BY <1>1, <1>2 DEF StartScan
<1>3. CASE AInScanStop
  <2>1. Append(events, "end") \in Seq({"data", "end"})
    BY AppendProperties
  <2>2. QED
    BY <1>0, <1>3, <2>1 DEF AInScanStop
<1>4. CASE DisableEvent
  BY <1>4, EmptySeq DEF DisableEvent
<1>5. CASE DisconnectDaqDevice
  BY <1>0, <1>5 DEF DisconnectDaqDevice
<1>6. CASE FreeBuffer
  BY <1>6 DEF FreeBuffer
<1>7. CASE Trigger
  <2>1. scan' \in [target : Blocks \cup {Null}, trigger : Nat, written : 0 .. Parts - 1]
    <3>0. triggers + 1 \in Nat
      OBVIOUS
    <3>1. [scan EXCEPT !.trigger = triggers + 1]
              \in [target : Blocks \cup {Null}, trigger : Nat, written : 0 .. Parts - 1]
      BY <3>0, TriggeredType, Zenon
    <3>2. scan' = [scan EXCEPT !.trigger = triggers + 1] \/ scan' = scan
      BY <1>7 DEF Trigger
    <3>3. QED
      BY <3>1, <3>2
  <2>2. QED
    BY <1>7, <2>1 DEF Trigger
<1>8. CASE WritePart
  <2>1. memory' \in [Blocks -> Samples]
    BY <1>8, WriteType
  <2>2. completed' \in Seq(Nat)
    <3>1. Append(completed, scan.trigger) \in Seq(Nat)
      BY AppendProperties
    <3>2. completed' = Append(completed, scan.trigger) \/ completed' = completed
      BY <1>8, WriteEvents
    <3>3. QED
      BY <3>1, <3>2
  <2>3. events' \in Seq({"data", "end"})
    <3>1. << >> \in Seq({"data", "end"}) /\ <<"data", "end">> \in Seq({"data", "end"})
      OBVIOUS
    <3>2. QED
      BY <1>8, <3>1, WriteEvents
  <2>4. scan' \in [target : Blocks \cup {Null}, trigger : Nat, written : 0 .. Parts - 1]
    BY <1>0, <1>8, WriteEvents
  <2>5. QED
    BY <1>8, <2>1, <2>2, <2>3, <2>4 DEF WritePart
<1>9. CASE NextEvent
  <2>1. Head(events) \in {"data", "end"} /\ Tail(events) \in Seq({"data", "end"})
    BY <1>9, HeadTailProperties DEF NextEvent
  <2>2. QED
    BY <1>9, <2>1 DEF NextEvent
<1>10. CASE CheckBuffer
  BY <1>10 DEF CheckBuffer, Queues
<1>11. ASSUME NEW q \in Queues, PushTo(q) PROVE Types'
  <2>1. memory[buffer] \in Samples
    BY <1>11 DEF Cycle, PushTo, Queues
  <2>2. queue' \in [Queues -> Seq(Samples)]
    <3>1. Append(queue[q], memory[buffer]) \in Seq(Samples)
      BY <2>1, AppendProperties
    <3>2. QED
      BY <1>11, <3>1 DEF PushTo
  <2>3. callback' \in {"idle", "data", "clear", "end", "scan"} \cup Queues
    BY <1>11 DEF PushTo, Queues
  <2>4. QED
    BY <1>11, <2>2, <2>3 DEF PushTo
<1>12. CASE ClearBuffer
  <2>1. memory' \in [Blocks -> Samples]
    BY <1>12, WholeType DEF ClearBuffer, NaN
  <2>2. QED
    BY <1>12, <2>1 DEF ClearBuffer
<1>13. CASE ReplaceBuffer
  BY <1>13 DEF ReplaceBuffer
<1>14. CASE RestartScan
  BY <1>1, <1>14 DEF RestartScan
<1>15. CASE UNCHANGED vars
  BY <1>15 DEF vars
<1>16. QED
  BY <1>2, <1>3, <1>4, <1>5, <1>6, <1>7, <1>8, <1>9, <1>10, <1>11, <1>12, <1>13, <1>14, <1>15
  DEF Next, MainThread, EventThread
----------------------------------------------------------------------------
(* The cycle of a scan, its events and its callback.                       *)

LEMMA CycleInit == Init => Cycle /\ MainWaits /\ BufferLive
<1> SUFFICES ASSUME Init PROVE Cycle /\ MainWaits /\ BufferLive
  OBVIOUS
<1>1. ~Scanning /\ scan.trigger = 0 /\ buffer # Null /\ buffer \in live /\ buffer = buffer_
  BY AcquisitionAssumption DEF Init, Scanning, NoScan
<1>2. events = << >> /\ callback = "idle" /\ mainAt = "start" /\ completed = << >>
  BY DEF Init
<1>3. \A q \in Queues : queue[q] = << >>
  BY DEF Init
<1>4. Cycle
  BY <1>1, <1>2 DEF Cycle, Queues
<1>5. QED
  BY <1>1, <1>2, <1>3, <1>4 DEF MainWaits, BufferLive

LEMMA CycleStep ==
  ASSUME Types, Cycle, MainWaits, [Next]_vars
  PROVE  Cycle' /\ MainWaits'
<1> USE AcquisitionAssumption DEF Types, heap, device, handler, Main, Callback, Scanning, Queues, Cycle, MainWaits
<1>1. NoScan.target = Null /\ NoScan.trigger = 0
  BY DEF NoScan
<1>2. \A b \in Blocks \cup {Null} : ScanInto(b).target = b /\ ScanInto(b).trigger = 0
  BY DEF ScanInto
<1>3. CASE StartScan
  BY <1>2, <1>3 DEF StartScan
<1>4. CASE AInScanStop
  <2>1. Append(<< >>, "end") = <<"end">>
    OBVIOUS
  <2>2. QED
    BY <1>1, <1>4, <2>1 DEF AInScanStop
<1>5. CASE DisableEvent
  BY <1>5 DEF DisableEvent
<1>6. CASE DisconnectDaqDevice
  BY <1>1, <1>6 DEF DisconnectDaqDevice
<1>7. CASE FreeBuffer
  BY <1>7 DEF FreeBuffer
<1>8. CASE Trigger
  BY <1>8 DEF Trigger
<1>9. CASE WritePart
  <2>1. /\ events = << >> /\ callback = "idle" /\ Scanning /\ buffer \in Blocks /\ mainAt # "start"
        /\ UNCHANGED <<mainAt, buffer, buffer_, callback>>
    BY <1>9 DEF WritePart
  <2>2. CASE scan.written + 1 = Parts
    BY <1>1, <1>9, <2>1, <2>2, WriteEvents
  <2>3. CASE scan.written + 1 # Parts
    <3>1. scan'.target = scan.target /\ scan'.trigger = scan.trigger /\ events' = << >>
      BY <1>9, <2>3, WriteEvents
    <3>2. QED
      BY <2>1, <3>1
  <2>4. QED
    BY <2>2, <2>3
<1>10. CASE NextEvent
  <2>1. events \in {<<"end">>, <<"data", "end">>}
    BY <1>10 DEF NextEvent
  <2>2. CASE events = <<"end">>
    <3>1. callback' = "end" /\ events' = << >>
      BY <1>10, <2>2 DEF NextEvent
    <3>2. QED
      BY <1>10, <2>2, <3>1 DEF NextEvent
  <2>3. CASE events = <<"data", "end">>
    <3>1. callback' = "data" /\ events' = <<"end">>
      BY <1>10, <2>3 DEF NextEvent
    <3>2. QED
      BY <1>10, <2>3, <3>1 DEF NextEvent
  <2>4. QED
    BY <2>1, <2>2, <2>3
<1>11. CASE CheckBuffer
  BY <1>11 DEF CheckBuffer
<1>12. ASSUME NEW q \in Queues, PushTo(q) PROVE Cycle' /\ MainWaits'
  <2>1. callback' \in {"dataSaveQueue", "dataSendQueue", "clear"} /\ mainAt # "start"
    BY <1>12 DEF PushTo
  <2>2. QED
    BY <1>12, <2>1 DEF PushTo
<1>13. CASE ClearBuffer
  BY <1>13 DEF ClearBuffer
<1>14. CASE ReplaceBuffer
  BY <1>14 DEF ReplaceBuffer
<1>15. CASE RestartScan
  BY <1>2, <1>15 DEF RestartScan
<1>16. CASE UNCHANGED vars
  BY <1>16 DEF vars
<1>17. QED
  BY <1>3, <1>4, <1>5, <1>6, <1>7, <1>8, <1>9, <1>10, <1>11, <1>12, <1>13, <1>14, <1>15, <1>16
  DEF Next, MainThread, EventThread
LEMMA BufferStep ==
  ASSUME Types, Cycle, MainWaits, BufferLive, [Next]_vars
  PROVE  BufferLive'
<1> USE AcquisitionAssumption
    DEF Types, heap, device, handler, Main, Callback, Scanning, Cycle, MainWaits, BufferLive
<1>1. NoScan.target = Null
  BY DEF NoScan
<1>2. CASE StartScan
  BY <1>2 DEF StartScan
<1>3. CASE AInScanStop \/ DisableEvent \/ DisconnectDaqDevice \/ FreeBuffer
  BY <1>1, <1>3 DEF AInScanStop, DisableEvent, DisconnectDaqDevice, FreeBuffer
<1>4. CASE Trigger
  BY <1>4 DEF Trigger
<1>5. CASE WritePart
  BY <1>5 DEF WritePart
<1>6. CASE NextEvent \/ CheckBuffer
  BY <1>6 DEF NextEvent, CheckBuffer
<1>7. ASSUME NEW q \in Queues, PushTo(q) PROVE BufferLive'
  BY <1>7 DEF PushTo, Queues
<1>8. CASE ClearBuffer \/ ReplaceBuffer \/ RestartScan
  BY <1>8 DEF ClearBuffer, ReplaceBuffer, RestartScan
<1>9. CASE UNCHANGED vars
  BY <1>9 DEF vars
<1>10. QED
  BY <1>2, <1>3, <1>4, <1>5, <1>6, <1>7, <1>8, <1>9 DEF Next, MainThread, EventThread

AcquiringInv == Types /\ Cycle /\ MainWaits /\ BufferLive

LEMMA Acquiring == Spec => []AcquiringInv
<1>1. Init => AcquiringInv
  BY TypesInit, CycleInit DEF AcquiringInv
<1>2. AcquiringInv /\ [Next]_vars => AcquiringInv'
  BY TypesStep, CycleStep, BufferStep DEF AcquiringInv
<1>3. QED
  BY <1>1, <1>2, PTL DEF Spec

\* The variables keep their types, and after a failed malloc no callback works
\* on the null buffer (TypeOK; AIScanWithTrigger::eventRecoverySampling).
THEOREM TypeCorrect == Spec => []TypeOK
<1>1. AcquiringInv => TypeOK
  BY DEF AcquiringInv, Types, Cycle, TypeOK
<1>2. QED
  BY <1>1, Acquiring, PTL

\* The device writes only to a buffer that is allocated (WritesToLiveBlock),
\* although eventRecoverySampling frees and replaces the buffer and
\* dataAcquisition stops the scan at any moment.
THEOREM WritesLive == Spec => []WritesToLiveBlock
<1>1. AcquiringInv => WritesToLiveBlock
  BY DEF AcquiringInv, Cycle, BufferLive, WritesToLiveBlock
<1>2. QED
  BY <1>1, Acquiring, PTL

----------------------------------------------------------------------------
(* The samples.                                                            *)

\* With its last part the scan has filled the buffer.
LEMMA FrameWritten ==
  ASSUME Types, Cycle, SamplesInPlace, WritePart, scan.written + 1 = Parts
  PROVE  memory'[buffer] = Whole(scan.trigger)
<1>1. /\ buffer \in Blocks /\ memory' \in [Blocks -> Samples]
      /\ memory' = [memory EXCEPT ![buffer][scan.written + 1] = scan.trigger]
  BY WriteType
<1>2. Parts \in Nat \ {0} /\ scan.written \in Nat /\ scan.trigger # 0
  BY AcquisitionAssumption DEF Types, WritePart
<1>3. memory[buffer] \in [1 .. Parts -> Nat] /\ memory'[buffer] \in [1 .. Parts -> Nat]
  BY <1>1 DEF Types, Samples
<1>4. \A i \in 1 .. Parts : memory'[buffer][i] = scan.trigger
  <2>1. TAKE i \in 1 .. Parts
  <2>2. CASE i = Parts
    BY <1>1, <1>3, <2>2 DEF Types
  <2>3. CASE i < Parts
    <3>1. i \in 1 .. scan.written
      BY <1>2, <2>3
    <3>2. memory[buffer][i] = scan.trigger
      BY <1>2, <3>1 DEF SamplesInPlace
    <3>3. QED
      BY <1>1, <1>2, <1>3, <2>3, <3>2 DEF Types
  <2>4. QED
    BY <1>2, <2>2, <2>3
<1>5. QED
  BY <1>3, <1>4 DEF Whole

LEMMA SamplesStep ==
  ASSUME Types, Cycle, MainWaits, SamplesInPlace, [Next]_vars
  PROVE  SamplesInPlace'
<1> USE AcquisitionAssumption
    DEF heap, device, handler, Main, Callback, Pending, Queues, SamplesInPlace
<1>0. NoScan.trigger = 0 /\ NoScan.written = 0
  BY DEF NoScan
<1>1. \A b \in Blocks \cup {Null} : ScanInto(b).trigger = 0 /\ ScanInto(b).written = 0
  BY DEF ScanInto
<1>2. CASE StartScan
  BY <1>1, <1>2 DEF StartScan, Types
<1>3. CASE AInScanStop
  <2>1. Scanning => events = << >> /\ callback = "idle"
    BY DEF Cycle
  <2>2. scan' = NoScan /\ UNCHANGED <<memory, buffer, completed, callback, terminated>>
    BY <1>3 DEF AInScanStop
  <2>3. CASE Scanning
    <3>1. events' = <<"end">> /\ callback = "idle"
      BY <1>3, <2>1, <2>3 DEF AInScanStop
    <3>2. QED
      BY <1>0, <2>2, <3>1
  <2>4. CASE ~Scanning
    <3>1. events' = events
      BY <1>3, <2>4 DEF AInScanStop
    <3>2. QED
      BY <1>0, <2>2, <3>1
  <2>5. QED
    BY <2>3, <2>4
<1>4. CASE DisableEvent
  BY <1>4 DEF DisableEvent
<1>5. CASE DisconnectDaqDevice
  BY <1>0, <1>5 DEF DisconnectDaqDevice
<1>6. CASE FreeBuffer
  BY <1>6 DEF FreeBuffer
<1>7. CASE Trigger
  <2>1. UNCHANGED <<memory, buffer, completed, events, callback, terminated>>
    BY <1>7 DEF Trigger
  <2>2. scan' = scan \/ (scan.trigger = 0 /\ scan' = [scan EXCEPT !.trigger = triggers + 1])
    BY <1>7 DEF Trigger
  <2>3. scan'.written = scan.written /\ (scan' = scan \/ scan.written = 0)
    BY <2>2 DEF Types
  <2>4. scan.trigger = 0 => scan'.trigger = 0 \/ scan'.written = 0
    BY <2>3
  <2>5. QED
    BY <2>1, <2>2, <2>3, <2>4 DEF Types
<1>8. CASE WritePart
  <2>1. /\ buffer \in Blocks /\ scan.trigger # 0 /\ scan.trigger \in Nat /\ scan.written \in Nat
        /\ UNCHANGED <<buffer, callback, terminated>> /\ callback = "idle"
        /\ memory' = [memory EXCEPT ![buffer][scan.written + 1] = scan.trigger]
    BY <1>8, WriteType, WriteEvents DEF WritePart, Types
  <2>2. CASE scan.written + 1 = Parts
    <3>1. completed' = Append(completed, scan.trigger) /\ scan' = NoScan
      BY <1>8, <2>2, WriteEvents
    <3>2. /\ completed' # << >> /\ Len(completed') = Len(completed) + 1
          /\ completed'[Len(completed) + 1] = scan.trigger
          /\ \A i \in 1 .. Len(completed) : completed'[i] = completed[i]
      <4>1. completed \in Seq(Nat) /\ scan.trigger \in Nat
        BY <2>1 DEF Types
      <4>2. QED
        BY <3>1, <4>1, AppendProperties
    <3>3. \A i \in 1 .. Len(completed') : completed'[i] # 0
      <4>1. Len(completed) \in Nat
        BY DEF Types
      <4>2. QED
        BY <2>1, <3>2, <4>1
    <3>4. memory'[buffer] = Whole(completed'[Len(completed')])
      BY <1>8, <2>2, <3>2, FrameWritten
    <3>5. QED
      BY <1>0, <2>1, <3>1, <3>2, <3>3, <3>4
  <2>3. CASE scan.written + 1 # Parts
    <3>1. events' = << >> /\ completed' = completed /\ scan' = [scan EXCEPT !.written = scan.written + 1]
      BY <1>8, <2>3, WriteEvents
    <3>2. scan'.trigger = scan.trigger /\ scan'.written = scan.written + 1
      BY <3>1 DEF Types
    <3>3. ASSUME NEW i \in 1 .. scan.written + 1
          PROVE  memory'[buffer][i] = scan.trigger
      <4>1. memory[buffer] \in [1 .. Parts -> Nat] /\ scan.written + 1 \in 1 .. Parts
        <5>1. scan.written \in 0 .. Parts - 1
          BY DEF Types
        <5>2. scan.written + 1 \in 1 .. Parts
          BY <5>1
        <5>3. memory[buffer] \in [1 .. Parts -> Nat]
          BY <2>1 DEF Types, Samples
        <5>4. QED
          BY <5>2, <5>3
      <4>2. CASE i = scan.written + 1
        BY <2>1, <4>1, <4>2 DEF Types
      <4>3. CASE i \in 1 .. scan.written
        BY <2>1, <4>1, <4>3 DEF Types
      <4>4. QED
        BY <2>1, <4>2, <4>3
    <3>4. QED
      BY <2>1, <3>1, <3>2, <3>3
  <2>4. QED
    BY <2>2, <2>3
<1>9. CASE NextEvent
  <2>1. events \in {<<"end">>, <<"data", "end">>}
    BY <1>9 DEF NextEvent, Cycle
  <2>2. CASE events = <<"end">>
    <3>1. callback' = "end" /\ events' = << >>
      BY <1>9, <2>2 DEF NextEvent
    <3>2. QED
      BY <1>9, <3>1 DEF NextEvent
  <2>3. CASE events = <<"data", "end">>
    BY <1>9, <2>3 DEF NextEvent
  <2>4. QED
    BY <2>1, <2>2, <2>3
<1>10. CASE CheckBuffer
  <2>1. memory[buffer] = Whole(completed[Len(completed)]) /\ completed # << >>
    BY <1>10 DEF CheckBuffer
  <2>2. completed[Len(completed)] # 0
    BY <2>1, EmptySeq DEF Types
  <2>3. checkBufferFull
    BY <2>1, <2>2 DEF checkBufferFull, Whole, NaN
  <2>4. QED
    BY <1>10, <2>3 DEF CheckBuffer
<1>11. ASSUME NEW q \in Queues, PushTo(q) PROVE SamplesInPlace'
  BY <1>11 DEF PushTo
<1>12. CASE ClearBuffer
  <2>1. scan.trigger = 0 /\ events = <<"end">>
    BY <1>12 DEF ClearBuffer, Cycle
  <2>2. QED
    BY <1>12, <2>1 DEF ClearBuffer
<1>13. CASE ReplaceBuffer
  <2>1. scan.trigger = 0 /\ events = << >>
    BY <1>13 DEF ReplaceBuffer, Cycle
  <2>2. QED
    BY <1>13, <2>1 DEF ReplaceBuffer
<1>14. CASE RestartScan
  BY <1>1, <1>14 DEF RestartScan, Types
<1>15. CASE UNCHANGED vars
  BY <1>15 DEF vars
<1>16. QED
  BY <1>2, <1>3, <1>4, <1>5, <1>6, <1>7, <1>8, <1>9, <1>10, <1>11, <1>12, <1>13, <1>14, <1>15
  DEF Next, MainThread, EventThread

LEMMA SamplesInit == Init => SamplesInPlace
BY DEF Init, SamplesInPlace, NoScan, Pending, Queues

\* The event of a completed scan finds the buffer full (BufferFullAtEvent):
\* saveDataToQueue never raises its exception, which nobody would catch.
THEOREM BufferFull == Spec => []BufferFullAtEvent
<1>1. AcquiringInv /\ SamplesInPlace /\ [Next]_vars => SamplesInPlace'
  BY SamplesStep DEF AcquiringInv
<1>2. SamplesInPlace => BufferFullAtEvent
  BY DEF SamplesInPlace, BufferFullAtEvent
<1>3. QED
  BY <1>1, <1>2, SamplesInit, Acquiring, PTL DEF Spec

----------------------------------------------------------------------------
(* The queues.                                                             *)

\* A step that completes no scan and pushes nothing.
LEMMA QueuesKept ==
  ASSUME QueuesFilled, UNCHANGED <<completed, queue>>,
         mainAt' \in {"start", "sleep", "disable"} =>
            /\ mainAt \in {"start", "sleep", "disable"}
            /\ \A q \in Queues : Lacks(q)' <=> Lacks(q)
  PROVE  QueuesFilled'
BY DEF QueuesFilled

LEMMA FrameCompleted ==
  ASSUME Types, Cycle, QueuesFilled, WritePart
  PROVE  QueuesFilled'
<1>1. events = << >> /\ callback = "idle" /\ UNCHANGED <<mainAt, callback, queue>>
  BY WriteEvents DEF WritePart
<1>2. \A q \in Queues : ~Lacks(q)
  BY <1>1 DEF Lacks
<1>3. CASE scan.written + 1 = Parts
  <2>1. events' = <<"data", "end">> /\ completed' = Append(completed, scan.trigger)
    BY <1>3, WriteEvents
  <2>2. completed \in Seq(Nat) /\ scan.trigger \in Nat
    BY DEF Types
  <2>3. /\ Len(completed) \in Nat /\ Len(completed') = Len(completed) + 1
        /\ \A i \in 1 .. Len(completed) : completed'[i] = completed[i]
    BY <2>1, <2>2, AppendProperties
  <2>4. \A q \in Queues : Lacks(q)'
    BY <2>1 DEF Lacks
  <2>5. \A q \in Queues : Len(queue[q]) \in Nat
    BY DEF Types
  <2>6. ASSUME NEW q \in Queues
        PROVE  /\ Len(queue'[q]) <= Len(completed')
               /\ \A i \in 1 .. Len(queue'[q]) : queue'[q][i] = Whole(completed'[i])
               /\ mainAt' \in {"start", "sleep", "disable"} =>
                     /\ Lacks(q)' => Len(queue'[q]) = Len(completed') - 1
                     /\ ~Lacks(q)' => Len(queue'[q]) = Len(completed')
    <3>1. queue'[q] = queue[q] /\ Len(queue[q]) \in Nat /\ Len(queue[q]) <= Len(completed)
      BY <1>1, <2>5 DEF QueuesFilled
    <3>2. ASSUME NEW i \in 1 .. Len(queue[q]) PROVE queue[q][i] = Whole(completed'[i])
      <4>1. i \in 1 .. Len(completed)
        BY <2>3, <3>1
      <4>2. QED
        BY <2>3, <4>1 DEF QueuesFilled
    <3>3. mainAt \in {"start", "sleep", "disable"} => Len(queue[q]) = Len(completed)
      BY <1>2, <2>3 DEF QueuesFilled
    <3>4. QED
      BY <1>1, <2>3, <2>4, <3>1, <3>2, <3>3
  <2>7. QED
    BY <2>6 DEF QueuesFilled
<1>4. CASE scan.written + 1 # Parts
  <2>1. events' = << >> /\ completed' = completed
    BY <1>4, WriteEvents
  <2>2. \A q \in Queues : Lacks(q)' <=> Lacks(q)
    BY <1>1, <2>1 DEF Lacks
  <2>3. QED
    BY <1>1, <2>1, <2>2, QueuesKept
<1>5. QED
  BY <1>3, <1>4

LEMMA FramePushed ==
  ASSUME Types, Cycle, MainWaits, SamplesInPlace, QueuesFilled, NEW q \in Queues, PushTo(q)
  PROVE  QueuesFilled'
<1>1. /\ callback = q /\ queue' = [queue EXCEPT ![q] = Append(queue[q], memory[buffer])]
      /\ UNCHANGED <<mainAt, events, completed>>
  BY DEF PushTo, Callback, device
<1>2. mainAt \in {"sleep", "disable"} /\ events = <<"end">>
  BY <1>1 DEF MainWaits, Cycle, Queues
<1>3. completed # << >> /\ memory[buffer] = Whole(completed[Len(completed)])
  BY <1>1 DEF SamplesInPlace, Pending
<1>4. completed \in Seq(Nat) /\ Len(completed) \in Nat \ {0}
  BY <1>3, EmptySeq DEF Types
<1>5. completed[Len(completed)] \in Nat
  BY <1>4
<1>6. memory[buffer] \in Samples
  BY <1>3, <1>5, WholeType
<1>7. /\ queue[q] \in Seq(Samples) /\ queue \in [Queues -> Seq(Samples)]
      /\ queue'[q] = Append(queue[q], memory[buffer])
      /\ \A r \in Queues \ {q} : queue'[r] = queue[r]
  BY <1>1 DEF Types
<1>8. /\ Len(queue[q]) \in Nat /\ Len(queue'[q]) = Len(queue[q]) + 1
      /\ queue'[q][Len(queue[q]) + 1] = memory[buffer]
      /\ \A i \in 1 .. Len(queue[q]) : queue'[q][i] = queue[q][i]
  BY <1>6, <1>7, AppendProperties
<1>9. Lacks(q) /\ ~Lacks(q)' /\ \A r \in Queues \ {q} : Lacks(r)' <=> Lacks(r)
  <2>1. events # <<"data", "end">>
    BY <1>2
  <2>2. callback' = CASE q = "dataQueue" -> "dataSaveQueue"
                      [] q = "dataSaveQueue" -> "dataSendQueue"
                      [] q = "dataSendQueue" -> "clear"
    BY DEF PushTo
  <2>3. CASE q = "dataQueue"
    BY <1>1, <2>1, <2>2, <2>3 DEF Lacks, Queues
  <2>4. CASE q = "dataSaveQueue"
    BY <1>1, <2>1, <2>2, <2>4 DEF Lacks, Queues
  <2>5. CASE q = "dataSendQueue"
    BY <1>1, <2>1, <2>2, <2>5 DEF Lacks, Queues
  <2>6. QED
    BY <2>3, <2>4, <2>5 DEF Queues
<1>10. Len(queue[q]) + 1 = Len(completed)
  <2>1. Len(queue[q]) = Len(completed) - 1
    BY <1>2, <1>9 DEF QueuesFilled
  <2>2. QED
    BY <1>4, <1>8, <2>1
<1>11. ASSUME NEW i \in 1 .. Len(queue'[q])
       PROVE  queue'[q][i] = Whole(completed[i])
  <2>1. CASE i \in 1 .. Len(queue[q])
    <3>1. queue[q][i] = Whole(completed[i])
      BY <2>1 DEF QueuesFilled
    <3>2. QED
      BY <1>8, <2>1, <3>1
  <2>2. CASE i = Len(queue[q]) + 1
    BY <1>3, <1>8, <1>10, <2>2
  <2>3. QED
    BY <1>8, <2>1, <2>2
<1>12. ASSUME NEW r \in Queues
       PROVE  /\ Len(queue'[r]) <= Len(completed)
              /\ \A i \in 1 .. Len(queue'[r]) : queue'[r][i] = Whole(completed[i])
              /\ Lacks(r)' => Len(queue'[r]) = Len(completed) - 1
              /\ ~Lacks(r)' => Len(queue'[r]) = Len(completed)
  <2>1. CASE r = q
    BY <1>4, <1>8, <1>9, <1>10, <1>11, <2>1
  <2>2. CASE r # q
    BY <1>2, <1>7, <1>9, <2>2 DEF QueuesFilled
  <2>3. QED
    BY <2>1, <2>2
<1>13. QED
  BY <1>1, <1>12 DEF QueuesFilled

LEMMA QueuesStep ==
  ASSUME Types, Cycle, MainWaits, SamplesInPlace, QueuesFilled, [Next]_vars
  PROVE  QueuesFilled'
<1> USE DEF heap, device, handler, Main, Callback
<1>1. CASE StartScan
  BY <1>1, QueuesKept DEF StartScan, Lacks
<1>2. CASE AInScanStop
  <2>1. Scanning => events = << >>
    BY DEF Cycle
  <2>2. events' = events \/ (events = << >> /\ events' = <<"end">>)
    <3>1. Append(<< >>, "end") = <<"end">>
      OBVIOUS
    <3>2. events' = IF Scanning THEN Append(events, "end") ELSE events
      BY <1>2 DEF AInScanStop
    <3>3. QED
      BY <2>1, <3>1, <3>2
  <2>3. events' = <<"data", "end">> <=> events = <<"data", "end">>
    BY <2>2
  <2>4. QED
    BY <1>2, <2>3, QueuesKept DEF AInScanStop, Lacks
<1>3. CASE DisableEvent \/ DisconnectDaqDevice \/ FreeBuffer
  BY <1>3, QueuesKept DEF DisableEvent, DisconnectDaqDevice, FreeBuffer
<1>4. CASE Trigger
  BY <1>4, QueuesKept DEF Trigger, Lacks
<1>5. CASE WritePart
  BY <1>5, FrameCompleted
<1>6. CASE NextEvent
  <2>1. events \in {<<"end">>, <<"data", "end">>} /\ callback = "idle"
    BY <1>6 DEF NextEvent, Cycle
  <2>2. CASE events = <<"end">>
    <3>1. callback' = "end" /\ events' = << >>
      BY <1>6, <2>2 DEF NextEvent
    <3>2. \A q \in Queues : Lacks(q)' <=> Lacks(q)
      BY <2>1, <2>2, <3>1 DEF Lacks
    <3>3. QED
      BY <1>6, <3>2, QueuesKept DEF NextEvent
  <2>3. CASE events = <<"data", "end">>
    <3>1. callback' = "data"
      BY <1>6, <2>3 DEF NextEvent
    <3>2. \A q \in Queues : Lacks(q)' <=> Lacks(q)
      BY <2>3, <3>1 DEF Lacks
    <3>3. QED
      BY <1>6, <3>2, QueuesKept DEF NextEvent
  <2>4. QED
    BY <2>1, <2>2, <2>3
<1>7. CASE CheckBuffer
  BY <1>7, QueuesKept DEF CheckBuffer, Lacks
<1>8. ASSUME NEW q \in Queues, PushTo(q) PROVE QueuesFilled'
  BY <1>8, FramePushed
<1>9. CASE ClearBuffer \/ ReplaceBuffer \/ RestartScan
  BY <1>9, QueuesKept DEF ClearBuffer, ReplaceBuffer, RestartScan, Lacks
<1>10. CASE UNCHANGED vars
  BY <1>10, QueuesKept DEF vars, Lacks
<1>11. QED
  BY <1>1, <1>2, <1>3, <1>4, <1>5, <1>6, <1>7, <1>8, <1>9, <1>10 DEF Next, MainThread, EventThread

LEMMA QueuesInit == Init => QueuesFilled
<1> SUFFICES ASSUME Init PROVE QueuesFilled
  OBVIOUS
<1>1. completed = << >> /\ Len(completed) = 0 /\ \A q \in Queues : Len(queue[q]) = 0
  BY DEF Init
<1>2. \A q \in Queues : ~Lacks(q)
  BY DEF Init, Lacks
<1>3. QED
  BY <1>1, <1>2 DEF QueuesFilled

LEMMA Filling == Spec => [](AcquiringInv /\ SamplesInPlace /\ QueuesFilled)
<1>1. AcquiringInv /\ SamplesInPlace /\ [Next]_vars => SamplesInPlace'
  BY SamplesStep DEF AcquiringInv
<1>2. AcquiringInv /\ SamplesInPlace /\ QueuesFilled /\ [Next]_vars => QueuesFilled'
  BY QueuesStep DEF AcquiringInv
<1>3. QED
  BY <1>1, <1>2, SamplesInit, QueuesInit, Acquiring, PTL DEF Spec

----------------------------------------------------------------------------
(* The order of the frames, and the refinement.                            *)

\* The scans are completed in the order of their triggers.
Ordered ==
    /\ triggers <= MaxTriggers /\ scan.trigger <= triggers
    /\ \A i \in 1 .. Len(completed) :
          /\ completed[i] <= triggers
          /\ scan.trigger # 0 => completed[i] < scan.trigger

LEMMA OrderedInit == Init => Ordered
<1> SUFFICES ASSUME Init PROVE Ordered
  OBVIOUS
<1>1. triggers = 0 /\ scan.trigger = 0 /\ Len(completed) = 0
  BY DEF Init, NoScan
<1>2. QED
  BY <1>1, AcquisitionAssumption DEF Ordered

\* A step without a trigger or a completed scan.
LEMMA OrderKept ==
  ASSUME Types, Ordered, UNCHANGED <<triggers, completed>>,
         scan'.trigger = scan.trigger \/ scan'.trigger = 0
  PROVE  Ordered'
<1>1. triggers \in Nat /\ Len(completed) \in Nat
  BY DEF Types
<1>2. scan'.trigger <= triggers'
  BY <1>1 DEF Ordered
<1>3. QED
  BY <1>2 DEF Ordered

LEMMA OrderedStep ==
  ASSUME Types, Cycle, Ordered, [Next]_vars
  PROVE  Ordered'
<1> USE DEF heap, device, handler
<1>1. /\ triggers \in Nat /\ scan.trigger \in Nat /\ MaxTriggers \in Nat
      /\ completed \in Seq(Nat) /\ Len(completed) \in Nat
      /\ \A i \in 1 .. Len(completed) : completed[i] \in Nat
  <2>1. completed \in Seq(Nat)
    BY DEF Types
  <2>2. QED
    BY <2>1, AcquisitionAssumption DEF Types
<1>2. NoScan.trigger = 0 /\ \A b : ScanInto(b).trigger = 0
  BY DEF NoScan, ScanInto
<1>3. CASE MainThread
  BY <1>2, <1>3, OrderKept
  DEF MainThread, StartScan, AInScanStop, DisableEvent, DisconnectDaqDevice, FreeBuffer
<1>4. CASE Trigger
  <2>1. triggers' = triggers + 1 /\ triggers' <= MaxTriggers /\ completed' = completed
    BY <1>1, <1>4 DEF Trigger
  <2>2. scan'.trigger = scan.trigger \/ scan'.trigger = triggers + 1
    <3>1. CASE Scanning /\ scan.trigger = 0
      BY <1>4, <3>1 DEF Trigger, Types
    <3>2. CASE ~(Scanning /\ scan.trigger = 0)
      BY <1>4, <3>2 DEF Trigger
    <3>3. QED
      BY <3>1, <3>2
  <2>3. \A i \in 1 .. Len(completed) : completed[i] <= triggers + 1 /\ completed[i] < triggers + 1
    BY <1>1 DEF Ordered
  <2>4. scan'.trigger <= triggers + 1
    BY <1>1, <2>2 DEF Ordered
  <2>5. \A i \in 1 .. Len(completed) : scan'.trigger # 0 => completed[i] < scan'.trigger
    BY <2>2, <2>3 DEF Ordered
  <2>6. QED
    BY <2>1, <2>3, <2>4, <2>5 DEF Ordered
<1>5. CASE WritePart
  <2>1. triggers' = triggers /\ scan.trigger # 0
    BY <1>5 DEF WritePart
  <2>2. CASE scan.written + 1 = Parts
    <3>1. scan' = NoScan /\ completed' = Append(completed, scan.trigger)
      BY <1>5, <2>2, WriteEvents
    <3>2. /\ Len(completed') = Len(completed) + 1
          /\ \A i \in 1 .. Len(completed) : completed'[i] = completed[i]
          /\ completed'[Len(completed) + 1] = scan.trigger
      BY <1>1, <3>1, AppendProperties
    <3>3. ASSUME NEW i \in 1 .. Len(completed') PROVE completed'[i] <= triggers
      <4>1. CASE i \in 1 .. Len(completed)
        BY <3>2, <4>1 DEF Ordered
      <4>2. CASE i = Len(completed) + 1
        BY <3>2, <4>2 DEF Ordered
      <4>3. QED
        BY <1>1, <3>2, <4>1, <4>2
    <3>4. scan'.trigger = 0
      BY <1>2, <3>1
    <3>5. triggers' <= MaxTriggers /\ scan'.trigger <= triggers'
      BY <1>1, <2>1, <3>4 DEF Ordered
    <3>6. QED
      BY <2>1, <3>3, <3>4, <3>5 DEF Ordered
  <2>3. CASE scan.written + 1 # Parts
    <3>1. completed' = completed /\ scan' = [scan EXCEPT !.written = scan.written + 1]
      BY <1>5, <2>3, WriteEvents
    <3>2. scan'.trigger = scan.trigger
      BY <3>1 DEF Types
    <3>3. QED
      BY <2>1, <3>1, <3>2, OrderKept
  <2>4. QED
    BY <2>2, <2>3
<1>6. ASSUME NEW q \in Queues, PushTo(q) PROVE Ordered'
  BY <1>6, OrderKept DEF PushTo
<1>7. CASE NextEvent \/ CheckBuffer \/ ClearBuffer \/ ReplaceBuffer \/ RestartScan
  BY <1>2, <1>7, OrderKept DEF NextEvent, CheckBuffer, ClearBuffer, ReplaceBuffer, RestartScan
<1>8. CASE UNCHANGED vars
  BY <1>8, OrderKept DEF vars
<1>9. QED
  BY <1>3, <1>4, <1>5, <1>6, <1>7, <1>8 DEF Next, EventThread

Open == mainAt \in {"start", "sleep", "disable"}

LEMMA FeedingInit == Init => Feeding!Init
  BY DEF Init, Feeding!Init

\* A frame the device completes.
LEMMA CompleteRefined ==
  ASSUME Types, Cycle, QueuesFilled, Ordered, WritePart, scan.written + 1 = Parts
  PROVE  Feeding!Complete
<1>1. /\ events = << >> /\ callback = "idle" /\ completed' = Append(completed, scan.trigger)
      /\ UNCHANGED <<mainAt, queue>> /\ scan.trigger # 0
  BY WriteEvents DEF WritePart
<1>2. \A q \in Queues : ~Lacks(q)
  BY <1>1 DEF Lacks
<1>3. Open => \A q \in Queues : Len(queue[q]) = Len(completed)
  BY <1>2 DEF Open, QueuesFilled
<1>4. scan.trigger \in 1 .. MaxTriggers
  <2>1. scan.trigger \in Nat /\ triggers \in Nat /\ MaxTriggers \in Nat
    BY AcquisitionAssumption DEF Types
  <2>2. QED
    BY <1>1, <2>1 DEF Ordered
<1>5. \A i \in 1 .. Len(completed) : completed[i] < scan.trigger
  BY <1>1 DEF Ordered
<1>6. QED
  BY <1>1, <1>3, <1>4, <1>5 DEF Open, Feeding!Complete

\* A push of the callback.
LEMMA FeedRefined ==
  ASSUME Types, Cycle, MainWaits, SamplesInPlace, QueuesFilled, NEW q \in Queues, PushTo(q)
  PROVE  Feeding!Feed(q)
<1>1. /\ callback = q /\ queue' = [queue EXCEPT ![q] = Append(queue[q], memory[buffer])]
      /\ UNCHANGED <<mainAt, events, completed>>
  BY DEF PushTo, Callback, device, handler
<1>2. mainAt \in {"sleep", "disable"}
  BY <1>1 DEF MainWaits, Queues
<1>3. completed # << >> /\ memory[buffer] = Whole(completed[Len(completed)])
  BY <1>1 DEF SamplesInPlace, Pending
<1>4. completed \in Seq(Nat) /\ Len(completed) \in Nat \ {0}
  BY <1>3, EmptySeq DEF Types
<1>5. Lacks(q)
  BY <1>1 DEF Lacks, Queues
<1>6. Len(queue[q]) = Len(completed) - 1
  BY <1>2, <1>5 DEF QueuesFilled
<1>7. Len(queue[q]) < Len(completed) /\ Len(queue[q]) + 1 = Len(completed)
  BY <1>4, <1>6
<1>8. memory[buffer] = Feeding!Frame(completed[Len(queue[q]) + 1])
  BY <1>3, <1>7 DEF Whole, Feeding!Frame
<1>9. QED
  BY <1>1, <1>2, <1>7, <1>8 DEF Feeding!Feed

LEMMA FeedingStep ==
  ASSUME Types, Cycle, MainWaits, SamplesInPlace, QueuesFilled, Ordered, [Next]_vars
  PROVE  [Feeding!Next]_Feeding!vars
<1> DEFINE Stutter == UNCHANGED <<Open, completed, queue>>
<1>s. Stutter => UNCHANGED Feeding!vars
  BY DEF Open, Feeding!vars
<1> USE DEF heap, device, handler, Main
<1>1. CASE StartScan \/ AInScanStop \/ DisconnectDaqDevice \/ FreeBuffer
  BY <1>s, <1>1 DEF StartScan, AInScanStop, DisconnectDaqDevice, FreeBuffer, Open
<1>2. CASE DisableEvent
  <2>1. Feeding!Close
    BY <1>2 DEF DisableEvent, Feeding!Close
  <2>2. QED
    BY <2>1 DEF Feeding!Next
<1>3. CASE Trigger
  BY <1>s, <1>3 DEF Trigger, Open
<1>4. CASE WritePart
  <2>1. CASE scan.written + 1 = Parts
    BY <1>4, <2>1, CompleteRefined DEF Feeding!Next
  <2>2. CASE scan.written + 1 # Parts
    <3>1. completed' = completed
      BY <1>4, <2>2, WriteEvents
    <3>2. QED
      BY <1>s, <1>4, <3>1 DEF WritePart, Open
  <2>3. QED
    BY <2>1, <2>2
<1>5. ASSUME NEW q \in Queues, PushTo(q) PROVE Feeding!Next
  BY <1>5, FeedRefined DEF Feeding!Next
<1>6. CASE NextEvent \/ CheckBuffer \/ ClearBuffer \/ ReplaceBuffer \/ RestartScan
  BY <1>s, <1>6 DEF NextEvent, CheckBuffer, ClearBuffer, ReplaceBuffer, RestartScan, Open
<1>7. CASE UNCHANGED vars
  BY <1>s, <1>7 DEF vars, Open
<1>8. QED
  BY <1>s, <1>1, <1>2, <1>3, <1>4, <1>5, <1>6, <1>7 DEF Next, MainThread, EventThread

\* The callback eventRecoverySampling, the scans it starts and the buffers it frees
\* and allocates implement Delivery: each queue is fed the completed frames, whole,
\* once and in the order of the triggers, and no scan is completed before the frame
\* of the one before has been pushed, whatever malloc returns and the main thread does.
THEOREM FramesWhole == Spec => FramesFed
<1>1. AcquiringInv /\ Ordered /\ [Next]_vars => Ordered'
  BY OrderedStep DEF AcquiringInv
<1>2. Spec => [](AcquiringInv /\ SamplesInPlace /\ QueuesFilled /\ Ordered)
  BY <1>1, OrderedInit, Filling, PTL DEF Spec
<1>3. AcquiringInv /\ SamplesInPlace /\ QueuesFilled /\ Ordered /\ [Next]_vars
         => [Feeding!Next]_Feeding!vars
  BY FeedingStep DEF AcquiringInv
<1>4. QED
  BY <1>2, <1>3, FeedingInit, PTL DEF Spec, FramesFed, Feeding!Spec

----------------------------------------------------------------------------
(* The next scan: what Rearmed needs besides fairness.                     *)

\* The steps of the event thread left until the next scan is started.
StepsLeft ==
    IF Scanning THEN 0
    ELSE IF callback = "scan" THEN 1
    ELSE IF callback = "end" THEN 2
    ELSE IF callback = "clear" THEN 4
    ELSE IF callback = "dataSendQueue" THEN 5
    ELSE IF callback = "dataSaveQueue" THEN 6
    ELSE IF callback = "dataQueue" THEN 7
    ELSE IF callback = "data" THEN 8
    ELSE IF events = <<"end">> THEN 3
    ELSE IF events = <<"data", "end">> THEN 9
    ELSE 10

\* While the main thread sleeps and nothing has failed, a scan is on or an event or
\* a callback on its way that will start one.
Rearming == mainAt = "sleep" /\ ~failed => ~terminated /\ StepsLeft \in 0 .. 9

\* A step that starts no scan leaves as much to do as before, or less if it is one
\* of the event thread.
Nearer ==
    (mainAt' = "sleep" /\ ~failed' /\ mainAt = "sleep" /\ ~Scanning) =>
        /\ StepsLeft' <= StepsLeft
        /\ EventThread => StepsLeft' < StepsLeft

LEMMA RearmingInit == Init => Rearming
  BY DEF Init, Rearming

LEMMA EventPairs == <<"end">> # << >> /\ <<"data", "end">> # << >> /\ <<"end">> # <<"data", "end">>
<1>1. Len(<<"end">>) = 1 /\ Len(<<"data", "end">>) = 2 /\ Len(<< >>) = 0
  OBVIOUS
<1>2. QED
  BY <1>1

\* One step of the event thread after the other.
LEMMA EventThreadNearer ==
  ASSUME Types, Cycle, MainWaits, BufferLive, SamplesInPlace, SamplesInPlace', Cycle', Types',
         mainAt = "sleep", ~failed', ~Scanning, EventThread
  PROVE  StepsLeft' < StepsLeft
<1> DEFINE C == {"idle", "data", "clear", "end", "scan"} \cup Queues
<1>1. callback \in C /\ callback' \in C
  BY DEF Types
<1>2. CASE NextEvent
  <2>1. events # << >> /\ callback = "idle" /\ events \in {<<"end">>, <<"data", "end">>}
        /\ ~Scanning'
    BY <1>2 DEF NextEvent, Callback, Cycle, device, Scanning
  <2>2. CASE events = <<"end">>
    <3>1. callback' = "end"
      BY <1>2, <2>2 DEF NextEvent
    <3>2. StepsLeft = 3 /\ StepsLeft' = 2
      BY <1>1, <2>1, <2>2, <3>1, EventPairs DEF StepsLeft, Queues
    <3>3. QED
      BY <3>2
  <2>3. CASE events = <<"data", "end">>
    <3>1. callback' = "data"
      BY <1>2, <2>3 DEF NextEvent
    <3>2. StepsLeft = 9 /\ StepsLeft' = 8
      BY <1>1, <2>1, <2>3, <3>1, EventPairs DEF StepsLeft, Queues
    <3>3. QED
      BY <3>2
  <2>4. QED
    BY <2>1, <2>2, <2>3
<1>3. CASE CheckBuffer
  <2>1. callback = "data" /\ callback' = "dataQueue" /\ ~Scanning'
    BY <1>3 DEF CheckBuffer, Callback, SamplesInPlace, device, Scanning
  <2>2. StepsLeft = 8 /\ StepsLeft' = 7
    BY <2>1 DEF StepsLeft
  <2>3. QED
    BY <2>2
<1>4. ASSUME NEW q \in Queues, PushTo(q) PROVE StepsLeft' < StepsLeft
  <2>1. callback = q /\ ~Scanning'
        /\ callback' = CASE q = "dataQueue" -> "dataSaveQueue"
                         [] q = "dataSaveQueue" -> "dataSendQueue"
                         [] q = "dataSendQueue" -> "clear"
    BY <1>4 DEF PushTo, Callback, device, Scanning
  <2>2. CASE q = "dataQueue"
    <3>1. StepsLeft = 7 /\ StepsLeft' = 6
      BY <2>1, <2>2 DEF StepsLeft
    <3>2. QED
      BY <3>1
  <2>3. CASE q = "dataSaveQueue"
    <3>1. StepsLeft = 6 /\ StepsLeft' = 5
      BY <2>1, <2>3 DEF StepsLeft
    <3>2. QED
      BY <3>1
  <2>4. CASE q = "dataSendQueue"
    <3>1. StepsLeft = 5 /\ StepsLeft' = 4
      BY <2>1, <2>4 DEF StepsLeft
    <3>2. QED
      BY <3>1
  <2>5. QED
    BY <2>2, <2>3, <2>4 DEF Queues
<1>5. CASE ClearBuffer
  <2>1. callback = "clear" /\ callback' = "idle" /\ events' = events /\ events = <<"end">> /\ ~Scanning'
    BY <1>5 DEF ClearBuffer, Callback, Cycle, device, Scanning
  <2>2. StepsLeft = 4 /\ StepsLeft' = 3
    BY <2>1 DEF StepsLeft
  <2>3. QED
    BY <2>2
<1>6. CASE ReplaceBuffer
  <2>1. callback = "end" /\ callback' = "scan" /\ ~Scanning'
    BY <1>6 DEF ReplaceBuffer, Callback, device, Scanning
  <2>2. StepsLeft = 2 /\ StepsLeft' = 1
    BY <2>1 DEF StepsLeft
  <2>3. QED
    BY <2>2
<1>7. CASE RestartScan
  <2>1. callback = "scan" /\ buffer # Null /\ scan' = ScanInto(buffer)
    BY <1>7 DEF RestartScan, Callback, Cycle
  <2>2. Scanning'
    BY <2>1 DEF Scanning, ScanInto
  <2>3. StepsLeft = 1 /\ StepsLeft' = 0
    BY <2>1, <2>2 DEF StepsLeft
  <2>4. QED
    BY <2>3
<1>8. QED
  BY <1>2, <1>3, <1>4, <1>5, <1>6, <1>7 DEF EventThread

\* The others leave what is left as it is, or start a scan or the event thread.
LEMMA OthersNearer ==
  ASSUME Types, Cycle, MainWaits, mainAt' = "sleep", ~Scanning, mainAt = "sleep",
         [Next]_vars, ~EventThread
  PROVE  StepsLeft' = StepsLeft
<1> USE DEF heap, device, handler, Main
<1>1. ~MainThread
  BY DEF MainThread, StartScan, AInScanStop, DisableEvent, DisconnectDaqDevice, FreeBuffer
<1>2. ~WritePart
  BY DEF WritePart, Cycle
<1>3. CASE Trigger
  <2>1. UNCHANGED <<scan, events, callback>>
    BY <1>3 DEF Trigger
  <2>2. QED
    BY <2>1 DEF StepsLeft, Scanning
<1>4. CASE UNCHANGED vars
  <2>1. UNCHANGED <<scan, events, callback>>
    BY <1>4 DEF vars
  <2>2. QED
    BY <2>1 DEF StepsLeft, Scanning
<1>5. QED
  BY <1>1, <1>2, <1>3, <1>4 DEF Next

LEMMA NearerStep ==
  ASSUME Types, Cycle, MainWaits, BufferLive, SamplesInPlace, SamplesInPlace', Cycle', Types', [Next]_vars
  PROVE  Nearer
<1> SUFFICES ASSUME mainAt' = "sleep", ~failed', mainAt = "sleep", ~Scanning
             PROVE  StepsLeft' <= StepsLeft /\ (EventThread => StepsLeft' < StepsLeft)
  BY DEF Nearer
<1>1. StepsLeft \in Nat /\ StepsLeft' \in Nat
  BY DEF StepsLeft
<1>2. CASE EventThread
  BY <1>1, <1>2, EventThreadNearer
<1>3. CASE ~EventThread
  BY <1>1, <1>3, OthersNearer
<1>4. QED
  BY <1>2, <1>3

LEMMA RearmingStep ==
  ASSUME Types, Cycle, MainWaits, BufferLive, SamplesInPlace, SamplesInPlace', Cycle', Types',
         Rearming, [Next]_vars
  PROVE  Rearming'
<1> SUFFICES ASSUME mainAt' = "sleep", ~failed' PROVE StepsLeft' \in 0 .. 9
  BY DEF Rearming, SamplesInPlace
<1> USE DEF heap, device, handler, Main, Callback
<1>1. CASE mainAt = "sleep" /\ ~Scanning
  <2>1. ~failed
    BY <1>1 DEF Next, MainThread, StartScan, AInScanStop, DisableEvent, DisconnectDaqDevice, FreeBuffer,
       Trigger, WritePart, EventThread, NextEvent, CheckBuffer, PushTo, ClearBuffer, ReplaceBuffer,
       RestartScan, vars
  <2>2. StepsLeft \in 0 .. 9
    BY <1>1, <2>1 DEF Rearming
  <2>3. StepsLeft' \in Nat /\ StepsLeft' <= StepsLeft
    BY <1>1, NearerStep DEF Nearer, StepsLeft
  <2>4. QED
    BY <2>2, <2>3
<1>2. CASE mainAt # "sleep" \/ Scanning
  <2>1. StepsLeft' \in 0 .. 9 \/ (callback' = "idle" /\ ~Scanning' /\ events' \notin {<<"end">>, <<"data", "end">>})
    BY DEF Types, StepsLeft, Queues
  <2>2. Scanning' \/ events' = <<"data", "end">>
    <3>1. CASE mainAt # "sleep"
      <4>1. StartScan /\ scan' = ScanInto(buffer_)
        BY <3>1 DEF Next, MainThread, StartScan, AInScanStop, DisableEvent, DisconnectDaqDevice,
           FreeBuffer, Trigger, WritePart, EventThread, NextEvent, CheckBuffer, PushTo, ClearBuffer,
           ReplaceBuffer, RestartScan, vars
      <4>2. QED
        BY <4>1, AcquisitionAssumption DEF Types, Scanning, ScanInto
    <3>2. CASE Scanning /\ mainAt = "sleep"
      <4>1. callback = "idle" /\ events = << >>
        BY <3>2 DEF Cycle
      <4>2. CASE WritePart
        <5>1. CASE scan.written + 1 = Parts
          BY <4>2, <5>1, WriteEvents
        <5>2. CASE scan.written + 1 # Parts
          <6>1. scan' = [scan EXCEPT !.written = scan.written + 1]
            BY <4>2, <5>2, WriteEvents
          <6>2. scan'.target = scan.target
            BY <6>1 DEF Types
          <6>3. QED
            BY <3>2, <6>2 DEF Scanning
        <5>3. QED
          BY <5>1, <5>2
      <4>3. CASE Trigger
        <5>1. scan' = scan \/ scan' = [scan EXCEPT !.trigger = triggers + 1]
          BY <4>3 DEF Trigger
        <5>2. scan'.target = scan.target
          BY <5>1 DEF Types
        <5>3. QED
          BY <3>2, <5>2 DEF Scanning
      <4>4. ~EventThread
        BY <4>1 DEF EventThread, NextEvent, CheckBuffer, PushTo, ClearBuffer, ReplaceBuffer, RestartScan,
           Queues
      <4>5. ~MainThread
        BY <3>2 DEF MainThread, StartScan, AInScanStop, DisableEvent, DisconnectDaqDevice, FreeBuffer
      <4>6. CASE UNCHANGED vars
        BY <3>2, <4>6 DEF vars, Scanning
      <4>7. QED
        BY <4>2, <4>3, <4>4, <4>5, <4>6 DEF Next
    <3>3. QED
      BY <1>2, <3>1, <3>2
  <2>3. QED
    BY <2>1, <2>2
<1>3. QED
  BY <1>1, <1>2

\* As long as dataAcquisition sleeps and neither malloc nor ulAInScan has failed, a
\* scan is on or at most nine steps of the callback away, and nothing but the start
\* of the scan ends this count: what Rearmed needs from the code, without fairness.
THEOREM NextScanIsNear == Spec => [](Rearming) /\ [][Nearer]_vars
<1> DEFINE Inv == AcquiringInv /\ SamplesInPlace
<1>1. Inv /\ [Next]_vars => Inv'
  <2>1. AcquiringInv /\ [Next]_vars => AcquiringInv'
    BY TypesStep, CycleStep, BufferStep DEF AcquiringInv
  <2>2. QED
    BY <2>1, SamplesStep DEF AcquiringInv
<1>2. Inv /\ Inv' /\ Rearming /\ [Next]_vars => Rearming'
  BY RearmingStep DEF AcquiringInv
<1>3. Inv /\ Inv' /\ [Next]_vars => [Nearer]_vars
  BY NearerStep DEF AcquiringInv
<1>4. Spec => []Inv
  BY Filling, PTL
<1> HIDE DEF Inv
<1>5. QED
  BY <1>2, <1>3, <1>4, RearmingInit, PTL DEF Spec
=============================================================================
