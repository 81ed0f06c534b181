------------------------- MODULE ResultPipelineProof -------------------------
(***************************************************************************)
(* Proofs about module ResultPipeline, for any number of frames, whatever  *)
(* is saved and whether or not the AGC thread runs.                        *)
(*                                                                         *)
(* Every number in sight is counted by Taken, the frames the DSP thread    *)
(* has taken: what it holds at each statement comes from frame Taken, and  *)
(* what it has pushed to a queue is Taken results or one less.             *)
(***************************************************************************)
EXTENDS ResultPipeline, TLAPS

Taken == arrived - Len(signalQueue)

\* The statement of DspSteps that pushes to the queue of a stream.
PushedAt(s) == CASE s = "posRes" -> 8 [] s = "agc" -> 9 [] s = "tofRes" -> 10
                 [] s = "correlation" -> 11 [] s = "sideAmpSpec" -> 12
                 [] s = "beamPattern" -> 13

Pushed(s) == IF dspAt = 1 \/ dspAt > PushedAt(s) THEN Taken ELSE Taken - 1

\* The frames wait in the order of their arrival.
FramesInOrder ==
    /\ Len(signalQueue) <= arrived
    /\ \A i \in 1 .. Len(signalQueue) : signalQueue[i] = {Taken + i}

\* The flags of SignalProcess follow the statements of the loop.
FlagsFollow ==
    /\ ~exited
    /\ "loadRef" \in flags
    /\ "updateInput" \in flags <=> dspAt \in 3 .. 7
    /\ "tofCalculated" \in flags <=> dspAt \in 4 .. 7
    /\ "doaCalculated" \in flags <=> dspAt \in 5 .. 7

\* What has been computed by each statement comes from the frame last taken.
ComputedFromTaken ==
    /\ dspAt >= 2 => Taken >= 1 /\ signalInput = {Taken}
    /\ dspAt \in 3 .. 7 => proc["input"] = {Taken}
    /\ dspAt \in 4 .. 7 => proc["tof"] = {Taken} /\ proc["correlation"] = {Taken}
    /\ dspAt \in 5 .. 7 => proc["doa"] = {Taken}
    /\ dspAt \in 6 .. 7 => proc["gain"] = {Taken}
    /\ dspAt >= 7 => \A s \in Streams : out[s] = {Taken}

\* The file of a stream and its queue together hold what was pushed, in order.
FileThenQueue ==
    \A s \in Saveable :
        IF s \in open
        THEN /\ Len(file[s]) + Len(queue[s]) = Pushed(s)
             /\ \A i \in 1 .. Len(file[s]) : file[s][i] = {i}
             /\ \A i \in 1 .. Len(queue[s]) : queue[s][i] = {Len(file[s]) + i}
        ELSE file[s] = << >>

Inv ==
    /\ TypeOK /\ FramesInOrder /\ FlagsFollow /\ ComputedFromTaken
    /\ FileThenQueue

-----------------------------------------------------------------------------
LEMMA StepNames ==
    /\ Len(DspSteps) = 13
    /\ DspSteps[1] = "get" /\ DspSteps[2] = "update" /\ DspSteps[3] = "tof"
    /\ DspSteps[4] = "doa" /\ DspSteps[5] = "acg" /\ DspSteps[6] = "collect"
    /\ DspSteps[7] = "reset" /\ DspSteps[8] = "posRes" /\ DspSteps[9] = "agc"
    /\ DspSteps[10] = "tofRes" /\ DspSteps[11] = "correlation"
    /\ DspSteps[12] = "sideAmpSpec" /\ DspSteps[13] = "beamPattern"
    /\ Len(SaveOrder) = 5
  BY DEF DspSteps, SaveOrder

\* Where the DSP thread is follows from the statement it executes.
LEMMA DspAt ==
    ASSUME TypeOK
    PROVE  /\ Dsp("get") => dspAt = 1 /\ dspAt' = 2
           /\ Dsp("update") => dspAt = 2 /\ dspAt' = 3
           /\ Dsp("tof") => dspAt = 3 /\ dspAt' = 4
           /\ Dsp("doa") => dspAt = 4 /\ dspAt' = 5
           /\ Dsp("acg") => dspAt = 5 /\ dspAt' = 6
           /\ Dsp("collect") => dspAt = 6 /\ dspAt' = 7
           /\ Dsp("reset") => dspAt = 7 /\ dspAt' = 8
           /\ \A s \in Streams :
                 Dsp(s) => /\ dspAt = PushedAt(s)
                           /\ dspAt' = IF s = "beamPattern" THEN 1 ELSE dspAt + 1
<1>1. dspAt \in 1 .. 13
  BY StepNames DEF TypeOK, SignalsOK
<1> QED
  BY <1>1, StepNames DEF Dsp, Streams, PushedAt

LEMMA InvInit == Init => Inv
<1> SUFFICES ASSUME Init PROVE Inv
  OBVIOUS
<1>1. arrived = 0 /\ signalQueue = << >> /\ dspAt = 1
  BY DEF Init
<1>2. Len(signalQueue) = 0 /\ Taken = 0
  <2>1. Len(signalQueue) = 0
    BY <1>1
  <2>2. arrived = 0
    BY <1>1
  <2> QED
    BY <2>1, <2>2 DEF Taken
<1>3. SignalsOK
  BY <1>1, StepNames DEF Init, SignalsOK, Sources
<1>4. ComputingOK
  BY DEF Init, ComputingOK, Sources
<1>5. SavingOK
  BY StepNames DEF Init, SavingOK, Saveable
<1>6. FramesInOrder
  BY <1>1, <1>2 DEF FramesInOrder
<1>7. FlagsFollow
  BY <1>1 DEF Init, FlagsFollow
<1>8. ComputedFromTaken
  BY <1>1 DEF ComputedFromTaken
<1>9. FileThenQueue
  BY <1>1, <1>2 DEF Init, FileThenQueue, Pushed, Saveable
<1> QED
  BY <1>3, <1>4, <1>5, <1>6, <1>7, <1>8, <1>9 DEF Inv, TypeOK

-----------------------------------------------------------------------------
(* Types. *)

LEMMA SignalsTyped == TypeOK /\ [Next]_vars => SignalsOK'
<1> SUFFICES ASSUME TypeOK, [Next]_vars PROVE SignalsOK'
  OBVIOUS
<1> USE StepNames DEF TypeOK, SignalsOK, Sources
<1>1. CASE FrameArrives
  BY <1>1 DEF FrameArrives, computing
<1>2. ASSUME NEW step, Dsp(step) PROVE dspAt' \in 1 .. Len(DspSteps) /\ UNCHANGED arrived
  BY <1>2 DEF Dsp
<1>3. CASE TakeSignal
  BY <1>2, <1>3 DEF TakeSignal
<1>4. CASE DspNext /\ ~TakeSignal
  <2>1. UNCHANGED <<signalQueue, signalInput>>
    BY <1>4 DEF DspNext, UpdateInputSignal, CalculateTOF, CalculateDOA, UpdateACG,
                CollectResults, ResetFlag, PushResult, computing
  <2>2. \E step : Dsp(step)
    BY <1>4 DEF DspNext, UpdateInputSignal, CalculateTOF, CalculateDOA, UpdateACG,
                CollectResults, ResetFlag, PushResult
  <2> QED
    BY <1>2, <2>1, <2>2
<1>5. CASE SaverNext \/ TakeGain \/ UNCHANGED vars
  <2>1. UNCHANGED <<arrived, signalQueue, dspAt, signalInput>>
    BY <1>5 DEF SaverNext, SaveRecord, DropResult, Complain, Saver, TakeGain, vars,
                signals, computing
  <2> QED
    BY <2>1
<1> QED
  BY <1>1, <1>3, <1>4, <1>5 DEF Next

LEMMA ComputingTyped == TypeOK /\ [Next]_vars => ComputingOK'
<1> SUFFICES ASSUME TypeOK, [Next]_vars PROVE ComputingOK'
  OBVIOUS
<1> USE DEF TypeOK, SignalsOK, ComputingOK, Sources
<1>1. CASE \/ FrameArrives \/ SaverNext \/ TakeGain \/ UNCHANGED vars
           \/ TakeSignal \/ \E s \in Streams : PushResult(s)
  <2>1. UNCHANGED <<flags, proc, out, exited>>
    BY <1>1 DEF FrameArrives, SaverNext, SaveRecord, DropResult, Complain, Saver,
                TakeGain, vars, computing, TakeSignal, PushResult
  <2> QED
    BY <2>1
<1>2. CASE UpdateInputSignal
  BY <1>2 DEF UpdateInputSignal
<1>3. CASE CalculateTOF
  BY <1>3 DEF CalculateTOF, Requires
<1>4. CASE CalculateDOA
  BY <1>4 DEF CalculateDOA, Requires
<1>5. CASE UpdateACG
  BY <1>5 DEF UpdateACG, Requires
<1>6. CASE CollectResults
  <2>1. out' \in [Streams -> SUBSET Nat]
    BY <1>6 DEF CollectResults, Streams
  <2> QED
    BY <1>6, <2>1 DEF CollectResults, Requires
<1>7. CASE ResetFlag
  BY <1>7 DEF ResetFlag
<1> QED
  BY <1>1, <1>2, <1>3, <1>4, <1>5, <1>6, <1>7 DEF Next, DspNext

LEMMA SavingTyped == TypeOK /\ [Next]_vars => SavingOK'
<1> SUFFICES ASSUME TypeOK, [Next]_vars PROVE SavingOK'
  OBVIOUS
<1> USE StepNames DEF TypeOK, SavingOK
<1>1. CASE \E s \in Streams : PushResult(s)
  BY <1>1 DEF PushResult, Dsp, ComputingOK, config, saving
<1>2. ASSUME NEW s \in Saveable, Saver(s)
      PROVE  saveAt' \in 1 .. Len(SaveOrder) /\ UNCHANGED config
  BY <1>2 DEF Saver
<1>3. ASSUME NEW s \in Saveable, SaveRecord(s) PROVE SavingOK'
  BY <1>2, <1>3 DEF SaveRecord, Saveable, config
<1>4. ASSUME NEW s \in Saveable, DropResult(s) PROVE SavingOK'
  <2>1. queue' \in [Streams -> Seq(Sources)]
    <3>1. CASE queue[s] # << >> /\ queue' = [queue EXCEPT ![s] = Tail(@)]
      BY <3>1 DEF Saveable
    <3>2. CASE UNCHANGED queue
      BY <3>2
    <3> QED
      BY <1>4, <3>1, <3>2 DEF DropResult
  <2> QED
    BY <1>2, <1>4, <2>1 DEF DropResult, config
<1>5. ASSUME NEW s \in Saveable, Complain(s) PROVE SavingOK'
  BY <1>2, <1>5 DEF Complain, config
<1>6. CASE TakeGain
  BY <1>6 DEF TakeGain, config, saving, Streams
<1>7. CASE FrameArrives \/ UNCHANGED vars \/ (DspNext /\ ~\E s \in Streams : PushResult(s))
  <2>1. UNCHANGED <<queue, saved, open, saveAt, file>>
    BY <1>7 DEF FrameArrives, vars, config, saving, DspNext, TakeSignal, Dsp,
                UpdateInputSignal, CalculateTOF, CalculateDOA, UpdateACG,
                CollectResults, ResetFlag
  <2> QED
    BY <2>1
<1> QED
  BY <1>1, <1>3, <1>4, <1>5, <1>6, <1>7 DEF Next, SaverNext

LEMMA TypeStep == TypeOK /\ [Next]_vars => TypeOK'
  BY SignalsTyped, ComputingTyped, SavingTyped DEF TypeOK

-----------------------------------------------------------------------------
(* What the DSP thread takes, computes and pushes. *)

\* Only the arrival and the taking of a frame change how many were taken.
LEMMA TakenStep ==
    Inv /\ [Next]_vars => IF TakeSignal THEN Taken' = Taken + 1 ELSE Taken' = Taken
<1> SUFFICES ASSUME Inv, [Next]_vars
             PROVE  IF TakeSignal THEN Taken' = Taken + 1 ELSE Taken' = Taken
  OBVIOUS
<1>a. arrived \in Nat /\ signalQueue \in Seq(Sources)
  BY DEF Inv, TypeOK, SignalsOK
<1>1. CASE FrameArrives
  <2>1. /\ arrived' = arrived + 1
        /\ Len(signalQueue') = Len(signalQueue) + 1
        /\ UNCHANGED dspAt
    BY <1>1, <1>a DEF FrameArrives, Sources
  <2>2. ~TakeSignal
    BY <2>1, <1>a DEF TakeSignal, Dsp
  <2> QED
    BY <2>1, <2>2, <1>a DEF Taken
<1>2. CASE TakeSignal
  <2>1. arrived' = arrived /\ Len(signalQueue') = Len(signalQueue) - 1
    BY <1>2, <1>a DEF TakeSignal, Dsp
  <2> QED
    BY <1>2, <2>1, <1>a DEF Taken
<1>3. CASE ~FrameArrives /\ ~TakeSignal
  <2>1. UNCHANGED <<arrived, signalQueue>>
    BY <1>3 DEF Next, DspNext, Dsp, UpdateInputSignal, CalculateTOF, CalculateDOA,
                UpdateACG, CollectResults, ResetFlag, PushResult, SaverNext,
                SaveRecord, DropResult, Complain, Saver, TakeGain, vars, signals
  <2> QED
    BY <1>3, <2>1 DEF Taken
<1> QED
  BY <1>1, <1>2, <1>3

LEMMA OrderStep == Inv /\ [Next]_vars => FramesInOrder'
<1> SUFFICES ASSUME Inv, [Next]_vars PROVE FramesInOrder'
  OBVIOUS
<1>a. arrived \in Nat /\ signalQueue \in Seq(Sources)
  BY DEF Inv, TypeOK, SignalsOK
<1>1. CASE FrameArrives
  <2>1. /\ arrived' = arrived + 1
        /\ Len(signalQueue') = Len(signalQueue) + 1
        /\ \A i \in 1 .. Len(signalQueue) : signalQueue'[i] = signalQueue[i]
        /\ signalQueue'[Len(signalQueue) + 1] = {arrived + 1}
    BY <1>1, <1>a DEF FrameArrives, Sources
  <2> QED
    BY <2>1, <1>a DEF Inv, FramesInOrder, Taken
<1>2. CASE TakeSignal
  <2>1. /\ arrived' = arrived /\ Len(signalQueue') = Len(signalQueue) - 1
        /\ \A i \in 1 .. Len(signalQueue') : signalQueue'[i] = signalQueue[i + 1]
    BY <1>2, <1>a DEF TakeSignal, Dsp
  <2> QED
    BY <2>1, <1>a DEF Inv, FramesInOrder, Taken
<1>3. CASE ~FrameArrives /\ ~TakeSignal
  <2>1. UNCHANGED <<arrived, signalQueue>>
    BY <1>3 DEF Next, DspNext, Dsp, UpdateInputSignal, CalculateTOF, CalculateDOA,
                UpdateACG, CollectResults, ResetFlag, PushResult, SaverNext,
                SaveRecord, DropResult, Complain, Saver, TakeGain, vars, signals
  <2> QED
    BY <2>1 DEF Inv, FramesInOrder, Taken
<1> QED
  BY <1>1, <1>2, <1>3

\* Outside the DSP thread nothing touches what it computes.
LEMMA OthersDoNotCompute ==
    ASSUME FrameArrives \/ SaverNext \/ TakeGain \/ UNCHANGED vars
    PROVE  UNCHANGED <<dspAt, signalInput, flags, proc, out, exited>>
  BY DEF FrameArrives, SaverNext, SaveRecord, DropResult, Complain, Saver, TakeGain,
         computing, vars

LEMMA FlagsStep == Inv /\ [Next]_vars => FlagsFollow'
<1> SUFFICES ASSUME Inv, [Next]_vars PROVE FlagsFollow'
  OBVIOUS
<1>a. TypeOK /\ FlagsFollow
  BY DEF Inv
<1> USE DEF FlagsFollow
<1>1. CASE TakeSignal
  BY <1>1, <1>a, DspAt DEF TakeSignal
<1>2. CASE UpdateInputSignal
  <2>1. dspAt = 2 /\ dspAt' = 3
    BY <1>2, <1>a, DspAt DEF UpdateInputSignal
  <2>2. "updateInput" \notin flags
    BY <1>a, <2>1
  <2>3. ~exited'
    BY <1>2, <2>2, Zenon DEF UpdateInputSignal
  <2> QED
    BY <1>2, <1>a, <2>1, <2>3 DEF UpdateInputSignal
<1>3. CASE CalculateTOF
  <2>1. dspAt = 3 /\ dspAt' = 4
    BY <1>3, <1>a, DspAt DEF CalculateTOF
  <2>2. {"loadRef", "updateInput"} \subseteq flags
    BY <1>a, <2>1
  <2>3. ~exited'
    BY <1>3, <2>2, Zenon DEF CalculateTOF, Requires
  <2> QED
    BY <1>3, <1>a, <2>1, <2>3 DEF CalculateTOF
<1>4. CASE CalculateDOA
  <2>1. dspAt = 4 /\ dspAt' = 5
    BY <1>4, <1>a, DspAt DEF CalculateDOA
  <2>2. {"tofCalculated"} \subseteq flags
    BY <1>a, <2>1
  <2>3. ~exited'
    BY <1>4, <2>2, Zenon DEF CalculateDOA, Requires
  <2> QED
    BY <1>4, <1>a, <2>1, <2>3 DEF CalculateDOA
<1>5. CASE UpdateACG
  <2>1. dspAt = 5 /\ dspAt' = 6
    BY <1>5, <1>a, DspAt DEF UpdateACG
  <2>2. {"tofCalculated"} \subseteq flags
    BY <1>a, <2>1
  <2>3. ~exited'
    BY <1>5, <2>2, Zenon DEF UpdateACG, Requires
  <2> QED
    BY <1>5, <1>a, <2>1, <2>3 DEF UpdateACG
<1>6. CASE CollectResults
  <2>1. dspAt = 6 /\ dspAt' = 7
    BY <1>6, <1>a, DspAt DEF CollectResults
  <2>2. {"tofCalculated", "doaCalculated"} \subseteq flags
    BY <1>a, <2>1
  <2>3. ~exited'
    BY <1>6, <2>2, Zenon DEF CollectResults, Requires
  <2> QED
    BY <1>6, <1>a, <2>1, <2>3 DEF CollectResults
<1>7. CASE ResetFlag
  BY <1>7, <1>a, DspAt DEF ResetFlag
<1>8. ASSUME NEW s \in Streams, PushResult(s) PROVE FlagsFollow'
  <2>1. dspAt \in 8 .. 13 /\ dspAt' \in {1} \cup (9 .. 13)
    BY <1>8, <1>a, DspAt DEF PushResult, Streams, PushedAt
  <2> QED
    BY <1>8, <1>a, <2>1 DEF PushResult, computing
<1>9. CASE FrameArrives \/ SaverNext \/ TakeGain \/ UNCHANGED vars
  BY <1>9, <1>a, OthersDoNotCompute
<1> QED
  BY <1>1, <1>2, <1>3, <1>4, <1>5, <1>6, <1>7, <1>8, <1>9 DEF Next, DspNext

LEMMA ComputedStep == Inv /\ [Next]_vars => ComputedFromTaken'
<1> SUFFICES ASSUME Inv, [Next]_vars PROVE ComputedFromTaken'
  OBVIOUS
<1>a. TypeOK /\ ComputedFromTaken /\ FramesInOrder
  BY DEF Inv
<1>b. /\ arrived \in Nat /\ signalQueue \in Seq(Sources) /\ Taken \in Nat
      /\ proc \in [{"input", "tof", "correlation", "doa", "gain"} -> Sources]
  BY <1>a DEF TypeOK, SignalsOK, ComputingOK, FramesInOrder, Taken
<1>t. IF TakeSignal THEN Taken' = Taken + 1 ELSE Taken' = Taken
  BY TakenStep
<1> USE DEF ComputedFromTaken
<1>1. CASE TakeSignal
  <2>1. Head(signalQueue) = {Taken + 1}
    BY <1>1, <1>a, <1>b DEF TakeSignal, FramesInOrder
  <2>2. dspAt' = 2 /\ signalInput' = {Taken'} /\ Taken' >= 1
    BY <1>1, <1>a, <1>b, <1>t, <2>1, DspAt DEF TakeSignal
  <2> QED
    BY <2>2
<1>2. ASSUME NEW step, Dsp(step), step # "get" PROVE Taken' = Taken
  BY <1>2, <1>t DEF TakeSignal, Dsp
<1>3. CASE UpdateInputSignal
  BY <1>3, <1>a, <1>b, <1>2, DspAt DEF UpdateInputSignal
<1>4. CASE CalculateTOF
  BY <1>4, <1>a, <1>b, <1>2, DspAt DEF CalculateTOF
<1>5. CASE CalculateDOA
  BY <1>5, <1>a, <1>b, <1>2, DspAt DEF CalculateDOA
<1>6. CASE UpdateACG
  BY <1>6, <1>a, <1>b, <1>2, DspAt DEF UpdateACG
<1>7. CASE CollectResults
  <2>1. \A s \in Streams : out'[s] = {Taken}
    BY <1>7, <1>a, <1>b, DspAt DEF CollectResults, Streams
  <2>2. dspAt = 6 /\ dspAt' = 7 /\ Taken' = Taken
    BY <1>7, <1>a, <1>2, DspAt DEF CollectResults
  <2>3. UNCHANGED <<proc, signalInput>>
    BY <1>7 DEF CollectResults
  <2> QED
    BY <1>a, <2>1, <2>2, <2>3
<1>8. CASE ResetFlag
  BY <1>8, <1>a, <1>b, <1>2, DspAt DEF ResetFlag
<1>9. ASSUME NEW s \in Streams, PushResult(s) PROVE ComputedFromTaken'
  <2>1. dspAt \in 8 .. 13 /\ dspAt' \in {1} \cup (9 .. 13)
    BY <1>9, <1>a, DspAt DEF PushResult, Streams, PushedAt
  <2>2. Taken' = Taken
    BY <1>9, <1>2 DEF PushResult, Streams
  <2> QED
    BY <1>9, <1>a, <2>1, <2>2 DEF PushResult, computing
<1>10. CASE FrameArrives \/ SaverNext \/ TakeGain \/ UNCHANGED vars
  <2>1. UNCHANGED <<dspAt, signalInput, flags, proc, out, exited>>
    BY <1>10, OthersDoNotCompute
  <2>2. ~TakeSignal
    BY <2>1, <1>a, DspAt DEF TakeSignal
  <2> QED
    BY <1>a, <1>t, <2>1, <2>2
<1> QED
  BY <1>1, <1>3, <1>4, <1>5, <1>6, <1>7, <1>8, <1>9, <1>10 DEF Next, DspNext

-----------------------------------------------------------------------------
(* Queues and files. *)

\* The arithmetic of an element that moves from queue to file.
LEMMA Moving ==
    ASSUME NEW f \in Nat, NEW q \in Nat, NEW n, f + q = n
    PROVE  (f + 1) + (q - 1) = n
  OBVIOUS

LEMMA Shifting ==
    ASSUME NEW f \in Nat, NEW i \in Nat
    PROVE  f + (i + 1) = (f + 1) + i
  OBVIOUS

\* What FileThenQueue says of one open stream.
RowsOK(s, n) ==
    /\ Len(file[s]) + Len(queue[s]) = n
    /\ \A i \in 1 .. Len(file[s]) : file[s][i] = {i}
    /\ \A i \in 1 .. Len(queue[s]) : queue[s][i] = {Len(file[s]) + i}

LEMMA FilesStep == Inv /\ [Next]_vars => FileThenQueue'
<1> SUFFICES ASSUME Inv, [Next]_vars,
                    NEW s \in Saveable
             PROVE  (IF s \in open THEN RowsOK(s, Pushed(s)) ELSE file[s] = << >>)'
  BY DEF FileThenQueue, RowsOK
<1>a. /\ TypeOK /\ open \subseteq Saveable /\ s \in Streams
      /\ queue \in [Streams -> Seq(Sources)] /\ file \in [Saveable -> Seq(Sources)]
      /\ IF s \in open THEN RowsOK(s, Pushed(s)) ELSE file[s] = << >>
  BY DEF Inv, TypeOK, SavingOK, FileThenQueue, RowsOK, Saveable
<1>b. open' = open /\ saved' = saved
  BY DEF Next, FrameArrives, DspNext, TakeSignal, Dsp, UpdateInputSignal,
         CalculateTOF, CalculateDOA, UpdateACG, CollectResults, ResetFlag,
         PushResult, SaverNext, SaveRecord, DropResult, Complain, Saver, TakeGain,
         vars, config
<1>c. arrived \in Nat /\ signalQueue \in Seq(Sources) /\ Taken \in Nat /\ dspAt \in 1 .. 13
  BY StepNames DEF Inv, TypeOK, SignalsOK, FramesInOrder, Taken
<1>d. PushedAt(s) \in 8 .. 13 /\ PushedAt(s)' = PushedAt(s)
  BY DEF PushedAt, Saveable, Streams
<1>t. IF TakeSignal THEN Taken' = Taken + 1 ELSE Taken' = Taken
  BY TakenStep
\* A frame is taken when everything of the one before has been pushed.
<1>1. CASE TakeSignal
  <2>1. dspAt = 1 /\ dspAt' = 2 /\ Taken' = Taken + 1
    BY <1>1, <1>a, <1>t, DspAt DEF TakeSignal
  <2>2. Pushed(s)' = Pushed(s)
    BY <2>1, <1>c, <1>d DEF Pushed
  <2>3. UNCHANGED <<queue, file>>
    BY <1>1 DEF TakeSignal, Dsp, saving
  <2> QED
    BY <1>a, <1>b, <2>2, <2>3 DEF RowsOK
\* The statements up to the reset push nothing.
<1>2. CASE UpdateInputSignal \/ CalculateTOF \/ CalculateDOA \/ UpdateACG
           \/ CollectResults \/ ResetFlag
  <2>1. dspAt \in 2 .. 7 /\ dspAt' \in 3 .. 8
    BY <1>2, <1>a, DspAt DEF UpdateInputSignal, CalculateTOF, CalculateDOA,
                             UpdateACG, CollectResults, ResetFlag
  <2>2. Taken' = Taken
    BY <1>t, <2>1, <1>a, DspAt DEF TakeSignal
  <2>3. Pushed(s)' = Pushed(s)
    BY <2>1, <2>2, <1>d DEF Pushed
  <2>4. UNCHANGED <<queue, file>>
    BY <1>2 DEF Dsp, saving, UpdateInputSignal, CalculateTOF, CalculateDOA,
                UpdateACG, CollectResults, ResetFlag
  <2> QED
    BY <1>a, <1>b, <2>3, <2>4 DEF RowsOK
<1>3. ASSUME NEW r \in Streams, PushResult(r)
      PROVE  (IF s \in open THEN RowsOK(s, Pushed(s)) ELSE file[s] = << >>)'
  <2>1. /\ dspAt = PushedAt(r)
        /\ dspAt' = IF r = "beamPattern" THEN 1 ELSE dspAt + 1
    BY <1>3, <1>a, DspAt DEF PushResult
  <2>2. Taken' = Taken /\ Taken >= 1 /\ out[r] = {Taken}
    <3>1. dspAt \in 8 .. 13
      BY <2>1 DEF PushedAt, Streams
    <3>2. ~TakeSignal
      BY <3>1, <1>a, DspAt DEF TakeSignal
    <3> QED
      BY <1>t, <3>1, <3>2 DEF Inv, ComputedFromTaken
  <2>3. file' = file /\ queue' = [queue EXCEPT ![r] = Append(@, out[r])]
    BY <1>3 DEF PushResult, Dsp, saving
  <2>4. CASE r = s
    <3>1. Pushed(s) = Taken - 1 /\ Pushed(s)' = Taken
      BY <2>1, <2>2, <2>4, <1>c DEF Pushed, PushedAt, Streams
    <3>2. /\ Len(queue'[s]) = Len(queue[s]) + 1
          /\ \A i \in 1 .. Len(queue[s]) : queue'[s][i] = queue[s][i]
          /\ queue'[s][Len(queue[s]) + 1] = {Taken}
      BY <2>2, <2>3, <2>4, <1>a
    <3>3. Len(file[s]) \in Nat /\ Len(queue[s]) \in Nat
      BY <1>a
    <3>4. file'[s] = file[s]
      BY <2>3
    <3>5. CASE s \in open
      <4>1. /\ Len(file[s]) + Len(queue[s]) = Taken - 1
            /\ \A i \in 1 .. Len(file[s]) : file[s][i] = {i}
            /\ \A i \in 1 .. Len(queue[s]) : queue[s][i] = {Len(file[s]) + i}
        BY <1>a, <3>1, <3>5 DEF RowsOK
      <4>a. Len(file[s]) + Len(queue[s]) = Taken - 1 /\ Taken \in Nat
        BY <1>c, <4>1
      <4>b. Len(file[s]) + (Len(queue[s]) + 1) = Taken
        <5>1. PICK f \in Nat : f = Len(file[s])
          BY <3>3
        <5>2. PICK q \in Nat : q = Len(queue[s])
          BY <3>3
        <5>3. f + q = Taken - 1
          BY <4>a, <5>1, <5>2
        <5>4. f + (q + 1) = Taken
          BY <4>a, <5>3
        <5> QED
          BY <5>1, <5>2, <5>4
      <4>2. Len(file'[s]) + Len(queue'[s]) = Taken
        BY <3>2, <3>4, <4>b
      <4>3. queue'[s][Len(queue[s]) + 1] = {Len(file[s]) + (Len(queue[s]) + 1)}
        BY <3>2, <4>b
      <4>4. \A i \in 1 .. Len(queue'[s]) : queue'[s][i] = {Len(file'[s]) + i}
        <5> SUFFICES ASSUME NEW i \in 1 .. Len(queue'[s])
                     PROVE  queue'[s][i] = {Len(file'[s]) + i}
          OBVIOUS
        <5>1. CASE i = Len(queue[s]) + 1
          BY <3>4, <4>3, <5>1
        <5>2. CASE i \in 1 .. Len(queue[s])
          BY <3>2, <3>4, <4>1, <5>2
        <5>3. i = Len(queue[s]) + 1 \/ i \in 1 .. Len(queue[s])
          BY <3>2, <3>3
        <5> QED
          BY <5>1, <5>2, <5>3
      <4> QED
        BY <1>b, <3>1, <3>4, <3>5, <4>1, <4>2, <4>4 DEF RowsOK
    <3> QED
      BY <1>a, <1>b, <3>4, <3>5
  <2>5. CASE r # s
    <3>1. queue'[s] = queue[s]
      BY <1>a, <2>3, <2>5
    <3>2. Pushed(s)' = Pushed(s)
      <4>1. /\ PushedAt(r) \in 8 .. 13 /\ PushedAt(r) # PushedAt(s)
            /\ PushedAt(r) = 13 <=> r = "beamPattern"
        BY <2>5, <1>a DEF PushedAt, Streams
      <4> QED
        BY <2>1, <2>2, <1>d, <4>1 DEF Pushed
    <3> QED
      BY <1>a, <1>b, <2>3, <3>1, <3>2 DEF RowsOK
  <2> QED
    BY <2>4, <2>5
\* Outside the DSP thread nothing is pushed.
<1>e. ASSUME FrameArrives \/ SaverNext \/ TakeGain \/ UNCHANGED vars
      PROVE  Pushed(s)' = Pushed(s)
  <2>1. dspAt' = dspAt
    BY <1>e, OthersDoNotCompute
  <2>2. ~TakeSignal
    BY <2>1, <1>a, DspAt DEF TakeSignal
  <2> QED
    BY <1>t, <2>1, <2>2 DEF Pushed, PushedAt
\* The oldest result goes from the queue to the end of the file.
<1>4. ASSUME NEW r \in Saveable, SaveRecord(r)
      PROVE  (IF s \in open THEN RowsOK(s, Pushed(s)) ELSE file[s] = << >>)'
  <2>1. Pushed(s)' = Pushed(s)
    BY <1>4, <1>e DEF SaverNext
  <2>2. /\ r \in open /\ queue[r] # << >> /\ queue' = [queue EXCEPT ![r] = Tail(@)]
        /\ file' = [file EXCEPT ![r] = Append(@, Head(queue[r]))]
    BY <1>4 DEF SaveRecord
  <2>3. CASE r = s
    <3>1. queue[s] \in Seq(Sources) /\ queue[s] # << >> /\ file[s] \in Seq(Sources)
      BY <1>a, <2>2, <2>3
    <3>2. queue'[s] = Tail(queue[s]) /\ file'[s] = Append(file[s], Head(queue[s]))
      BY <1>a, <2>2, <2>3
    <3>3. /\ Len(queue'[s]) = Len(queue[s]) - 1
          /\ \A i \in 1 .. Len(queue'[s]) : queue'[s][i] = queue[s][i + 1]
      BY <3>1, <3>2
    <3>4. /\ Len(file'[s]) = Len(file[s]) + 1
          /\ \A i \in 1 .. Len(file[s]) : file'[s][i] = file[s][i]
          /\ file'[s][Len(file[s]) + 1] = queue[s][1]
      BY <3>1, <3>2
    <3>5. /\ s \in open
          /\ Len(file[s]) + Len(queue[s]) = Pushed(s)
          /\ \A i \in 1 .. Len(file[s]) : file[s][i] = {i}
          /\ \A i \in 1 .. Len(queue[s]) : queue[s][i] = {Len(file[s]) + i}
      BY <1>a, <2>2, <2>3 DEF RowsOK
    <3>6. Len(file[s]) \in Nat /\ Len(queue[s]) \in Nat /\ Len(queue[s]) >= 1
      BY <3>1
    <3>7. Len(file'[s]) + Len(queue'[s]) = Pushed(s)'
      <4>1. (Len(file[s]) + 1) + (Len(queue[s]) - 1) = Pushed(s)
        BY <3>5, <3>6, Moving
      <4> QED
        BY <2>1, <3>3, <3>4, <4>1
    <3>8. \A i \in 1 .. Len(file'[s]) : file'[s][i] = {i}
      <4>1. queue[s][1] = {Len(file[s]) + 1}
        BY <3>5, <3>6
      <4> QED
        BY <3>4, <3>5, <3>6, <4>1
    <3>9. \A i \in 1 .. Len(queue'[s]) : queue'[s][i] = {Len(file'[s]) + i}
      <4> SUFFICES ASSUME NEW i \in 1 .. Len(queue'[s])
                   PROVE  queue'[s][i] = {Len(file'[s]) + i}
        OBVIOUS
      <4>1. queue[s][i + 1] = {Len(file[s]) + (i + 1)}
        <5>1. i + 1 \in 1 .. Len(queue[s])
          BY <3>3, <3>6
        <5> QED
          BY <3>5, <5>1
      <4>2. i \in Nat /\ Len(file'[s]) = Len(file[s]) + 1
        BY <3>3, <3>4, <3>6
      <4>3. Len(file[s]) + (i + 1) = Len(file'[s]) + i
        BY <3>6, <4>2, Shifting
      <4> QED
        BY <3>3, <4>1, <4>3
    <3> QED
      BY <1>b, <3>5, <3>7, <3>8, <3>9 DEF RowsOK
  <2>4. CASE r # s
    <3>1. queue'[s] = queue[s] /\ file'[s] = file[s]
      BY <1>a, <2>2, <2>4
    <3> QED
      BY <1>a, <1>b, <2>1, <3>1 DEF RowsOK
  <2> QED
    BY <2>3, <2>4
\* Only results of streams that are not saved, and gains, are dropped.
<1>5. ASSUME NEW r \in Streams, r \notin open, UNCHANGED file,
             \/ queue' = [queue EXCEPT ![r] = Tail(@)]
             \/ UNCHANGED queue,
             Pushed(s)' = Pushed(s)
      PROVE  (IF s \in open THEN RowsOK(s, Pushed(s)) ELSE file[s] = << >>)'
  <2>1. s \in open => queue'[s] = queue[s]
    BY <1>a, <1>5
  <2> QED
    BY <1>a, <1>b, <1>5, <2>1 DEF RowsOK
<1>6. CASE \E r \in Saveable : DropResult(r) \/ Complain(r)
  <2>1. PICK r \in Saveable : DropResult(r) \/ Complain(r)
    BY <1>6
  <2>2. CASE Complain(r)
    BY <1>a, <1>b, <1>e, <2>2 DEF Complain, SaverNext, RowsOK
  <2>3. CASE DropResult(r)
    <3>1. r \notin open
      BY <2>3, <1>a DEF DropResult, TypeOK, SavingOK
    <3>2. Pushed(s)' = Pushed(s)
      BY <2>3, <1>e DEF SaverNext
    <3> QED
      BY <1>5, <2>3, <3>1, <3>2 DEF DropResult, Saveable
  <2> QED
    BY <2>1, <2>2, <2>3
<1>7. CASE TakeGain
  <2>1. "agc" \in Streams /\ "agc" \notin open
    BY <1>a DEF Streams, Saveable
  <2>2. UNCHANGED file /\ queue' = [queue EXCEPT !["agc"] = Tail(@)]
    BY <1>7 DEF TakeGain, saving
  <2> QED
    BY <1>5, <1>e, <1>7, <2>1, <2>2
<1>8. CASE FrameArrives \/ UNCHANGED vars
  <2>1. UNCHANGED <<queue, file>>
    BY <1>8 DEF FrameArrives, saving, vars
  <2> QED
    BY <1>a, <1>b, <1>e, <1>8, <2>1 DEF RowsOK
<1> QED
  BY <1>1, <1>2, <1>3, <1>4, <1>6, <1>7, <1>8 DEF Next, DspNext, SaverNext

LEMMA Invariance == Spec => []Inv
<1>1. Inv /\ [Next]_vars => Inv'
  BY TypeStep, OrderStep, FlagsStep, ComputedStep, FilesStep DEF Inv
<1> QED
  BY <1>1, InvInit, PTL DEF Spec

-----------------------------------------------------------------------------
\* The variables of the pipeline keep their types.
THEOREM TypeCorrect == Spec => []TypeOK
<1>1. Inv => TypeOK
  BY DEF Inv
<1> QED
  BY <1>1, Invariance, PTL

\* No method of SignalProcess is called when its flags forbid it, however many
\* frames come.
THEOREM NeverExits == Spec => []ProtocolObeyed
<1>1. Inv => ProtocolObeyed
  BY DEF Inv, FlagsFollow, ProtocolObeyed
<1> QED
  BY <1>1, Invariance, PTL

\* The rows of the result files belong together, for any number of frames and
\* any choice of what is saved.
THEOREM FilesAligned == Spec => []RowsAligned
<1>1. Inv => RowsAligned
  <2> SUFFICES ASSUME Inv, NEW s \in Saveable, NEW i \in 1 .. Len(file[s])
               PROVE  file[s][i] = {i}
    BY DEF RowsAligned
  <2>1. CASE s \in open
    BY <2>1 DEF Inv, FileThenQueue
  <2>2. CASE s \notin open
    <3>1. file[s] = << >>
      BY <2>2 DEF Inv, FileThenQueue
    <3> QED
      BY <3>1
  <2> QED
    BY <2>1, <2>2
<1> QED
  BY <1>1, Invariance, PTL

-----------------------------------------------------------------------------
(* The streams that are dropped.                                           *)

SavedAt(s) == CASE s = "posRes" -> 1 [] s = "correlation" -> 2 [] s = "tofRes" -> 3
                [] s = "beamPattern" -> 4 [] s = "sideAmpSpec" -> 5

\* In a loop that is at statement k: statement m was executed after statement n.
Since(k, m, n) == IF m < n THEN k \in m + 1 .. n ELSE k > m \/ k <= n

\* The dropped stream d may be ahead of the saved stream f by the result pushed
\* last, and by the one that has been saved but not yet dropped.
KeepsUp(d, f) ==
    LET pushedLast == Since(dspAt, PushedAt(d), PushedAt(f))
        savedLast == Since(saveAt, SavedAt(f), SavedAt(d))
    IN  /\ Len(queue[d]) <= Len(queue[f]) + 2
        /\ ~pushedLast \/ ~savedLast => Len(queue[d]) <= Len(queue[f]) + 1
        /\ ~pushedLast /\ ~savedLast => Len(queue[d]) <= Len(queue[f])

LEMMA SavePositions ==
    ASSUME TypeOK, NEW s \in Saveable
    PROVE  /\ SavedAt(s) \in 1 .. 5 /\ SaveOrder[SavedAt(s)] = s
           /\ PushedAt(s) \in 8 .. 13 /\ s \in Streams /\ s # "agc"
           /\ saveAt \in 1 .. 5 /\ dspAt \in 1 .. 13
           /\ queue[s] \in Seq(Sources) /\ Len(queue[s]) \in Nat
           /\ Saver(s) => saveAt = SavedAt(s) /\ saveAt' = (IF saveAt = 5 THEN 1 ELSE saveAt + 1)
<1>1. saveAt \in 1 .. 5 /\ dspAt \in 1 .. 13 /\ queue[s] \in Seq(Sources)
  BY StepNames DEF TypeOK, SignalsOK, SavingOK, Saveable
<1>2. SavedAt(s) \in 1 .. 5 /\ SaveOrder[SavedAt(s)] = s /\ PushedAt(s) \in 8 .. 13
  BY DEF SavedAt, SaveOrder, PushedAt, Saveable, Streams
<1>3. Saver(s) => saveAt = SavedAt(s)
  BY <1>1 DEF Saver, SavedAt, SaveOrder, Saveable, Streams
<1>4. Saver(s) => saveAt' = (IF saveAt = 5 THEN 1 ELSE saveAt + 1)
  BY <1>1, StepNames DEF Saver
<1> QED
  BY <1>1, <1>2, <1>3, <1>4 DEF Saveable

LEMMA OwnPositions ==
    ASSUME NEW r \in Streams, NEW s \in Streams, r # s
    PROVE  /\ PushedAt(r) # PushedAt(s) /\ PushedAt(r) \in 8 .. 13
           /\ PushedAt(r) = 13 <=> r = "beamPattern"
           /\ r \in Saveable /\ s \in Saveable => SavedAt(r) # SavedAt(s)
  BY DEF PushedAt, SavedAt, Saveable, Streams

LEMMA KeepsUpStep ==
    ASSUME TypeOK, [Next]_vars, NEW d \in Saveable \ saved, NEW f \in open, KeepsUp(d, f)
    PROVE  KeepsUp(d, f)'
<1>a. f \in Saveable /\ d # f
  BY DEF TypeOK, SavingOK
<1>b. /\ SavedAt(d)' = SavedAt(d) /\ SavedAt(f)' = SavedAt(f)
      /\ PushedAt(d)' = PushedAt(d) /\ PushedAt(f)' = PushedAt(f)
  BY DEF SavedAt, PushedAt
<1>c. /\ Len(queue[d]) \in Nat /\ Len(queue[f]) \in Nat /\ queue[d] \in Seq(Sources)
      /\ queue[f] \in Seq(Sources) /\ d \in Streams /\ f \in Streams
      /\ saveAt \in 1 .. 5 /\ dspAt \in 1 .. 13
      /\ SavedAt(d) \in 1 .. 5 /\ SavedAt(f) \in 1 .. 5 /\ SavedAt(d) # SavedAt(f)
      /\ PushedAt(d) \in 8 .. 13 /\ PushedAt(f) \in 8 .. 13 /\ PushedAt(d) # PushedAt(f)
  BY <1>a, SavePositions, OwnPositions
<1>d. queue \in [Streams -> Seq(Sources)] /\ out \in [Streams -> Sources]
  BY DEF TypeOK, SavingOK, ComputingOK
<1> DEFINE pushedLast == Since(dspAt, PushedAt(d), PushedAt(f))
           savedLast == Since(saveAt, SavedAt(f), SavedAt(d))
<1>1. ASSUME NEW step \in {"get", "update", "tof", "doa", "acg", "collect", "reset"},
             Dsp(step), UNCHANGED queue
      PROVE  KeepsUp(d, f)'
  <2>1. dspAt \in 1 .. 7 /\ dspAt' = dspAt + 1
    BY <1>1, DspAt
  <2>2. Since(dspAt', PushedAt(d), PushedAt(f)) <=> pushedLast
    BY <2>1, <1>c DEF Since
  <2>3. saveAt' = saveAt /\ queue' = queue
    BY <1>1 DEF Dsp, saving
  <2> QED
    BY <1>b, <2>2, <2>3 DEF KeepsUp
<1>2. ASSUME NEW r \in Streams, PushResult(r) PROVE KeepsUp(d, f)'
  <2>1. dspAt = PushedAt(r) /\ dspAt' = (IF dspAt = 13 THEN 1 ELSE dspAt + 1)
    BY <1>2, <1>c, DspAt, OwnPositions DEF PushResult, PushedAt, Streams
  <2>2. saveAt' = saveAt /\ queue' = [queue EXCEPT ![r] = Append(queue[r], out[r])]
    BY <1>2 DEF PushResult, Dsp, saving
  <2>3. CASE r = d
    <3>1. Len(queue'[d]) = Len(queue[d]) + 1 /\ queue'[f] = queue[f]
      BY <1>a, <1>c, <1>d, <2>2, <2>3
    <3>2. ~pushedLast /\ Since(dspAt', PushedAt(d), PushedAt(f))
      BY <1>c, <2>1, <2>3 DEF Since
    <3> QED
      BY <1>b, <1>c, <2>2, <3>1, <3>2 DEF KeepsUp, pushedLast
  <2>4. CASE r = f
    <3>1. Len(queue'[f]) = Len(queue[f]) + 1 /\ queue'[d] = queue[d]
      BY <1>a, <1>c, <1>d, <2>2, <2>4
    <3>2. pushedLast /\ ~Since(dspAt', PushedAt(d), PushedAt(f))
      BY <1>c, <2>1, <2>4 DEF Since
    <3> QED
      BY <1>b, <1>c, <2>2, <3>1, <3>2 DEF KeepsUp
  <2>5. CASE r # d /\ r # f
    <3>1. queue'[f] = queue[f] /\ queue'[d] = queue[d]
      BY <1>c, <1>d, <2>2, <2>5
    <3>2. PushedAt(r) # PushedAt(d) /\ PushedAt(r) # PushedAt(f)
      BY <1>c, <2>5, OwnPositions
    <3>3. Since(dspAt', PushedAt(d), PushedAt(f)) <=> pushedLast
      BY <1>c, <2>1, <3>2 DEF Since
    <3> QED
      BY <1>b, <2>2, <3>1, <3>3 DEF KeepsUp
  <2> QED
    BY <2>3, <2>4, <2>5
<1>3. ASSUME NEW r \in Saveable, SaveRecord(r) \/ DropResult(r) \/ Complain(r)
      PROVE  KeepsUp(d, f)'
  <2>1. saveAt = SavedAt(r) /\ saveAt' = (IF saveAt = 5 THEN 1 ELSE saveAt + 1) /\ dspAt' = dspAt
    BY <1>3, SavePositions DEF SaveRecord, DropResult, Complain, Saver
  <2>2. CASE r = f
    <3>1. queue[f] # << >> /\ queue' = [queue EXCEPT ![f] = Tail(queue[f])]
      BY <1>3, <1>a, <2>2 DEF SaveRecord, DropResult, Complain, TypeOK, SavingOK
    <3>2. Len(queue'[f]) = Len(queue[f]) - 1 /\ queue'[d] = queue[d]
      BY <1>a, <1>c, <1>d, <3>1
    <3>3. ~savedLast /\ Since(saveAt', SavedAt(f), SavedAt(d))
      BY <1>c, <2>1, <2>2 DEF Since
    <3> QED
      BY <1>b, <1>c, <2>1, <3>2, <3>3 DEF KeepsUp
  <2>3. CASE r = d
    <3>1. savedLast /\ ~Since(saveAt', SavedAt(f), SavedAt(d))
      BY <1>c, <2>1, <2>3 DEF Since
    <3>2. \/ queue[d] # << >> /\ queue' = [queue EXCEPT ![d] = Tail(queue[d])]
          \/ queue[d] = << >> /\ queue' = queue
      BY <1>3, <2>3 DEF SaveRecord, DropResult, Complain, TypeOK, SavingOK
    <3>3. /\ queue'[f] = queue[f]
          /\ Len(queue'[d]) = Len(queue[d]) - 1 \/ Len(queue'[d]) = 0
      BY <1>a, <1>c, <1>d, <3>2
    <3> QED
      BY <1>b, <1>c, <2>1, <3>1, <3>3 DEF KeepsUp
  <2>4. CASE r # d /\ r # f
    <3>1. queue'[f] = queue[f] /\ queue'[d] = queue[d]
      BY <1>3, <1>c, <1>d, <2>4 DEF SaveRecord, DropResult, Complain
    <3>2. SavedAt(r) # SavedAt(d) /\ SavedAt(r) # SavedAt(f)
      BY <1>a, <1>c, <2>4, OwnPositions DEF Saveable
    <3>3. Since(saveAt', SavedAt(f), SavedAt(d)) <=> savedLast
      BY <1>c, <2>1, <3>2 DEF Since
    <3> QED
      BY <1>b, <2>1, <3>1, <3>3 DEF KeepsUp
  <2> QED
    BY <2>2, <2>3, <2>4
<1>4. CASE TakeGain \/ FrameArrives \/ UNCHANGED vars
  <2>1. /\ dspAt' = dspAt /\ saveAt' = saveAt
        /\ queue' = queue \/ queue' = [queue EXCEPT !["agc"] = Tail(queue["agc"])]
    BY <1>4 DEF TakeGain, FrameArrives, saving, vars
  <2>2. queue'[d] = queue[d] /\ queue'[f] = queue[f]
    BY <1>a, <1>c, <1>d, <2>1 DEF Saveable
  <2> QED
    BY <1>b, <2>1, <2>2 DEF KeepsUp
<1>5. ASSUME \/ TakeSignal \/ UpdateInputSignal \/ CalculateTOF \/ CalculateDOA
             \/ UpdateACG \/ CollectResults \/ ResetFlag
      PROVE  KeepsUp(d, f)'
  BY <1>1, <1>5 DEF TakeSignal, UpdateInputSignal, CalculateTOF, CalculateDOA,
                    UpdateACG, CollectResults, ResetFlag
<1> QED
  BY <1>2, <1>3, <1>4, <1>5 DEF Next, DspNext, SaverNext

\* However many frames come, the queue of a stream that is dropped is longer
\* than that of a stream that is saved by two results at most (DroppedKeepUp):
\* saveProcessResult calls one try_pop for each result it saves.
THEOREM DroppedStreamsKeepUp == Spec => []DroppedKeepUp
<1> DEFINE AllKeepUp == \A d \in Saveable \ saved, f \in open : KeepsUp(d, f)
<1>1. Init => AllKeepUp
  <2> SUFFICES ASSUME Init, NEW d \in Saveable \ saved, NEW f \in open PROVE KeepsUp(d, f)
    OBVIOUS
  <2>1. d \in Streams /\ f \in Streams
    BY DEF Init, Saveable
  <2>2. Len(queue[d]) = 0 /\ Len(queue[f]) = 0
    BY <2>1 DEF Init
  <2> QED
    BY <2>2 DEF KeepsUp
<1>2. TypeOK /\ AllKeepUp /\ [Next]_vars => AllKeepUp'
  <2> SUFFICES ASSUME TypeOK, AllKeepUp, [Next]_vars PROVE AllKeepUp'
    OBVIOUS
  <2>1. open' = open /\ saved' = saved
    BY DEF Next, FrameArrives, DspNext, TakeSignal, Dsp, UpdateInputSignal,
           CalculateTOF, CalculateDOA, UpdateACG, CollectResults, ResetFlag,
           PushResult, SaverNext, SaveRecord, DropResult, Complain, Saver, TakeGain,
           vars, config
  <2> QED
    BY <2>1, KeepsUpStep
<1>3. TypeOK /\ AllKeepUp => DroppedKeepUp
  <2> SUFFICES ASSUME TypeOK, NEW d \in Saveable \ saved, NEW f \in open, KeepsUp(d, f)
               PROVE  Len(queue[d]) <= Len(queue[f]) + 2
    BY DEF DroppedKeepUp
  <2>1. Len(queue[d]) \in Nat /\ Len(queue[f]) \in Nat
    BY SavePositions DEF TypeOK, SavingOK
  <2> QED
    BY <2>1 DEF KeepsUp
<1> QED
  BY <1>1, <1>2, <1>3, TypeCorrect, PTL DEF Spec

-----------------------------------------------------------------------------
(* Where the threads wait: what EveryFrameSaved needs besides fairness.    *)

\* The DSP thread waits for a frame; the saver thread waits for a result.
DspWaits == DspSteps[dspAt] = "get" /\ signalQueue = << >>
SaverWaits == SaveOrder[saveAt] \in open /\ queue[SaveOrder[saveAt]] = << >>

\* When both wait nothing is left on its way: every open file has all frames.
NothingLeftBehind ==
    DspWaits /\ SaverWaits => \A s \in open : Len(file[s]) = arrived

\* The records a file has at the end of the round the saver is in.
RecordsInRound(s) == Len(file[s]) + IF saveAt <= SavedAt(s) THEN 1 ELSE 0

RoundsAgree == \A r, s \in open : RecordsInRound(r) = RecordsInRound(s)

\* A round adds one record to each open file, whatever the other threads do.
LEMMA RoundsStep ==
    ASSUME TypeOK, RoundsAgree, [Next]_vars
    PROVE  RoundsAgree'
<1>a. /\ open' = open /\ open \subseteq Saveable
      /\ file \in [Saveable -> Seq(Sources)]
      /\ \A s \in Saveable : SavedAt(s)' = SavedAt(s) /\ Len(file[s]) \in Nat
  <2>1. open' = open
    BY DEF Next, FrameArrives, DspNext, TakeSignal, Dsp, UpdateInputSignal,
           CalculateTOF, CalculateDOA, UpdateACG, CollectResults, ResetFlag,
           PushResult, SaverNext, SaveRecord, DropResult, Complain, Saver, TakeGain,
           vars, config
  <2>2. \A s \in Saveable : Len(file[s]) \in Nat
    BY DEF TypeOK, SavingOK
  <2> QED
    BY <2>1, <2>2 DEF TypeOK, SavingOK, SavedAt
<1>1. ASSUME NEW q \in Saveable, SaveRecord(q) \/ DropResult(q) \/ Complain(q)
      PROVE  RoundsAgree'
  <2>1. saveAt \in 1 .. 5 /\ saveAt = SavedAt(q) /\ saveAt' = (IF saveAt = 5 THEN 1 ELSE saveAt + 1)
    BY <1>1, SavePositions DEF SaveRecord, DropResult, Complain
  <2>2. ASSUME NEW s \in open
        PROVE  Len(file'[s]) = Len(file[s]) + IF s = q THEN 1 ELSE 0
    <3>1. CASE s = q
      <4>1. file' = [file EXCEPT ![q] = Append(file[q], Head(queue[q]))]
        BY <1>1, <2>2, <3>1 DEF SaveRecord, DropResult, Complain, TypeOK, SavingOK
      <4>2. file[q] \in Seq(Sources)
        BY <1>a
      <4>3. file'[q] = Append(file[q], Head(queue[q]))
        BY <1>a, <4>1
      <4> QED
        BY <3>1, <4>2, <4>3
    <3>2. CASE s # q
      <4>1. file'[s] = file[s]
        BY <1>1, <1>a, <3>2 DEF SaveRecord, DropResult, Complain
      <4> QED
        BY <1>a, <3>2, <4>1
    <3> QED
      BY <3>1, <3>2
  <2>3. ASSUME NEW s \in open
        PROVE  RecordsInRound(s)' = RecordsInRound(s) + IF saveAt = 5 THEN 1 ELSE 0
    <3>1. SavedAt(s) \in 1 .. 5 /\ SavedAt(s)' = SavedAt(s) /\ Len(file[s]) \in Nat
      BY <1>a, SavePositions
    <3>2. s # q => SavedAt(s) # SavedAt(q)
      BY <1>a, OwnPositions DEF Saveable
    <3>3. Len(file'[s]) = Len(file[s]) + IF s = q THEN 1 ELSE 0
      BY <2>2
    <3>4. /\ RecordsInRound(s)' = Len(file'[s]) + IF saveAt' <= SavedAt(s) THEN 1 ELSE 0
          /\ RecordsInRound(s) = Len(file[s]) + IF saveAt <= SavedAt(s) THEN 1 ELSE 0
      BY <3>1 DEF RecordsInRound
    <3> DEFINE n == Len(file[s])  m == Len(file'[s])  k == SavedAt(s)  j == saveAt'
    <3>5. /\ RecordsInRound(s)' = m + IF j <= k THEN 1 ELSE 0
          /\ RecordsInRound(s) = n + IF saveAt <= k THEN 1 ELSE 0
          /\ m = n + IF s = q THEN 1 ELSE 0
          /\ n \in Nat /\ k \in 1 .. 5 /\ saveAt \in 1 .. 5
          /\ j = (IF saveAt = 5 THEN 1 ELSE saveAt + 1)
          /\ s = q <=> k = saveAt
      BY <2>1, <3>1, <3>2, <3>3, <3>4
    <3> HIDE DEF n, m, k, j
    <3>6. CASE s = q
      BY <3>5, <3>6
    <3>7. CASE s # q
      BY <3>5, <3>7
    <3> QED
      BY <3>6, <3>7
  <2>4. ASSUME NEW r \in open', NEW s \in open' PROVE RecordsInRound(r)' = RecordsInRound(s)'
    BY <1>a, <2>3, <2>4 DEF RoundsAgree
  <2> QED
    BY <2>4 DEF RoundsAgree
<1>2. CASE FrameArrives \/ DspNext \/ TakeGain \/ UNCHANGED vars
  <2>1. UNCHANGED <<saveAt, file>>
    BY <1>2 DEF FrameArrives, DspNext, TakeSignal, Dsp, UpdateInputSignal, CalculateTOF,
                CalculateDOA, UpdateACG, CollectResults, ResetFlag, PushResult, TakeGain,
                vars, saving
  <2>2. \A s \in open : RecordsInRound(s)' = RecordsInRound(s)
    BY <1>a, <2>1 DEF RecordsInRound
  <2> QED
    BY <1>a, <2>2 DEF RoundsAgree
<1> QED
  BY <1>1, <1>2 DEF Next, SaverNext

\* The DSP thread and the saver thread never both wait, with no more frames coming,
\* while a result is missing in an open file: with whatever streams are saved, the
\* order saveProcessResult blocks in is no deadlock.
THEOREM NoResultStranded == Spec => []NothingLeftBehind
<1>1. Init => RoundsAgree
  <2> SUFFICES ASSUME Init, NEW r \in open, NEW s \in open
               PROVE  RecordsInRound(r) = RecordsInRound(s)
    BY DEF RoundsAgree
  <2>1. r \in Saveable /\ s \in Saveable
    BY DEF Init
  <2>2. SavedAt(r) \in 1 .. 5 /\ SavedAt(s) \in 1 .. 5
    BY <2>1 DEF SavedAt, Saveable, Streams
  <2>3. file[r] = << >> /\ file[s] = << >> /\ saveAt = 1
    BY <2>1 DEF Init
  <2> QED
    BY <2>2, <2>3 DEF RecordsInRound
<1>2. TypeOK /\ RoundsAgree /\ [Next]_vars => RoundsAgree'
  BY RoundsStep
<1>3. Inv /\ RoundsAgree => NothingLeftBehind
  <2> SUFFICES ASSUME Inv, RoundsAgree, DspWaits, SaverWaits, NEW r \in open
               PROVE  Len(file[r]) = arrived
    BY DEF NothingLeftBehind
  <2> DEFINE s == SaveOrder[saveAt]
  <2>1. /\ s \in open /\ s \in Saveable /\ r \in Saveable
        /\ Len(file[r]) \in Nat /\ Len(file[s]) \in Nat /\ arrived \in Nat
    BY DEF SaverWaits, Inv, TypeOK, SavingOK, SignalsOK
  <2>2. saveAt \in 1 .. 5 /\ SavedAt(s) = saveAt
    <3>1. saveAt \in 1 .. 5
      BY <2>1, SavePositions DEF Inv
    <3> QED
      BY <3>1 DEF SaveOrder, SavedAt
  <2>3. dspAt = 1
    BY StepNames DEF DspWaits, Inv, TypeOK, SignalsOK
  <2>4. Taken = arrived
    <3>1. Len(signalQueue) = 0
      BY DEF DspWaits
    <3> QED
      BY <2>1, <3>1 DEF Taken
  <2>5. \A t \in open : Len(file[t]) + Len(queue[t]) = arrived
    BY <2>3, <2>4 DEF Inv, FileThenQueue, Pushed, TypeOK, SavingOK
  <2>6. Len(queue[s]) = 0
    BY DEF SaverWaits
  <2> HIDE DEF s
  <2>7. Len(file[s]) = arrived
    <3>1. Len(file[s]) + Len(queue[s]) = arrived
      BY <2>1, <2>5
    <3> QED
      BY <2>1, <2>6, <3>1
  <2>8. RecordsInRound(r) = arrived + 1
    <3>1. RecordsInRound(r) = RecordsInRound(s)
      BY <2>1 DEF RoundsAgree
    <3>2. RecordsInRound(s) = arrived + 1
      BY <2>2, <2>7 DEF RecordsInRound
    <3> QED
      BY <3>1, <3>2
  <2>9. Len(queue[r]) \in Nat
    BY <2>1, SavePositions DEF Inv
  <2>10. RecordsInRound(r) = Len(file[r]) \/ RecordsInRound(r) = Len(file[r]) + 1
    <3>1. CASE saveAt <= SavedAt(r)
      BY <3>1 DEF RecordsInRound
    <3>2. CASE ~(saveAt <= SavedAt(r))
      <4>1. RecordsInRound(r) = Len(file[r]) + 0
        BY <3>2 DEF RecordsInRound
      <4>2. \A n \in Nat : n + 0 = n
        OBVIOUS
      <4> QED
        BY <2>1, <4>1, <4>2
    <3> QED
      BY <3>1, <3>2
  <2>11. Len(file[r]) + Len(queue[r]) = arrived
    BY <2>5
  <2> DEFINE n == Len(file[r])  m == Len(queue[r])
  <2>12. n \in Nat /\ m \in Nat /\ n + m = arrived /\ (arrived + 1 = n \/ arrived + 1 = n + 1)
    BY <2>1, <2>8, <2>9, <2>10, <2>11
  <2> HIDE DEF n, m
  <2>13. n = arrived
    BY <2>1, <2>12
  <2> QED
    BY <2>13 DEF n
<1> QED
  BY <1>1, <1>2, <1>3, Invariance, TypeCorrect, PTL DEF Spec
=============================================================================
