---------------------------- MODULE ResultPipeline ----------------------------
(***************************************************************************)
(* The receive chain behind the acquisition: the DSP thread takes a frame  *)
(* of samples, drives the SignalProcess object through it and pushes one   *)
(* result of each kind to a queue of its own (dsp/thread_dsp.cpp,          *)
(* dsp/signalProcess.cpp); one saver thread empties five of these queues   *)
(* into files in an order of its own (fileio/thread_savefile.cpp), and the *)
(* AGC thread empties the sixth.                                           *)
(*                                                                         *)
(* Frames are numbered in the order of acquisition.  A computed value is   *)
(* represented by its sources, the set of frames it was computed from: the *)
(* numbers themselves do not matter, that they belong together does.       *)
(* A queue operation is one step, as module SafeQueue shows it to be.      *)
(***************************************************************************)
EXTENDS Naturals, Sequences

CONSTANTS AgcEnabled,   \* agcInfo.isEnableAGC: the AGC thread runs
          MaxFrames     \* bound of the model: frames the scan delivers

ASSUME PipelineAssumption ==
    /\ AgcEnabled \in BOOLEAN
    /\ MaxFrames \in Nat

\* The statements of the dspProcess loop that change what someone may see, the
\* pushes to the result queues among them, and the order in which
\* saveProcessResult looks for the results.
DspSteps == <<"get", "update", "tof", "doa", "acg", "collect", "reset",
              "posRes", "agc", "tofRes", "correlation", "sideAmpSpec", "beamPattern">>
SaveOrder == <<"posRes", "correlation", "tofRes", "beamPattern", "sideAmpSpec">>

Streams == {"posRes", "agc", "tofRes", "correlation", "sideAmpSpec", "beamPattern"}
Saveable == Streams \ {"agc"}

Sources == SUBSET Nat

VARIABLES
    arrived,      \* frames acquired so far
    signalQueue,  \* frames on their way to the DSP thread
    dspAt,        \* the statement of DspSteps the DSP thread is at
    signalInput,  \* ThreadDSP::signalInput_
    flags,        \* the status flags of SignalProcess that are set
    proc,         \* SignalProcess: input, tofRes_, correlationResult_, DOA, gain
    out,          \* the result members of ThreadDSP, one for each stream
    exited,       \* std::exit was called
    queue,        \* the result queues
    saved,        \* savedFileInfo.isSave...: the streams to be saved
    open,         \* the streams whose file could be opened
    saveAt,       \* the position of the saver thread in SaveOrder
    file          \* the records dumped to each file

config == <<saved, open>>
signals == <<arrived, signalQueue>>
computing == <<signalInput, flags, proc, out, exited>>
saving == <<saveAt, file>>
vars == <<signals, dspAt, computing, queue, config, saving>>

\* creatThread_saveProcessResult ends the program unless the file of every
\* stream to be saved is open, the correlation file excepted.
FilesChecked == Saveable \ {"correlation"}

Init ==
    /\ arrived = 0 /\ signalQueue = << >>
    /\ dspAt = 1
    /\ signalInput = {}
    /\ flags = {"loadRef"}
    /\ proc = [x \in {"input", "tof", "correlation", "doa", "gain"} |-> {}]
    /\ out = [s \in Streams |-> {}]
    /\ exited = FALSE
    /\ queue = [s \in Streams |-> << >>]
    /\ saved \in SUBSET Saveable
    /\ open \in SUBSET saved /\ saved \cap FilesChecked \subseteq open
    /\ saveAt = 1
    /\ file = [s \in Saveable |-> << >>]

-----------------------------------------------------------------------------
(* The acquisition callback delivers one frame. *)

FrameArrives ==
    /\ arrived < MaxFrames
    /\ arrived' = arrived + 1
    /\ signalQueue' = Append(signalQueue, {arrived + 1})
    /\ UNCHANGED <<dspAt, computing, queue, config, saving>>

-----------------------------------------------------------------------------
(* The DSP thread. *)

\* The DSP thread executes the statement it is at.
Dsp(step) ==
    /\ ~exited
    /\ DspSteps[dspAt] = step
    /\ dspAt' = (dspAt % Len(DspSteps)) + 1
    /\ UNCHANGED <<arrived, config, saving>>

\* A SignalProcess method exits unless the flags it checks are set.
Requires(needed) == exited' = ~(needed \subseteq flags)

TakeSignal ==
    /\ Dsp("get")
    /\ signalQueue # << >>
    /\ signalInput' = Head(signalQueue)
    /\ signalQueue' = Tail(signalQueue)
    /\ UNCHANGED <<flags, proc, out, exited, queue>>

\* Mutant: a wrong flag is set.
UpdateInputSignal_WrongFlag ==
    /\ Dsp("update")
    /\ exited' = ("updateInput" \in flags)
    /\ proc' = [proc EXCEPT !["input"] = signalInput]
    /\ flags' = flags \cup {"inputUpdated"}
    /\ UNCHANGED <<signalQueue, signalInput, out, queue>>

UpdateInputSignal ==
    /\ Dsp("update")
    /\ exited' = ("updateInput" \in flags)
    /\ proc' = [proc EXCEPT !["input"] = signalInput]
    /\ flags' = (flags \cup {"updateInput"}) \ {"tofCalculated", "doaCalculated"}
    /\ UNCHANGED <<signalQueue, signalInput, out, queue>>

\* Mutant: the correlation of the frame before is kept.
CalculateTOF_OldCorrelation ==
    /\ Dsp("tof")
    /\ Requires({"loadRef", "updateInput"})
    /\ proc' = [proc EXCEPT !["tof"] = proc["input"]]
    /\ flags' = flags \cup {"tofCalculated"}
    /\ UNCHANGED <<signalQueue, signalInput, out, queue>>

CalculateTOF ==
    /\ Dsp("tof")
    /\ Requires({"loadRef", "updateInput"})
    /\ proc' = [proc EXCEPT !["tof"] = proc["input"],
                            !["correlation"] = proc["input"]]
    /\ flags' = flags \cup {"tofCalculated"}
    /\ UNCHANGED <<signalQueue, signalInput, out, queue>>

\* The window of the input that is beamformed starts at the smallest TOF.
CalculateDOA ==
    /\ Dsp("doa")
    /\ Requires({"tofCalculated"})
    /\ proc' = [proc EXCEPT !["doa"] = proc["input"] \cup proc["tof"]]
    /\ flags' = flags \cup {"doaCalculated"}
    /\ UNCHANGED <<signalQueue, signalInput, out, queue>>

UpdateACG ==
    /\ Dsp("acg")
    /\ Requires({"tofCalculated"})
    /\ proc' = [proc EXCEPT !["gain"] = proc["correlation"]]
    /\ flags' = flags \cup {"acgUpdated"}
    /\ UNCHANGED <<signalQueue, signalInput, out, queue>>

\* The assignments to positionResult_ and the four getters.
CollectResults ==
    /\ Dsp("collect")
    /\ Requires({"tofCalculated", "doaCalculated"})
    /\ out' = [posRes |-> proc["tof"] \cup proc["doa"],
               agc |-> proc["gain"],
               tofRes |-> proc["tof"],
               correlation |-> proc["correlation"],
               sideAmpSpec |-> proc["doa"],
               beamPattern |-> proc["doa"]]
    /\ UNCHANGED <<signalQueue, signalInput, flags, proc, queue>>

\* Mutant: the flags are left set.
ResetFlag_Forgotten ==
    /\ Dsp("reset")
    /\ UNCHANGED <<signalQueue, signalInput, flags, proc, out, exited, queue>>

ResetFlag ==
    /\ Dsp("reset")
    /\ flags' = flags \cap {"loadRef"}
    /\ UNCHANGED <<signalQueue, signalInput, proc, out, exited, queue>>

PushResult(s) ==
    /\ Dsp(s)
    /\ queue' = [queue EXCEPT ![s] = Append(@, out[s])]
    /\ UNCHANGED <<signalQueue, computing>>

DspNext ==
    \/ TakeSignal \/ UpdateInputSignal \/ CalculateTOF \/ CalculateDOA
    \/ UpdateACG \/ CollectResults \/ ResetFlag
    \/ \E s \in Streams : PushResult(s)

-----------------------------------------------------------------------------
(* The saver thread and the AGC thread. *)

\* The saver thread looks at the queue it has come to.
Saver(s) ==
    /\ ~exited
    /\ SaveOrder[saveAt] = s
    /\ saveAt' = (saveAt % Len(SaveOrder)) + 1
    /\ UNCHANGED <<signals, dspAt, computing, config>>

\* The file is open: wait for the next result and dump it.
SaveRecord(s) ==
    /\ Saver(s)
    /\ s \in open
    /\ queue[s] # << >>
    /\ file' = [file EXCEPT ![s] = Append(@, Head(queue[s]))]
    /\ queue' = [queue EXCEPT ![s] = Tail(@)]

\* Mutant: the results of a stream that is not saved stay where they are.
DropResult_Keep(s) ==
    /\ Saver(s)
    /\ s \notin saved
    /\ UNCHANGED <<queue, file>>

\* Saving is switched off: drop the next result if there is one already.
DropResult(s) ==
    /\ Saver(s)
    /\ s \notin saved
    /\ \/ queue[s] # << >> /\ queue' = [queue EXCEPT ![s] = Tail(@)]
       \/ queue[s] = << >> /\ UNCHANGED queue
    /\ UNCHANGED file

\* Mutant: the thread tries again until the file is open.
Complain_Retry(s) ==
    /\ ~exited
    /\ SaveOrder[saveAt] = s
    /\ s \in saved \ open
    /\ UNCHANGED vars

\* To be saved, but the file did not open: an error message, nothing else.
Complain(s) ==
    /\ Saver(s)
    /\ s \in saved \ open
    /\ UNCHANGED <<queue, file>>

SaverNext == \E s \in Saveable : SaveRecord(s) \/ DropResult(s) \/ Complain(s)

\* ThreadAGC::processAGC takes the next gain (module Agc has the rest).
TakeGain ==
    /\ AgcEnabled /\ ~exited
    /\ queue["agc"] # << >>
    /\ queue' = [queue EXCEPT !["agc"] = Tail(@)]
    /\ UNCHANGED <<signals, dspAt, computing, config, saving>>

-----------------------------------------------------------------------------
Next == FrameArrives \/ DspNext \/ SaverNext \/ TakeGain

Spec == Init /\ [][Next]_vars

\* The operating system runs every thread that can run; frames may stop.
Fairness == WF_vars(DspNext) /\ WF_vars(SaverNext) /\ WF_vars(TakeGain)

FairSpec == Spec /\ Fairness

-----------------------------------------------------------------------------
SignalsOK ==
    /\ arrived \in Nat
    /\ signalQueue \in Seq(Sources)
    /\ dspAt \in 1 .. Len(DspSteps)
    /\ signalInput \in Sources

ComputingOK ==
    /\ flags \subseteq {"loadRef", "updateInput", "tofCalculated",
                        "doaCalculated", "acgUpdated"}
    /\ proc \in [{"input", "tof", "correlation", "doa", "gain"} -> Sources]
    /\ out \in [Streams -> Sources]
    /\ exited \in BOOLEAN

SavingOK ==
    /\ queue \in [Streams -> Seq(Sources)]
    /\ saved \subseteq Saveable
    /\ open \subseteq saved
    /\ saveAt \in 1 .. Len(SaveOrder)
    /\ file \in [Saveable -> Seq(Sources)]

\* The types; a stream has an open file only when it is to be saved.
TypeOK == SignalsOK /\ ComputingOK /\ SavingOK

\* The DSP loop calls the methods of SignalProcess in an order their flags
\* allow, frame after frame: no method ends the program.
ProtocolObeyed == ~exited

\* Line i of every result file comes from frame i and from nothing else, so the
\* files can be read side by side: no result is lost, saved twice, exchanged,
\* or mixed from two frames, whatever is saved and however the threads
\* interleave.
RowsAligned ==
    \A s \in Saveable : \A i \in 1 .. Len(file[s]) : file[s][i] = {i}

\* Results nobody wants are dropped with try_pop, which does nothing when the
\* DSP thread has not pushed the result yet.  Even so the queue of a stream
\* that is not saved never outgrows the backlog of a stream that is by more
\* than two results.
DroppedKeepUp ==
    \A s \in Saveable \ saved, f \in open : Len(queue[s]) <= Len(queue[f]) + 2

\* Every frame that was acquired reaches every open file.
EveryFrameSaved ==
    \A k \in 1 .. MaxFrames :
        arrived >= k ~> \A s \in open : Len(file[s]) >= k

=============================================================================
