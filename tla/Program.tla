------------------------------ MODULE Program ------------------------------
(***************************************************************************)
(* The life of the program (main.cpp): the configuration is read, in the   *)
(* receive mode the objects and threads are created and, when the scan is  *)
(* over, the destructors run in reverse order while the threads go on; in  *)
(* the transmit mode one buffer is played.  The module composes the        *)
(* threads of the receiver over the queues they share, with the saver of   *)
(* the recorded samples in detail; the inner life of the others is in      *)
(* Acquisition, ResultPipeline, TcpSender and Agc.                         *)
(*                                                                         *)
(* A step of main is a statement of main(), of a constructor or of a       *)
(* destructor.  std::terminate and exit end all threads at once.           *)
(***************************************************************************)
EXTENDS Naturals, Sequences, SequencesExt

CONSTANTS
    Frames,     \* bound on the frames the device delivers
    Channels,   \* channelNum of a frame
    Malformed   \* bound: the sections that may lack a key

ASSUME BoundsAssumption == Frames \in Nat /\ Channels \in Nat \ {0}

Modes   == {"MODE_RECEIVE", "MODE_TRANSMIT", "MODE_ERROR"}
Threads == {"dsp", "agc", "results", "send", "record"}
Objects == {"outerSaver", "DSP", "AGC", "server", "sender", "innerSaver", "aiScan", "aoScan"}

\* Mutant: the array section is read in the wrong branch of the switch.
SectionsOf_ArrayForTransmit(m) ==
    CASE m = "MODE_RECEIVE"  -> <<"workMode", "fileFlags", "filePaths", "signal", "dataio", "tcp",
                                  "receive", "signalProcess", "AGC">>
      [] m = "MODE_TRANSMIT" -> <<"workMode", "fileFlags", "filePaths", "signal", "dataio", "tcp",
                                  "transmit", "array">>
      [] OTHER               -> <<"workMode", "fileFlags", "filePaths", "signal", "dataio", "tcp">>

\* The sections loadConfig reads, in its order, when workMode is m.
SectionsOf(m) ==
    CASE m = "MODE_RECEIVE"  -> <<"workMode", "fileFlags", "filePaths", "signal", "dataio", "tcp",
                                  "receive", "array", "signalProcess", "AGC">>
      [] m = "MODE_TRANSMIT" -> <<"workMode", "fileFlags", "filePaths", "signal", "dataio", "tcp",
                                  "transmit">>
      [] OTHER               -> <<"workMode", "fileFlags", "filePaths", "signal", "dataio", "tcp">>

AllSections == UNION {ToSet(SectionsOf(m)) : m \in Modes}

VARIABLES
    pc,             \* next statement of main and of each thread; "none": not created
    outcome,        \* "running", "returned", "exited" (exit) or "terminated"
    configNode,     \* the configuration file was read and parsed
    loaded,         \* sections copied to systemInfo
    loadResult,     \* result of loadConfig, which main ignores
    workMode, isEnableAGC, isSaveAnalogInput,    \* of systemInfo, uninitialised at first
    alive,          \* objects constructed and not destroyed
    connected,      \* the DAQ device is connected
    scanning,       \* what the device does: "off", "in" or "out"
    signal,         \* the generated waveform: "none", "allocated" or "freed"
    delivered,      \* frames delivered by the device
    dataQueue, dataSendQueue, agcQueue, resultQueue,   \* lengths of the queues
    dataSaveQueue,  \* the frames in it
    recording,      \* file of the inner saver: "closed" or "open"; "done" when closed again
    enableSave,     \* enableThread_saveDAQAIData_
    inHand,         \* daqaiTempData_, 0 at first
    nextChannel,    \* the channel saveDAQAIData dumps next
    written,        \* <<frame, channel>> blocks dumped to the file
    stopFlag        \* stopFlag_ of the TCP sender

configVars == <<configNode, loaded, loadResult, workMode, isEnableAGC, isSaveAnalogInput>>
deviceVars == <<connected, scanning, signal>>
queueVars  == <<delivered, dataQueue, dataSendQueue, agcQueue, resultQueue, dataSaveQueue>>
recordVars == <<recording, enableSave, inHand, nextChannel, written>>
vars == <<pc, outcome, configVars, alive, deviceVars, queueVars, recordVars, stopFlag>>

Init ==
    /\ pc = [t \in Threads \cup {"main"} |-> IF t = "main" THEN "open" ELSE "none"]
    /\ outcome = "running"
    /\ configNode = FALSE /\ loaded = {} /\ loadResult = "none"
    /\ workMode \in Modes /\ isEnableAGC \in BOOLEAN /\ isSaveAnalogInput \in BOOLEAN
    /\ alive = {}
    /\ connected = FALSE /\ scanning = "off" /\ signal = "none"
    /\ delivered = 0
    /\ dataQueue = 0 /\ dataSendQueue = 0 /\ agcQueue = 0 /\ resultQueue = 0
    /\ dataSaveQueue = << >>
    /\ recording = "closed" /\ enableSave = FALSE
    /\ inHand = 0 /\ nextChannel = 1 /\ written = << >>
    /\ stopFlag = FALSE

----------------------------------------------------------------------------
Goto(t, from, to) == pc[t] = from /\ pc' = [pc EXCEPT ![t] = to]

Main(from, to) == Goto("main", from, to) /\ UNCHANGED outcome

\* Main goes on and starts thread t, whose first statement is first.
MainStarts(from, to, t, first) ==
    /\ pc["main"] = from
    /\ pc' = [pc EXCEPT !["main"] = to, ![t] = first]
    /\ UNCHANGED outcome

\* The process ends at this statement of thread t.
Ends(t, from, how) == pc[t] = from /\ outcome' = how /\ UNCHANGED pc

Joined(t) == pc[t] \in {"none", "ended"}

----------------------------------------------------------------------------
(* Configuration.  Both results are ignored by main.                       *)

OpenConfig ==
    /\ Main("open", "load")
    /\ configNode' \in BOOLEAN
    /\ UNCHANGED <<loaded, loadResult, workMode, isEnableAGC, isSaveAnalogInput,
                   alive, deviceVars, queueVars, recordVars, stopFlag>>

\* A section is read: what the later steps depend on gets its value here.
ReadSection(s) ==
    /\ configNode
    /\ loaded' = loaded \cup {s}
    /\ IF s = "workMode" THEN workMode' \in Modes ELSE UNCHANGED workMode
    /\ IF s = "AGC" THEN isEnableAGC' \in BOOLEAN ELSE UNCHANGED isEnableAGC
    /\ IF s = "fileFlags" THEN isSaveAnalogInput' \in BOOLEAN ELSE UNCHANGED isSaveAnalogInput

\* The section to be read next: the first that was not.
Reads(s) ==
    \E i \in DOMAIN SectionsOf(workMode) :
        /\ s = SectionsOf(workMode)[i] /\ s \notin loaded
        /\ \A j \in 1 .. i - 1 : SectionsOf(workMode)[j] \in loaded

LoadSection ==
    /\ Main("load", "load")
    /\ \E s \in AllSections : Reads(s) /\ ReadSection(s)
    /\ UNCHANGED <<configNode, loadResult, alive, deviceVars, queueVars, recordVars, stopFlag>>

\* A key is missing or malformed: yaml-cpp throws, loadConfig returns false.
\* So does the first section when no file was read.
LoadFails ==
    /\ Main("load", "outerSaver")
    /\ \E s \in AllSections : Reads(s) /\ (~configNode \/ s \in Malformed)
    /\ loadResult' = "false"
    /\ UNCHANGED <<configNode, loaded, workMode, isEnableAGC, isSaveAnalogInput,
                   alive, deviceVars, queueVars, recordVars, stopFlag>>

LoadDone ==
    /\ Main("load", "outerSaver")
    /\ ToSet(SectionsOf(workMode)) \subseteq loaded
    /\ loadResult' = "true"
    /\ UNCHANGED <<configNode, loaded, workMode, isEnableAGC, isSaveAnalogInput,
                   alive, deviceVars, queueVars, recordVars, stopFlag>>

----------------------------------------------------------------------------
(* Construction, up to the switch on the mode.                             *)

Construct(o) == alive' = alive \cup {o}
Destroy(o)   == alive' = alive \ {o}

OuterSaver ==
    /\ Main("outerSaver", "generate")
    /\ Construct("outerSaver")
    /\ UNCHANGED <<configVars, deviceVars, queueVars, recordVars, stopFlag>>

\* generateSignal throws when a part is of unknown type or the sum is too long.
GenerateSignal ==
    \/ /\ Main("generate", CASE workMode = "MODE_RECEIVE"  -> "DSP"
                             [] workMode = "MODE_TRANSMIT" -> "output"
                             [] OTHER                      -> "return")
       /\ signal' = "allocated"
       /\ UNCHANGED <<configVars, alive, connected, scanning, queueVars, recordVars, stopFlag>>
    \/ /\ Ends("main", "generate", "terminated")
       /\ UNCHANGED <<configVars, alive, deviceVars, queueVars, recordVars, stopFlag>>

----------------------------------------------------------------------------
(* The receive mode: the objects are constructed and the threads started.  *)

ConstructDSP ==
    /\ Main("DSP", "results")
    /\ Construct("DSP")
    /\ UNCHANGED <<configVars, deviceVars, queueVars, recordVars, stopFlag>>

\* creatThread_saveProcessResult exits when a file it needs did not open.
StartResultSaver ==
    /\ \/ MainStarts("results", "AGC", "results", "wait")
       \/ Ends("main", "results", "exited")
    /\ UNCHANGED <<configVars, alive, deviceVars, queueVars, recordVars, stopFlag>>

\* The constructor opens the serial port, and throws when it cannot.
StartAGC ==
    /\ UNCHANGED <<configVars, deviceVars, queueVars, recordVars, stopFlag>>
    /\ \/ isEnableAGC  /\ MainStarts("AGC", "startDSP", "agc", "init") /\ Construct("AGC")
       \/ ~isEnableAGC /\ Main("AGC", "startDSP") /\ Construct("AGC")
       \/ isEnableAGC  /\ Ends("main", "AGC", "terminated") /\ UNCHANGED alive

StartDSP ==
    /\ MainStarts("startDSP", "server", "dsp", "wait")
    /\ UNCHANGED <<configVars, alive, deviceVars, queueVars, recordVars, stopFlag>>

ConstructServer ==
    /\ UNCHANGED <<configVars, deviceVars, queueVars, recordVars, stopFlag>>
    /\ \/ Main("server", "sender") /\ Construct("server")
       \/ Ends("main", "server", "exited") /\ UNCHANGED alive      \* no socket

StartSender ==
    /\ MainStarts("sender", "innerSaver", "send", "connect")
    /\ Construct("sender")
    /\ UNCHANGED <<configVars, deviceVars, queueVars, recordVars, stopFlag>>

\* setDAQAIFile sets the flag whether or not the file opened;
\* creatThread_saveDAQAIData starts the thread only if it did.
StartRecorder ==
    /\ Construct("innerSaver")
    /\ UNCHANGED <<configVars, deviceVars, queueVars, inHand, nextChannel, written, stopFlag>>
    /\ \/ /\ ~isSaveAnalogInput
          /\ Main("innerSaver", "connect")
          /\ UNCHANGED <<recording, enableSave>>
       \/ /\ isSaveAnalogInput
          /\ enableSave' = TRUE
          /\ \/ MainStarts("innerSaver", "connect", "record", "test") /\ recording' = "open"
             \/ Main("innerSaver", "connect") /\ UNCHANGED recording

\* createDaqConnection throws when it finds no device it can use.
Connect ==
    /\ Construct("aiScan")
    /\ UNCHANGED <<configVars, scanning, signal, queueVars, recordVars, stopFlag>>
    /\ \/ Main("connect", "startScan") /\ connected' = TRUE
       \/ Ends("main", "connect", "terminated") /\ UNCHANGED connected

StartScan ==
    /\ UNCHANGED <<configVars, alive, connected, signal, queueVars, recordVars, stopFlag>>
    /\ \/ Main("startScan", "sleep") /\ scanning' = "in"
       \/ Main("startScan", "disconnect") /\ UNCHANGED scanning    \* ulAInScan failed

\* The sleep is over: ulAInScanStop, and ulDisableEvent waits for the callback.
StopScan ==
    /\ Main("sleep", "disconnect")
    /\ scanning' = "off"
    /\ UNCHANGED <<configVars, alive, connected, signal, queueVars, recordVars, stopFlag>>

\* The callback of the device pushes a frame to the three queues.
Deliver ==
    /\ scanning = "in"
    /\ delivered < Frames
    /\ delivered' = delivered + 1
    /\ dataQueue' = dataQueue + 1
    /\ dataSaveQueue' = Append(dataSaveQueue, delivered')
    /\ dataSendQueue' = dataSendQueue + 1
    /\ UNCHANGED <<pc, outcome, configVars, alive, deviceVars, agcQueue, resultQueue,
                   recordVars, stopFlag>>

----------------------------------------------------------------------------
(* The end of the receive case: the destructors, last object first.        *)

Disconnect ==
    /\ Main("disconnect", "~aiScan")
    /\ connected' = FALSE
    /\ UNCHANGED <<configVars, alive, scanning, signal, queueVars, recordVars, stopFlag>>

DestroyScan ==
    /\ Main("~aiScan", "~innerSaver")
    /\ Destroy("aiScan")
    /\ UNCHANGED <<configVars, deviceVars, queueVars, recordVars, stopFlag>>

\* Mutant: the flag is left set before the join.
ClearEnableSave_Forgotten ==
    /\ Main("~innerSaver", "joinRecorder")
    /\ UNCHANGED <<configVars, alive, deviceVars, queueVars, recordVars, stopFlag>>

\* ~ThreadSaveFile: clear the flag, join the thread, close the file.
ClearEnableSave ==
    /\ Main("~innerSaver", "joinRecorder")
    /\ enableSave' = FALSE
    /\ UNCHANGED <<configVars, alive, deviceVars, queueVars, recording, inHand, nextChannel,
                   written, stopFlag>>

\* Mutant: the file is closed without waiting for the thread.
JoinRecorder_Detached ==
    /\ Main("joinRecorder", "closeRecording")
    /\ UNCHANGED <<configVars, alive, deviceVars, queueVars, recordVars, stopFlag>>

JoinRecorder ==
    /\ Joined("record")
    /\ Main("joinRecorder", "closeRecording")
    /\ UNCHANGED <<configVars, alive, deviceVars, queueVars, recordVars, stopFlag>>

CloseRecording ==
    /\ Main("closeRecording", "~sender")
    /\ recording' = IF recording = "open" THEN "done" ELSE recording
    /\ Destroy("innerSaver")
    /\ UNCHANGED <<configVars, deviceVars, queueVars, enableSave, inHand, nextChannel, written,
                   stopFlag>>

\* ~ThreadTcpCommunication: set the stop flag, join the thread.
StopSender ==
    /\ Main("~sender", "joinSender")
    /\ stopFlag' = TRUE
    /\ UNCHANGED <<configVars, alive, deviceVars, queueVars, recordVars>>

\* Mutant: the sender is destroyed without waiting for its thread.
JoinSender_Detached ==
    /\ Main("joinSender", "~server")
    /\ Destroy("sender")
    /\ UNCHANGED <<configVars, deviceVars, queueVars, recordVars, stopFlag>>

JoinSender ==
    /\ Joined("send")
    /\ Main("joinSender", "~server")
    /\ Destroy("sender")
    /\ UNCHANGED <<configVars, deviceVars, queueVars, recordVars, stopFlag>>

DestroyServer ==
    /\ Main("~server", "~AGC")
    /\ Destroy("server")
    /\ UNCHANGED <<configVars, deviceVars, queueVars, recordVars, stopFlag>>

\* The defaulted destructors of ThreadAGC and ThreadDSP destroy a std::thread:
\* std::terminate when it is joinable.
DestroyThreadOwner(o, t, at, next) ==
    /\ UNCHANGED <<configVars, deviceVars, queueVars, recordVars, stopFlag>>
    /\ \/ pc[t] = "none" /\ Main(at, next) /\ Destroy(o)
       \/ pc[t] # "none" /\ Ends("main", at, "terminated") /\ UNCHANGED alive

DestroyAGC == DestroyThreadOwner("AGC", "agc", "~AGC", "~DSP")
DestroyDSP == DestroyThreadOwner("DSP", "dsp", "~DSP", "return")

Return ==
    /\ Ends("main", "return", "returned")
    /\ UNCHANGED <<configVars, alive, deviceVars, queueVars, recordVars, stopFlag>>

----------------------------------------------------------------------------
(* The transmit mode.                                                      *)

ConnectOutput ==
    /\ Construct("aoScan")
    /\ UNCHANGED <<configVars, scanning, signal, queueVars, recordVars, stopFlag>>
    /\ \/ Main("output", "startOutput") /\ connected' = TRUE
       \/ Ends("main", "output", "terminated") /\ UNCHANGED connected

StartOutput ==
    /\ UNCHANGED <<configVars, alive, connected, signal, queueVars, recordVars, stopFlag>>
    /\ \/ Main("startOutput", "outputSleep") /\ scanning' = "out"
       \/ Main("startOutput", "outputDisconnect") /\ UNCHANGED scanning   \* ulAOutScan failed

\* After the sleep the code stops the input scan (ulAInScanStop): the output,
\* which is continuous, goes on.
StopOutput ==
    /\ Main("outputSleep", "outputDisconnect")
    /\ UNCHANGED <<configVars, alive, deviceVars, queueVars, recordVars, stopFlag>>

\* Mutant: ulDisconnectDaqDevice is left out.
DisconnectOutput_Never ==
    /\ Main("outputDisconnect", "~aoScan")
    /\ UNCHANGED <<configVars, alive, deviceVars, queueVars, recordVars, stopFlag>>

\* Disconnecting the device ends what it does.
DisconnectOutput ==
    /\ Main("outputDisconnect", "~aoScan")
    /\ connected' = FALSE /\ scanning' = "off"
    /\ UNCHANGED <<configVars, alive, signal, queueVars, recordVars, stopFlag>>

\* The destructor releases the device and frees the waveform.
DestroyOutput ==
    /\ Main("~aoScan", "return")
    /\ Destroy("aoScan")
    /\ signal' = "freed"
    /\ UNCHANGED <<configVars, connected, scanning, queueVars, recordVars, stopFlag>>

----------------------------------------------------------------------------
(* The threads.                                                            *)

\* saveDAQAIData: the flag is tested only between two frames.
TestEnableSave ==
    /\ IF enableSave THEN Goto("record", "test", "wait") ELSE Goto("record", "test", "ended")
    /\ UNCHANGED <<outcome, configVars, alive, deviceVars, queueVars, recordVars, stopFlag>>

\* Mutant: only the newest frame is saved when several wait.
PopToSave_Newest ==
    /\ dataSaveQueue # << >>
    /\ Goto("record", "wait", "dump")
    /\ inHand' = Last(dataSaveQueue)
    /\ dataSaveQueue' = << >>
    /\ nextChannel' = 1
    /\ UNCHANGED <<outcome, configVars, alive, deviceVars, delivered, dataQueue, dataSendQueue,
                   agcQueue, resultQueue, recording, enableSave, written, stopFlag>>

PopToSave ==
    /\ dataSaveQueue # << >>
    /\ Goto("record", "wait", "dump")
    /\ inHand' = Head(dataSaveQueue)
    /\ dataSaveQueue' = Tail(dataSaveQueue)
    /\ nextChannel' = 1
    /\ UNCHANGED <<outcome, configVars, alive, deviceVars, delivered, dataQueue, dataSendQueue,
                   agcQueue, resultQueue, recording, enableSave, written, stopFlag>>

\* Mutant: the thread leaves its loop after a frame.
DumpChannel_Leave ==
    /\ Goto("record", "dump", IF nextChannel = Channels THEN "ended" ELSE "dump")
    /\ written' = Append(written, <<inHand, nextChannel>>)
    /\ nextChannel' = nextChannel + 1
    /\ UNCHANGED <<outcome, configVars, alive, deviceVars, queueVars, recording, enableSave,
                   inHand, stopFlag>>

DumpChannel ==
    /\ Goto("record", "dump", IF nextChannel = Channels THEN "test" ELSE "dump")
    /\ written' = Append(written, <<inHand, nextChannel>>)
    /\ nextChannel' = nextChannel + 1
    /\ UNCHANGED <<outcome, configVars, alive, deviceVars, queueVars, recording, enableSave,
                   inHand, stopFlag>>

Record == TestEnableSave \/ PopToSave \/ DumpChannel

\* A round of dspProcess: one result (to each output queue) and one gain for
\* each frame.  An exception of the estimation (a window outside the frame) is
\* not caught.
Process ==
    /\ dataQueue > 0
    /\ dataQueue' = dataQueue - 1
    /\ UNCHANGED <<configVars, alive, deviceVars, delivered, dataSendQueue, dataSaveQueue,
                   recordVars, stopFlag>>
    /\ \/ /\ Goto("dsp", "wait", "wait")
          /\ agcQueue' = agcQueue + 1
          /\ resultQueue' = resultQueue + 1
          /\ UNCHANGED outcome
       \/ /\ Ends("dsp", "wait", "terminated")
          /\ UNCHANGED <<agcQueue, resultQueue>>

\* Mutant: a result is taken although there is none.
SaveResult_Unguarded ==
    /\ Goto("results", "wait", "wait")
    /\ resultQueue' = resultQueue - 1
    /\ UNCHANGED <<outcome, configVars, alive, deviceVars, delivered, dataQueue, dataSendQueue,
                   agcQueue, dataSaveQueue, recordVars, stopFlag>>

SaveResult ==
    /\ resultQueue > 0
    /\ Goto("results", "wait", "wait")
    /\ resultQueue' = resultQueue - 1
    /\ UNCHANGED <<outcome, configVars, alive, deviceVars, delivered, dataQueue, dataSendQueue,
                   agcQueue, dataSaveQueue, recordVars, stopFlag>>

\* processAGC sends the initial gain, then one for each element of its queue.  An
\* exception of the serial driver is not caught.
ControlGain ==
    /\ UNCHANGED <<configVars, alive, deviceVars, delivered, dataQueue, dataSendQueue,
                   resultQueue, dataSaveQueue, recordVars, stopFlag>>
    /\ \/ pc["agc"] = "init" /\ UNCHANGED agcQueue
       \/ pc["agc"] = "wait" /\ agcQueue > 0 /\ agcQueue' = agcQueue - 1
    /\ \/ pc' = [pc EXCEPT !["agc"] = "wait"] /\ UNCHANGED outcome
       \/ outcome' = "terminated" /\ UNCHANGED pc

\* sendData: the stop flag is tested before each attempt to connect, which
\* empties the queue when it fails, and before each packet.  A packet is sent,
\* or the connection is given up, or the client stalls, and the thread locks
\* conn_mutex twice, or it is gone, and SIGPIPE ends the process.
SendEnds ==
    /\ stopFlag
    /\ Goto("send", "connect", "ended") \/ Goto("send", "connected", "ended")
    /\ UNCHANGED <<outcome, dataSendQueue>>

TryConnect ==
    \/ ~stopFlag /\ Goto("send", "connect", "accept") /\ UNCHANGED <<outcome, dataSendQueue>>
    \/ Goto("send", "accept", "connected") /\ UNCHANGED <<outcome, dataSendQueue>>
    \/ Goto("send", "accept", "connect") /\ dataSendQueue' = 0 /\ UNCHANGED outcome

SendHeartbeat ==
    /\ ~stopFlag
    /\ UNCHANGED dataSendQueue
    /\ \/ \E next \in {"wait", "connect", "hung"} : Goto("send", "connected", next) /\ UNCHANGED outcome
       \/ Ends("send", "connected", "terminated")

SendFrame ==
    /\ dataSendQueue > 0
    /\ dataSendQueue' = dataSendQueue - 1
    /\ \/ \E next \in {"connected", "hung"} : Goto("send", "wait", next) /\ UNCHANGED outcome
       \/ Ends("send", "wait", "terminated")

Send ==
    /\ UNCHANGED <<configVars, alive, deviceVars, delivered, dataQueue, agcQueue, resultQueue,
                   dataSaveQueue, recordVars, stopFlag>>
    /\ SendEnds \/ TryConnect \/ SendHeartbeat \/ SendFrame

----------------------------------------------------------------------------
Configure == OpenConfig \/ LoadSection \/ LoadFails \/ LoadDone

StartReceiver ==
    \/ ConstructDSP \/ StartResultSaver \/ StartAGC \/ StartDSP \/ ConstructServer
    \/ StartSender \/ StartRecorder \/ Connect \/ StartScan

EndReceiver ==
    \/ Disconnect \/ DestroyScan \/ ClearEnableSave \/ JoinRecorder \/ CloseRecording
    \/ StopSender \/ JoinSender \/ DestroyServer \/ DestroyAGC \/ DestroyDSP

Transmit == ConnectOutput \/ StartOutput \/ StopOutput \/ DisconnectOutput \/ DestroyOutput

\* The steps of main that nothing but a join can hold up.
MainGoesOn == Configure \/ OuterSaver \/ GenerateSignal \/ StartReceiver \/ EndReceiver \/ Transmit \/ Return

Next ==
    /\ outcome = "running"
    /\ \/ MainGoesOn \/ StopScan \/ Deliver
       \/ Record \/ Process \/ SaveResult \/ ControlGain \/ Send

(***************************************************************************)
(* Main and the recording thread are scheduled.  Nobody has to end the     *)
(* sleep of the receive mode (it is as long as the scan), and the device   *)
(* need not deliver.                                                       *)
(***************************************************************************)
Spec == /\ Init /\ [][Next]_vars
        /\ WF_vars(outcome = "running" /\ MainGoesOn)
        /\ WF_vars(outcome = "running" /\ Record)

----------------------------------------------------------------------------
MainAt == {"open", "load", "outerSaver", "generate", "DSP", "results", "AGC", "startDSP",
           "server", "sender", "innerSaver", "connect", "startScan", "sleep", "disconnect",
           "~aiScan", "~innerSaver", "joinRecorder", "closeRecording", "~sender", "joinSender",
           "~server", "~AGC", "~DSP", "return", "output", "startOutput", "outputSleep",
           "outputDisconnect", "~aoScan"}
ThreadAt == {"none", "init", "test", "wait", "dump", "connect", "accept", "connected",
             "hung", "ended"}

ControlOK ==
    /\ pc \in [Threads \cup {"main"} -> MainAt \cup ThreadAt]
    /\ pc["main"] \in MainAt /\ \A t \in Threads : pc[t] \in ThreadAt
    /\ outcome \in {"running", "returned", "exited", "terminated"}

FlagsOK ==
    /\ configNode \in BOOLEAN /\ isEnableAGC \in BOOLEAN /\ isSaveAnalogInput \in BOOLEAN
    /\ connected \in BOOLEAN /\ enableSave \in BOOLEAN /\ stopFlag \in BOOLEAN

DataOK ==
    /\ loaded \subseteq AllSections /\ loadResult \in {"none", "true", "false"}
    /\ workMode \in Modes
    /\ alive \subseteq Objects
    /\ scanning \in {"off", "in", "out"} /\ signal \in {"none", "allocated", "freed"}
    /\ delivered \in Nat /\ dataQueue \in Nat /\ dataSendQueue \in Nat
    /\ agcQueue \in Nat /\ resultQueue \in Nat /\ dataSaveQueue \in Seq(Nat)
    /\ recording \in {"closed", "open", "done"}
    /\ inHand \in Nat /\ nextChannel \in Nat /\ written \in Seq(Nat \X Nat)

\* Types of all variables.
TypeOK == ControlOK /\ FlagsOK /\ DataOK

\* The objects a thread reaches through its this pointer and references.
Uses(t) ==
    CASE t = "dsp"     -> {"DSP"}
      [] t = "agc"     -> {"AGC"}
      [] t = "results" -> {"outerSaver"}
      [] t = "send"    -> {"sender", "server"}
      [] t = "record"  -> {"innerSaver"}

\* No thread outlives an object it uses, and no callback the acquisition whose
\* queues and parameters it reads (the order of the destructors and their joins).
AliveWhenUsed ==
    /\ \A t \in Threads : (outcome = "running" /\ ~Joined(t)) => Uses(t) \subseteq alive
    /\ (outcome = "running" /\ scanning = "in") => "aiScan" \in alive

\* The waveform is neither missing nor freed while the device plays it, although
\* the scan is never stopped by name.
WaveformLive == scanning = "out" => signal = "allocated" /\ connected

\* A file consists of the blocks of the frames 1..n, frame by frame and each
\* channel by channel.
Whole(file, n) ==
    /\ Len(file) = n * Channels
    /\ \A f \in 1 .. n, c \in 1 .. Channels : file[(f - 1) * Channels + c] = <<f, c>>

\* The closed recording holds the first frames delivered, whole, in order and
\* without a gap: neither the test of the flag nor the join cuts a frame.
RecordingWhole ==
    recording = "done" => \E n \in 0 .. delivered : Whole(written, n)

\* Every frame delivered is in the file or in the saver's queue while the saver
\* has none in hand.
NothingSkipped ==
    pc["record"] \in {"test", "wait"} =>
        \E n \in 0 .. delivered :
            Whole(written, n) /\ dataSaveQueue = [i \in 1 .. delivered - n |-> n + i]

\* The sections of systemInfo read by what has been constructed or started.
Needs(o) ==
    CASE o = "DSP"        -> {"signal", "array", "signalProcess"}
      [] o = "AGC"        -> {"AGC"}
      [] o = "server"     -> {"tcp"}
      [] o = "sender"     -> {"tcp"}
      [] o = "aiScan"     -> {"receive"}
      [] o = "aoScan"     -> {"signal", "transmit"}
      [] o = "innerSaver" -> {"fileFlags", "filePaths"}
      [] OTHER            -> {"workMode"}

\* When loadConfig returns true, everything main goes on to construct in this
\* mode finds its parameters set (the switch of the loader and that of main agree).
ConfiguredWhenTrue ==
    loadResult = "true" => \A o \in alive : Needs(o) \subseteq loaded

\* "close thread" (fileio/thread_savefile.h:67), the comment of
\* closeThread_saveDAQAIData: the destructor that clears the flag and joins the
\* saver gets past the join, unless an exception in another thread ends the program.
CloseEndsThread ==
    (pc["main"] = "joinRecorder") ~> (pc["main"] # "joinRecorder" \/ outcome # "running")

\* With a frame left in the queue, or outside wait_and_pop, the saver does see the
\* flag and the destructor returns from the join: CloseEndsThread but for one case.
RecorderEnds ==
    (pc["main"] = "joinRecorder" /\ ~(pc["record"] = "wait" /\ dataSaveQueue = << >>))
        ~> (pc["main"] # "joinRecorder" \/ outcome # "running")

\* While the scan goes on every frame delivered is recorded.
FramesRecorded ==
    \A n \in 1 .. Frames :
        (delivered = n /\ pc["record"] # "none") ~>
            (Len(written) >= n * Channels \/ pc["main"] # "sleep" \/ outcome # "running")
=============================================================================
