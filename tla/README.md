# A verification development for Raspi2USBL

Raspi2USBL runs on a Raspberry Pi and locates an underwater source: a DAQ
device samples a hydrophone array after each ping, a DSP thread estimates time
of flight (TOF) and direction of arrival (DOA), and other threads save the
results, send the samples to a TCP client and control the gain of the receiving
amplifier. This directory holds TLA+ modules of the parts of the program that
are hard to test, TLC configurations that check them, and proofs of their main
properties. Paths below are relative to the root of the repository.

Contents: [inventory](#1-inventory), [modules](#2-modules),
[runs](#3-what-the-runs-check), [assumptions](#4-what-is-assumed),
[disagreements found](#5-disagreements-with-comments-and-configuration),
[proofs](#6-proofs), [what is left out](#7-what-is-not-modelled),
[plan](#8-plan).

## 1. Inventory

| Component | State | Operations | Correct when |
|---|---|---|---|
| Inter-thread queue, `tool/SafeQueue.hpp` | a `std::queue`, a mutex, a condition variable | `push`, `wait_and_pop`, `try_pop`, `size`, `Is_empty` | operations are atomic and no waiting consumer is forgotten |
| Acquisition, `daq/ai/aiScanWithTrigger.cpp` | two pointers to sample buffers, the scan of the device, three output queues | `dataAcquisition`, the callback `eventRecoverySampling`, the destructor | the device writes to live memory only; every frame is delivered whole, once, in order; the next ping finds the device armed |
| DSP thread, `dsp/thread_dsp.cpp` | the current frame and its results, six output queues | `dspProcess` | each frame gives one result of each kind |
| Signal processing, `dsp/signalProcess.cpp` | five status flags, input, results, gain | `updateInputSignal`, `calculateTOF`, `calculateDOA`, `updateACG`, getters, `resetFlag` | methods are called in an order the flags allow: any other ends the program |
| Result saver, `fileio/thread_savefile.cpp` | five queues, five files | `creatThread_saveProcessResult`, `saveProcessResult` | row *i* of every file is frame *i* |
| TCP sender, `dataio/thread_tcpComm.cpp` | stop flag, missed heartbeats, time of the last heartbeat | `sendData`, `waitForHeartbeatResponse`, `stopThread` | live clients are served, dead ones given up, old frames never sent |
| TCP server, `dataio/tcpServer.cpp` | sockets, `connection_open`, `conn_mutex` | `acceptClient`, `sendVector`, `closeConnection` | one client at a time, no socket lost |
| AGC thread, `dsp/thread_agc.cpp`, over `dataio/serialDriver.cpp` | the gain being sent | `processAGC`, `sendDACCommand` | the DAC is where the DSP thread reckons it is |
| Analog input saver, `fileio/thread_savefile.cpp` | a flag, a queue, a file | `setDAQAIFile`, `creatThread_saveDAQAIData`, `saveDAQAIData`, the destructor | the recording holds every frame, whole and in order |
| Main, `main.cpp` | the queues and thread objects | the receive and the transmit case, constructors and destructors | nothing is used after it is destroyed; every thread is started, and ended |
| Analog output, `daq/ao/`, and signal generation, `daq/signalGenerator.cpp` | one buffer, one scan | `generateSignal`, `analogOutput` | the buffer lives as long as the device plays it |
| TOF, DOA, `dsp/tof.cpp`, `dsp/doa.cpp`, `dsp/signalBase.h` | none between frames | correlation, beamforming | index arithmetic stays within the signals |
| Packets, `dataio/thread_tcpComm.cpp:237-323`, and sentences, `dataio/dataverify.cpp` | none | `serialize`, `deserialize`, `addCheckSum`, `verifyCheckSum` | decoding inverts encoding; a wrong character, unless it is a `*`, is noticed |
| Configuration, `config/`, `core/systeminfo.h` | the `SystemInfo` struct | `open`, `loadConfig`, once | what is constructed afterwards finds its parameters set |

**Interaction.** Threads share data only through `Safe_Queue`s created in
`main`. The callback of the acquisition, which runs in the event thread of the
uldaq library, pushes each frame to `dataQueue` (to the DSP thread),
`dataSaveQueue` (to the analog input saver, if there is one) and `dataSendQueue`
(to the TCP sender). The DSP thread pushes to five queues which one saver thread
empties, and to `agcQueue`, which the AGC thread empties. The main thread sleeps
while the scan is on and then destroys everything.

**What is hard here.** The callback frees and allocates buffers while the device
writes and the main thread may stop the scan. The saver looks at its queues in
another order than the DSP thread fills them, and takes from some with a
blocking call and from others without. The TCP sender meets clients that stall,
vanish, answer late or not at all, and its one blocking call on the frame queue
knows nothing of the stop flag. The saver of the samples has the same weakness,
and the destructors at the end of `main` wait for both. The serial line may lose commands or echo late.
Nothing of this is covered by a test: the repository has none. `PROJECT.json`
lists the hazards line by line.

## 2. Modules

| Module | Models | Steps |
|---|---|---|
| `Fifo` | what `Safe_Queue` promises (abstract) | call, effect, return of each operation |
| `SafeQueue` | `tool/SafeQueue.hpp` | sections between two points at which another thread may see a difference; spurious wakeups; refines `Fifo` |
| `ResultPipeline` | `dspProcess`, `SignalProcess`'s protocol, `saveProcessResult` | one statement of the loops |
| `TcpSender` | `sendData`, `waitForHeartbeatResponse`, `tcpServer`, the socket, the client | one blocking call or decision |
| `Agc` | `updateACG`'s gain, `processAGC`, serial line and DAC | one queue or serial operation |
| `Delivery` | what the acquisition promises the threads behind it (abstract) | a frame is completed, fed to a queue; the acquisition is closed |
| `Acquisition` | `dataAcquisition`, `eventRecoverySampling`, destructor, device | one library call, one step of the callback; refines `Delivery` |
| `Program` | `main` from the configuration to the destructors, both modes; the recorder in detail, the other threads as rounds over the shared queues | one statement of `main`, of a constructor, of a destructor or of a thread's loop |
| `Estimation` | lengths of signals, matched filter, window of the DOA estimate, columns of the beam pattern | operators |
| `TcpPacket` | `TcpSignalType`: constructor, `serialize`, `deserialize` | operators |
| `Sentence` | `addCheckSum`, `verifyCheckSum`, `calCheckSum` | operators |
| `Operators` | the inputs of the three modules above, and what is promised of the results | a sample, a channel, a character more |
| `SafeQueueProof`, `ResultPipelineProof`, `TcpSenderProof`, `AcquisitionProof`, `AgcProof`, `ProgramProof`, `OperatorsProof` | proofs | |
| `DataLemmas` | lemmas about folds, sums, sequences and the exclusive or, for `OperatorsProof` | |
| `MC...` | instances for TLC | |

`ResultPipeline`, `TcpSender`, `Agc`, `Acquisition` and `Program` treat a queue
operation as one step, and a blocking `wait_and_pop` as a step that is enabled when the
queue has an element. That this is sound is what `SafeQueue` shows, by
refinement: safety by `AtomicQueue` (proved), progress by `AtomicQueueFair`
(checked).

How state corresponds to code: a variable carries the name of the member or
local it stands for (`queue_data`, `receiveGain_`, `missed` for
`missedHeartbeats`, `buffer_` and `buffer` for the two pointers of the
acquisition). `pc`, `dspAt`, `saveAt`, `mainAt` and `callback` are program
counters. In `ResultPipeline` a computed value is the set of frames it was
computed from; `flags` holds the status flags that are set. In `TcpSender` a
frame is `"fresh"` or, once it has been in the queue while an attempt to connect
failed, `"stale"`; time is the flag `beatDue` (5 s since the last heartbeat) and
a timeout is the step taken when the awaited event has not happened. In `Agc`
voltages are millivolts, a command is the voltage it encodes; floating point
rounding is not modelled, the rounding of the command to hundredths is. In
`Acquisition` a frame is written in `Parts`, and a sample is the number of the
trigger it was taken after, so that a frame mixed from two scans can be told
from a whole one. History variables are `completed` (triggers whose scan
completed) and `failed` (a failure in the callback, which the code ignores).

`Program` composes the threads. `pc` gives the next statement of `main` and of
each thread; an uncaught exception, a `std::thread` destroyed while joinable,
`exit` and SIGPIPE end all of them at once (`outcome`). What a thread does inside
a round is left to its own module: of the DSP thread `Program` keeps that a frame
becomes one result and one gain, or an exception; of the sender where it may stop,
hang or end the process, and what it does to its queue. The saver of recorded
samples has no module of its own and is here statement by statement. The three
values of the configuration that `main` branches on are arbitrary until their
section is read, as `SystemInfo` is not initialised.

In `Estimation` samples are integers and the Fourier transforms stand for the
circular convolution their product is. Products of rates and durations, whose
floating point values are truncated in one place and used as loop bounds in
another, are multiples of `1/Unit` sample, so that both roundings can be seen; the
truncation of `m / f * f` may give `m - 1` (`StartIndices`), and the sum of
`theta` may stay below 180 for one more round (`Directions`).

A definition whose name has a suffix
(`Push_MovedFrom`) and whose comment begins with "Mutant" is a wrong variant of
the action after it; it is part of no specification, and shows that the property
it is meant for would notice.

## 3. What the runs check

All runs finish within two minutes. Properties are stated with their comments
at the end of each module.

| Run (cfg) | Bounds | Shows |
|---|---|---|
| `MCSafeQueue` | 2 producers, 2 consumers, 2 values, 2 elements | mutual exclusion (`MutexHeldInside`), `NoLostWakeup`, refinement of `Fifo` with and without fairness. Two sleepers and two elements are what a wrongly conditional `notify_one` needs to lose a wakeup; two values tell a wrong order |
| `MCResultPipeline` | 3 frames, all choices of saved streams | `ProtocolObeyed`, `RowsAligned`, `DroppedKeepUp` (a stream that is dropped with `try_pop` lags a saved one by at most two results), `EveryFrameSaved`. Two frames are needed to mix rows; three let a queue grow past the bound of `DroppedKeepUp` |
| `MCTcpSender` | 3 frames queued, 2 packets unread, any client | `NoSocketLeak`, `NothingStaleSent`, `DrainFindsFrames`, and `SilentClientDropped` under fairness. Frames may arrive at each point of the loop that empties the queue; an answer may lie behind another packet |
| `MCAgc` | range 0-1.004 V, step 0.497 V, 2 gains queued, 1 echo late; losses and failures | `DacFollowsGain`, `GainMovesBySteps`, `GainSettles`. The values hit both limits, whole volts and the hundredths that round to 100 |
| `MCAcquisition` | 3 blocks, 2 parts, 4 triggers; malloc and ulAInScan may fail | `WritesToLiveBlock`, `BufferFullAtEvent` (no uncaught exception in the callback), `FramesFed` (the refinement of `Delivery`: each queue is fed the completed frames whole, once and in order, and no frame is completed before the queues have those before it), `Rearmed`. Three blocks let malloc return the old block, the first one, or a new one; four triggers reuse each |
| `MCProgram` | 2 frames of 2 channels, both modes, 3 sections of the configuration that may be malformed; every file, port, socket and device may be missing | `AliveWhenUsed`, `WaveformLive`, `RecordingWhole`, `NothingSkipped`, `ConfiguredWhenTrue`, `RecorderEnds` (the join of the saver returns unless the saver waits at an empty queue: for that case see `CloseEndsThread` in section 5), `FramesRecorded`. Two frames leave one in the queue when the flag is cleared; two channels let the flag be cleared within a frame. The malformed sections lie before the switch, at its end in the receive case, and in the transmit case |
| `MCOperators` | references up to 3 samples of -1, 0, 1 in frames of 6, two channels, 2 samples of noise; 9 steps of direction; packets of up to 2 channels of 2 samples; sentences of 5 characters | `CorrelationSlides`, `PingFound`, `WindowInside`, `BeamsDistinct`, `PacketRoundTrip`, `SentenceVerified`, `CorruptionDetected`. A frame twice as long as the reference shows every lag and the wrap of a circular convolution; the steps include divisors of 360 units, others, and one above 180 |
| `MCTcpTimeout`, `MCTcpStop`, `MCTcpLoss`, `MCAcquisitionFree`, `MCProgramClose` | as small as the case allows | a violation each, see section 5 |

Deadlock is checked for the queue, where only calls that were never made can be
missing. The other systems may stop: a scan ends, a thread is stopped, an
exception ends the program; what must not stop is stated as liveness.

## 4. What is assumed

*Fairness.* `SafeQueue`: a thread holding the mutex goes on (weak fairness) and
one that keeps asking for it gets it in the end (strong fairness); nobody has to
call, and no spurious wakeup is relied on. `ResultPipeline`: the scheduler runs
each thread that can run; frames need not come. `TcpSender`: the thread runs and
time passes (`Tick`); for `SilentClientDropped` and `ReconnectsAfterLoss` frames
keep coming as well (`FlowingSpec`), since the thread waits for one between two
heartbeats; `StopEndsThread` is checked without that. Clients owe nothing. `Agc`:
frames come, the AGC thread runs, echoes arrive, and of commands sent again and
again the DAC obeys some (strong fairness: a line that loses everything settles
nothing). `Acquisition`: the device and the event thread go on; triggers and the
end of the sleep need not come. `Program`: `main` goes on whenever a join does not
hold it up, and the recorder runs (weak fairness of `MainGoesOn` and `Record`, which
is what a scheduler gives two runnable threads); nobody has to end the sleep,
deliver frames or run the other threads.

*The library and the system.* uldaq runs callbacks one at a time in the order of
the events, the data event of a scan before its end event; stopping a scan
raises its end event; `ulDisableEvent` waits for a running callback;
`ulDisconnectDaqDevice` ends the scan. Locking a `std::mutex` twice in one thread
blocks, as glibc's default mutex does. `send` succeeds once on a socket whose
peer has closed, then reports an error or raises SIGPIPE, which the program does
not ignore. An echo of the DAC is late by at most one command (`MaxLate`), and an
echo and a read are not split. Disconnecting the DAQ device ends a running scan.
`WindowInside` and `WindowFits` need `processDuration` no longer than the reference
and `[Signal] sampleRate` no more than `referenceFrequency`;
`.config/config_pi0.yaml:44-46` asks for equal rates.

## 5. Disagreements with comments and configuration

- `MCTcpTimeout`: `sendVector` calls `closeConnection` with `conn_mutex` held,
  which takes it again (`dataio/tcpServer.cpp:96,127,146`): the thread hangs
  instead of closing the connection. `TimeoutHangs` proves that it never leaves.
- `MCTcpStop`: a connected sender blocked in `wait_and_pop`
  (`dataio/thread_tcpComm.cpp:200`) never sees the stop flag; the destructor
  joins for ever.
- `MCTcpLoss`: only an unanswered heartbeat closes a connection. After a failed
  `send` the loop goes on with the broken socket until SIGPIPE ends the program.
  `LossIsFinal` proves that no client is waited for again.
- `MCProgramClose`: `closeThread_saveDAQAIData` clears a flag that the recorder
  tests only before it waits for a frame (`fileio/thread_savefile.cpp:384,508`).
  When the scan is over and the queue is empty, the join never returns.
  `NeverReturns` proves that no step of any thread ends the wait, `JoinIsShort` that
  there is no other obstacle.
- `MCAcquisitionFree`: the destructor frees the block of the first scan, which
  the callback has freed, and leaks the block of the last.

Seen while modelling, without a run: `minGain` does not limit `receiveGain_`
(`dsp/signalProcess.cpp:131`), and below a positive one, which is not the shipped
value, the AGC thread sends the initial gain instead; data follow a missed heartbeat although the
comment at `dataio/thread_tcpComm.cpp:199` speaks of a successful one;
`creatThread_saveProcessResult` does not check the correlation file (`Init` of
`ResultPipeline` lets it be closed); `dataSaveQueue` grows when analog input is
not saved, and `agcQueue` when AGC is off (`main.cpp:153`); `missedHeartbeats`
survives the connection, so that the next client may be dropped at its first miss
(`dataio/thread_tcpComm.cpp:103`); the receive case cannot return: `main` waits for
the recorder if it waits at an empty queue (`CloseEndsThread`), then for the sender,
and otherwise ends in `std::terminate` at the first `std::thread` it destroys
while joinable (`DestroyThreadOwner`); `main` ignores the result of `loadConfig`;
a character turned into `*` is taken for the end of a sentence, and `$12*3*1E` is
accepted for `$12.3*1E` (`dataio/dataverify.cpp:29`; the exception that
`CorruptionDetected` states);
the vector of the reference is twice as long as `signalLength` says
(`main.cpp:88-91`), which does no harm because `calculateTOF` reverses all of it
(`PingFound`, and its mutant); `analogOutput` stops an input scan
(`daq/ao/aoScanWithTrigger.cpp:165`), and the output ends with the connection
(`WaveformLive`).

## 6. Proofs

All theorems hold for every value of the constants that satisfies the `ASSUME`
of the module; nothing else is assumed.

`SafeQueueProof` (any finite sets of threads, any values): `TypeCorrect`,
`MutualExclusion`, `WakeupsNotLost`, `Linearizable` (`Spec => AtomicQueue`). The
invariant is the conjunction of the types, `MutexHeldInside`, facts tying `op` to
`pc`, and `NoLostWakeup`. The last is a bound between a length and two
cardinalities; the step that needs work is `notify_one`, which moves a thread
from `Asleep` to `Testing` while one leaves `Notifying`, and a `try_pop` or a pop,
which shortens the queue by one as a consumer stops testing. For `Linearizable`,
`push` maps to `Push` at its change of the queue and every other internal step
maps to a stutter.

`ResultPipelineProof` (any number of frames): `TypeCorrect`, `NeverExits`
(`ProtocolObeyed`), `FilesAligned` (`RowsAligned`). `RowsAligned` alone says
nothing of results still on their way. The inductive invariant says of each
stream that file, then queue, then what the DSP thread is about to push are the
frames 1, 2, 3 ... without a gap (`FileThenQueue`, `FramesInOrder`), that what is
computed at a statement comes from the frame taken in this round
(`ComputedFromTaken`), and which flags are set there (`FlagsFollow`).

`TcpSenderProof` (any bounds, any client): `TypeCorrect`, `SocketsNotLeaked`,
`StaleFramesNotSent`, `DrainingFindsFrames`, `TimeoutHangs`, `LossIsFinal`. The inductive
invariant adds that stale frames form a prefix of the queue no longer than
`toDrain` while it is emptied and that there are none elsewhere, that the mutex
is held exactly within `sendVector`, and that the thread waits for a client only
with the connection closed.

`DroppedStreamsKeepUp` in `ResultPipelineProof` bounds, from the statement each
thread is at, how far a dropped stream is behind a saved one (`KeepsUp`).
`NoResultStranded` is the part of `EveryFrameSaved` that is no matter of fairness:
when the DSP thread waits for a frame and the saver for a result, every open file
has all that arrived. The saver adds one record to each open file in a round
(`RoundsAgree`), so the files it has passed are one ahead of the one it waits for,
which has everything.

`AcquisitionProof` (any blocks, parts and triggers, any failures): `TypeCorrect`,
`WritesLive`, `BufferFull`, `FramesWhole` (`Spec => FramesFed`), `NextScanIsNear`.
The invariant describes the cycle of
scan, events and callback: which of them may be under way at once (`Cycle`), that
the buffer the device and the callback refer to is live (`BufferLive`), that a
buffer holds exactly the parts written since the trigger (`SamplesInPlace`), and
what each queue still lacks of the completed frames (`QueuesFilled`). For the
refinement the completed triggers must also be known to grow, and to be no later
than the current one (`Ordered`). The write that fills a buffer maps to `Complete`, a
push of the callback to `Feed`, `DisableEvent` to `Close`; all other steps, the
failing `malloc` and `ulAInScan` among them, stutter. `NextScanIsNear` is the part of `Rearmed` that is no
matter of fairness: while the main thread sleeps and nothing has failed, the next
scan is on or at most nine steps of the event thread away (`Rearming`), no step of
another thread moves it away and each of the event thread brings it nearer
(`Nearer`). What is left for TLC is that the event thread can take its step, and
does.

`AgcProof`: `TypeCorrect` for any constants; `DacFollows` and `MovesBySteps` for
`gainMin = 0` and `MaxLate <= 1`. Neither can be dropped: with a positive minimum a
gain below it is replaced by the initial one (section 5), and with two late echoes
a wrong one can be taken for the right one. The gains on their way differ by at
most a step each (`GainsInSteps`); the last echo, on the line or just read, is that
of the command the DAC obeyed last, and after an echo that matched the DAC is at
the command (`LineInv`, `Confirmed`).

`ProgramProof` (any frames, channels and malformed sections): `TypeCorrect`,
`ObjectsOutliveThreads`, `WaveformOutlivesScan`, `ParametersSet`,
`NothingIsSkipped`, `RecordingComplete`, `NeverReturns`, `JoinIsShort`. `AliveInv` says what lives where `main` is,
and which threads are joined there; `PlayInv` ties the device to the waveform;
`ConfigInv` says that a loaded configuration contains every section of its mode
and that `main` is in the branch of that mode; `RecordInv` says that file, frame in
hand and queue are together the frames delivered, in order: `NothingSkipped` and,
for a file that was closed, `RecordingWhole` both follow. `JoinIsShort` is the part
of `RecorderEnds` that is no matter of fairness: while `main` joins the recorder,
which is not stuck on an empty queue, the recorder has at most `Channels + 2` steps
left, nothing gets it stuck and each of its steps brings the end nearer.

`OperatorsProof` (any bounds on the inputs, any alphabet of 7-bit characters without NUL and
`*`): one theorem for each property of the run `MCOperators`, that is for inputs of
any length. `Inputs`, the invariant of `Operators`, says what the inputs are;
everything else is about the operators.

- `FilterSlides`, `PingIsFound`: an entry of the circular convolution of the padded
  signals is a sum whose terms outside the overlap are zero; reindexed it is the sliding
  inner product. That a ping is found where it is follows from `2ab <= a^2 + b^2`,
  summed over the reference and a shifted copy of it, and that one of these
  inequalities is strict (`Overlap`).
- `WindowIsInside`, `BeamsAreDistinct`, with `WindowFits` and `BeamColumns`, which
  state the same of any numbers: lemmas about truncated division.
- `PacketsRoundTrip`: the buffer written is a concatenation of rows of equal
  length, row after row; reading takes the same parts out of it again.
- `SentencesAreVerified`, `CorruptionIsDetected`: the exclusive or of bytes is their
  sum bit by bit modulo 2 (`Xor` is defined so), two hexadecimal digits are read back
  as the byte they were made from, and changing one character changes the checksum. A
  NUL ends the string before its checksum; a `*` is the exception of section 5.

What a fold computes for every input needs induction over data, whose library
theorems take the property as an operator and are out of the provers' reach.
`DataLemmas` states induction with the property as a set: if a set of naturals
contains 0 and, with a number, the next one, it is `Nat`. The lemmas about folds
(`FoldLeft`, `SumFunction`, `FlattenSeq`) are proved with the set of those lengths at
which they hold.

Only model-checked: liveness under fairness (`AtomicQueueFair`, `EveryFrameSaved`,
`SilentClientDropped`, `GainSettles`, `RecorderEnds`, `FramesRecorded`, `Rearmed`),
which needs `ENABLED` and is out of the prover's reach, and the five violations of
section 5 except for what `TimeoutHangs`, `LossIsFinal` and `NeverReturns` prove of them. Every other property of a run
is a theorem.

## 7. What is not modelled

The numbers of the signal processing (floating point waveforms, phases, the beam
pattern's values); formats of files and messages; the values of the configuration
that no branch of `main` depends on; `thread_dataio`, `posResSender` and the savers
of single streams, which `main` does not use; `bind`, whose failure `main` does not
notice (one sequential path); the acquisition built without
`_DAQAI_MCC1608FSPLUS_` (the device re-arms itself, the callback allocates nothing)
and its error event, which only prints; the Eigen variants of `calculateTOF` and
`dataTrim`. `thirdparty/` is not the program's own code, and is most of the
repository.

## 8. Plan

In the order of importance; 1 to 8 are done.

1. `Fifo`, `SafeQueue`, with proofs: every other module relies on it.
2. `ResultPipeline`, with proofs.
3. `TcpSender`, with proofs.
4. `Acquisition`, with proofs.
5. `Agc`, with proofs.
6. `Program`: configuration, construction, the threads over shared queues, the
   destructors, the transmit mode; with proofs.
7. Pure operators with reference definitions: `Estimation`, `TcpPacket`,
   `Sentence`; with proofs of all that `Operators` states of them.
8. `DroppedKeepUp`, proved; `Acquisition` shown to implement `Delivery`.
9. The acquisition built for a device that re-arms itself (SO_RETRIGGER).
10. `Acquisition` and `Program` related by a refinement: `Deliver` as the push of
    the callback.
11. For the liveness properties, what is no matter of fairness: done for `Rearmed`,
    `EveryFrameSaved` and `RecorderEnds`; left are `SilentClientDropped`,
    `GainSettles` and `FramesRecorded`.
