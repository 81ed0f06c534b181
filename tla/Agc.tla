--------------------------------- MODULE Agc ---------------------------------
(***************************************************************************)
(* Adaptive gain control: the DSP thread moves the gain by one step per    *)
(* frame and pushes it (SignalProcess::updateACG, dsp/signalProcess.cpp);  *)
(* the AGC thread takes each gain and sends it to the DAC over a serial    *)
(* line (dsp/thread_agc.cpp, dataio/serialDriver.cpp); the DAC echoes the  *)
(* commands it obeys (README.md, "AGC").                                   *)
(*                                                                         *)
(* Voltages are in millivolts; a command carries hundredths of a volt.     *)
(***************************************************************************)
EXTENDS Integers, Sequences

CONSTANTS
    gainMin, gainMax, gainStep, initGainValue,   \* the AGC section of the config
    Faults,     \* what may go wrong: a subset of {"port", "loss", "late"}
    MaxQueue,   \* bound of the model: gains waiting for the AGC thread
    MaxLate     \* echoes still under way when the next command is sent

ASSUME AgcAssumption ==
    /\ gainMin \in Nat /\ gainMax \in Nat /\ gainMin <= gainMax
    /\ gainStep \in Nat \ {0}
    /\ initGainValue \in gainMin .. gainMax
    /\ Faults \subseteq {"port", "loss", "late"}
    /\ MaxQueue \in Nat /\ MaxLate \in Nat

VARIABLES
    power,        \* the correlation peaks lie below, within or above
                  \* [minPower_, maxPower_]
    receiveGain_, \* SignalProcess::receiveGain_
    agcQueue,     \* gains on their way to the AGC thread
    pc,           \* where processAGC is
    gainValue_,   \* the gain processAGC is sending
    echoed,       \* sendDACCommand returned true (its callers ignore it)
    toDac,        \* the command on the line, if any
    toHost,       \* echoes on the line
    received,     \* echoes in the kernel's input buffer
    dac           \* the DAC's output; Unset until the first command

Unset == -1

line == <<toDac, toHost, received, dac>>
thread == <<pc, gainValue_, echoed>>
vars == <<power, receiveGain_, agcQueue, thread, line>>

Init ==
    /\ power \in {"low", "ok", "high"}
    /\ receiveGain_ = initGainValue
    /\ agcQueue = << >>
    /\ pc = "send" /\ gainValue_ = initGainValue /\ echoed = FALSE
    /\ toDac = << >> /\ toHost = << >> /\ received = << >>
    /\ dac = Unset

-----------------------------------------------------------------------------
(* The DSP thread, once per frame. *)

\* Mutant: no upper limit.
Limited_BelowOnly(g) == IF g <= 0 THEN 0 ELSE g

\* minGainValue plays no part here: the lower limit is 0.
Limited(g) == IF g <= 0 THEN 0 ELSE IF g >= gainMax THEN gainMax ELSE g

\* Mutant: only a gain that has changed is sent.
UpdateACG_OnChange ==
    /\ pc # "terminated"
    /\ Len(agcQueue) < MaxQueue
    /\ receiveGain_' = Limited(CASE power = "high" -> receiveGain_ - gainStep
                                 [] power = "low" -> receiveGain_ + gainStep
                                 [] power = "ok" -> receiveGain_)
    /\ agcQueue' = IF receiveGain_' = receiveGain_ THEN agcQueue
                   ELSE Append(agcQueue, receiveGain_')
    /\ UNCHANGED <<power, thread, line>>

\* updateACG changes the gain and dspProcess pushes it some statements later: one
\* step, since no other thread sees receiveGain_.
UpdateACG ==
    /\ pc # "terminated"
    /\ Len(agcQueue) < MaxQueue
    /\ receiveGain_' = Limited(CASE power = "high" -> receiveGain_ - gainStep
                                 [] power = "low" -> receiveGain_ + gainStep
                                 [] power = "ok" -> receiveGain_)
    /\ agcQueue' = Append(agcQueue, receiveGain_')
    /\ UNCHANGED <<power, thread, line>>

\* The source moves: the signal gets stronger or weaker.
PowerChanges ==
    /\ power' \in {"low", "ok", "high"} \ {power}
    /\ UNCHANGED <<receiveGain_, agcQueue, thread, line>>

-----------------------------------------------------------------------------
(* The AGC thread. *)

checkVoltageValue(v) == v >= gainMin /\ v <= gainMax

\* Whole volts and hundredths, rounded half up and then cut off at 99.
creatDACCommand(v) ==
    IF checkVoltageValue(v)
    THEN LET hundredths == ((v % 1000) + 5) \div 10
         IN  1000 * (v \div 1000)
               + 10 * (IF hundredths >= 100 THEN 99 ELSE hundredths)
    ELSE 0

\* Mutant: the newest gain is taken and the older ones are skipped.
TakeGain_Newest ==
    /\ pc = "wait"
    /\ agcQueue # << >>
    /\ agcQueue' = << >>
    /\ gainValue_' = agcQueue[Len(agcQueue)]
    /\ pc' = "send"
    /\ UNCHANGED <<power, receiveGain_, echoed, line>>

\* A gain out of range is replaced by the initial one.
TakeGain ==
    /\ pc = "wait"
    /\ agcQueue # << >>
    /\ agcQueue' = Tail(agcQueue)
    /\ gainValue_' = IF checkVoltageValue(Head(agcQueue)) THEN Head(agcQueue)
                                                          ELSE initGainValue
    /\ pc' = "send"
    /\ UNCHANGED <<power, receiveGain_, echoed, line>>

\* Mutant: the serial port is not flushed.
SendCommand_NoFlush ==
    /\ pc = "send"
    /\ Len(toHost) <= MaxLate
    /\ toDac' = <<creatDACCommand(gainValue_)>>
    /\ pc' = "sleep"
    /\ UNCHANGED <<power, receiveGain_, agcQueue, gainValue_, echoed, toHost,
                   received, dac>>

\* flush discards what was received and what was not yet sent.
SendCommand ==
    /\ pc = "send"
    /\ Len(toHost) <= MaxLate
    /\ received' = << >>
    /\ toDac' = <<creatDACCommand(gainValue_)>>
    /\ pc' = "sleep"
    /\ UNCHANGED <<power, receiveGain_, agcQueue, gainValue_, echoed, toHost, dac>>

\* writeByte throws, at once or after five retries, and nothing catches it.
WriteFails ==
    /\ "port" \in Faults
    /\ pc = "send"
    /\ pc' = "terminated"
    /\ UNCHANGED <<power, receiveGain_, agcQueue, gainValue_, echoed, line>>

\* After 10 ms, enough for the echo unless it is late, read whatever is there.
ReadEcho ==
    /\ pc = "sleep"
    /\ "late" \in Faults \/ (toDac = << >> /\ toHost = << >>)
    /\ echoed' = (received = <<creatDACCommand(gainValue_)>>)
    /\ received' = << >>
    /\ pc' = "wait"
    /\ UNCHANGED <<power, receiveGain_, agcQueue, gainValue_, toDac, toHost, dac>>

\* readBytes throws when the echo is read, and nothing catches it.
ReadFails ==
    /\ "port" \in Faults
    /\ pc = "sleep"
    /\ pc' = "terminated"
    /\ UNCHANGED <<power, receiveGain_, agcQueue, gainValue_, echoed, line>>

ProcessAGC == TakeGain \/ SendCommand \/ WriteFails \/ ReadEcho \/ ReadFails

-----------------------------------------------------------------------------
(* The serial line and the DAC. *)

DacObeys ==
    /\ toDac # << >>
    /\ dac' = Head(toDac)
    /\ toHost' = Append(toHost, Head(toDac))
    /\ toDac' = << >>
    /\ UNCHANGED <<power, receiveGain_, agcQueue, thread, received>>

CommandLost ==
    /\ "loss" \in Faults
    /\ toDac # << >>
    /\ toDac' = << >>
    /\ UNCHANGED <<power, receiveGain_, agcQueue, thread, toHost, received, dac>>

EchoArrives ==
    /\ toHost # << >>
    /\ received' = Append(received, Head(toHost))
    /\ toHost' = Tail(toHost)
    /\ UNCHANGED <<power, receiveGain_, agcQueue, thread, toDac, dac>>

-----------------------------------------------------------------------------
Next ==
    \/ PowerChanges \/ UpdateACG \/ ProcessAGC
    \/ DacObeys \/ CommandLost \/ EchoArrives

Spec == Init /\ [][Next]_vars

\* Frames keep coming, the AGC thread runs when it can, the line delivers, and
\* of the commands sent again and again some get through.
Fairness ==
    /\ WF_vars(UpdateACG)
    /\ WF_vars(TakeGain) /\ WF_vars(SendCommand) /\ WF_vars(ReadEcho)
    /\ SF_vars(DacObeys) /\ WF_vars(EchoArrives)

FairSpec == Spec /\ Fairness

-----------------------------------------------------------------------------
\* The types; the gain DSP reckons with never leaves 0 .. gainMax, and the AGC
\* thread never sends one outside the configured range.
TypeOK ==
    /\ power \in {"low", "ok", "high"}
    /\ receiveGain_ \in 0 .. gainMax
    /\ agcQueue \in Seq(0 .. gainMax)
    /\ pc \in {"send", "sleep", "wait", "terminated"}
    /\ gainValue_ \in gainMin .. gainMax
    /\ echoed \in BOOLEAN
    /\ toDac \in Seq(Nat) /\ toHost \in Seq(Nat) /\ received \in Seq(Nat)
    /\ dac \in Nat \cup {Unset}

Distance(a, b) == IF a < b THEN b - a ELSE a - b

\* The most a command differs from the gain it was made from: 9 mV, when the
\* hundredths are cut off at 99.
Rounding == 9

\* Once the AGC thread has caught up and its last command was echoed, the DAC
\* is at the gain the DSP thread reckons with, whatever commands and echoes
\* were lost or late before.  (With a minimum gain of 0, as in
\* .config/config_pi0.yaml: a gain below a positive one is not sent.)
DacFollowsGain ==
    pc = "wait" /\ agcQueue = << >> /\ echoed
        => Distance(dac, receiveGain_) <= Rounding

\* The amplifier never sees the gain jump: after a command that was echoed the
\* next one moves the DAC by one step at most, up to rounding.
GainMovesBySteps ==
    [][dac # Unset /\ echoed => Distance(dac', dac) <= gainStep + 2 * Rounding]_dac

\* A signal that stays weak ends at the maximal gain and one that stays strong
\* at the minimal one: the DAC gets there and stays there, in spite of commands
\* lost on the way, because every frame sends the gain again; unless the serial
\* port failed and ended the program.
GainSettles ==
    \/ <>(pc = "terminated")
    \/ /\ <>[](power = "low") => <>[](Distance(dac, gainMax) <= Rounding)
       /\ <>[](power = "high") => <>[](Distance(dac, gainMin) <= Rounding)

=============================================================================
