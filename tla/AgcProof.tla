------------------------------ MODULE AgcProof ------------------------------
(***************************************************************************)
(* Proofs about module Agc, for any limits, step and initial gain, with    *)
(* any faults and any number of gains waiting.                             *)
(***************************************************************************)
EXTENDS Agc, SequenceTheorems, TLAPS

LEMMA TailOf ==
  ASSUME NEW S, NEW q \in Seq(S), q # << >>
  PROVE  /\ Len(q) \in Nat \ {0} /\ Head(q) = q[1] /\ q[1] \in S
         /\ Tail(q) \in Seq(S) /\ Len(Tail(q)) = Len(q) - 1
         /\ \A i \in 1 .. Len(q) - 1 : Tail(q)[i] = q[i + 1]
         /\ Tail(q) = << >> <=> Len(q) = 1
<1>1. Len(q) \in Nat \ {0} /\ Head(q) = q[1] /\ q[1] \in S
  BY EmptySeq
<1>2. Tail(q) \in Seq(S) /\ Len(Tail(q)) = Len(q) - 1
  BY HeadTailProperties
<1>3. \A i \in 1 .. Len(q) - 1 : Tail(q)[i] = q[i + 1]
  BY <1>2, HeadTailProperties
<1>4. Tail(q) = << >> <=> Len(Tail(q)) = 0
  BY <1>2, EmptySeq
<1>5. QED
  BY <1>1, <1>2, <1>3, <1>4

\* A command differs from its gain by 9 mV at most.
LEMMA CommandRounds ==
  ASSUME NEW v \in gainMin .. gainMax
  PROVE  creatDACCommand(v) \in Nat /\ Distance(creatDACCommand(v), v) <= Rounding
<1> DEFINE r == v % 1000  h == (r + 5) \div 10
<1>1. v \in Nat /\ checkVoltageValue(v)
  BY AgcAssumption DEF checkVoltageValue
<1>2. r \in 0 .. 999 /\ v \div 1000 \in Nat /\ v = 1000 * (v \div 1000) + r
  BY <1>1
<1>3. h \in 0 .. 100 /\ 10 * h <= r + 5 /\ r + 5 < 10 * h + 10
  BY <1>2
<1>4. creatDACCommand(v) = 1000 * (v \div 1000) + 10 * (IF h >= 100 THEN 99 ELSE h)
  BY <1>1 DEF creatDACCommand
<1> HIDE DEF r, h
<1>5. QED
  BY <1>2, <1>3, <1>4 DEF Distance, Rounding

\* A gain that is limited stays between 0 and the maximum.
LEMMA LimitedType ==
  ASSUME NEW g \in Int
  PROVE  Limited(g) \in 0 .. gainMax
BY AgcAssumption DEF Limited

----------------------------------------------------------------------------
(* Types.                                                                  *)

LEMMA TypeInit == Init => TypeOK
<1> SUFFICES ASSUME Init PROVE TypeOK
  OBVIOUS
<1>1. initGainValue \in gainMin .. gainMax /\ initGainValue \in 0 .. gainMax
  BY AgcAssumption
<1>2. agcQueue \in Seq(0 .. gainMax) /\ toDac \in Seq(Nat) /\ toHost \in Seq(Nat) /\ received \in Seq(Nat)
  BY EmptySeq DEF Init
<1>3. receiveGain_ \in 0 .. gainMax /\ gainValue_ \in gainMin .. gainMax /\ dac \in Nat \cup {Unset}
  BY <1>1 DEF Init
<1>4. power \in {"low", "ok", "high"} /\ pc \in {"send", "sleep", "wait", "terminated"} /\ echoed \in BOOLEAN
  BY DEF Init
<1>5. QED
  BY <1>2, <1>3, <1>4 DEF TypeOK

LEMMA TypeStep == TypeOK /\ [Next]_vars => TypeOK'
<1> SUFFICES ASSUME TypeOK, [Next]_vars PROVE TypeOK'
  OBVIOUS
<1> USE AgcAssumption DEF TypeOK, thread, line
<1>1. CASE PowerChanges
  BY <1>1 DEF PowerChanges
<1>2. CASE UpdateACG
  <2>1. receiveGain_' \in 0 .. gainMax
    BY <1>2, LimitedType DEF UpdateACG
  <2>2. QED
    BY <1>2, <2>1 DEF UpdateACG
<1>3. CASE TakeGain
  BY <1>3 DEF TakeGain, checkVoltageValue
<1>4. CASE SendCommand
  <2>1. toDac' \in Seq(Nat)
    BY <1>4, CommandRounds DEF SendCommand
  <2>2. QED
    BY <1>4, <2>1 DEF SendCommand
<1>5. CASE WriteFails \/ ReadFails
  BY <1>5 DEF WriteFails, ReadFails
<1>6. CASE ReadEcho
  BY <1>6 DEF ReadEcho
<1>7. CASE DacObeys
  BY <1>7 DEF DacObeys
<1>8. CASE CommandLost
  BY <1>8 DEF CommandLost
<1>9. CASE EchoArrives
  BY <1>9 DEF EchoArrives
<1>10. CASE UNCHANGED vars
  BY <1>10 DEF vars
<1>11. QED
  BY <1>1, <1>2, <1>3, <1>4, <1>5, <1>6, <1>7, <1>8, <1>9, <1>10 DEF Next, ProcessAGC

\* The variables keep their types (TypeOK): the gain the DSP thread reckons with
\* never leaves 0 .. gainMax (SignalProcess::updateACG), and no gain outside the
\* configured range is sent (ThreadAGC::processAGC).
THEOREM TypeCorrect == Spec => []TypeOK
BY TypeInit, TypeStep, PTL DEF Spec

----------------------------------------------------------------------------
(* The gains on their way: each is one step from the one before it.        *)

GainsInSteps ==
    /\ agcQueue # << >> => Distance(agcQueue[1], gainValue_) <= gainStep
    /\ \A i \in 1 .. Len(agcQueue) - 1 : Distance(agcQueue[i + 1], agcQueue[i]) <= gainStep
    /\ receiveGain_ = IF agcQueue = << >> THEN gainValue_ ELSE agcQueue[Len(agcQueue)]

LEMMA StepLimited ==
  ASSUME NEW g \in 0 .. gainMax, NEW h \in {g - gainStep, g + gainStep, g}
  PROVE  Distance(Limited(h), g) <= gainStep
BY AgcAssumption DEF Limited, Distance

LEMMA GainsStep ==
  ASSUME gainMin = 0, TypeOK, GainsInSteps, [Next]_vars
  PROVE  GainsInSteps'
<1> USE DEF TypeOK, GainsInSteps, thread, line
<1>1. CASE PowerChanges
  BY <1>1 DEF PowerChanges
<1>2. CASE UpdateACG
  <2> DEFINE h == CASE power = "high" -> receiveGain_ - gainStep
                    [] power = "low" -> receiveGain_ + gainStep
                    [] power = "ok" -> receiveGain_
  <2>1. h \in {receiveGain_ - gainStep, receiveGain_ + gainStep, receiveGain_} /\ h \in Int
    <3>1. power \in {"low", "ok", "high"} /\ receiveGain_ \in Int /\ gainStep \in Int
      BY AgcAssumption
    <3> HIDE DEF TypeOK, GainsInSteps
    <3>2. h = receiveGain_ - gainStep \/ h = receiveGain_ + gainStep \/ h = receiveGain_
      BY <3>1
    <3>3. QED
      BY <3>1, <3>2
  <2>2. receiveGain_' = Limited(h) /\ agcQueue' = Append(agcQueue, receiveGain_') /\ gainValue_' = gainValue_
    BY <1>2 DEF UpdateACG
  <2> HIDE DEF h
  <2>3. Distance(receiveGain_', receiveGain_) <= gainStep /\ receiveGain_' \in 0 .. gainMax
    BY <2>1, <2>2, StepLimited, LimitedType
  <2>4. /\ Len(agcQueue') = Len(agcQueue) + 1 /\ agcQueue' # << >>
        /\ agcQueue'[Len(agcQueue) + 1] = receiveGain_'
        /\ \A i \in 1 .. Len(agcQueue) : agcQueue'[i] = agcQueue[i]
    BY <2>2, <2>3
  <2>5. Distance(agcQueue'[1], gainValue_') <= gainStep
    BY <2>2, <2>3, <2>4
  <2>6. ASSUME NEW i \in 1 .. Len(agcQueue') - 1
        PROVE  Distance(agcQueue'[i + 1], agcQueue'[i]) <= gainStep
    <3>1. CASE i \in 1 .. Len(agcQueue) - 1
      BY <3>1, <2>4
    <3>2. CASE i = Len(agcQueue)
      BY <3>2, <2>3, <2>4
    <3>3. QED
      BY <3>1, <3>2, <2>4
  <2>7. QED
    BY <2>4, <2>5, <2>6
<1>3. CASE TakeGain
  <2>1. agcQueue # << >> /\ agcQueue' = Tail(agcQueue) /\ receiveGain_' = receiveGain_
    BY <1>3 DEF TakeGain
  <2>2. Head(agcQueue) = agcQueue[1] /\ agcQueue[1] \in 0 .. gainMax /\ Len(agcQueue) \in Nat \ {0}
    BY <2>1, TailOf
  <2>3. gainValue_' = agcQueue[1]
    BY <1>3, <2>2, AgcAssumption DEF TakeGain, checkVoltageValue
  <2>4. /\ Len(agcQueue') = Len(agcQueue) - 1
        /\ \A i \in 1 .. Len(agcQueue) - 1 : agcQueue'[i] = agcQueue[i + 1]
        /\ agcQueue' = << >> <=> Len(agcQueue) = 1
    BY <2>1, TailOf
  <2>5. agcQueue' # << >> => Distance(agcQueue'[1], gainValue_') <= gainStep
    BY <2>2, <2>3, <2>4
  <2>6. ASSUME NEW i \in 1 .. Len(agcQueue') - 1
        PROVE  Distance(agcQueue'[i + 1], agcQueue'[i]) <= gainStep
    <3>1. agcQueue'[i] = agcQueue[i + 1] /\ agcQueue'[i + 1] = agcQueue[(i + 1) + 1]
      BY <2>2, <2>4
    <3>2. i + 1 \in 1 .. Len(agcQueue) - 1
      BY <2>2, <2>4
    <3>3. QED
      BY <3>1, <3>2
  <2>7. receiveGain_' = IF agcQueue' = << >> THEN gainValue_' ELSE agcQueue'[Len(agcQueue')]
    BY <2>1, <2>2, <2>3, <2>4
  <2>8. QED
    BY <2>5, <2>6, <2>7
<1>4. CASE SendCommand \/ WriteFails \/ ReadFails \/ ReadEcho
  BY <1>4 DEF SendCommand, WriteFails, ReadFails, ReadEcho
<1>5. CASE DacObeys \/ CommandLost \/ EchoArrives
  BY <1>5 DEF DacObeys, CommandLost, EchoArrives
<1>6. CASE UNCHANGED vars
  BY <1>6 DEF vars
<1>7. QED
  BY <1>1, <1>2, <1>3, <1>4, <1>5, <1>6 DEF Next, ProcessAGC

LEMMA GainsInit == Init => GainsInSteps
BY DEF Init, GainsInSteps

----------------------------------------------------------------------------
(* The line.  With at most one echo late when a command is sent, an echo   *)
(* read alone is the echo of the command the DAC obeyed last.              *)

command == creatDACCommand(gainValue_)

LineInv ==
    /\ toHost # << >> => toHost[Len(toHost)] = dac
    /\ toHost = << >> /\ received # << >> => received[Len(received)] = dac
    /\ toDac = << >> \/ Len(toDac) = 1
    /\ pc \in {"sleep", "wait"} /\ toDac # << >> => toDac = <<command>>
    /\ pc = "sleep" =>
          /\ toDac # << >> => Len(received) + Len(toHost) <= 1
          /\ Len(received) + Len(toHost) = 2 => dac = command
          /\ Len(received) + Len(toHost) <= 2
    /\ pc = "wait" /\ echoed => dac = command

LEMMA LineInit == Init => LineInv
BY DEF Init, LineInv

LEMMA LineStep ==
  ASSUME MaxLate <= 1, TypeOK, LineInv, [Next]_vars
  PROVE  LineInv'
<1> USE DEF command, thread, line
<1>0. MaxLate \in Nat
  BY AgcAssumption
<1>1. CASE PowerChanges \/ UpdateACG
  BY <1>1 DEF PowerChanges, UpdateACG, LineInv
<1>2. CASE TakeGain
  BY <1>2 DEF TakeGain, LineInv
<1>3. CASE SendCommand
  <2>1. pc' = "sleep" /\ received' = << >> /\ toHost' = toHost /\ toDac' = <<command>> /\ dac' = dac
    BY <1>3 DEF SendCommand
  <2>2. command' = command
    BY <1>3 DEF SendCommand
  <2>3. Len(toHost) \in Nat /\ Len(toHost) <= 1 /\ Len(received') = 0
    BY <1>0, <1>3, <2>1 DEF SendCommand, TypeOK
  <2>4. Len(received') + Len(toHost') <= 1
    BY <2>1, <2>3
  <2>5. Len(toDac') = 1 /\ toDac' = <<command'>>
    BY <2>1, <2>2
  <2>6. (toHost # << >> => toHost[Len(toHost)] = dac)'
    BY <2>1 DEF LineInv
  <2> HIDE DEF command
  <2>7. Len(received') + Len(toHost') # 2
    BY <2>1, <2>3
  <2>8. QED
    BY <2>1, <2>3, <2>4, <2>5, <2>6, <2>7 DEF LineInv
<1>4. CASE WriteFails \/ ReadFails
  BY <1>4 DEF WriteFails, ReadFails, LineInv
<1>5. CASE ReadEcho
  <2>1. /\ pc = "sleep" /\ pc' = "wait" /\ received' = << >>
        /\ UNCHANGED <<toDac, toHost, dac, gainValue_>>
        /\ echoed' = (received = <<command>>)
    BY <1>5 DEF ReadEcho
  <2>2. command' = command
    BY <2>1
  <2>3. ASSUME received = <<command>> PROVE dac = command
    <3>1. Len(received) = 1 /\ received[1] = command /\ received # << >>
      BY <2>3
    <3>2. CASE toHost = << >>
      BY <3>1, <3>2 DEF LineInv
    <3>3. CASE toHost # << >>
      <4>1. Len(toHost) \in Nat \ {0}
        BY <3>3, EmptySeq DEF TypeOK
      <4>2. Len(received) + Len(toHost) = 2
        BY <4>1, <3>1, <2>1 DEF LineInv
      <4>3. QED
        BY <4>2, <2>1 DEF LineInv
    <3>4. QED
      BY <3>2, <3>3
  <2>4. QED
    BY <2>1, <2>2, <2>3 DEF LineInv
<1>6. CASE DacObeys
  <2>1. /\ toDac # << >> /\ dac' = Head(toDac) /\ toHost' = Append(toHost, Head(toDac))
        /\ toDac' = << >> /\ UNCHANGED <<received, pc, gainValue_, echoed>>
    BY <1>6 DEF DacObeys
  <2>2. Head(toDac) \in Nat /\ Len(toHost) \in Nat /\ Len(received) \in Nat
    BY <2>1, TailOf DEF TypeOK
  <2>3. toHost' # << >> /\ Len(toHost') = Len(toHost) + 1 /\ toHost'[Len(toHost')] = dac'
    BY <2>1, <2>2, AppendProperties DEF TypeOK
  <2>4. pc \in {"sleep", "wait"} => dac' = command /\ command' = command
    BY <2>1 DEF LineInv
  <2>5. pc = "sleep" => Len(received) + Len(toHost) <= 1
    BY <2>1 DEF LineInv
  <2>6. QED
    BY <2>1, <2>2, <2>3, <2>4, <2>5 DEF LineInv
<1>7. CASE CommandLost
  BY <1>7 DEF CommandLost, LineInv
<1>8. CASE EchoArrives
  <2>1. /\ toHost # << >> /\ received' = Append(received, Head(toHost)) /\ toHost' = Tail(toHost)
        /\ UNCHANGED <<toDac, dac, pc, gainValue_, echoed>>
    BY <1>8 DEF EchoArrives
  <2>2. /\ Len(toHost) \in Nat \ {0} /\ Head(toHost) = toHost[1] /\ Head(toHost) \in Nat
        /\ Len(toHost') = Len(toHost) - 1
        /\ \A i \in 1 .. Len(toHost) - 1 : toHost'[i] = toHost[i + 1]
        /\ toHost' = << >> <=> Len(toHost) = 1
    BY <2>1, TailOf DEF TypeOK
  <2>3. Len(received) \in Nat /\ Len(received') = Len(received) + 1 /\ received'[Len(received')] = Head(toHost)
    BY <2>1, <2>2, AppendProperties DEF TypeOK
  <2>4. toHost' # << >> => toHost'[Len(toHost')] = dac'
    BY <2>1, <2>2 DEF LineInv
  <2>5. toHost' = << >> => received'[Len(received')] = dac'
    BY <2>1, <2>2, <2>3 DEF LineInv
  <2>6. Len(received') + Len(toHost') = Len(received) + Len(toHost) /\ command' = command
    BY <2>1, <2>2, <2>3
  <2>7. QED
    BY <2>1, <2>4, <2>5, <2>6 DEF LineInv
<1>9. CASE UNCHANGED vars
  BY <1>9 DEF vars, LineInv
<1>10. QED
  BY <1>1, <1>2, <1>3, <1>4, <1>5, <1>6, <1>7, <1>8, <1>9 DEF Next, ProcessAGC

\* Once the AGC thread has caught up and its command was echoed, the DAC is at
\* the gain the DSP thread reckons with (DacFollowsGain), for a minimum gain of 0
\* and an echo that is late by one command at most: ThreadAGC::sendDACCommand
\* compares whatever was received with the command it has just written.
THEOREM DacFollows ==
  ASSUME gainMin = 0, MaxLate <= 1
  PROVE  Spec => []DacFollowsGain
<1>1. TypeOK /\ GainsInSteps /\ LineInv => DacFollowsGain
  <2> SUFFICES ASSUME TypeOK, GainsInSteps, LineInv, pc = "wait", agcQueue = << >>, echoed
               PROVE  Distance(dac, receiveGain_) <= Rounding
    BY DEF DacFollowsGain
  <2>1. receiveGain_ = gainValue_ /\ dac = command
    BY DEF GainsInSteps, LineInv
  <2>2. gainValue_ \in gainMin .. gainMax
    BY DEF TypeOK
  <2>3. QED
    BY <2>1, <2>2, CommandRounds DEF command
<1>2. QED
  BY <1>1, TypeInit, TypeStep, GainsInit, GainsStep, LineInit, LineStep, PTL DEF Spec

----------------------------------------------------------------------------
(* The command that was echoed last, and the one to be sent next.          *)

Confirmed ==
    echoed =>
        /\ \E g \in gainMin .. gainMax :
              dac = creatDACCommand(g) /\ Distance(g, gainValue_) <= gainStep
        /\ pc = "send" /\ toDac # << >> => toDac = <<dac>>
        /\ pc = "terminated" /\ toDac # << >> => toDac = <<dac>> \/ toDac = <<command>>

LEMMA ConfirmedStep ==
  ASSUME gainMin = 0, TypeOK, GainsInSteps, LineInv, LineInv', Confirmed, [Next]_vars
  PROVE  Confirmed'
<1> USE DEF thread, line
<1>1. CASE PowerChanges \/ UpdateACG
  BY <1>1 DEF PowerChanges, UpdateACG, Confirmed, command
<1>2. CASE TakeGain
  <2>1. agcQueue # << >> /\ pc = "wait" /\ pc' = "send" /\ UNCHANGED <<echoed, toDac, dac>>
    BY <1>2 DEF TakeGain
  <2>2. gainValue_' = agcQueue[1] /\ gainValue_' \in 0 .. gainMax
    BY <1>2, <2>1, TailOf, AgcAssumption DEF TakeGain, checkVoltageValue, TypeOK
  <2>3. Distance(gainValue_', gainValue_) <= gainStep
    BY <2>1, <2>2 DEF GainsInSteps
  <2>4. Distance(gainValue_, gainValue_') <= gainStep /\ gainValue_ \in gainMin .. gainMax
    BY <2>2, <2>3, AgcAssumption DEF Distance, TypeOK
  <2>5. ASSUME echoed PROVE dac = creatDACCommand(gainValue_) /\ (toDac # << >> => toDac = <<dac>>)
    BY <2>1, <2>5 DEF LineInv, command
  <2>6. QED
    BY <2>1, <2>4, <2>5 DEF Confirmed
<1>3. CASE SendCommand
  BY <1>3 DEF SendCommand, Confirmed
<1>4. CASE WriteFails \/ ReadFails
  BY <1>4 DEF WriteFails, ReadFails, Confirmed, LineInv, command
<1>5. CASE ReadEcho
  <2>1. pc' = "wait" /\ UNCHANGED <<gainValue_, dac>>
    BY <1>5 DEF ReadEcho
  <2>2. Distance(gainValue_, gainValue_) <= gainStep /\ gainValue_ \in gainMin .. gainMax
    BY AgcAssumption DEF Distance, TypeOK
  <2>3. echoed' => dac' = creatDACCommand(gainValue_)
    BY <2>1 DEF LineInv, command
  <2>4. QED
    BY <2>1, <2>2, <2>3 DEF Confirmed
<1>6. CASE DacObeys
  <2>1. toDac # << >> /\ toDac' = << >> /\ dac' = Head(toDac) /\ UNCHANGED <<pc, gainValue_, echoed>>
    BY <1>6 DEF DacObeys
  <2>2. CASE pc \in {"send", "terminated"} /\ (echoed => toDac = <<dac>>)
    BY <2>1, <2>2 DEF Confirmed
  <2>3. CASE toDac = <<command>>
    <3>1. dac' = creatDACCommand(gainValue_)
      BY <2>1, <2>3 DEF command
    <3>2. Distance(gainValue_, gainValue_) <= gainStep /\ gainValue_ \in gainMin .. gainMax
      BY AgcAssumption DEF Distance, TypeOK
    <3>3. QED
      BY <2>1, <3>1, <3>2 DEF Confirmed
  <2>4. QED
    BY <2>1, <2>2, <2>3 DEF TypeOK, Confirmed, LineInv
<1>7. CASE CommandLost
  BY <1>7 DEF CommandLost, Confirmed
<1>8. CASE EchoArrives
  BY <1>8 DEF EchoArrives, Confirmed, command
<1>9. CASE UNCHANGED vars
  BY <1>9 DEF vars, Confirmed, command
<1>10. QED
  BY <1>1, <1>2, <1>3, <1>4, <1>5, <1>6, <1>7, <1>8, <1>9 DEF Next, ProcessAGC

\* After an echoed command the next one moves the DAC by one step of the gain at
\* most (GainMovesBySteps), under the same assumptions: each gain that
\* SignalProcess::updateACG pushes is one step from the one before it, and
\* ThreadAGC::processAGC takes them in order and skips none.
THEOREM MovesBySteps ==
  ASSUME gainMin = 0, MaxLate <= 1
  PROVE  Spec => GainMovesBySteps
<1>1. ASSUME TypeOK, LineInv, Confirmed, [Next]_vars, dac' # dac, echoed
      PROVE  Distance(dac', dac) <= gainStep + 2 * Rounding
  <2>1. DacObeys /\ toDac # << >> /\ dac' = Head(toDac)
    BY <1>1 DEF Next, ProcessAGC, PowerChanges, UpdateACG, TakeGain, SendCommand, WriteFails, ReadFails,
                ReadEcho, DacObeys, CommandLost, EchoArrives, vars, line, thread
  <2>2. PICK g \in gainMin .. gainMax :
            dac = creatDACCommand(g) /\ Distance(g, gainValue_) <= gainStep
    BY <1>1 DEF Confirmed
  <2>3. toDac # <<dac>>
    BY <1>1, <2>1
  <2>4. dac' = creatDACCommand(gainValue_) /\ gainValue_ \in gainMin .. gainMax
    BY <1>1, <2>1, <2>3 DEF Confirmed, LineInv, command, TypeOK
  <2>5. /\ dac \in Nat /\ Distance(dac, g) <= Rounding
        /\ dac' \in Nat /\ Distance(dac', gainValue_) <= Rounding
    BY <2>2, <2>4, CommandRounds
  <2>6. QED
    BY <2>2, <2>4, <2>5, AgcAssumption DEF Distance, Rounding
<1>2. Init => Confirmed
  BY DEF Init, Confirmed
<1>3. ASSUME TypeOK, LineInv, Confirmed, [Next]_vars
      PROVE  [dac # Unset /\ echoed => Distance(dac', dac) <= gainStep + 2 * Rounding]_dac
  BY <1>1, <1>3
<1>4. QED
  BY <1>2, <1>3, TypeInit, TypeStep, GainsInit, GainsStep, LineInit, LineStep, ConfirmedStep, PTL
  DEF Spec, GainMovesBySteps
=============================================================================
