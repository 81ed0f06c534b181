---------------------------- MODULE ProgramProof ----------------------------
(***************************************************************************)
(* Proofs about Program, for any number of frames and channels and any     *)
(* malformed configuration.                                                *)
(***************************************************************************)
EXTENDS Program, SequenceTheorems, TLAPS

----------------------------------------------------------------------------
(* Types.                                                                  *)

\* A step of one thread.
LEMMA GotoType ==
  ASSUME ControlOK, NEW t \in Threads \cup {"main"}, NEW from, NEW to, Goto(t, from, to),
         to \in IF t = "main" THEN MainAt ELSE ThreadAt
  PROVE  /\ pc' \in [Threads \cup {"main"} -> MainAt \cup ThreadAt]
         /\ pc'["main"] \in MainAt /\ \A u \in Threads : pc'[u] \in ThreadAt
BY DEF ControlOK, Goto, Threads

\* A step of main that starts a thread.
LEMMA StartType ==
  ASSUME ControlOK, NEW t \in Threads, NEW from, NEW to \in MainAt, NEW first \in ThreadAt,
         MainStarts(from, to, t, first)
  PROVE  ControlOK'
<1>1. /\ pc' = [pc EXCEPT !["main"] = to, ![t] = first]
      /\ outcome' = outcome
  BY DEF MainStarts
<1>2. t # "main" /\ "main" \in Threads \cup {"main"}
  BY DEF Threads
<1>3. pc \in [Threads \cup {"main"} -> MainAt \cup ThreadAt]
  BY DEF ControlOK
<1>4. pc'["main"] = to /\ pc'[t] = first
      /\ \A u \in Threads \ {t} : pc'[u] = pc[u]
  BY <1>1, <1>2, <1>3 DEF Threads
<1>5. QED
  BY <1>1, <1>2, <1>3, <1>4 DEF ControlOK

\* The statements of main and of the threads.
LEMMA ControlStep == ASSUME TypeOK, [Next]_vars PROVE ControlOK'
<1>s. /\ MainStarts("results", "AGC", "results", "wait") => ControlOK'
      /\ MainStarts("AGC", "startDSP", "agc", "init") => ControlOK'
      /\ MainStarts("startDSP", "server", "dsp", "wait") => ControlOK'
      /\ MainStarts("sender", "innerSaver", "send", "connect") => ControlOK'
      /\ MainStarts("innerSaver", "connect", "record", "test") => ControlOK'
  <2>1. ControlOK
    BY DEF TypeOK
  <2>2. {"results", "agc", "dsp", "send", "record"} \subseteq Threads
    BY DEF Threads
  <2>3. {"AGC", "startDSP", "server", "innerSaver", "connect"} \subseteq MainAt
    BY DEF MainAt
  <2>4. {"wait", "init", "connect", "test"} \subseteq ThreadAt
    BY DEF ThreadAt
  <2>5. ASSUME NEW t \in Threads, NEW from, NEW to \in MainAt, NEW first \in ThreadAt
        PROVE  MainStarts(from, to, t, first) => ControlOK'
    BY <2>1, StartType
  <2>6. QED
    BY <2>2, <2>3, <2>4, <2>5
<1> USE DEF TypeOK, ControlOK, MainAt, ThreadAt, Threads, Goto, Main, Ends
<1>1. CASE OpenConfig
  BY <1>1 DEF OpenConfig
<1>2. CASE LoadSection
  BY <1>2 DEF LoadSection, ReadSection
<1>3. CASE LoadFails
  BY <1>3 DEF LoadFails
<1>4. CASE LoadDone
  BY <1>4 DEF LoadDone
<1>5. CASE OuterSaver
  BY <1>5 DEF OuterSaver
<1>6. CASE GenerateSignal
  BY <1>6 DEF GenerateSignal
<1>7. CASE ConstructDSP
  BY <1>7 DEF ConstructDSP
<1>8. CASE StartResultSaver
  <2>1. CASE MainStarts("results", "AGC", "results", "wait")
    <3> HIDE DEF ControlOK
    <3>1. QED
      BY <1>s, <2>1
  <2>2. CASE Ends("main", "results", "exited")
    BY <2>2
  <2>3. QED
    BY <1>8, <2>1, <2>2 DEF StartResultSaver
<1>9. CASE StartAGC
  <2>1. CASE MainStarts("AGC", "startDSP", "agc", "init")
    <3> HIDE DEF ControlOK
    <3>1. QED
      BY <1>s, <2>1
  <2>2. CASE Main("AGC", "startDSP") \/ Ends("main", "AGC", "terminated")
    BY <2>2
  <2>3. QED
    BY <1>9, <2>1, <2>2 DEF StartAGC
<1>10. CASE StartDSP
  <2> HIDE DEF ControlOK
  <2>1. QED
    BY <1>s, <1>10 DEF StartDSP
<1>11. CASE ConstructServer
  BY <1>11 DEF ConstructServer
<1>12. CASE StartSender
  <2> HIDE DEF ControlOK
  <2>1. QED
    BY <1>s, <1>12 DEF StartSender
<1>13. CASE StartRecorder
  <2>1. CASE MainStarts("innerSaver", "connect", "record", "test")
    <3> HIDE DEF ControlOK
    <3>1. QED
      BY <1>s, <2>1
  <2>2. CASE Main("innerSaver", "connect")
    BY <2>2
  <2>3. QED
    BY <1>13, <2>1, <2>2 DEF StartRecorder
<1>14. CASE Connect
  BY <1>14 DEF Connect
<1>15. CASE StartScan
  BY <1>15 DEF StartScan
<1>16. CASE Disconnect
  BY <1>16 DEF Disconnect
<1>17. CASE DestroyScan
  BY <1>17 DEF DestroyScan
<1>18. CASE ClearEnableSave
  BY <1>18 DEF ClearEnableSave
<1>19. CASE JoinRecorder
  BY <1>19 DEF JoinRecorder
<1>20. CASE CloseRecording
  BY <1>20 DEF CloseRecording
<1>21. CASE StopSender
  BY <1>21 DEF StopSender
<1>22. CASE JoinSender
  BY <1>22 DEF JoinSender
<1>23. CASE DestroyServer
  BY <1>23 DEF DestroyServer
<1>24. CASE DestroyAGC
  BY <1>24 DEF DestroyAGC, DestroyThreadOwner
<1>25. CASE DestroyDSP
  BY <1>25 DEF DestroyDSP, DestroyThreadOwner
<1>26. CASE ConnectOutput
  BY <1>26 DEF ConnectOutput
<1>27. CASE StartOutput
  BY <1>27 DEF StartOutput
<1>28. CASE StopOutput
  BY <1>28 DEF StopOutput
<1>29. CASE DisconnectOutput
  BY <1>29 DEF DisconnectOutput
<1>30. CASE DestroyOutput
  BY <1>30 DEF DestroyOutput
<1>31. CASE Return
  BY <1>31 DEF Return
<1>32. CASE StopScan
  BY <1>32 DEF StopScan
<1>33. CASE Deliver
  BY <1>33 DEF Deliver
<1>34. CASE TestEnableSave
  BY <1>34 DEF TestEnableSave
<1>35. CASE PopToSave
  BY <1>35 DEF PopToSave
<1>36. CASE DumpChannel
  BY <1>36 DEF DumpChannel
<1>37. CASE Process
  BY <1>37 DEF Process
<1>38. CASE SaveResult
  BY <1>38 DEF SaveResult
<1>39. CASE ControlGain
  BY <1>39 DEF ControlGain
<1>40. CASE Send /\ SendEnds
  BY <1>40 DEF SendEnds, Send
<1>41. CASE Send /\ TryConnect
  BY <1>41 DEF TryConnect, Send
<1>42. CASE Send /\ SendHeartbeat
  BY <1>42 DEF SendHeartbeat, Send
<1>43. CASE Send /\ SendFrame
  BY <1>43 DEF SendFrame, Send
<1>44. CASE UNCHANGED vars
  BY <1>44 DEF vars
<1>45. QED
  BY <1>1, <1>2, <1>3, <1>4, <1>5, <1>6, <1>7, <1>8, <1>9, <1>10, <1>11, <1>12, <1>13, <1>14, <1>15, <1>16, <1>17, <1>18, <1>19, <1>20, <1>21, <1>22, <1>23, <1>24, <1>25, <1>26, <1>27, <1>28, <1>29, <1>30, <1>31, <1>32, <1>33, <1>34, <1>35, <1>36, <1>37, <1>38, <1>39, <1>40, <1>41, <1>42, <1>43, <1>44
  DEF Next, MainGoesOn, Configure, StartReceiver, EndReceiver, Transmit, Record, Send

\* The Boolean variables.
LEMMA FlagsStep == ASSUME TypeOK, [Next]_vars PROVE FlagsOK'
<1> USE DEF TypeOK, FlagsOK, configVars, deviceVars, queueVars, recordVars
<1>1. CASE OpenConfig
  BY <1>1 DEF OpenConfig
<1>2. CASE LoadSection
  BY <1>2 DEF LoadSection, ReadSection
<1>3. CASE LoadFails
  BY <1>3 DEF LoadFails
<1>4. CASE LoadDone
  BY <1>4 DEF LoadDone
<1>5. CASE OuterSaver
  BY <1>5 DEF OuterSaver
<1>6. CASE GenerateSignal
  BY <1>6 DEF GenerateSignal
<1>7. CASE ConstructDSP
  BY <1>7 DEF ConstructDSP
<1>8. CASE StartResultSaver
  BY <1>8 DEF StartResultSaver
<1>9. CASE StartAGC
  BY <1>9 DEF StartAGC
<1>10. CASE StartDSP
  BY <1>10 DEF StartDSP
<1>11. CASE ConstructServer
  BY <1>11 DEF ConstructServer
<1>12. CASE StartSender
  BY <1>12 DEF StartSender
<1>13. CASE StartRecorder
  BY <1>13 DEF StartRecorder
<1>14. CASE Connect
  BY <1>14 DEF Connect
<1>15. CASE StartScan
  BY <1>15 DEF StartScan
<1>16. CASE Disconnect
  BY <1>16 DEF Disconnect
<1>17. CASE DestroyScan
  BY <1>17 DEF DestroyScan
<1>18. CASE ClearEnableSave
  BY <1>18 DEF ClearEnableSave
<1>19. CASE JoinRecorder
  BY <1>19 DEF JoinRecorder
<1>20. CASE CloseRecording
  BY <1>20 DEF CloseRecording
<1>21. CASE StopSender
  BY <1>21 DEF StopSender
<1>22. CASE JoinSender
  BY <1>22 DEF JoinSender
<1>23. CASE DestroyServer
  BY <1>23 DEF DestroyServer
<1>24. CASE DestroyAGC
  BY <1>24 DEF DestroyAGC, DestroyThreadOwner
<1>25. CASE DestroyDSP
  BY <1>25 DEF DestroyDSP, DestroyThreadOwner
<1>26. CASE ConnectOutput
  BY <1>26 DEF ConnectOutput
<1>27. CASE StartOutput
  BY <1>27 DEF StartOutput
<1>28. CASE StopOutput
  BY <1>28 DEF StopOutput
<1>29. CASE DisconnectOutput
  BY <1>29 DEF DisconnectOutput
<1>30. CASE DestroyOutput
  BY <1>30 DEF DestroyOutput
<1>31. CASE Return
  BY <1>31 DEF Return
<1>32. CASE StopScan
  BY <1>32 DEF StopScan
<1>33. CASE Deliver
  BY <1>33 DEF Deliver
<1>34. CASE TestEnableSave
  BY <1>34 DEF TestEnableSave
<1>35. CASE PopToSave
  BY <1>35 DEF PopToSave
<1>36. CASE DumpChannel
  BY <1>36 DEF DumpChannel
<1>37. CASE Process
  BY <1>37 DEF Process
<1>38. CASE SaveResult
  BY <1>38 DEF SaveResult
<1>39. CASE ControlGain
  BY <1>39 DEF ControlGain
<1>40. CASE Send /\ SendEnds
  BY <1>40 DEF SendEnds, Send
<1>41. CASE Send /\ TryConnect
  BY <1>41 DEF TryConnect, Send
<1>42. CASE Send /\ SendHeartbeat
  BY <1>42 DEF SendHeartbeat, Send
<1>43. CASE Send /\ SendFrame
  BY <1>43 DEF SendFrame, Send
<1>44. CASE UNCHANGED vars
  BY <1>44 DEF vars
<1>45. QED
  BY <1>1, <1>2, <1>3, <1>4, <1>5, <1>6, <1>7, <1>8, <1>9, <1>10, <1>11, <1>12, <1>13, <1>14, <1>15, <1>16, <1>17, <1>18, <1>19, <1>20, <1>21, <1>22, <1>23, <1>24, <1>25, <1>26, <1>27, <1>28, <1>29, <1>30, <1>31, <1>32, <1>33, <1>34, <1>35, <1>36, <1>37, <1>38, <1>39, <1>40, <1>41, <1>42, <1>43, <1>44
  DEF Next, MainGoesOn, Configure, StartReceiver, EndReceiver, Transmit, Record, Send

\* Everything else.
LEMMA DataStep == ASSUME TypeOK, [Next]_vars PROVE DataOK'
<1> USE DEF TypeOK, DataOK, Objects, Modes, configVars, deviceVars, queueVars, recordVars, Construct, Destroy
<1>1. CASE OpenConfig
  BY <1>1 DEF OpenConfig
<1>2. CASE LoadSection
  BY <1>2 DEF LoadSection, ReadSection
<1>3. CASE LoadFails
  BY <1>3 DEF LoadFails
<1>4. CASE LoadDone
  BY <1>4 DEF LoadDone
<1>5. CASE OuterSaver
  BY <1>5 DEF OuterSaver
<1>6. CASE GenerateSignal
  BY <1>6 DEF GenerateSignal
<1>7. CASE ConstructDSP
  BY <1>7 DEF ConstructDSP
<1>8. CASE StartResultSaver
  BY <1>8 DEF StartResultSaver
<1>9. CASE StartAGC
  BY <1>9 DEF StartAGC
<1>10. CASE StartDSP
  BY <1>10 DEF StartDSP
<1>11. CASE ConstructServer
  BY <1>11 DEF ConstructServer
<1>12. CASE StartSender
  BY <1>12 DEF StartSender
<1>13. CASE StartRecorder
  BY <1>13 DEF StartRecorder
<1>14. CASE Connect
  BY <1>14 DEF Connect
<1>15. CASE StartScan
  BY <1>15 DEF StartScan
<1>16. CASE Disconnect
  BY <1>16 DEF Disconnect
<1>17. CASE DestroyScan
  BY <1>17 DEF DestroyScan
<1>18. CASE ClearEnableSave
  BY <1>18 DEF ClearEnableSave
<1>19. CASE JoinRecorder
  BY <1>19 DEF JoinRecorder
<1>20. CASE CloseRecording
  BY <1>20 DEF CloseRecording
<1>21. CASE StopSender
  BY <1>21 DEF StopSender
<1>22. CASE JoinSender
  BY <1>22 DEF JoinSender
<1>23. CASE DestroyServer
  BY <1>23 DEF DestroyServer
<1>24. CASE DestroyAGC
  BY <1>24 DEF DestroyAGC, DestroyThreadOwner
<1>25. CASE DestroyDSP
  BY <1>25 DEF DestroyDSP, DestroyThreadOwner
<1>26. CASE ConnectOutput
  BY <1>26 DEF ConnectOutput
<1>27. CASE StartOutput
  BY <1>27 DEF StartOutput
<1>28. CASE StopOutput
  BY <1>28 DEF StopOutput
<1>29. CASE DisconnectOutput
  BY <1>29 DEF DisconnectOutput
<1>30. CASE DestroyOutput
  BY <1>30 DEF DestroyOutput
<1>31. CASE Return
  BY <1>31 DEF Return
<1>32. CASE StopScan
  BY <1>32 DEF StopScan
<1>33. CASE Deliver
  BY <1>33 DEF Deliver
<1>34. CASE TestEnableSave
  BY <1>34 DEF TestEnableSave
<1>35. CASE PopToSave
  BY <1>35 DEF PopToSave
<1>36. CASE DumpChannel
  BY <1>36 DEF DumpChannel
<1>37. CASE Process
  BY <1>37 DEF Process
<1>38. CASE SaveResult
  BY <1>38 DEF SaveResult
<1>39. CASE ControlGain
  BY <1>39 DEF ControlGain
<1>40. CASE Send /\ SendEnds
  BY <1>40 DEF SendEnds, Send
<1>41. CASE Send /\ TryConnect
  BY <1>41 DEF TryConnect, Send
<1>42. CASE Send /\ SendHeartbeat
  BY <1>42 DEF SendHeartbeat, Send
<1>43. CASE Send /\ SendFrame
  BY <1>43 DEF SendFrame, Send
<1>44. CASE UNCHANGED vars
  BY <1>44 DEF vars
<1>45. QED
  BY <1>1, <1>2, <1>3, <1>4, <1>5, <1>6, <1>7, <1>8, <1>9, <1>10, <1>11, <1>12, <1>13, <1>14, <1>15, <1>16, <1>17, <1>18, <1>19, <1>20, <1>21, <1>22, <1>23, <1>24, <1>25, <1>26, <1>27, <1>28, <1>29, <1>30, <1>31, <1>32, <1>33, <1>34, <1>35, <1>36, <1>37, <1>38, <1>39, <1>40, <1>41, <1>42, <1>43, <1>44
  DEF Next, MainGoesOn, Configure, StartReceiver, EndReceiver, Transmit, Record, Send

\* The variables keep their types.
THEOREM TypeCorrect == Spec => []TypeOK
<1>1. Init => TypeOK
  <2> USE DEF Init
  <2>1. Init => ControlOK
    BY DEF ControlOK, Threads, MainAt, ThreadAt
  <2>2. Init => FlagsOK
    BY DEF FlagsOK
  <2>3. Init => DataOK
    BY DEF DataOK, Modes
  <2>4. QED
    BY <2>1, <2>2, <2>3 DEF TypeOK
<1>2. TypeOK /\ [Next]_vars => TypeOK'
  BY ControlStep, FlagsStep, DataStep DEF TypeOK
<1>3. QED
  BY <1>1, <1>2, PTL DEF Spec

----------------------------------------------------------------------------
(* Objects outlive their threads.                                          *)

\* A step of main that starts a thread leaves the other threads where they are.
LEMMA StartPc ==
  ASSUME TypeOK, NEW t \in Threads, NEW from, NEW to, NEW first, MainStarts(from, to, t, first)
  PROVE  /\ pc["main"] = from /\ pc'["main"] = to /\ pc'[t] = first
         /\ \A u \in Threads \ {t} : pc'[u] = pc[u]
BY DEF TypeOK, ControlOK, MainStarts, Threads

\* What is alive where main has not yet destroyed it, and which threads have
\* been joined where main destroys what they use.
AliveInv ==
    /\ pc["main"] \in {"generate", "DSP", "results"} => "outerSaver" \in alive
    /\ pc["main"] \in {"results", "AGC", "startDSP"} => "DSP" \in alive
    /\ pc["main"] = "sender" => "server" \in alive
    /\ pc["main"] \in {"startScan", "sleep"} => "aiScan" \in alive
    /\ pc["main"] = "closeRecording" => Joined("record")
    /\ pc["main"] = "~server" => Joined("send")
    /\ scanning = "in" => pc["main"] = "sleep"
    /\ pc["dsp"] # "none" => "DSP" \in alive
    /\ pc["agc"] # "none" => "AGC" \in alive
    /\ pc["results"] # "none" => "outerSaver" \in alive
    /\ ~Joined("send") => {"sender", "server"} \subseteq alive
    /\ ~Joined("record") => "innerSaver" \in alive

LEMMA AliveStep ==
  ASSUME TypeOK, AliveInv, [Next]_vars
  PROVE  AliveInv'
<1> USE DEF TypeOK, ControlOK, AliveInv, Threads, Joined, deviceVars, Goto, Main, Ends, Construct, Destroy
<1>1. CASE OpenConfig
  BY <1>1 DEF OpenConfig
<1>2. CASE LoadSection
  BY <1>2 DEF LoadSection, ReadSection
<1>3. CASE LoadFails
  BY <1>3 DEF LoadFails
<1>4. CASE LoadDone
  BY <1>4 DEF LoadDone
<1>5. CASE OuterSaver
  BY <1>5 DEF OuterSaver
<1>6. CASE GenerateSignal
  BY <1>6 DEF GenerateSignal
<1>7. CASE ConstructDSP
  BY <1>7 DEF ConstructDSP
<1>8. CASE StartResultSaver
  <2>1. CASE MainStarts("results", "AGC", "results", "wait")
    BY <1>8, <2>1, StartPc DEF StartResultSaver
  <2>2. CASE Ends("main", "results", "exited")
    BY <1>8, <2>2 DEF StartResultSaver
  <2>3. QED
    BY <1>8, <2>1, <2>2 DEF StartResultSaver
<1>9. CASE StartAGC
  <2>1. CASE MainStarts("AGC", "startDSP", "agc", "init") /\ Construct("AGC")
    BY <1>9, <2>1, StartPc DEF StartAGC
  <2>2. CASE Main("AGC", "startDSP") /\ Construct("AGC")
    BY <1>9, <2>2 DEF StartAGC
  <2>3. CASE Ends("main", "AGC", "terminated") /\ UNCHANGED alive
    BY <1>9, <2>3 DEF StartAGC
  <2>4. QED
    BY <1>9, <2>1, <2>2, <2>3 DEF StartAGC
<1>10. CASE StartDSP
  BY <1>10, StartPc DEF StartDSP
<1>11. CASE ConstructServer
  BY <1>11 DEF ConstructServer
<1>12. CASE StartSender
  BY <1>12, StartPc DEF StartSender
<1>13. CASE StartRecorder
  <2>1. CASE MainStarts("innerSaver", "connect", "record", "test")
    BY <1>13, <2>1, StartPc DEF StartRecorder
  <2>2. CASE Main("innerSaver", "connect")
    BY <1>13, <2>2 DEF StartRecorder
  <2>3. QED
    BY <1>13, <2>1, <2>2 DEF StartRecorder
<1>14. CASE Connect
  BY <1>14 DEF Connect
<1>15. CASE StartScan
  BY <1>15 DEF StartScan
<1>16. CASE Disconnect
  BY <1>16 DEF Disconnect
<1>17. CASE DestroyScan
  BY <1>17 DEF DestroyScan
<1>18. CASE ClearEnableSave
  BY <1>18 DEF ClearEnableSave
<1>19. CASE JoinRecorder
  BY <1>19 DEF JoinRecorder
<1>20. CASE CloseRecording
  BY <1>20 DEF CloseRecording
<1>21. CASE StopSender
  BY <1>21 DEF StopSender
<1>22. CASE JoinSender
  BY <1>22 DEF JoinSender
<1>23. CASE DestroyServer
  BY <1>23 DEF DestroyServer
<1>24. CASE DestroyAGC
  BY <1>24 DEF DestroyAGC, DestroyThreadOwner
<1>25. CASE DestroyDSP
  BY <1>25 DEF DestroyDSP, DestroyThreadOwner
<1>26. CASE ConnectOutput
  BY <1>26 DEF ConnectOutput
<1>27. CASE StartOutput
  BY <1>27 DEF StartOutput
<1>28. CASE StopOutput
  BY <1>28 DEF StopOutput
<1>29. CASE DisconnectOutput
  BY <1>29 DEF DisconnectOutput
<1>30. CASE DestroyOutput
  BY <1>30 DEF DestroyOutput
<1>31. CASE Return
  BY <1>31 DEF Return
<1>32. CASE StopScan
  BY <1>32 DEF StopScan
<1>33. CASE Deliver
  BY <1>33 DEF Deliver
<1>34. CASE TestEnableSave
  BY <1>34 DEF TestEnableSave
<1>35. CASE PopToSave
  BY <1>35 DEF PopToSave
<1>36. CASE DumpChannel
  BY <1>36 DEF DumpChannel
<1>37. CASE Process
  BY <1>37 DEF Process
<1>38. CASE SaveResult
  BY <1>38 DEF SaveResult
<1>39. CASE ControlGain
  BY <1>39 DEF ControlGain
<1>40. CASE Send /\ SendEnds
  BY <1>40 DEF SendEnds, Send
<1>41. CASE Send /\ TryConnect
  BY <1>41 DEF TryConnect, Send
<1>42. CASE Send /\ SendHeartbeat
  BY <1>42 DEF SendHeartbeat, Send
<1>43. CASE Send /\ SendFrame
  BY <1>43 DEF SendFrame, Send
<1>44. CASE UNCHANGED vars
  BY <1>44 DEF vars
<1>45. QED
  BY <1>1, <1>2, <1>3, <1>4, <1>5, <1>6, <1>7, <1>8, <1>9, <1>10, <1>11, <1>12, <1>13, <1>14, <1>15, <1>16, <1>17, <1>18, <1>19, <1>20, <1>21, <1>22, <1>23, <1>24, <1>25, <1>26, <1>27, <1>28, <1>29, <1>30, <1>31, <1>32, <1>33, <1>34, <1>35, <1>36, <1>37, <1>38, <1>39, <1>40, <1>41, <1>42, <1>43, <1>44
  DEF Next, MainGoesOn, Configure, StartReceiver, EndReceiver, Transmit, Record, Send

\* While the process runs no thread, and no callback of the device, uses an
\* object that main has destroyed.
THEOREM ObjectsOutliveThreads == Spec => []AliveWhenUsed
<1>1. Init => AliveInv
  BY DEF Init, AliveInv, Threads, Joined
<1>2. TypeOK /\ AliveInv /\ [Next]_vars => AliveInv'
  BY AliveStep
<1>3. AliveInv => AliveWhenUsed
  BY DEF AliveInv, AliveWhenUsed, Uses, Threads, Joined
<1>4. QED
  BY <1>1, <1>2, <1>3, TypeCorrect, PTL DEF Spec


----------------------------------------------------------------------------
(* The waveform.                                                           *)

\* The device plays only between the start of the output and the disconnection,
\* and the waveform is freed after that.
PlayInv ==
    /\ pc["main"] \in {"output", "startOutput", "outputSleep", "outputDisconnect", "~aoScan"}
          => signal = "allocated"
    /\ pc["main"] \in {"startOutput", "outputSleep", "outputDisconnect"} => connected
    /\ scanning = "out" => pc["main"] \in {"outputSleep", "outputDisconnect"}

LEMMA PlayStep ==
  ASSUME TypeOK, PlayInv, [Next]_vars
  PROVE  PlayInv'
<1> USE DEF TypeOK, ControlOK, PlayInv, Threads, deviceVars, Goto, Main, Ends
<1>1. CASE OpenConfig
  BY <1>1 DEF OpenConfig
<1>2. CASE LoadSection
  BY <1>2 DEF LoadSection, ReadSection
<1>3. CASE LoadFails
  BY <1>3 DEF LoadFails
<1>4. CASE LoadDone
  BY <1>4 DEF LoadDone
<1>5. CASE OuterSaver
  BY <1>5 DEF OuterSaver
<1>6. CASE GenerateSignal
  BY <1>6 DEF GenerateSignal
<1>7. CASE ConstructDSP
  BY <1>7 DEF ConstructDSP
<1>8. CASE StartResultSaver
  <2>1. CASE MainStarts("results", "AGC", "results", "wait")
    BY <1>8, <2>1, StartPc DEF StartResultSaver
  <2>2. CASE Ends("main", "results", "exited")
    BY <1>8, <2>2 DEF StartResultSaver
  <2>3. QED
    BY <1>8, <2>1, <2>2 DEF StartResultSaver
<1>9. CASE StartAGC
  <2>1. CASE MainStarts("AGC", "startDSP", "agc", "init") /\ Construct("AGC")
    BY <1>9, <2>1, StartPc DEF StartAGC
  <2>2. CASE Main("AGC", "startDSP") /\ Construct("AGC")
    BY <1>9, <2>2 DEF StartAGC
  <2>3. CASE Ends("main", "AGC", "terminated") /\ UNCHANGED alive
    BY <1>9, <2>3 DEF StartAGC
  <2>4. QED
    BY <1>9, <2>1, <2>2, <2>3 DEF StartAGC
<1>10. CASE StartDSP
  BY <1>10, StartPc DEF StartDSP
<1>11. CASE ConstructServer
  BY <1>11 DEF ConstructServer
<1>12. CASE StartSender
  BY <1>12, StartPc DEF StartSender
<1>13. CASE StartRecorder
  <2>1. CASE MainStarts("innerSaver", "connect", "record", "test")
    BY <1>13, <2>1, StartPc DEF StartRecorder
  <2>2. CASE Main("innerSaver", "connect")
    BY <1>13, <2>2 DEF StartRecorder
  <2>3. QED
    BY <1>13, <2>1, <2>2 DEF StartRecorder
<1>14. CASE Connect
  BY <1>14 DEF Connect
<1>15. CASE StartScan
  BY <1>15 DEF StartScan
<1>16. CASE Disconnect
  BY <1>16 DEF Disconnect
<1>17. CASE DestroyScan
  BY <1>17 DEF DestroyScan
<1>18. CASE ClearEnableSave
  BY <1>18 DEF ClearEnableSave
<1>19. CASE JoinRecorder
  BY <1>19 DEF JoinRecorder
<1>20. CASE CloseRecording
  BY <1>20 DEF CloseRecording
<1>21. CASE StopSender
  BY <1>21 DEF StopSender
<1>22. CASE JoinSender
  BY <1>22 DEF JoinSender
<1>23. CASE DestroyServer
  BY <1>23 DEF DestroyServer
<1>24. CASE DestroyAGC
  BY <1>24 DEF DestroyAGC, DestroyThreadOwner
<1>25. CASE DestroyDSP
  BY <1>25 DEF DestroyDSP, DestroyThreadOwner
<1>26. CASE ConnectOutput
  BY <1>26 DEF ConnectOutput
<1>27. CASE StartOutput
  BY <1>27 DEF StartOutput
<1>28. CASE StopOutput
  BY <1>28 DEF StopOutput
<1>29. CASE DisconnectOutput
  BY <1>29 DEF DisconnectOutput
<1>30. CASE DestroyOutput
  BY <1>30 DEF DestroyOutput
<1>31. CASE Return
  BY <1>31 DEF Return
<1>32. CASE StopScan
  BY <1>32 DEF StopScan
<1>33. CASE Deliver
  BY <1>33 DEF Deliver
<1>34. CASE TestEnableSave
  BY <1>34 DEF TestEnableSave
<1>35. CASE PopToSave
  BY <1>35 DEF PopToSave
<1>36. CASE DumpChannel
  BY <1>36 DEF DumpChannel
<1>37. CASE Process
  BY <1>37 DEF Process
<1>38. CASE SaveResult
  BY <1>38 DEF SaveResult
<1>39. CASE ControlGain
  BY <1>39 DEF ControlGain
<1>40. CASE Send /\ SendEnds
  BY <1>40 DEF SendEnds, Send
<1>41. CASE Send /\ TryConnect
  BY <1>41 DEF TryConnect, Send
<1>42. CASE Send /\ SendHeartbeat
  BY <1>42 DEF SendHeartbeat, Send
<1>43. CASE Send /\ SendFrame
  BY <1>43 DEF SendFrame, Send
<1>44. CASE UNCHANGED vars
  BY <1>44 DEF vars
<1>45. QED
  BY <1>1, <1>2, <1>3, <1>4, <1>5, <1>6, <1>7, <1>8, <1>9, <1>10, <1>11, <1>12, <1>13, <1>14, <1>15, <1>16, <1>17, <1>18, <1>19, <1>20, <1>21, <1>22, <1>23, <1>24, <1>25, <1>26, <1>27, <1>28, <1>29, <1>30, <1>31, <1>32, <1>33, <1>34, <1>35, <1>36, <1>37, <1>38, <1>39, <1>40, <1>41, <1>42, <1>43, <1>44
  DEF Next, MainGoesOn, Configure, StartReceiver, EndReceiver, Transmit, Record, Send

\* The waveform is there as long as the device plays it, although no statement
\* stops the output scan by name.
THEOREM WaveformOutlivesScan == Spec => []WaveformLive
<1>1. Init => PlayInv
  BY DEF Init, PlayInv, Threads
<1>2. TypeOK /\ PlayInv /\ [Next]_vars => PlayInv'
  BY PlayStep
<1>3. PlayInv => WaveformLive
  BY DEF PlayInv, WaveformLive
<1>4. QED
  BY <1>1, <1>2, <1>3, TypeCorrect, PTL DEF Spec

----------------------------------------------------------------------------
(* The configuration.                                                      *)

\* What main constructs in a mode.
ObjectsOf(m) ==
    CASE m = "MODE_RECEIVE"  -> Objects \ {"aoScan"}
      [] m = "MODE_TRANSMIT" -> {"outerSaver", "aoScan"}
      [] OTHER               -> {"outerSaver"}

Receiving    == {"DSP", "results", "AGC", "startDSP", "server", "sender", "innerSaver",
                 "connect", "startScan", "sleep", "disconnect", "~aiScan", "~innerSaver",
                 "joinRecorder", "closeRecording", "~sender", "joinSender", "~server",
                 "~AGC", "~DSP"}
Transmitting == {"output", "startOutput", "outputSleep", "outputDisconnect", "~aoScan"}

\* Nothing is constructed before the configuration is loaded and nothing of
\* another mode after that; a loader that returned true has read all sections.
ConfigInv ==
    /\ pc["main"] \in {"open", "load"} => alive = {} /\ loadResult = "none"
    /\ pc["main"] \in Receiving => workMode = "MODE_RECEIVE"
    /\ pc["main"] \in Transmitting => workMode = "MODE_TRANSMIT"
    /\ alive \subseteq ObjectsOf(workMode)
    /\ loadResult = "true" => ToSet(SectionsOf(workMode)) \subseteq loaded

\* The sections of a mode cover what its objects need.
LEMMA SectionsSuffice ==
  ASSUME NEW m \in Modes, NEW o \in ObjectsOf(m)
  PROVE  Needs(o) \subseteq ToSet(SectionsOf(m))
<1>1. CASE m = "MODE_RECEIVE"
  <2> DEFINE s == SectionsOf(m)
  <2>1. /\ s = <<"workMode", "fileFlags", "filePaths", "signal", "dataio", "tcp",
                 "receive", "array", "signalProcess", "AGC">>
        /\ DOMAIN s = 1 .. 10
    BY <1>1 DEF SectionsOf
  <2>2. /\ s[1] = "workMode" /\ s[2] = "fileFlags" /\ s[3] = "filePaths" /\ s[4] = "signal"
        /\ s[6] = "tcp" /\ s[7] = "receive" /\ s[8] = "array" /\ s[9] = "signalProcess"
        /\ s[10] = "AGC"
    BY <2>1
  <2>3. o \in Objects \ {"aoScan"}
    BY <1>1 DEF ObjectsOf
  <2>4. QED
    BY <2>1, <2>2, <2>3 DEF Needs, Objects, ToSet
<1>2. CASE m = "MODE_TRANSMIT"
  <2> DEFINE s == SectionsOf(m)
  <2>1. /\ s = <<"workMode", "fileFlags", "filePaths", "signal", "dataio", "tcp", "transmit">>
        /\ DOMAIN s = 1 .. 7
    BY <1>2 DEF SectionsOf
  <2>2. s[1] = "workMode" /\ s[4] = "signal" /\ s[7] = "transmit"
    BY <2>1
  <2>3. o \in {"outerSaver", "aoScan"}
    BY <1>2 DEF ObjectsOf
  <2>4. QED
    BY <2>1, <2>2, <2>3 DEF Needs, ToSet
<1>3. CASE m = "MODE_ERROR"
  <2> DEFINE s == SectionsOf(m)
  <2>1. /\ s = <<"workMode", "fileFlags", "filePaths", "signal", "dataio", "tcp">>
        /\ DOMAIN s = 1 .. 6
    BY <1>3 DEF SectionsOf
  <2>2. s[1] = "workMode"
    BY <2>1
  <2>3. o = "outerSaver"
    BY <1>3 DEF ObjectsOf
  <2>4. QED
    BY <2>1, <2>2, <2>3 DEF Needs, ToSet
<1>4. QED
  BY <1>1, <1>2, <1>3 DEF Modes

LEMMA ConfigStep ==
  ASSUME TypeOK, ConfigInv, [Next]_vars
  PROVE  ConfigInv'
<1> USE DEF TypeOK, ControlOK, ConfigInv, Receiving, Transmitting, Threads, configVars, Goto, Main, Ends, Construct, Destroy
<1>1. CASE OpenConfig
  BY <1>1 DEF OpenConfig, ObjectsOf
<1>2. CASE LoadSection
  BY <1>2 DEF LoadSection, ReadSection, ObjectsOf, Objects
<1>3. CASE LoadFails
  BY <1>3 DEF LoadFails
<1>4. CASE LoadDone
  BY <1>4 DEF LoadDone
<1>5. CASE OuterSaver
  BY <1>5 DEF OuterSaver, ObjectsOf, Objects
<1>6. CASE GenerateSignal
  BY <1>6 DEF GenerateSignal, DataOK, Modes
<1>7. CASE ConstructDSP
  BY <1>7 DEF ConstructDSP, ObjectsOf, Objects
<1>8. CASE StartResultSaver
  <2>1. CASE MainStarts("results", "AGC", "results", "wait")
    BY <1>8, <2>1, StartPc DEF StartResultSaver
  <2>2. CASE Ends("main", "results", "exited")
    BY <1>8, <2>2 DEF StartResultSaver
  <2>3. QED
    BY <1>8, <2>1, <2>2 DEF StartResultSaver
<1>9. CASE StartAGC
  <2>1. CASE MainStarts("AGC", "startDSP", "agc", "init") /\ Construct("AGC")
    BY <1>9, <2>1, StartPc DEF StartAGC, ObjectsOf, Objects
  <2>2. CASE Main("AGC", "startDSP") /\ Construct("AGC")
    BY <1>9, <2>2 DEF StartAGC, ObjectsOf, Objects
  <2>3. CASE Ends("main", "AGC", "terminated") /\ UNCHANGED alive
    BY <1>9, <2>3 DEF StartAGC, ObjectsOf, Objects
  <2>4. QED
    BY <1>9, <2>1, <2>2, <2>3 DEF StartAGC
<1>10. CASE StartDSP
  BY <1>10, StartPc DEF StartDSP
<1>11. CASE ConstructServer
  BY <1>11 DEF ConstructServer, ObjectsOf, Objects
<1>12. CASE StartSender
  BY <1>12, StartPc DEF StartSender, ObjectsOf, Objects
<1>13. CASE StartRecorder
  <2>1. CASE MainStarts("innerSaver", "connect", "record", "test")
    BY <1>13, <2>1, StartPc DEF StartRecorder, ObjectsOf, Objects
  <2>2. CASE Main("innerSaver", "connect")
    BY <1>13, <2>2 DEF StartRecorder, ObjectsOf, Objects
  <2>3. QED
    BY <1>13, <2>1, <2>2 DEF StartRecorder
<1>14. CASE Connect
  BY <1>14 DEF Connect, ObjectsOf, Objects
<1>15. CASE StartScan
  BY <1>15 DEF StartScan
<1>16. CASE Disconnect
  BY <1>16 DEF Disconnect
<1>17. CASE DestroyScan
  BY <1>17 DEF DestroyScan
<1>18. CASE ClearEnableSave
  BY <1>18 DEF ClearEnableSave
<1>19. CASE JoinRecorder
  BY <1>19 DEF JoinRecorder
<1>20. CASE CloseRecording
  BY <1>20 DEF CloseRecording
<1>21. CASE StopSender
  BY <1>21 DEF StopSender
<1>22. CASE JoinSender
  BY <1>22 DEF JoinSender
<1>23. CASE DestroyServer
  BY <1>23 DEF DestroyServer
<1>24. CASE DestroyAGC
  BY <1>24 DEF DestroyAGC, DestroyThreadOwner
<1>25. CASE DestroyDSP
  BY <1>25 DEF DestroyDSP, DestroyThreadOwner
<1>26. CASE ConnectOutput
  BY <1>26 DEF ConnectOutput, ObjectsOf, Objects
<1>27. CASE StartOutput
  BY <1>27 DEF StartOutput
<1>28. CASE StopOutput
  BY <1>28 DEF StopOutput
<1>29. CASE DisconnectOutput
  BY <1>29 DEF DisconnectOutput
<1>30. CASE DestroyOutput
  BY <1>30 DEF DestroyOutput
<1>31. CASE Return
  BY <1>31 DEF Return
<1>32. CASE StopScan
  BY <1>32 DEF StopScan
<1>33. CASE Deliver
  BY <1>33 DEF Deliver
<1>34. CASE TestEnableSave
  BY <1>34 DEF TestEnableSave
<1>35. CASE PopToSave
  BY <1>35 DEF PopToSave
<1>36. CASE DumpChannel
  BY <1>36 DEF DumpChannel
<1>37. CASE Process
  BY <1>37 DEF Process
<1>38. CASE SaveResult
  BY <1>38 DEF SaveResult
<1>39. CASE ControlGain
  BY <1>39 DEF ControlGain
<1>40. CASE Send /\ SendEnds
  BY <1>40 DEF SendEnds, Send
<1>41. CASE Send /\ TryConnect
  BY <1>41 DEF TryConnect, Send
<1>42. CASE Send /\ SendHeartbeat
  BY <1>42 DEF SendHeartbeat, Send
<1>43. CASE Send /\ SendFrame
  BY <1>43 DEF SendFrame, Send
<1>44. CASE UNCHANGED vars
  BY <1>44 DEF vars
<1>45. QED
  BY <1>1, <1>2, <1>3, <1>4, <1>5, <1>6, <1>7, <1>8, <1>9, <1>10, <1>11, <1>12, <1>13, <1>14, <1>15, <1>16, <1>17, <1>18, <1>19, <1>20, <1>21, <1>22, <1>23, <1>24, <1>25, <1>26, <1>27, <1>28, <1>29, <1>30, <1>31, <1>32, <1>33, <1>34, <1>35, <1>36, <1>37, <1>38, <1>39, <1>40, <1>41, <1>42, <1>43, <1>44
  DEF Next, MainGoesOn, Configure, StartReceiver, EndReceiver, Transmit, Record, Send

\* When loadConfig returns true, every object finds the parameters it reads set.
THEOREM ParametersSet == Spec => []ConfiguredWhenTrue
<1>1. Init => ConfigInv
  BY DEF Init, ConfigInv, Receiving, Transmitting, Threads
<1>2. TypeOK /\ ConfigInv /\ [Next]_vars => ConfigInv'
  BY ConfigStep
<1>3. TypeOK /\ ConfigInv => ConfiguredWhenTrue
  <2> SUFFICES ASSUME TypeOK, ConfigInv, loadResult = "true", NEW o \in alive
               PROVE  Needs(o) \subseteq loaded
    BY DEF ConfiguredWhenTrue
  <2>1. workMode \in Modes /\ o \in ObjectsOf(workMode)
    BY DEF TypeOK, DataOK, ConfigInv
  <2>2. QED
    BY <2>1, SectionsSuffice DEF ConfigInv
<1>4. QED
  BY <1>1, <1>2, <1>3, TypeCorrect, PTL DEF Spec


----------------------------------------------------------------------------
(* The recording.                                                          *)

\* A queue holds the frames after n, of d.
Queued(queue, d, n) == queue = [i \in 1 .. d - n |-> n + i]

\* A file holds the frames before n, and k channels of n.
Partial(file, n, k) ==
    /\ Len(file) = (n - 1) * Channels + k
    /\ \A f \in 1 .. n - 1, c \in 1 .. Channels : file[(f - 1) * Channels + c] = <<f, c>>
    /\ \A c \in 1 .. k : file[(n - 1) * Channels + c] = <<n, c>>

\* The blocks of a frame lie before those of a later one.
LEMMA BlockBefore ==
  ASSUME NEW C \in Nat \ {0}, NEW n \in Nat, NEW f \in 1 .. n, NEW c \in 1 .. C
  PROVE  (f - 1) * C + c \in 1 .. n * C
<1>1. f * C <= n * C
  <2>1. n - f \in Nat /\ n * C = f * C + (n - f) * C
    OBVIOUS
  <2>2. (n - f) * C \in Nat
    BY <2>1
  <2>3. QED
    BY <2>1, <2>2
<1>2. (f - 1) * C = f * C - C /\ (f - 1) * C \in Nat
  <2>1. f - 1 \in Nat
    OBVIOUS
  <2>2. QED
    BY <2>1
<1>3. QED
  BY <1>1, <1>2

\* When a file is whole the next frame begins.
LEMMA FrameBegins ==
  ASSUME NEW file, NEW n \in Nat, Whole(file, n)
  PROVE  Partial(file, n + 1, 0)
<1>1. (n + 1) - 1 = n /\ n * Channels + 0 = n * Channels
  BY BoundsAssumption
<1>2. QED
  BY <1>1 DEF Whole, Partial

\* A frame of which all channels are written is whole.
LEMMA FrameEnds ==
  ASSUME NEW file, NEW n \in Nat \ {0}, Partial(file, n, Channels)
  PROVE  Whole(file, n)
<1>1. Len(file) = n * Channels
  <2>1. (n - 1) * Channels + Channels = n * Channels
    BY BoundsAssumption
  <2>2. QED
    BY <2>1 DEF Partial
<1>2. ASSUME NEW f \in 1 .. n, NEW c \in 1 .. Channels
      PROVE  file[(f - 1) * Channels + c] = <<f, c>>
  <2>1. CASE f = n
    BY <2>1 DEF Partial
  <2>2. CASE f # n
    <3>1. f \in 1 .. n - 1
      BY <2>2
    <3>2. QED
      BY <3>1 DEF Partial
  <2>3. QED
    BY <2>1, <2>2
<1>3. QED
  BY <1>1, <1>2 DEF Whole

\* One more channel is written.
LEMMA FrameGrows ==
  ASSUME NEW file \in Seq(Nat \X Nat), NEW n \in Nat \ {0}, NEW k \in Nat, k < Channels,
         Partial(file, n, k)
  PROVE  Partial(Append(file, <<n, k + 1>>), n, k + 1)
<1> DEFINE base == (n - 1) * Channels
           next == Append(file, <<n, k + 1>>)
<1>1. base \in Nat
  <2>1. n - 1 \in Nat
    OBVIOUS
  <2>2. QED
    BY <2>1, BoundsAssumption
<1>2. Len(file) = base + k
  BY DEF Partial
<1> HIDE DEF base
<1>3. /\ Len(next) = base + (k + 1)
      /\ next[base + (k + 1)] = <<n, k + 1>>
      /\ \A i \in 1 .. base + k : next[i] = file[i]
  <2>1. base + k + 1 = base + (k + 1)
    BY <1>1
  <2>2. <<n, k + 1>> \in Nat \X Nat
    OBVIOUS
  <2>3. QED
    BY <1>1, <1>2, <2>1, <2>2
<1> HIDE DEF next
<1>4. ASSUME NEW f \in 1 .. n - 1, NEW c \in 1 .. Channels
      PROVE  next[(f - 1) * Channels + c] = <<f, c>>
  <2>1. (f - 1) * Channels + c \in 1 .. (n - 1) * Channels
    <3>1. n - 1 \in Nat
      OBVIOUS
    <3>2. QED
      BY <3>1, BlockBefore, BoundsAssumption
  <2>2. (f - 1) * Channels + c \in 1 .. base + k
    BY <1>1, <2>1 DEF base
  <2>3. file[(f - 1) * Channels + c] = <<f, c>>
    BY DEF Partial
  <2>4. QED
    BY <1>3, <2>2, <2>3
<1>5. ASSUME NEW c \in 1 .. k + 1
      PROVE  next[base + c] = <<n, c>>
  <2>1. CASE c = k + 1
    BY <1>3, <2>1
  <2>2. CASE c \in 1 .. k
    <3>1. base + c \in 1 .. base + k
      BY <1>1, <2>2
    <3>2. file[base + c] = <<n, c>>
      BY <2>2 DEF Partial, base
    <3>3. QED
      BY <1>3, <3>1, <3>2
  <2>3. c = k + 1 \/ c \in 1 .. k
    OBVIOUS
  <2>4. QED
    BY <2>1, <2>2, <2>3
<1>6. QED
  BY <1>3, <1>4, <1>5 DEF Partial, base, next

\* The device appends the next frame to the queue of the saver.
LEMMA QueuedDeliver ==
  ASSUME NEW d \in Nat, NEW n \in 0 .. d, NEW queue, Queued(queue, d, n)
  PROVE  Queued(Append(queue, d + 1), d + 1, n)
<1>1. Len(queue) = d - n
  BY DEF Queued
<1>2. (d + 1) - n = (d - n) + 1 /\ n + ((d - n) + 1) = d + 1
  OBVIOUS
<1>3. Append(queue, d + 1) = [i \in 1 .. (d - n) + 1 |-> n + i]
  BY <1>1, <1>2 DEF Queued
<1>4. QED
  BY <1>2, <1>3 DEF Queued

\* The saver takes the next frame from its queue.
LEMMA QueuedPop ==
  ASSUME NEW d \in Nat, NEW n \in 0 .. d, NEW queue, Queued(queue, d, n), queue # << >>
  PROVE  n + 1 \in 1 .. d /\ Head(queue) = n + 1 /\ Queued(Tail(queue), d, n + 1)
<1>1. Len(queue) = d - n /\ queue \in Seq(Nat)
  BY DEF Queued
<1>2. d - n >= 1
  BY <1>1
<1>3. Head(queue) = n + 1
  BY <1>1, <1>2 DEF Queued
<1>4. /\ Tail(queue) \in Seq(Nat) /\ Len(Tail(queue)) = d - (n + 1)
      /\ \A i \in 1 .. d - (n + 1) : Tail(queue)[i] = (n + 1) + i
  <2>1. \A i \in 1 .. d - n : queue[i] = n + i
    BY DEF Queued
  <2>2. Len(Tail(queue)) = (d - n) - 1 /\ \A i \in 1 .. (d - n) - 1 : Tail(queue)[i] = queue[i + 1]
    BY <1>1, <1>2
  <2>3. QED
    BY <1>1, <1>2, <2>1, <2>2
<1>5. Tail(queue) = [i \in 1 .. d - (n + 1) |-> (n + 1) + i]
  <2> DEFINE rest == [i \in 1 .. d - (n + 1) |-> (n + 1) + i]
  <2>1. d - (n + 1) \in Nat
    BY <1>2
  <2>2. rest \in Seq(Nat) /\ Len(rest) = d - (n + 1)
    BY <2>1
  <2>3. \A i \in 1 .. Len(Tail(queue)) : Tail(queue)[i] = rest[i]
    BY <1>4
  <2> HIDE DEF rest
  <2>4. Tail(queue) = rest
    BY <1>4, <2>2, <2>3, SeqEqual
  <2>5. QED
    BY <2>4 DEF rest
<1>6. QED
  BY <1>2, <1>3, <1>5 DEF Queued

BeforeRecorder == {"open", "load", "outerSaver", "generate", "DSP", "results", "AGC",
                   "startDSP", "server", "sender", "innerSaver"}

\* Where the frames delivered are: in the file, in the saver's hands, in its queue.
RecordInv ==
    /\ pc["main"] \in BeforeRecorder => pc["record"] = "none"
    /\ pc["main"] = "closeRecording" => Joined("record")
    /\ recording = "done" => Joined("record")
    /\ pc["record"] = "none" => written = << >> /\ Queued(dataSaveQueue, delivered, 0)
    /\ pc["record"] \in {"test", "wait", "ended"} =>
           \E n \in 0 .. delivered : Whole(written, n) /\ Queued(dataSaveQueue, delivered, n)
    /\ pc["record"] = "dump" =>
           /\ inHand \in 1 .. delivered /\ nextChannel \in 1 .. Channels
           /\ Queued(dataSaveQueue, delivered, inHand)
           /\ Partial(written, inHand, nextChannel - 1)

LEMMA RecordStep ==
  ASSUME TypeOK, RecordInv, [Next]_vars
  PROVE  RecordInv'
<1> USE DEF TypeOK, ControlOK, RecordInv, BeforeRecorder, Threads, Joined, queueVars, recordVars, Goto, Main, Ends
<1>1. CASE OpenConfig
  BY <1>1 DEF OpenConfig
<1>2. CASE LoadSection
  BY <1>2 DEF LoadSection, ReadSection
<1>3. CASE LoadFails
  BY <1>3 DEF LoadFails
<1>4. CASE LoadDone
  BY <1>4 DEF LoadDone
<1>5. CASE OuterSaver
  BY <1>5 DEF OuterSaver
<1>6. CASE GenerateSignal
  BY <1>6 DEF GenerateSignal
<1>7. CASE ConstructDSP
  BY <1>7 DEF ConstructDSP
<1>8. CASE StartResultSaver
  <2>1. CASE MainStarts("results", "AGC", "results", "wait")
    BY <1>8, <2>1, StartPc DEF StartResultSaver
  <2>2. CASE Ends("main", "results", "exited")
    BY <1>8, <2>2 DEF StartResultSaver
  <2>3. QED
    BY <1>8, <2>1, <2>2 DEF StartResultSaver
<1>9. CASE StartAGC
  <2>1. CASE MainStarts("AGC", "startDSP", "agc", "init") /\ Construct("AGC")
    BY <1>9, <2>1, StartPc DEF StartAGC
  <2>2. CASE Main("AGC", "startDSP") /\ Construct("AGC")
    BY <1>9, <2>2 DEF StartAGC
  <2>3. CASE Ends("main", "AGC", "terminated") /\ UNCHANGED alive
    BY <1>9, <2>3 DEF StartAGC
  <2>4. QED
    BY <1>9, <2>1, <2>2, <2>3 DEF StartAGC
<1>10. CASE StartDSP
  BY <1>10, StartPc DEF StartDSP
<1>11. CASE ConstructServer
  BY <1>11 DEF ConstructServer
<1>12. CASE StartSender
  BY <1>12, StartPc DEF StartSender
<1>13. CASE StartRecorder
  <2>1. pc["record"] = "none" /\ written = << >> /\ Queued(dataSaveQueue, delivered, 0)
    BY <1>13 DEF StartRecorder, MainStarts
  <2>2. 0 \in 0 .. delivered /\ Whole(written, 0)
    BY <2>1, BoundsAssumption DEF Whole, DataOK
  <2>3. UNCHANGED <<delivered, dataSaveQueue, written>>
    BY <1>13 DEF StartRecorder
  <2>4. CASE MainStarts("innerSaver", "connect", "record", "test") /\ recording' = "open"
    BY <2>1, <2>2, <2>3, <2>4, StartPc
  <2>5. CASE Main("innerSaver", "connect") /\ UNCHANGED recording
    BY <2>1, <2>3, <2>5
  <2>6. QED
    BY <1>13, <2>4, <2>5 DEF StartRecorder
<1>14. CASE Connect
  BY <1>14 DEF Connect
<1>15. CASE StartScan
  BY <1>15 DEF StartScan
<1>16. CASE Disconnect
  BY <1>16 DEF Disconnect
<1>17. CASE DestroyScan
  BY <1>17 DEF DestroyScan
<1>18. CASE ClearEnableSave
  BY <1>18 DEF ClearEnableSave
<1>19. CASE JoinRecorder
  BY <1>19 DEF JoinRecorder
<1>20. CASE CloseRecording
  BY <1>20 DEF CloseRecording
<1>21. CASE StopSender
  BY <1>21 DEF StopSender
<1>22. CASE JoinSender
  BY <1>22 DEF JoinSender
<1>23. CASE DestroyServer
  BY <1>23 DEF DestroyServer
<1>24. CASE DestroyAGC
  BY <1>24 DEF DestroyAGC, DestroyThreadOwner
<1>25. CASE DestroyDSP
  BY <1>25 DEF DestroyDSP, DestroyThreadOwner
<1>26. CASE ConnectOutput
  BY <1>26 DEF ConnectOutput
<1>27. CASE StartOutput
  BY <1>27 DEF StartOutput
<1>28. CASE StopOutput
  BY <1>28 DEF StopOutput
<1>29. CASE DisconnectOutput
  BY <1>29 DEF DisconnectOutput
<1>30. CASE DestroyOutput
  BY <1>30 DEF DestroyOutput
<1>31. CASE Return
  BY <1>31 DEF Return
<1>32. CASE StopScan
  BY <1>32 DEF StopScan
<1>33. CASE Deliver
  <2>1. /\ UNCHANGED <<pc, recording, written, inHand, nextChannel>>
        /\ delivered \in Nat /\ delivered' = delivered + 1
        /\ dataSaveQueue' = Append(dataSaveQueue, delivered + 1)
    BY <1>33 DEF Deliver, DataOK
  <2>2. \A n \in 0 .. delivered :
           n \in 0 .. delivered' /\ (Queued(dataSaveQueue, delivered, n) => Queued(dataSaveQueue', delivered', n))
    BY <2>1, QueuedDeliver
  <2>3. inHand \in 1 .. delivered => inHand \in 0 .. delivered /\ inHand \in 1 .. delivered'
    BY <2>1
  <2>4. 0 \in 0 .. delivered
    BY <2>1
  <2>5. QED
    BY <2>1, <2>2, <2>3, <2>4
<1>34. CASE TestEnableSave
  BY <1>34 DEF TestEnableSave
<1>35. CASE PopToSave
  <2>1. PICK n \in 0 .. delivered : Whole(written, n) /\ Queued(dataSaveQueue, delivered, n)
    BY <1>35 DEF PopToSave
  <2>2. /\ delivered \in Nat /\ UNCHANGED <<delivered, recording, written>>
        /\ dataSaveQueue # << >> /\ dataSaveQueue' = Tail(dataSaveQueue)
        /\ inHand' = Head(dataSaveQueue) /\ nextChannel' = 1
        /\ pc["record"] = "wait" /\ pc'["record"] = "dump" /\ pc'["main"] = pc["main"]
    BY <1>35 DEF PopToSave, DataOK
  <2>3. /\ inHand' = n + 1 /\ n + 1 \in 1 .. delivered
        /\ Queued(dataSaveQueue', delivered, n + 1)
    BY <2>1, <2>2, QueuedPop
  <2>4. Partial(written, n + 1, 0)
    BY <2>1, <2>2, FrameBegins
  <2>5. 1 \in 1 .. Channels /\ 1 - 1 = 0
    BY BoundsAssumption
  <2>6. QED
    BY <2>2, <2>3, <2>4, <2>5
<1>36. CASE DumpChannel
  <2>1. /\ delivered \in Nat /\ written \in Seq(Nat \X Nat)
        /\ UNCHANGED <<delivered, dataSaveQueue, inHand, recording>>
        /\ written' = Append(written, <<inHand, nextChannel>>) /\ nextChannel' = nextChannel + 1
        /\ pc["record"] = "dump" /\ pc'["main"] = pc["main"]
        /\ pc'["record"] = IF nextChannel = Channels THEN "test" ELSE "dump"
    BY <1>36 DEF DumpChannel, DataOK
  <2>2. /\ inHand \in 1 .. delivered /\ nextChannel \in 1 .. Channels
        /\ Queued(dataSaveQueue, delivered, inHand)
        /\ Partial(written, inHand, nextChannel - 1)
    BY <2>1
  <2>3. /\ inHand \in Nat \ {0} /\ nextChannel - 1 \in Nat /\ nextChannel - 1 < Channels
        /\ (nextChannel - 1) + 1 = nextChannel
    BY <2>1, <2>2, BoundsAssumption
  <2>4. Partial(written', inHand, nextChannel)
    <3> DEFINE k == nextChannel - 1
    <3>1. k \in Nat /\ k < Channels /\ Partial(written, inHand, k) /\ k + 1 = nextChannel
      BY <2>2, <2>3
    <3> HIDE DEF k
    <3>2. Partial(Append(written, <<inHand, k + 1>>), inHand, k + 1)
      BY <2>1, <2>3, <3>1, FrameGrows
    <3>3. QED
      BY <2>1, <3>1, <3>2
  <2>5. CASE nextChannel = Channels
    <3>1. Whole(written', inHand) /\ inHand \in 0 .. delivered
      BY <2>1, <2>2, <2>3, <2>4, <2>5, FrameEnds
    <3>2. QED
      BY <2>1, <2>2, <2>5, <3>1
  <2>6. CASE nextChannel # Channels
    <3>1. nextChannel' \in 1 .. Channels /\ nextChannel' - 1 = nextChannel
      BY <2>1, <2>2, <2>6, BoundsAssumption
    <3>2. QED
      BY <2>1, <2>2, <2>4, <2>6, <3>1
  <2>7. QED
    BY <2>5, <2>6
<1>37. CASE Process
  BY <1>37 DEF Process
<1>38. CASE SaveResult
  BY <1>38 DEF SaveResult
<1>39. CASE ControlGain
  BY <1>39 DEF ControlGain
<1>40. CASE Send /\ SendEnds
  BY <1>40 DEF SendEnds, Send
<1>41. CASE Send /\ TryConnect
  BY <1>41 DEF TryConnect, Send
<1>42. CASE Send /\ SendHeartbeat
  BY <1>42 DEF SendHeartbeat, Send
<1>43. CASE Send /\ SendFrame
  BY <1>43 DEF SendFrame, Send
<1>44. CASE UNCHANGED vars
  BY <1>44 DEF vars
<1>45. QED
  BY <1>1, <1>2, <1>3, <1>4, <1>5, <1>6, <1>7, <1>8, <1>9, <1>10, <1>11, <1>12, <1>13, <1>14, <1>15, <1>16, <1>17, <1>18, <1>19, <1>20, <1>21, <1>22, <1>23, <1>24, <1>25, <1>26, <1>27, <1>28, <1>29, <1>30, <1>31, <1>32, <1>33, <1>34, <1>35, <1>36, <1>37, <1>38, <1>39, <1>40, <1>41, <1>42, <1>43, <1>44
  DEF Next, MainGoesOn, Configure, StartReceiver, EndReceiver, Transmit, Record, Send

LEMMA RecordInvariant == Spec => [](TypeOK /\ RecordInv)
<1>1. Init => RecordInv
  BY DEF Init, RecordInv, BeforeRecorder, Threads, Joined, Queued
<1>2. TypeOK /\ RecordInv /\ [Next]_vars => RecordInv'
  BY RecordStep
<1>3. QED
  BY <1>1, <1>2, TypeCorrect, PTL DEF Spec

\* saveDAQAIData never loses a frame of dataSaveQueue: each one the device has
\* delivered is in the file, block after block, or still waits, for any number of
\* frames and channels and any interleaving with main and the device.
THEOREM NothingIsSkipped == Spec => []NothingSkipped
<1>1. TypeOK /\ RecordInv => NothingSkipped
  BY DEF RecordInv, NothingSkipped, Queued
<1>2. QED
  BY <1>1, RecordInvariant, PTL

\* The recording never lacks or splits a frame, whenever the destructor comes.
THEOREM RecordingComplete == Spec => []RecordingWhole
<1>1. ASSUME TypeOK, RecordInv PROVE RecordingWhole
  <2>1. ASSUME written = << >> PROVE Whole(written, 0) /\ 0 \in 0 .. delivered
    BY <1>1, <2>1, BoundsAssumption DEF Whole, TypeOK, DataOK
  <2>2. QED
    BY <1>1, <2>1 DEF RecordInv, RecordingWhole, Joined
<1>2. QED
  BY <1>1, RecordInvariant, PTL

----------------------------------------------------------------------------
(* The end of the program.                                                 *)

\* Waiting for a frame that cannot come: the destructor has cleared the flag,
\* the scan is over and the saver is inside wait_and_pop.
StuckInJoin ==
    /\ pc["main"] = "joinRecorder" /\ pc["record"] = "wait"
    /\ dataSaveQueue = << >> /\ scanning = "off"

LEMMA StuckStep ==
  ASSUME TypeOK, StuckInJoin, [Next]_vars
  PROVE  StuckInJoin'
<1> USE DEF StuckInJoin, TypeOK, ControlOK, DataOK, Threads, Joined, deviceVars, queueVars, Goto, Main, MainStarts, Ends
<1>1. CASE OpenConfig
  BY <1>1 DEF OpenConfig
<1>2. CASE LoadSection
  BY <1>2 DEF LoadSection, ReadSection
<1>3. CASE LoadFails
  BY <1>3 DEF LoadFails
<1>4. CASE LoadDone
  BY <1>4 DEF LoadDone
<1>5. CASE OuterSaver
  BY <1>5 DEF OuterSaver
<1>6. CASE GenerateSignal
  BY <1>6 DEF GenerateSignal
<1>7. CASE ConstructDSP
  BY <1>7 DEF ConstructDSP
<1>8. CASE StartResultSaver
  BY <1>8 DEF StartResultSaver
<1>9. CASE StartAGC
  BY <1>9 DEF StartAGC
<1>10. CASE StartDSP
  BY <1>10 DEF StartDSP
<1>11. CASE ConstructServer
  BY <1>11 DEF ConstructServer
<1>12. CASE StartSender
  BY <1>12 DEF StartSender
<1>13. CASE StartRecorder
  BY <1>13 DEF StartRecorder
<1>14. CASE Connect
  BY <1>14 DEF Connect
<1>15. CASE StartScan
  BY <1>15 DEF StartScan
<1>16. CASE Disconnect
  BY <1>16 DEF Disconnect
<1>17. CASE DestroyScan
  BY <1>17 DEF DestroyScan
<1>18. CASE ClearEnableSave
  BY <1>18 DEF ClearEnableSave
<1>19. CASE JoinRecorder
  BY <1>19 DEF JoinRecorder
<1>20. CASE CloseRecording
  BY <1>20 DEF CloseRecording
<1>21. CASE StopSender
  BY <1>21 DEF StopSender
<1>22. CASE JoinSender
  BY <1>22 DEF JoinSender
<1>23. CASE DestroyServer
  BY <1>23 DEF DestroyServer
<1>24. CASE DestroyAGC
  BY <1>24 DEF DestroyAGC, DestroyThreadOwner
<1>25. CASE DestroyDSP
  BY <1>25 DEF DestroyDSP, DestroyThreadOwner
<1>26. CASE ConnectOutput
  BY <1>26 DEF ConnectOutput
<1>27. CASE StartOutput
  BY <1>27 DEF StartOutput
<1>28. CASE StopOutput
  BY <1>28 DEF StopOutput
<1>29. CASE DisconnectOutput
  BY <1>29 DEF DisconnectOutput
<1>30. CASE DestroyOutput
  BY <1>30 DEF DestroyOutput
<1>31. CASE Return
  BY <1>31 DEF Return
<1>32. CASE StopScan
  BY <1>32 DEF StopScan
<1>33. CASE Deliver
  BY <1>33 DEF Deliver
<1>34. CASE TestEnableSave
  BY <1>34 DEF TestEnableSave
<1>35. CASE PopToSave
  BY <1>35 DEF PopToSave
<1>36. CASE DumpChannel
  BY <1>36 DEF DumpChannel
<1>37. CASE Process
  BY <1>37 DEF Process
<1>38. CASE SaveResult
  BY <1>38 DEF SaveResult
<1>39. CASE ControlGain
  BY <1>39 DEF ControlGain
<1>40. CASE Send /\ SendEnds
  BY <1>40 DEF SendEnds, Send
<1>41. CASE Send /\ TryConnect
  BY <1>41 DEF TryConnect, Send
<1>42. CASE Send /\ SendHeartbeat
  BY <1>42 DEF SendHeartbeat, Send
<1>43. CASE Send /\ SendFrame
  BY <1>43 DEF SendFrame, Send
<1>44. CASE UNCHANGED vars
  BY <1>44 DEF vars
<1>45. QED
  BY <1>1, <1>2, <1>3, <1>4, <1>5, <1>6, <1>7, <1>8, <1>9, <1>10, <1>11, <1>12, <1>13, <1>14, <1>15, <1>16, <1>17, <1>18, <1>19, <1>20, <1>21, <1>22, <1>23, <1>24, <1>25, <1>26, <1>27, <1>28, <1>29, <1>30, <1>31, <1>32, <1>33, <1>34, <1>35, <1>36, <1>37, <1>38, <1>39, <1>40, <1>41, <1>42, <1>43, <1>44
  DEF Next, MainGoesOn, Configure, StartReceiver, EndReceiver, Transmit, Record, Send

\* Once the destructor waits for a saver that waits for a frame, it does so for
\* ever: no step of any thread, in whatever state it is, wakes the saver.  (The
\* reason why CloseEndsThread fails, and the only one: see JoinIsShort.)
THEOREM NeverReturns == Spec => [][StuckInJoin => StuckInJoin']_vars
<1>1. TypeOK /\ [Next]_vars => (StuckInJoin => StuckInJoin')
  BY StuckStep
<1>2. QED
  BY <1>1, TypeCorrect, PTL DEF Spec

\* The steps of the saver until its thread ends, once the flag is cleared.
RecorderLeft ==
    IF Joined("record") THEN 0
    ELSE IF pc["record"] = "test" THEN 1
    ELSE IF pc["record"] = "dump" THEN (Channels - nextChannel) + 2
    ELSE Channels + 2

\* Where the saver can be, and that it finds the flag cleared while main joins it.
RecorderInv ==
    /\ pc["record"] \in {"none", "test", "wait", "dump", "ended"}
    /\ pc["main"] = "joinRecorder" => ~enableSave

\* While main waits in the join nothing is delivered, and the saver has a number of
\* steps left that is bounded by the channels of a frame.
JoinBounded ==
    pc["main"] = "joinRecorder" => scanning = "off" /\ RecorderLeft \in 0 .. Channels + 2

\* No step makes the wait longer or hopeless, and each one of the saver shortens it.
JoinNearer ==
    (pc["main"] = "joinRecorder" /\ ~StuckInJoin /\ pc'["main"] = "joinRecorder") =>
        /\ ~StuckInJoin'
        /\ RecorderLeft' <= RecorderLeft
        /\ Record => RecorderLeft' < RecorderLeft

LEMMA RecorderStep ==
  ASSUME TypeOK, RecorderInv, [Next]_vars
  PROVE  RecorderInv'
<1> USE DEF TypeOK, ControlOK, RecorderInv, Threads, recordVars, Goto, Main, Ends
<1>s. ASSUME NEW t \in Threads \ {"record"}, NEW from, NEW to, NEW first,
             to # "joinRecorder", MainStarts(from, to, t, first)
      PROVE  pc'["main"] # "joinRecorder" /\ pc'["record"] = pc["record"]
  BY <1>s, StartPc
<1>1. CASE Configure
  BY <1>1 DEF Configure, OpenConfig, LoadSection, ReadSection, LoadFails, LoadDone
<1>2. CASE OuterSaver \/ GenerateSignal \/ Return
  BY <1>2 DEF OuterSaver, GenerateSignal, Return
<1>3. CASE StartReceiver
  <2>1. CASE ConstructDSP \/ ConstructServer \/ Connect \/ StartScan
    BY <2>1 DEF ConstructDSP, ConstructServer, Connect, StartScan
  <2>2. CASE StartResultSaver
    BY <1>s, <2>2 DEF StartResultSaver
  <2>3. CASE StartAGC
    BY <1>s, <2>3 DEF StartAGC
  <2>4. CASE StartDSP
    BY <1>s, <2>4 DEF StartDSP
  <2>5. CASE StartSender
    BY <1>s, <2>5 DEF StartSender
  <2>6. CASE StartRecorder
    <3>1. CASE MainStarts("innerSaver", "connect", "record", "test")
      BY <3>1, StartPc
    <3>2. CASE Main("innerSaver", "connect")
      BY <3>2
    <3>3. QED
      BY <2>6, <3>1, <3>2 DEF StartRecorder
  <2>7. QED
    BY <1>3, <2>1, <2>2, <2>3, <2>4, <2>5, <2>6 DEF StartReceiver
<1>4. CASE EndReceiver
  BY <1>4 DEF EndReceiver, Disconnect, DestroyScan, ClearEnableSave, JoinRecorder, CloseRecording,
     StopSender, JoinSender, DestroyServer, DestroyAGC, DestroyDSP, DestroyThreadOwner
<1>5. CASE Transmit
  BY <1>5 DEF Transmit, ConnectOutput, StartOutput, StopOutput, DisconnectOutput, DestroyOutput
<1>6. CASE StopScan \/ Deliver
  BY <1>6 DEF StopScan, Deliver
<1>7. CASE Record
  BY <1>7 DEF Record, TestEnableSave, PopToSave, DumpChannel
<1>8. CASE Process \/ SaveResult \/ ControlGain
  BY <1>8 DEF Process, SaveResult, ControlGain
<1>9. CASE Send
  BY <1>9 DEF Send, SendEnds, TryConnect, SendHeartbeat, SendFrame
<1>10. CASE UNCHANGED vars
  BY <1>10 DEF vars
<1>11. QED
  BY <1>1, <1>2, <1>3, <1>4, <1>5, <1>6, <1>7, <1>8, <1>9, <1>10 DEF Next, MainGoesOn

\* While main waits in the join only the saver changes what it depends on.
LEMMA WhileJoining ==
  ASSUME TypeOK, [Next]_vars, scanning = "off",
         pc["main"] = "joinRecorder", pc'["main"] = "joinRecorder"
  PROVE  /\ scanning' = scanning
         /\ Record \/ /\ pc'["record"] = pc["record"]
                      /\ UNCHANGED <<nextChannel, dataSaveQueue>>
<1> USE DEF TypeOK, ControlOK, Threads, deviceVars, queueVars, recordVars, Goto, Main, Ends
<1>1. ~Configure
  BY DEF Configure, OpenConfig, LoadSection, ReadSection, LoadFails, LoadDone
<1>2. ~(OuterSaver \/ GenerateSignal \/ Return)
  BY DEF OuterSaver, GenerateSignal, Return
<1>3. ~StartReceiver
  BY DEF StartReceiver, ConstructDSP, StartResultSaver, StartAGC, StartDSP, ConstructServer,
     StartSender, StartRecorder, Connect, StartScan, MainStarts
<1>4. ~EndReceiver
  BY DEF EndReceiver, Disconnect, DestroyScan, ClearEnableSave, JoinRecorder, CloseRecording,
     StopSender, JoinSender, DestroyServer, DestroyAGC, DestroyDSP, DestroyThreadOwner
<1>5. ~Transmit
  BY DEF Transmit, ConnectOutput, StartOutput, StopOutput, DisconnectOutput, DestroyOutput
<1>6. ~(StopScan \/ Deliver)
  BY DEF StopScan, Deliver
<1>7. CASE Record
  BY <1>7 DEF Record, TestEnableSave, PopToSave, DumpChannel
<1>8. CASE Process \/ SaveResult \/ ControlGain
  BY <1>8 DEF Process, SaveResult, ControlGain
<1>9. CASE Send
  BY <1>9 DEF Send, SendEnds, TryConnect, SendHeartbeat, SendFrame
<1>10. CASE UNCHANGED vars
  BY <1>10 DEF vars
<1>11. QED
  BY <1>1, <1>2, <1>3, <1>4, <1>5, <1>6, <1>7, <1>8, <1>9, <1>10 DEF Next, MainGoesOn

LEMMA JoinNearerStep ==
  ASSUME TypeOK, AliveInv, PlayInv, RecordInv, RecorderInv, [Next]_vars
  PROVE  JoinNearer
<1> SUFFICES ASSUME pc["main"] = "joinRecorder", pc'["main"] = "joinRecorder", ~StuckInJoin
             PROVE  /\ ~StuckInJoin' /\ RecorderLeft' <= RecorderLeft
                    /\ Record => RecorderLeft' < RecorderLeft
  BY DEF JoinNearer
<1>1. scanning = "off" /\ scanning' = "off"
  <2>1. scanning = "off"
    BY DEF TypeOK, DataOK, AliveInv, PlayInv
  <2>2. QED
    BY <2>1, WhileJoining
<1>2. /\ Channels \in Nat \ {0} /\ ~enableSave
      /\ pc["record"] = "wait" => dataSaveQueue # << >>
      /\ pc["record"] = "dump" => nextChannel \in 1 .. Channels
      /\ pc["record"] \in {"none", "test", "wait", "dump", "ended"}
      /\ pc \in [Threads \cup {"main"} -> MainAt \cup ThreadAt] /\ "record" \in Threads
  BY <1>1, BoundsAssumption DEF StuckInJoin, RecordInv, RecorderInv, TypeOK, ControlOK, Threads
<1>3. CASE TestEnableSave
  <2>1. pc["record"] = "test" /\ pc'["record"] = "ended"
    BY <1>2, <1>3 DEF TestEnableSave, Goto
  <2>2. QED
    BY <2>1 DEF RecorderLeft, Joined, StuckInJoin
<1>4. CASE PopToSave
  <2>1. pc["record"] = "wait" /\ pc'["record"] = "dump" /\ nextChannel' = 1
    BY <1>2, <1>4 DEF PopToSave, Goto
  <2>2. QED
    BY <1>2, <2>1 DEF RecorderLeft, Joined, StuckInJoin
<1>5. CASE DumpChannel
  <2>1. /\ pc["record"] = "dump" /\ nextChannel' = nextChannel + 1
        /\ pc'["record"] = IF nextChannel = Channels THEN "test" ELSE "dump"
    BY <1>2, <1>5 DEF DumpChannel, Goto
  <2>2. QED
    BY <1>2, <2>1 DEF RecorderLeft, Joined, StuckInJoin
<1>6. CASE ~Record
  <2>1. pc'["record"] = pc["record"] /\ nextChannel' = nextChannel /\ dataSaveQueue' = dataSaveQueue
    BY <1>1, <1>6, WhileJoining
  <2>2. RecorderLeft' = RecorderLeft /\ RecorderLeft \in Int
    BY <1>2, <2>1 DEF RecorderLeft, Joined
  <2>3. QED
    BY <1>1, <1>2, <1>6, <2>1, <2>2 DEF StuckInJoin
<1>7. QED
  BY <1>3, <1>4, <1>5, <1>6 DEF Record

\* The destructor that joins the saver waits for Channels + 2 steps of it at most,
\* unless it finds it waiting at an empty queue: what RecorderEnds needs besides
\* fairness, for any number of frames and channels.
THEOREM JoinIsShort == Spec => []JoinBounded /\ [][JoinNearer]_vars
<1>1. Spec => [](TypeOK /\ AliveInv /\ PlayInv /\ RecordInv /\ RecorderInv)
  <2>1. Init => AliveInv /\ PlayInv /\ RecorderInv
    BY DEF Init, AliveInv, PlayInv, RecorderInv, Threads, Joined
  <2>2. TypeOK /\ AliveInv /\ PlayInv /\ RecorderInv /\ [Next]_vars
          => AliveInv' /\ PlayInv' /\ RecorderInv'
    BY AliveStep, PlayStep, RecorderStep
  <2>3. QED
    BY <2>1, <2>2, RecordInvariant, PTL DEF Spec
<1>2. TypeOK /\ AliveInv /\ PlayInv /\ RecordInv /\ RecorderInv => JoinBounded
  <2> SUFFICES ASSUME TypeOK, AliveInv, PlayInv, RecordInv, RecorderInv, pc["main"] = "joinRecorder"
               PROVE  scanning = "off" /\ RecorderLeft \in 0 .. Channels + 2
    BY DEF JoinBounded
  <2>1. scanning = "off"
    BY DEF TypeOK, DataOK, AliveInv, PlayInv
  <2>2. Channels \in Nat \ {0} /\ (pc["record"] = "dump" => nextChannel \in 1 .. Channels)
    BY BoundsAssumption DEF RecordInv
  <2>3. QED
    BY <2>1, <2>2 DEF RecorderLeft
<1>3. TypeOK /\ AliveInv /\ PlayInv /\ RecordInv /\ RecorderInv /\ [Next]_vars => JoinNearer
  BY JoinNearerStep
<1>4. QED
  BY <1>1, <1>2, <1>3, PTL DEF Spec
=============================================================================
