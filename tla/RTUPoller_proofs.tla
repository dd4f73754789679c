-------------------------- MODULE RTUPoller_proofs --------------------------
(***************************************************************************)
(* Proofs about RTUPoller, for any number of devices and points.           *)
(***************************************************************************)
EXTENDS RTUPoller, TLAPS

-----------------------------------------------------------------------------
(* Type correctness.                                                       *)

LEMMA AdvanceType ==
    ASSUME InScan, Advance, dev \in 1..(NumDevices + 1), pt \in Points
    PROVE  dev \in Devices /\ dev' \in 1..(NumDevices + 1) /\ pt' \in Points
<1>1. NumDevices \in Nat /\ NumPoints \in Nat /\ NumPoints >= 1
  BY RTUAssumption
<1> QED BY <1>1 DEF InScan, Advance, Devices, Points

LEMMA ReportType ==
    Report \in Reports <=> /\ connected \in [Devices -> BOOLEAN]
                           /\ poll_errors \in [Devices -> 0..MaxErrors]
                           /\ simulate \in BOOLEAN
BY DEF Report, Reports

LEMMA PollerStepType == TypeOK /\ Poller => TypeOK'
<1> SUFFICES ASSUME TypeOK, Poller PROVE TypeOK'
  OBVIOUS
<1>1. UNCHANGED <<mode, mstpEnabled, router, regs, wPc, answer, mPc>>
  BY DEF Poller, mainVars
<1>2. NumDevices \in Nat /\ NumPoints \in Nat /\ NumPoints >= 1 /\ MaxErrors \in Nat
  BY RTUAssumption
<1>3. ASSUME connected' \in [Devices -> BOOLEAN], poll_errors' \in [Devices -> 0..MaxErrors],
             simulate' \in BOOLEAN, whole' \in Reports,
             rPc' \in {"unborn", "init", "serial", "top", "scan", "exited"},
             dev' \in 1..(NumDevices + 1), pt' \in Points, rRunning' \in BOOLEAN,
             client' \in {"none", "closed", "open"},
             value' \in [Devices -> [Points -> Nat \cup {Made}]], heard' \in SUBSET Devices
      PROVE  TypeOK'
  <2>1. Report' \in Reports
    BY <1>3 DEF Report, Reports
  <2>2. UNCHANGED Reports
    BY DEF Reports
  <2> QED BY <1>1, <1>3, <2>1 DEF TypeOK
<1>4. /\ connected \in [Devices -> BOOLEAN] /\ poll_errors \in [Devices -> 0..MaxErrors]
      /\ simulate \in BOOLEAN /\ whole \in Reports /\ Report \in Reports
  BY ReportType DEF TypeOK
<1>5. CASE PollerStarts
  BY <1>3, <1>4, <1>5 DEF PollerStarts, TypeOK, Enabled
<1>6. CASE InitSerial
  BY <1>3, <1>4, <1>6 DEF InitSerial, TypeOK
<1>7. CASE PollerLoop
  <2>1. dev' \in 1..(NumDevices + 1) /\ pt' \in Points
    BY <1>2, <1>7 DEF PollerLoop, Points
  <2> QED BY <1>3, <1>4, <1>7, <2>1 DEF PollerLoop, TypeOK
<1>8. ASSUME InScan, Advance
      PROVE  /\ dev \in Devices /\ dev' \in 1..(NumDevices + 1) /\ pt' \in Points
             /\ UNCHANGED <<rPc, rRunning, simulate, whole>>
  BY <1>8, AdvanceType DEF TypeOK, Advance
<1>9. CASE PointRead
  <2>1. regs[dev] \in Nat \cup {Made}
    BY <1>8, <1>9 DEF PointRead, TypeOK
  <2>2. value' \in [Devices -> [Points -> Nat \cup {Made}]]
    BY <1>9, <2>1 DEF PointRead, TypeOK
  <2> QED BY <1>3, <1>4, <1>8, <1>9, <2>2 DEF PointRead, TypeOK
<1>10. CASE PointErrs
  BY <1>3, <1>4, <1>8, <1>10 DEF PointErrs, TypeOK
<1>11. CASE PointRaises
  <2>1. poll_errors' \in [Devices -> 0..MaxErrors]
    BY <1>2, <1>4, <1>8, <1>11 DEF PointRaises
  <2> QED BY <1>3, <1>4, <1>8, <1>11, <2>1 DEF PointRaises, TypeOK
<1>12. CASE DeviceSimulated
  <2>1. dev' \in 1..(NumDevices + 1)
    BY <1>2, <1>12 DEF DeviceSimulated, InScan, TypeOK
  <2>2. value' \in [Devices -> [Points -> Nat \cup {Made}]]
    BY <1>12 DEF DeviceSimulated, TypeOK
  <2> QED BY <1>3, <1>4, <1>12, <2>1, <2>2 DEF DeviceSimulated, TypeOK
<1>13. CASE ScanEnds
  <2>1. dev' \in 1..(NumDevices + 1)
    BY <1>2, <1>13 DEF ScanEnds
  <2> QED BY <1>3, <1>4, <1>13, <2>1 DEF ScanEnds, TypeOK
<1> QED
  BY <1>5, <1>6, <1>7, <1>9, <1>10, <1>11, <1>12, <1>13 DEF Poller

LEMMA StepType == TypeOK /\ [Next]_vars => TypeOK'
<1> SUFFICES ASSUME TypeOK, [Next]_vars PROVE TypeOK'
  OBVIOUS
<1> USE DEF TypeOK, Report
<1>1. CASE Main
  <2>1. UNCHANGED <<mode, regs, dev, pt, simulate, value, connected, poll_errors,
                    wPc, answer, whole, heard>>
    BY <1>1 DEF Main, SyncMode, StartRouter, StartPoller, Signal, StopFlag, CloseClient,
                StopRouter, mainVars
  <2>2. /\ mstpEnabled' \in BOOLEAN /\ router' \in BOOLEAN /\ rRunning' \in BOOLEAN
        /\ rPc' \in {"unborn", "init", "serial", "top", "scan", "exited"}
        /\ client' \in {"none", "closed", "open"}
        /\ mPc' \in {"load", "mstp", "rtu", "service", "flag", "close", "stopRouter", "gone"}
    BY <1>1 DEF Main, SyncMode, StartRouter, StartPoller, Signal, StopFlag, CloseClient,
                StopRouter, mainVars
  <2> QED BY <2>1, <2>2
<1>2. CASE Poller
  BY <1>2, PollerStepType
<1>3. CASE Web
  <2>1. NoReport \in Reports
    BY RTUAssumption DEF NoReport, Reports
  <2> QED BY <1>3, <2>1 DEF Web, Ask, Status, Reply, mainVars, pollVars
<1>4. CASE RegistersChange
  BY <1>4 DEF RegistersChange, mainVars, pollVars
<1>5. CASE UNCHANGED vars
  BY <1>5 DEF vars, mainVars, pollVars
<1> QED BY <1>1, <1>2, <1>3, <1>4, <1>5 DEF Next

\* Type correctness of the RS485 poller, for any number of devices and points.
THEOREM TypeCorrect == Spec => []TypeOK
<1>1. Init => TypeOK
  <2> SUFFICES ASSUME Init PROVE TypeOK
    OBVIOUS
  <2>1. NumDevices \in Nat /\ NumPoints \in Nat /\ NumPoints >= 1 /\ MaxErrors \in Nat
    BY RTUAssumption
  <2>2. Report \in Reports /\ NoReport \in Reports
    <3>1. NoReport \in Reports
      BY <2>1 DEF NoReport, Reports
    <3>2. Report = NoReport
      BY DEF Init, Report, NoReport
    <3> QED BY <3>1, <3>2
  <2>3. dev \in 1..(NumDevices + 1) /\ pt \in Points
    BY <2>1 DEF Init, Points
  <2>4. regs \in [Devices -> Nat] /\ answer \in Reports /\ whole \in Reports
    BY <2>2 DEF Init
  <2>6. value \in [Devices -> [Points -> Nat \cup {Made}]]
    BY DEF Init
  <2>5. /\ mode \in Modes /\ mstpEnabled \in BOOLEAN /\ router \in BOOLEAN
        /\ rPc = "unborn" /\ rRunning \in BOOLEAN /\ simulate \in BOOLEAN
        /\ client = "none" /\ wPc = "idle" /\ mPc = "load" /\ heard \in SUBSET Devices
    BY DEF Init
  <2> QED BY <2>2, <2>3, <2>4, <2>5, <2>6 DEF TypeOK
<1> QED BY <1>1, StepType, PTL DEF Spec

-----------------------------------------------------------------------------
(* The invariant behind the other properties, in named parts.              *)

\* The mode that main() loaded decides who may open the port.
PortByMode ==
    /\ router => mstpEnabled
    /\ mPc # "load" => (mstpEnabled <=> mode = "bacnet_mstp")
    /\ mPc = "load" => ~router
    /\ rPc \in {"serial", "top", "scan"} \/ client # "none" => Enabled

\* The thread is started last.
StartedLast == mPc \in {"load", "mstp", "rtu"} => rPc = "unborn"

\* Nothing was heard, made up or counted before the first scan.
FirstScan ==
    rPc \in {"unborn", "init", "serial"} =>
        \A d \in Devices : ~connected[d] /\ \A p \in Points : value[d][p] = 0

\* Off the simulation, what a device shows comes from its registers.
ReadFromLine ==
    ~simulate => \A d \in Devices :
        /\ connected[d] => d \in heard
        /\ \A p \in Points : 0 <= value[d][p] /\ value[d][p] <= regs[d]

\* Between two scans the devices are as the last one left them.
BetweenScans ==
    rPc # "scan" => connected = whole.connected /\ poll_errors = whole.poll_errors

\* An answer was taken under the lock.
AnswerTaken ==
    /\ wPc # "answered" => answer = NoReport
    /\ ConnectedHasAnswered

LineInv == PortByMode /\ StartedLast /\ FirstScan /\ ReadFromLine /\ BetweenScans /\ AnswerTaken

LEMMA LineInit == Init => LineInv
BY RTUAssumption DEF Init, LineInv, PortByMode, StartedLast, FirstScan, ReadFromLine, BetweenScans,
   AnswerTaken, ConnectedHasAnswered, NoReport, Devices, Points

LEMMA MainStep == TypeOK /\ LineInv /\ Main => LineInv'
<1> SUFFICES ASSUME TypeOK, LineInv, Main PROVE LineInv'
  OBVIOUS
<1>0. UNCHANGED <<mode, regs, simulate, value, connected, poll_errors, wPc, answer, whole, heard>>
  BY DEF Main, SyncMode, StartRouter, StartPoller, Signal, StopFlag, CloseClient, StopRouter, mainVars
<1>1. rPc' = rPc \/ (rPc = "unborn" /\ rPc' = "init")
  BY DEF Main, SyncMode, StartRouter, StartPoller, Signal, StopFlag, CloseClient, StopRouter, mainVars,
         LineInv, StartedLast
<1>2. PortByMode'
  <2> USE <1>0 DEF LineInv, PortByMode, Enabled
  <2>1. CASE SyncMode
    BY <2>1 DEF SyncMode
  <2>2. CASE StartRouter
    BY <2>2 DEF StartRouter
  <2>3. CASE CloseClient
    BY <2>3 DEF CloseClient, mainVars
  <2>4. CASE StartPoller
    BY <2>4 DEF StartPoller, mainVars
  <2>5. CASE StopRouter
    BY <2>5 DEF StopRouter
  <2>6. CASE Signal \/ StopFlag
    BY <2>6 DEF Signal, StopFlag, mainVars
  <2> QED BY <2>1, <2>2, <2>3, <2>4, <2>5, <2>6 DEF Main
<1>3. FirstScan'
  BY <1>0, <1>1 DEF LineInv, FirstScan
<1>4. ReadFromLine'
  BY <1>0 DEF LineInv, ReadFromLine
<1>5. BetweenScans'
  BY <1>0, <1>1 DEF LineInv, BetweenScans
<1>6. AnswerTaken'
  BY <1>0 DEF LineInv, AnswerTaken, ConnectedHasAnswered, NoReport
<1>7. StartedLast'
  BY DEF LineInv, StartedLast, Main, SyncMode, StartRouter, StartPoller, Signal, StopFlag,
         CloseClient, StopRouter, mainVars
<1> QED BY <1>2, <1>3, <1>4, <1>5, <1>6, <1>7 DEF LineInv

LEMMA WebStep == TypeOK /\ LineInv /\ Web => LineInv'
<1> SUFFICES ASSUME TypeOK, LineInv, Web PROVE LineInv'
  OBVIOUS
<1>1. UNCHANGED <<mode, mstpEnabled, router, regs, rPc, simulate, client, value, connected,
                  poll_errors, mPc, whole, heard>>
  BY DEF Web, mainVars, pollVars
<1>2. PortByMode' /\ StartedLast' /\ FirstScan' /\ ReadFromLine' /\ BetweenScans'
  BY <1>1 DEF LineInv, PortByMode, StartedLast, FirstScan, ReadFromLine, BetweenScans, Enabled
<1>3. AnswerTaken'
  <2>1. CASE Ask
    BY <1>1, <2>1 DEF Ask, LineInv, AnswerTaken, ConnectedHasAnswered, NoReport
  <2>2. CASE Status
    BY <1>1, <2>2 DEF Status, LineInv, AnswerTaken, ConnectedHasAnswered, ReadFromLine, Report
  <2>3. CASE Reply
    BY <1>1, <2>3 DEF Reply, AnswerTaken, ConnectedHasAnswered, NoReport
  <2> QED BY <2>1, <2>2, <2>3 DEF Web
<1> QED BY <1>2, <1>3 DEF LineInv

LEMMA RegistersStep == TypeOK /\ LineInv /\ RegistersChange => LineInv'
<1> SUFFICES ASSUME TypeOK, LineInv, RegistersChange PROVE LineInv'
  OBVIOUS
<1>1. UNCHANGED <<mode, mstpEnabled, router, rPc, simulate, client, value, connected,
                  poll_errors, wPc, answer, mPc, whole, heard>>
  BY DEF RegistersChange, mainVars, pollVars
<1>2. \A d \in Devices : regs[d] \in Nat /\ regs'[d] >= regs[d] /\ regs'[d] \in Nat
  BY DEF RegistersChange, TypeOK
<1>3. ReadFromLine'
  <2>1. \A d \in Devices, p \in Points : value[d][p] \in Int
    BY DEF TypeOK, Made
  <2> QED BY <1>1, <1>2, <2>1 DEF LineInv, ReadFromLine
<1> QED
  BY <1>1, <1>3 DEF LineInv, PortByMode, StartedLast, FirstScan, BetweenScans, AnswerTaken,
                    ConnectedHasAnswered, NoReport, Enabled

LEMMA PollerStep == TypeOK /\ LineInv /\ Poller => LineInv'
<1> SUFFICES ASSUME TypeOK, LineInv, Poller PROVE LineInv'
  OBVIOUS
<1>1. UNCHANGED <<mode, mstpEnabled, router, regs, wPc, answer, mPc>>
  BY DEF Poller, mainVars
<1>2. heard \subseteq heard'
  BY DEF Poller, PollerStarts, InitSerial, PollerLoop, PointRead, PointErrs, PointRaises,
         DeviceSimulated, ScanEnds
<1>3. AnswerTaken'
  BY <1>1, <1>2 DEF LineInv, AnswerTaken, ConnectedHasAnswered, NoReport
<1>4. ASSUME InScan, Advance
      PROVE  dev \in Devices /\ rPc = "scan" /\ UNCHANGED <<rPc, simulate, whole>>
  BY <1>4, AdvanceType DEF TypeOK, Advance, InScan
<1>5. PortByMode'
  BY <1>1 DEF LineInv, PortByMode, Enabled, Poller, PollerStarts, InitSerial, PollerLoop, PointRead,
              PointErrs, PointRaises, DeviceSimulated, ScanEnds, InScan, Advance
<1>6. FirstScan'
  BY DEF LineInv, FirstScan, Poller, PollerStarts, InitSerial, PollerLoop, PointRead,
              PointErrs, PointRaises, DeviceSimulated, ScanEnds, InScan, Advance
<1>7. BetweenScans'
  BY DEF LineInv, BetweenScans, Report, Poller, PollerStarts, InitSerial, PollerLoop, PointRead,
              PointErrs, PointRaises, DeviceSimulated, ScanEnds, InScan, Advance
<1>8. ReadFromLine'
  <2>1. CASE PollerStarts \/ PollerLoop \/ ScanEnds
    BY <1>1, <2>1 DEF LineInv, ReadFromLine, PollerStarts, PollerLoop, ScanEnds
  <2>2. CASE InitSerial
    BY <1>1, <2>2 DEF LineInv, ReadFromLine, FirstScan, InitSerial, TypeOK
  <2>3. CASE PointRead
    <3>1. regs[dev] \in Nat
      BY <1>4, <2>3 DEF PointRead, TypeOK
    <3> QED BY <1>1, <1>4, <2>3, <3>1 DEF LineInv, ReadFromLine, PointRead, TypeOK
  <2>4. CASE PointErrs \/ PointRaises
    BY <1>1, <1>4, <2>4 DEF LineInv, ReadFromLine, PointErrs, PointRaises
  <2>5. CASE DeviceSimulated
    BY <2>5 DEF ReadFromLine, DeviceSimulated
  <2> QED BY <2>1, <2>2, <2>3, <2>4, <2>5 DEF Poller
<1>9. StartedLast'
  BY <1>1 DEF LineInv, StartedLast, Poller, PollerStarts, InitSerial, PollerLoop, PointRead,
              PointErrs, PointRaises, DeviceSimulated, ScanEnds, InScan, Advance
<1> QED BY <1>3, <1>5, <1>6, <1>7, <1>8, <1>9 DEF LineInv

LEMMA LineStep == TypeOK /\ LineInv /\ [Next]_vars => LineInv'
<1>1. ASSUME LineInv, UNCHANGED vars PROVE LineInv'
  BY <1>1 DEF vars, mainVars, pollVars, LineInv, PortByMode, StartedLast, FirstScan, ReadFromLine, BetweenScans,
              AnswerTaken, ConnectedHasAnswered, NoReport, Enabled
<1> QED
  BY <1>1, MainStep, PollerStep, WebStep, RegistersStep DEF Next

THEOREM LineInvariant == Spec => []LineInv
<1>1. TypeOK /\ TypeOK' /\ LineInv /\ [Next]_vars => LineInv'
  BY LineStep
<1> QED BY <1>1, LineInit, TypeCorrect, PTL DEF Spec

-----------------------------------------------------------------------------
(* The properties.                                                         *)

\* Whatever rs485.mode and mstp.enabled say, the poller never opens the port
\* while the MS/TP router has it.
THEOREM OneOwner == Spec => []PortHasOneOwner
<1>1. TypeOK /\ LineInv => PortHasOneOwner
  BY DEF TypeOK, LineInv, PortByMode, PortHasOneOwner, Enabled
<1> QED BY <1>1, TypeCorrect, LineInvariant, PTL

\* A device that is called connected, and not simulated, has answered.
THEOREM ConnectedIsTrue == Spec => []ConnectedHasAnswered
<1>1. LineInv => ConnectedHasAnswered
  BY DEF LineInv, AnswerTaken
<1> QED BY <1>1, LineInvariant, PTL

\* The lock is held for a whole scan: a status answer never tells of half of one.
THEOREM WholeScans == Spec => StatusIsOfWholeScans
<1> DEFINE Act == wPc = "lock" /\ wPc' = "answered" =>
         answer'.connected = whole.connected /\ answer'.poll_errors = whole.poll_errors
<1>1. ASSUME TypeOK, LineInv, [Next]_vars PROVE [Act]_vars
  <2>1. CASE Web
    BY <1>1, <2>1 DEF Web, Ask, Status, Reply, LineInv, BetweenScans, Report
  <2>2. CASE ~Web
    BY <1>1, <2>2 DEF Next, Main, Poller, RegistersChange, vars
  <2> QED BY <2>1, <2>2
<1> QED BY <1>1, TypeCorrect, LineInvariant, PTL DEF Spec, StatusIsOfWholeScans

\* No read, and no failure, takes a value of a device back.
THEOREM NeverBack == Spec => ValuesNeverGoBack
<1> DEFINE Act == \A d \in Devices, p \in Points :
         simulate \/ (value[d][p] <= value'[d][p] /\ value'[d][p] <= regs[d])
<1>1. ASSUME TypeOK, LineInv, [Next]_vars PROVE [Act]_vars
  <2> SUFFICES ASSUME ~simulate, NEW d \in Devices, NEW p \in Points
               PROVE  value[d][p] <= value'[d][p] /\ value'[d][p] <= regs[d]
    OBVIOUS
  <2>1. /\ value[d][p] \in Nat /\ regs[d] \in Nat /\ value[d][p] <= regs[d]
    BY <1>1 DEF LineInv, ReadFromLine, TypeOK, Made
  <2>2. CASE value' = value
    BY <2>1, <2>2
  <2>3. CASE PointRead
    <3>1. value'[d][p] = value[d][p] \/ value'[d][p] = regs[d]
      BY <1>1, <2>3 DEF PointRead, TypeOK
    <3> QED BY <2>1, <3>1
  <2> QED BY <1>1, <2>2, <2>3 DEF Next, Main, Poller, Web, RegistersChange, vars, pollVars,
         PollerStarts, InitSerial, PollerLoop, PointErrs, PointRaises, DeviceSimulated, ScanEnds
<1> QED BY <1>1, TypeCorrect, LineInvariant, PTL DEF Spec, ValuesNeverGoBack

\* A scan only goes on, whatever a point answers, and gives the lock back at its end.
THEOREM ScansGoOn == Spec => ScanGoesOn
<1>1. LineInv /\ [Next]_vars
        => [rPc = "scan" =>
              \/ UNCHANGED <<rPc, dev, pt>>
              \/ /\ dev <= NumDevices /\ rPc' = "scan"
                 /\ dev' = dev + 1 \/ (dev' = dev /\ pt' = pt + 1 /\ pt < NumPoints)
              \/ dev > NumDevices /\ rPc' = "top"]_vars
  <2> SUFFICES ASSUME LineInv, [Next]_vars, rPc = "scan"
               PROVE  \/ UNCHANGED <<rPc, dev, pt>>
                      \/ /\ dev <= NumDevices /\ rPc' = "scan"
                         /\ dev' = dev + 1 \/ (dev' = dev /\ pt' = pt + 1 /\ pt < NumPoints)
                      \/ dev > NumDevices /\ rPc' = "top"
    OBVIOUS
  <2>1. CASE Poller
    BY <2>1 DEF Poller, PollerStarts, InitSerial, PollerLoop, PointRead, PointErrs,
                PointRaises, DeviceSimulated, ScanEnds, InScan, Advance
  <2>2. CASE Main
    BY <2>2 DEF Main, SyncMode, StartRouter, StartPoller, Signal, StopFlag, CloseClient,
                StopRouter, LineInv, StartedLast
  <2>3. CASE Web \/ RegistersChange \/ UNCHANGED vars
    BY <2>3 DEF Web, RegistersChange, pollVars, vars
  <2> QED BY <2>1, <2>2, <2>3 DEF Next
<1> QED BY <1>1, LineInvariant, PTL DEF Spec, ScanGoesOn
=============================================================================
