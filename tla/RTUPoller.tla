----------------------------- MODULE RTUPoller -----------------------------
(***************************************************************************)
(* rtu_poller.py: the thread that polls the devices on the RS485 line,     *)
(* next to a status request (web_ui.py), to the MS/TP router that may have *)
(* the same port (main.py), and to shutdown().                             *)
(*                                                                         *)
(* The lock is held from the first point of the first device to the last   *)
(* point of the last one, two seconds of timeout for each silent point     *)
(* included.  stop() does not take it.  A device's registers are the       *)
(* number of times they have changed.                                      *)
(***************************************************************************)
EXTENDS Integers

CONSTANTS
    NumDevices,     \* rtu_devices
    NumPoints,      \* registers in each device's profile
    MaxChange,      \* bound: how often a device's registers change
    MaxErrors       \* bound: poll_errors saturates here

ASSUME RTUAssumption ==
    /\ NumDevices \in Nat \ {0} /\ NumPoints \in Nat \ {0}
    /\ MaxChange \in Nat /\ MaxErrors \in Nat \ {0}

VARIABLES
    mode,           \* rs485.mode as main() loaded it
    mstpEnabled,    \* mstp.enabled in main()'s configuration
    router,         \* the MS/TP router's child has the port
    regs,           \* [Devices -> changes]: the registers (external)
    rPc, dev, pt,   \* where the polling thread is, and what it reads next
    rRunning,       \* _running
    simulate,       \* _simulate
    client,         \* _client: "none", "open" or "closed"
    value,          \* [Devices -> [Points -> changes behind value]]
    connected,      \* [Devices -> BOOLEAN]
    poll_errors,    \* [Devices -> Nat]
    wPc, answer,    \* a status request, and what it answers
    mPc,            \* the main thread
    whole,          \* history: what status() reports, after the last whole scan
    heard           \* history: devices that answered

pollVars == <<rPc, dev, pt, rRunning, simulate, client, value, connected, poll_errors>>
mainVars == <<mode, mstpEnabled, router>>
vars == <<mainVars, regs, pollVars, wPc, answer, mPc, whole, heard>>

Devices == 1..NumDevices
Points  == 1..NumPoints
Modes   == {"disabled", "bacnet_mstp", "modbus_rtu"}
Made    == -1       \* a simulated value
Enabled == mode = "modbus_rtu"

\* What status() reports of the devices.
Report == [connected |-> connected, poll_errors |-> poll_errors, simulated |-> simulate]
NoReport == [connected   |-> [d \in Devices |-> FALSE],
             poll_errors |-> [d \in Devices |-> 0], simulated |-> FALSE]

Init ==
    /\ mode \in Modes /\ mstpEnabled \in BOOLEAN
    /\ router = FALSE
    /\ regs = [d \in Devices |-> 1]
    /\ rPc = "unborn" /\ dev = 1 /\ pt = 1
    /\ rRunning = FALSE /\ simulate = FALSE /\ client = "none"
    /\ value = [d \in Devices |-> [p \in Points |-> 0]]
    /\ connected = [d \in Devices |-> FALSE]
    /\ poll_errors = [d \in Devices |-> 0]
    /\ wPc = "idle" /\ answer = NoReport
    /\ mPc = "load"
    /\ whole = NoReport
    /\ heard = {}

RegistersChange ==
    /\ \E d \in Devices : /\ regs[d] < MaxChange
                          /\ regs' = [regs EXCEPT ![d] = @ + 1]
    /\ UNCHANGED <<mainVars, pollVars, wPc, answer, mPc, whole, heard>>

-----------------------------------------------------------------------------
(* main(): the port is the router's or the poller's.                       *)

\* Mutant of SyncMode: the file's mstp.enabled is kept when the mode is another.
SyncMode_OnlySets ==
    /\ mPc = "load" /\ mPc' = "mstp"
    /\ mstpEnabled' = (mstpEnabled \/ mode = "bacnet_mstp")
    /\ UNCHANGED <<mode, router, rPc, rRunning, client>>

SyncMode ==
    /\ mPc = "load" /\ mPc' = "mstp"
    /\ mstpEnabled' = (mode = "bacnet_mstp")
    /\ UNCHANGED <<mode, router, rPc, rRunning, client>>

StartRouter ==
    /\ mPc = "mstp" /\ mPc' = "rtu"
    /\ router' = mstpEnabled
    /\ UNCHANGED <<mode, mstpEnabled, rPc, rRunning, client>>

StartPoller ==
    /\ mPc = "rtu" /\ mPc' = "service"
    /\ rPc' = "init"
    /\ UNCHANGED <<mainVars, rRunning, client>>

Signal ==
    /\ mPc = "service" /\ mPc' = "flag"
    /\ UNCHANGED <<mainVars, rPc, rRunning, client>>

StopFlag ==
    /\ mPc = "flag" /\ mPc' = "close"
    /\ rRunning' = FALSE
    /\ UNCHANGED <<mainVars, rPc, client>>

CloseClient ==
    /\ mPc = "close" /\ mPc' = "stopRouter"
    /\ client' = IF client = "none" THEN "none" ELSE "closed"
    /\ UNCHANGED <<mainVars, rPc, rRunning>>

StopRouter ==
    /\ mPc = "stopRouter" /\ mPc' = "gone"
    /\ router' = FALSE
    /\ UNCHANGED <<mode, mstpEnabled, rPc, rRunning, client>>

Main ==
    /\ \/ SyncMode \/ StartRouter \/ StartPoller
       \/ Signal \/ StopFlag \/ CloseClient \/ StopRouter
    /\ UNCHANGED <<regs, dev, pt, simulate, value, connected, poll_errors,
                   wPc, answer, whole, heard>>

-----------------------------------------------------------------------------
(* The polling thread: run().                                              *)

PollerStarts ==
    /\ rPc = "init"
    /\ rPc' = IF Enabled THEN "serial" ELSE "exited"
    /\ rRunning' = Enabled
    /\ UNCHANGED <<dev, pt, simulate, client, value, connected, poll_errors, whole, heard>>

\* _init_serial: tried once.  connect() may fail after the client was made.
InitSerial ==
    /\ rPc = "serial" /\ rPc' = "top"
    /\ client' \in {"none", "closed", "open"}
    /\ simulate' = (client' # "open")
    /\ UNCHANGED <<dev, pt, rRunning, value, connected, poll_errors, whole, heard>>

PollerLoop ==
    /\ rPc = "top"
    /\ rPc' = IF rRunning THEN "scan" ELSE "exited"
    /\ dev' = 1 /\ pt' = 1
    /\ UNCHANGED <<rRunning, simulate, client, value, connected, poll_errors, whole, heard>>

InScan == rPc = "scan" /\ dev <= NumDevices

\* On to the next point, or the next device.
Advance ==
    /\ IF pt < NumPoints THEN dev' = dev /\ pt' = pt + 1 ELSE dev' = dev + 1 /\ pt' = 1
    /\ UNCHANGED <<rPc, rRunning, simulate, whole>>

\* _read_device, one point: an answer.  The library opens a closed port again.
PointRead ==
    /\ InScan /\ ~simulate /\ Advance
    /\ client' = "open"
    /\ value' = [value EXCEPT ![dev][pt] = regs[dev]]
    /\ connected' = [connected EXCEPT ![dev] = TRUE]
    /\ heard' = heard \cup {dev}
    /\ UNCHANGED poll_errors

\* Mutant of PointErrs: the point goes back to its default.
PointErrs_Blanks ==
    /\ InScan /\ ~simulate /\ Advance
    /\ client' = "open"
    /\ value' = [value EXCEPT ![dev][pt] = 0]
    /\ UNCHANGED <<connected, poll_errors, heard>>

\* An error reply, which a timeout is to the library as well: not counted.
PointErrs ==
    /\ InScan /\ ~simulate /\ Advance
    /\ client' \in {"closed", "open"}
    /\ UNCHANGED <<value, connected, poll_errors, heard>>

\* An exception: counted.
PointRaises ==
    /\ InScan /\ ~simulate /\ Advance
    /\ client' \in {"closed", "open"}
    /\ poll_errors' = [poll_errors EXCEPT ![dev] = IF @ < MaxErrors THEN @ + 1 ELSE @]
    /\ UNCHANGED <<value, connected, heard>>

\* _simulate_device: all points of the device.
DeviceSimulated ==
    /\ InScan /\ simulate
    /\ dev' = dev + 1
    /\ value' = [value EXCEPT ![dev] = [p \in Points |-> Made]]
    /\ connected' = [connected EXCEPT ![dev] = TRUE]
    /\ UNCHANGED <<rPc, pt, rRunning, simulate, client, poll_errors, whole, heard>>

\* Mutant of ScanEnds: a `return` inside the scan leaves the lock taken.
ScanEnds_Returns ==
    /\ rPc = "scan" /\ dev > NumDevices
    /\ UNCHANGED <<pollVars, whole, heard>>

\* The lock is released; the sleep ends with the next test of the flag.
ScanEnds ==
    /\ rPc = "scan" /\ dev > NumDevices
    /\ rPc' = "top" /\ dev' = 1
    /\ whole' = Report
    /\ UNCHANGED <<pt, rRunning, simulate, client, value, connected, poll_errors, heard>>

Poller ==
    /\ \/ PollerStarts \/ InitSerial \/ PollerLoop \/ PointRead \/ PointErrs
       \/ PointRaises \/ DeviceSimulated \/ ScanEnds
    /\ UNCHANGED <<mainVars, regs, wPc, answer, mPc>>

-----------------------------------------------------------------------------
(* /api/status asks status().                                              *)

Ask ==
    /\ wPc = "idle" /\ mPc \notin {"load", "mstp", "rtu"}
    /\ wPc' = IF Enabled THEN "lock" ELSE "answered"
    /\ UNCHANGED answer

\* With the lock, which run() holds while it scans.
Status ==
    /\ wPc = "lock" /\ rPc # "scan"
    /\ wPc' = "answered"
    /\ answer' = Report

Reply ==
    /\ wPc = "answered" /\ wPc' = "idle"
    /\ answer' = NoReport

Web ==
    /\ Ask \/ Status \/ Reply
    /\ UNCHANGED <<mainVars, regs, pollVars, mPc, whole, heard>>

Next ==
    /\ mPc # "gone"
    /\ Main \/ Poller \/ Web \/ RegistersChange

\* The system schedules the threads, each read of a point times out, and the
\* poller, which sleeps between two scans, lets a request have the lock.
Fairness ==
    /\ WF_vars(Poller /\ mPc # "gone")
    /\ WF_vars(Web /\ wPc # "idle" /\ mPc # "gone")
    /\ SF_vars(Status /\ UNCHANGED <<mainVars, regs, pollVars, mPc, whole, heard>>)

Spec == Init /\ [][Next]_vars

FairSpec == Spec /\ Fairness

-----------------------------------------------------------------------------
Reports == [connected: [Devices -> BOOLEAN], poll_errors: [Devices -> 0..MaxErrors],
            simulated: BOOLEAN]

\* Type correctness.
TypeOK ==
    /\ mode \in Modes /\ mstpEnabled \in BOOLEAN /\ router \in BOOLEAN
    /\ regs \in [Devices -> Nat]
    /\ rPc \in {"unborn", "init", "serial", "top", "scan", "exited"}
    /\ dev \in 1..(NumDevices + 1) /\ pt \in Points
    /\ rRunning \in BOOLEAN /\ simulate \in BOOLEAN
    /\ client \in {"none", "closed", "open"}
    /\ value \in [Devices -> [Points -> Nat \cup {Made}]]
    /\ Report \in Reports /\ answer \in Reports /\ whole \in Reports
    /\ wPc \in {"idle", "lock", "answered"}
    /\ mPc \in {"load", "mstp", "rtu", "service", "flag", "close", "stopRouter", "gone"}
    /\ heard \in SUBSET Devices

\* The RS485 port is never opened by the poller while the MS/TP router has it,
\* whatever combination of rs485.mode and mstp.enabled the file holds
\* (main.py:192-199, "mutually exclusive").
PortHasOneOwner == ~(router /\ client = "open")

\* A status answer tells of whole scans: of all devices it says what was true
\* when the last scan ended (rtu_poller.py:146-163, 264).
StatusIsOfWholeScans ==
    [][wPc = "lock" /\ wPc' = "answered" =>
         answer'.connected = whole.connected /\ answer'.poll_errors = whole.poll_errors]_vars

\* A device that a status answer calls connected, and not simulated, has
\* answered (rtu_poller.py:224, 242, 256-257).
ConnectedHasAnswered ==
    wPc = "answered" /\ ~answer.simulated =>
        \A d \in Devices : answer.connected[d] => d \in heard

\* A scan that fails keeps the last good values: no point goes back to an older
\* one, or to its default (rtu_poller.py:207-208, 222-227).
ValuesNeverGoBack ==
    [][\A d \in Devices, p \in Points :
         simulate \/ (value[d][p] <= value'[d][p] /\ value'[d][p] <= regs[d])]_vars

\* In service, a status request is answered, whenever it meets a scan
\* (rtu_poller.py:146, 264).
StatusIsAnswered == [](mPc # "gone") => (wPc = "lock" ~> wPc = "idle")

\* The safety half of it: the scan for which the request waits comes to its end.
\* An answer, an error, an exception or a device that is lost: each step is on
\* to the next point or device, or gives the lock back (rtu_poller.py:194-227, 263-269).
ScanGoesOn ==
    [][rPc = "scan" =>
         \/ UNCHANGED <<rPc, dev, pt>>
         \/ /\ dev <= NumDevices /\ rPc' = "scan"
            /\ dev' = dev + 1 \/ (dev' = dev /\ pt' = pt + 1 /\ pt < NumPoints)
         \/ dev > NumDevices /\ rPc' = "top"]_vars
=============================================================================
