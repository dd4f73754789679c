---------------------------- MODULE ModbusPoller ----------------------------
(***************************************************************************)
(* poller.py: the thread that polls the Tesla site controller (EPMS) over  *)
(* Modbus TCP and publishes each poll in the DataStore.                    *)
(*                                                                         *)
(* Two actors touch its fields: the polling thread (run) and the main      *)
(* thread (stop, from the signal handler).  One action is one step between *)
(* two places where the other can get in.                                  *)
(***************************************************************************)
EXTENDS DataStore

CONSTANT MaxBlock   \* bound: how often the plant's registers change

ASSUME PollerAssumption == MaxBlock \in Nat

VARIABLES
    pPc,            \* where the polling thread is
    pRunning,       \* ModbusPoller._running
    client,         \* _client: "none", or its socket is "closed" or "open"
    sample,         \* the BESSData _read_all is filling in; blank otherwise
    plant,          \* the site controller's registers (external)
    link            \* how it answers: "ok", "erring" (error replies), "down"

pollerVars == <<pPc, pRunning, client, sample>>
siteVars   == <<plant, link>>

PollerPcs == {"init", "top", "probe", "probe2", "connect", "connecting",
              "connectFailed", "read", "read2", "publish", "readFailed",
              "disconnect", "check", "sleep", "exited", "crashed"}

Registers == [block: Nat, cmd: Commands]
NoSample == [block |-> 0, cmd |-> 0]

-----------------------------------------------------------------------------
(* The site controller.  Its data changes, and the link comes and goes.    *)

PlantChanges ==
    /\ plant.block < MaxBlock
    /\ plant' = [plant EXCEPT !.block = @ + 1]
    /\ UNCHANGED link

LinkChanges ==
    /\ link' \in {"ok", "erring", "down"} \ {link}
    /\ UNCHANGED plant

-----------------------------------------------------------------------------
PollerInit ==
    /\ pPc = "init"
    /\ pRunning = FALSE
    /\ client = "none"
    /\ sample = NoSample
    /\ \E c \in Commands : plant = [block |-> 1, cmd |-> c]
    /\ link \in {"ok", "erring", "down"}

\* A step of the thread that touches neither the store nor the connection.
Goto(from, to) ==
    /\ pPc = from /\ pPc' = to
    /\ UNCHANGED <<pRunning, client, sample, plant, link, heap, current, refs>>

PollerStarts ==
    /\ pPc = "init" /\ pPc' = "top"
    /\ pRunning' = TRUE
    /\ UNCHANGED <<client, sample, plant, link, heap, current, refs>>

LoopTest == Goto("top", IF pRunning THEN "probe" ELSE "exited")

\* Mutant of ProbeClient: the test for no client is dropped.
ProbeClient_Untested == Goto("probe", "probe2")

\* `not self._client or not self._client.is_socket_open()` loads the field
\* twice, outside any try: if stop() clears it in between, the thread dies.
ProbeClient == Goto("probe", IF client = "none" THEN "connect" ELSE "probe2")

ProbeSocket ==
    Goto("probe2", CASE client = "none"   -> "crashed"
                     [] client = "open"   -> "read"
                     [] client = "closed" -> "connect")

NewClient ==
    /\ pPc = "connect" /\ pPc' = "connecting"
    /\ client' = "closed"
    /\ UNCHANGED <<pRunning, sample, plant, link, heap, current, refs>>

\* connect() answers; False, and AttributeError on a cleared client, both fail.
Connect ==
    /\ pPc = "connecting"
    /\ IF client # "none" /\ link # "down"
         THEN client' = "open" /\ pPc' = "read"
         ELSE UNCHANGED client /\ pPc' = "connectFailed"
    /\ UNCHANGED <<pRunning, sample, plant, link, heap, current, refs>>

\* Mutant of ConnectFailed: the loop is left instead of continued.
ConnectFailed_Breaks ==
    /\ pPc = "connectFailed" /\ pPc' = "exited"
    /\ MarkPollFailed
    /\ UNCHANGED <<pRunning, client, sample, plant, link>>

ConnectFailed ==
    /\ pPc = "connectFailed" /\ pPc' = "sleep"
    /\ MarkPollFailed
    /\ UNCHANGED <<pRunning, client, sample, plant, link>>

\* Pass 1, registers 200-218.  The library reconnects a closed client itself.
ReadInputs ==
    /\ pPc = "read" /\ pPc' = "read2"
    /\ client # "none" /\ link = "ok"
    /\ client' = "open"
    /\ sample' = [block |-> plant.block, cmd |-> 0]
    /\ UNCHANGED <<pRunning, plant, link, heap, current, refs>>

\* Mutant of ReadInputsFails: the blank BESSData is returned, not None.
ReadInputsFails_ReturnsBlank ==
    /\ pPc = "read" /\ pPc' = "publish"
    /\ client # "open" \/ link # "ok"
    /\ client' \in IF client = "none" THEN {"none"} ELSE {client, "closed"}
    /\ UNCHANGED <<pRunning, sample, plant, link, heap, current, refs>>

\* An error reply or an exception in pass 1: _read_all returns None.
ReadInputsFails ==
    /\ pPc = "read" /\ pPc' = "readFailed"
    /\ client # "open" \/ link # "ok"
    /\ client' \in IF client = "none" THEN {"none"} ELSE {client, "closed"}
    /\ UNCHANGED <<pRunning, sample, plant, link, heap, current, refs>>

\* Pass 2, register 300.
ReadCommand ==
    /\ pPc = "read2" /\ pPc' = "publish"
    /\ client # "none" /\ link = "ok"
    /\ client' = "open"
    /\ sample' = [sample EXCEPT !.cmd = plant.cmd]
    /\ UNCHANGED <<pRunning, plant, link, heap, current, refs>>

\* Mutant of ReadCommandErrs: a sentinel outside the register's range.
ReadCommandErrs_Sentinel ==
    /\ pPc = "read2" /\ pPc' = "publish"
    /\ client # "none" /\ link # "ok"
    /\ client' \in {client, "closed"}
    /\ sample' = [sample EXCEPT !.cmd = 65536]
    /\ UNCHANGED <<pRunning, plant, link, heap, current, refs>>

\* An error reply (the library also turns a timeout into one) leaves the
\* command at 0.0, and the poll still counts as a success.
ReadCommandErrs ==
    /\ pPc = "read2" /\ pPc' = "publish"
    /\ client # "none" /\ link # "ok"
    /\ client' \in {client, "closed"}
    /\ UNCHANGED <<pRunning, sample, plant, link, heap, current, refs>>

\* An exception in pass 2 loses the whole poll.
ReadCommandRaises ==
    /\ pPc = "read2" /\ pPc' = "readFailed"
    /\ client # "open" \/ link = "down"
    /\ client' \in IF client = "none" THEN {"none"} ELSE {client, "closed"}
    /\ sample' = NoSample
    /\ UNCHANGED <<pRunning, plant, link, heap, current, refs>>

Publish ==
    /\ pPc = "publish" /\ pPc' = "check"
    /\ Update(sample)
    /\ sample' = NoSample
    /\ UNCHANGED <<pRunning, client, plant, link>>

ReadFailed ==
    /\ pPc = "readFailed" /\ pPc' = "disconnect"
    /\ MarkStale
    /\ UNCHANGED <<pRunning, client, sample, plant, link>>

Disconnect ==
    /\ pPc = "disconnect" /\ pPc' = "check"
    /\ client' = "none"
    /\ UNCHANGED <<pRunning, sample, plant, link, heap, current, refs>>

\* The stale check at the end of a cycle logs, and changes nothing.
CheckStale == Goto("check", "sleep")

Wake == Goto("sleep", "top")

PollerNext ==
    \/ PollerStarts \/ LoopTest \/ ProbeClient \/ ProbeSocket
    \/ NewClient \/ Connect \/ ConnectFailed
    \/ ReadInputs \/ ReadInputsFails
    \/ ReadCommand \/ ReadCommandErrs \/ ReadCommandRaises
    \/ Publish \/ ReadFailed \/ Disconnect
    \/ CheckStale \/ Wake

-----------------------------------------------------------------------------
(* stop(), step by step in the main thread.                                *)

StopPoller ==
    /\ pRunning' = FALSE
    /\ UNCHANGED <<pPc, client, sample, plant, link, heap, current, refs>>

CloseClient ==
    /\ client' = IF client = "none" THEN "none" ELSE "closed"
    /\ UNCHANGED <<pPc, pRunning, sample, plant, link, heap, current, refs>>

ClearClient ==
    /\ client' = "none"
    /\ UNCHANGED <<pPc, pRunning, sample, plant, link, heap, current, refs>>

PollerTypeOK ==
    /\ pPc \in PollerPcs
    /\ pRunning \in BOOLEAN
    /\ client \in {"none", "closed", "open"}
    /\ sample \in Registers
    /\ plant \in Registers
    /\ link \in {"ok", "erring", "down"}
=============================================================================
