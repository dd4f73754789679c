-------------------------- MODULE Telemetry_proofs --------------------------
(***************************************************************************)
(* Proofs about Telemetry for every heap, every set of readers, every      *)
(* timeout and every bound, and about the appliance: Telemetry with the    *)
(* status requests next to it.                                             *)
(***************************************************************************)
EXTENDS Appliance, Poller_proofs

-----------------------------------------------------------------------------
(* Type correctness.                                                       *)

LEMMA ServerStepType ==
    ASSUME StoreTypeOK, ServerTypeOK, RefreshHolds, ServerNext
    PROVE  StoreTypeOK' /\ ServerTypeOK'
<1>1. CASE ServerRuns \/ StartSucceeds \/ StartFails \/ ServerLoopTest \/ RefreshWakes
  BY <1>1 DEF ServerRuns, StartSucceeds, StartFails, ServerLoopTest, RefreshWakes,
              StoreTypeOK, ServerTypeOK, ServerPcs
<1>2. CASE RefreshGet
  <2>1. StoreTypeOK'
    BY <1>2, GetType, BacnetAssumption DEF RefreshGet
  <2> QED BY <1>2, <2>1 DEF RefreshGet, ServerTypeOK, ServerPcs
<1>3. bPc \in {"ai", "bi", "av"} => heap[refs[Bacnet]] \in BESSData
  BY BacnetAssumption DEF RefreshHolds, StoreTypeOK
<1>4. CASE CopyAnalog \/ CopyBinary
  <2>1. heap[refs[Bacnet]].block \in Nat
    BY <1>3, <1>4 DEF CopyAnalog, CopyBinary, BESSData
  <2> QED
    BY <1>4, <2>1 DEF CopyAnalog, CopyBinary, StoreTypeOK, ServerTypeOK, ServerPcs, Table
<1>5. CASE CopyCommand
  <2>1. heap[refs[Bacnet]].cmd \in Commands
    BY <1>3, <1>5 DEF CopyCommand, BESSData
  <2>2. StoreTypeOK'
    BY <1>5, ReleaseType, BacnetAssumption DEF CopyCommand
  <2> QED BY <1>5, <2>1, <2>2 DEF CopyCommand, ServerTypeOK, ServerPcs, Table
<1> QED BY <1>1, <1>2, <1>4, <1>5 DEF ServerNext

LEMMA ClientStepType ==
    ASSUME StoreTypeOK, ServerTypeOK, SocketBinds \/ OperatorWrites
    PROVE  StoreTypeOK' /\ ServerTypeOK'
BY DEF SocketBinds, OperatorWrites, StoreTypeOK, ServerTypeOK, ServerPcs, Table

LEMMA ShutdownStepType ==
    ASSUME TypeOK, Shutdown
    PROVE  TypeOK'
BY DEF TypeOK, Shutdown, MainStep, MainPcs, StopPoller, CloseClient, ClearClient,
       StopServer, CloseApp, StoreTypeOK, PollerTypeOK, ServerTypeOK,
       storeVars, pollerVars, siteVars, serverVars

LEMMA StepType ==
    ASSUME TypeOK, RefreshHolds, [Next]_vars
    PROVE  TypeOK'
<1> USE DEF TypeOK
<1>1. CASE Poller
  BY <1>1, PollerStepType DEF Poller, serverVars, ServerTypeOK
<1>2. CASE Server
  BY <1>2, ServerStepType DEF Server, pollerVars, siteVars, PollerTypeOK
<1>3. CASE BACnetClient
  BY <1>3, ClientStepType DEF BACnetClient, pollerVars, siteVars, PollerTypeOK
<1>4. CASE Site
  BY <1>4, SiteStepType DEF Site, storeVars, serverVars, StoreTypeOK, ServerTypeOK
<1>5. CASE Clock
  BY <1>5, AgeType DEF Clock, pollerVars, siteVars, serverVars, PollerTypeOK, ServerTypeOK
<1>6. CASE Signal
  BY <1>6 DEF Signal, MainStep, MainPcs, storeVars, pollerVars, siteVars, serverVars,
              StoreTypeOK, PollerTypeOK, ServerTypeOK
<1>7. CASE Shutdown
  BY <1>7, ShutdownStepType
<1>8. CASE UNCHANGED vars
  BY <1>8 DEF vars, StoreTypeOK, PollerTypeOK, ServerTypeOK
<1> QED
  BY <1>1, <1>2, <1>3, <1>4, <1>5, <1>6, <1>7, <1>8 DEF Next, InService

LEMMA InitType == Init => TypeOK
<1> SUFFICES ASSUME Init PROVE TypeOK
  OBVIOUS
<1>1. StoreTypeOK
  BY DefaultsType DEF Init, StoreInit, StoreTypeOK
<1>2. PollerTypeOK
  <2>1. sample \in Registers
    BY StoreAssumption DEF Init, PollerInit, Registers, NoSample
  <2>2. plant \in Registers
    BY DEF Init, PollerInit, Registers
  <2> QED BY <2>1, <2>2 DEF Init, PollerInit, PollerTypeOK, PollerPcs
<1>3. ServerTypeOK
  BY StoreAssumption DEF Init, ServerInit, ServerTypeOK, ServerPcs, Table
<1> QED BY <1>1, <1>2, <1>3 DEF Init, TypeOK, MainPcs

-----------------------------------------------------------------------------
(* The inductive invariant.                                                *)

\* The blocks that the invariant compares are numbers.
LEMMA Blocks ==
    ASSUME TypeOK
    PROVE  /\ \A o \in Objects : heap[o].block \in Nat
           /\ current \in Objects
           /\ \A r \in Readers : refs[r] # None => refs[r] \in Objects
           /\ sample.block \in Nat /\ plant.block \in Nat
           /\ served.ai \in Nat /\ served.bi \in Nat
BY DEF TypeOK, StoreTypeOK, PollerTypeOK, ServerTypeOK, BESSData, Registers, Table

LEMMA BlocksNext ==
    ASSUME TypeOK'
    PROVE  /\ heap'[current'].block \in Nat /\ plant'.block \in Nat
           /\ served'.ai \in Nat /\ served'.bi \in Nat
BY DEF TypeOK, StoreTypeOK, PollerTypeOK, ServerTypeOK, BESSData, Registers, Table

\* What any step keeps that leaves the objects, the references to them and the
\* server alone: only the poll under way and the plant may move.
LEMMA HeapKept ==
    ASSUME TypeOK, PathInv, UNCHANGED serverVars,
           refs' = refs, current' = current,
           \A o \in Objects : heap'[o].block = heap[o].block
    PROVE  /\ RefreshHolds' /\ TableInOrder'
           /\ \A r \in Readers : refs'[r] # None =>
                  heap'[refs'[r]].block <= heap'[current'].block
           /\ heap'[current'].block = heap[current].block
BY Blocks, BacnetAssumption
   DEF PathInv, RefreshHolds, TableInOrder, DataInOrder, serverVars

\* One step of the polling thread.
LEMMA PollerData ==
    ASSUME TypeOK, PathInv, PollerNext, UNCHANGED serverVars
    PROVE  RefreshHolds' /\ DataInOrder' /\ TableInOrder'
<1> USE Blocks
<1>1. CASE Publish
  <2>1. Update(sample) /\ heap[current].block <= sample.block
    BY <1>1 DEF Publish, PathInv, DataInOrder
  <2>2. /\ refs' = refs
        /\ heap'[current'].block = sample.block
        /\ \A r \in Readers : refs[r] # None => heap'[refs[r]] = heap[refs[r]]
    BY <2>1, UpdateHeld DEF TypeOK
  <2>3. sample' = NoSample /\ plant' = plant /\ pPc' = "check"
    BY <1>1 DEF Publish
  <2>4. DataInOrder'
    <3>1. ASSUME NEW r \in Readers, refs'[r] # None
          PROVE  heap'[refs'[r]].block <= heap'[current'].block
      BY <3>1, <2>1, <2>2 DEF PathInv, DataInOrder
    <3>2. heap'[current'].block <= plant'.block /\ sample'.block <= plant'.block
      BY <2>2, <2>3 DEF NoSample, PathInv, DataInOrder
    <3> QED BY <3>1, <3>2, <2>3 DEF DataInOrder
  <2>5. RefreshHolds' /\ TableInOrder'
    BY <2>1, <2>2, BacnetAssumption
       DEF PathInv, RefreshHolds, TableInOrder, serverVars
  <2> QED BY <2>4, <2>5
<1>2. CASE ConnectFailed \/ ReadFailed
  <2>1. /\ refs' = refs /\ current' = current
        /\ \A o \in Objects : heap'[o].block = heap[o].block
    BY <1>2, MarkHeld DEF ConnectFailed, ReadFailed, TypeOK
  <2>2. sample' = sample /\ plant' = plant /\ pPc' \notin {"read2", "publish"}
    BY <1>2 DEF ConnectFailed, ReadFailed
  <2> QED BY <2>1, <2>2, HeapKept DEF PathInv, DataInOrder
<1>3. CASE ~(Publish \/ ConnectFailed \/ ReadFailed)
  <2>1. refs' = refs /\ current' = current /\ heap' = heap /\ plant' = plant
    BY <1>3 DEF PollerNext, PollerStarts, LoopTest, ProbeClient, ProbeSocket, Goto,
                NewClient, Connect, ReadInputs, ReadInputsFails, ReadCommand,
                ReadCommandErrs, ReadCommandRaises, Disconnect, CheckStale, Wake
  <2>2. /\ sample'.block <= plant.block
        /\ pPc' \in {"read2", "publish"} => heap[current].block <= sample'.block
    <3>1. CASE ReadInputs
      BY <3>1 DEF ReadInputs, PathInv, DataInOrder
    <3>2. CASE ReadCommand \/ ReadCommandErrs
      BY <3>2 DEF ReadCommand, ReadCommandErrs, TypeOK, PollerTypeOK, Registers,
                  PathInv, DataInOrder
    <3>3. CASE ReadCommandRaises
      BY <3>3 DEF ReadCommandRaises, NoSample, PathInv, DataInOrder
    <3>4. CASE ProbeSocket
      BY <3>4 DEF ProbeSocket, Goto, PathInv, DataInOrder, TypeOK, PollerTypeOK
    <3>5. CASE PollerStarts \/ LoopTest \/ ProbeClient \/ NewClient \/ Connect
               \/ ReadInputsFails \/ Disconnect \/ CheckStale \/ Wake
      BY <3>5 DEF PollerStarts, LoopTest, ProbeClient, Goto, NewClient, Connect,
                  ReadInputsFails, Disconnect, CheckStale, Wake, PathInv, DataInOrder
    <3> QED BY <1>3, <3>1, <3>2, <3>3, <3>4, <3>5 DEF PollerNext
  <2> QED BY <2>1, <2>2, HeapKept DEF PathInv, DataInOrder
<1> QED BY <1>1, <1>2, <1>3

\* One step of the server's thread.
LEMMA ServerData ==
    ASSUME TypeOK, PathInv, ServerNext, UNCHANGED <<pollerVars, siteVars>>
    PROVE  RefreshHolds' /\ DataInOrder' /\ TableInOrder'
<1> USE Blocks, BacnetAssumption
<1>1. CASE RefreshGet
  <2>1. /\ heap' = heap /\ current' = current
        /\ refs'[Bacnet] = current
        /\ \A r \in Readers : refs'[r] = refs[r] \/ refs'[r] = current
        /\ bPc = "get" /\ bPc' = "ai" /\ served' = served
    BY <1>1 DEF RefreshGet, Get, TypeOK, StoreTypeOK
  <2>2. RefreshHolds' /\ TableInOrder'
    BY <2>1, StoreAssumption DEF PathInv, RefreshHolds, TableInOrder
  <2>3. DataInOrder'
    BY <2>1 DEF PathInv, DataInOrder, pollerVars, siteVars
  <2> QED BY <2>2, <2>3
<1>2. CASE CopyAnalog
  <2>1. served'.ai = heap[refs[Bacnet]].block /\ served'.bi = served.bi
    BY <1>2 DEF CopyAnalog, TypeOK, ServerTypeOK, Table
  <2> QED
    BY <1>2, <2>1 DEF CopyAnalog, PathInv, RefreshHolds, DataInOrder, TableInOrder,
                      pollerVars, siteVars
<1>3. CASE CopyBinary
  <2>1. served'.bi = heap[refs[Bacnet]].block /\ served'.ai = served.ai
    BY <1>3 DEF CopyBinary, TypeOK, ServerTypeOK, Table
  <2> QED
    BY <1>3, <2>1 DEF CopyBinary, PathInv, RefreshHolds, DataInOrder, TableInOrder,
                      pollerVars, siteVars
<1>4. CASE CopyCommand
  <2>1. /\ served'.ai = served.ai /\ served'.bi = served.bi
        /\ bPc = "av" /\ bPc' = "await"
    BY <1>4 DEF CopyCommand, TypeOK, ServerTypeOK, Table
  <2>2. /\ current' = current
        /\ heap'[current] = heap[current]
        /\ \A q \in Readers : refs'[q] # None =>
              refs'[q] = refs[q] /\ heap'[refs'[q]] = heap[refs[q]]
    BY <1>4, ReleaseHeld DEF CopyCommand, TypeOK
  <2>3. DataInOrder'
    BY <2>1, <2>2 DEF PathInv, DataInOrder, pollerVars, siteVars
  <2> QED BY <2>1, <2>2, <2>3 DEF PathInv, RefreshHolds, TableInOrder
<1>5. CASE ServerRuns \/ StartSucceeds \/ StartFails \/ ServerLoopTest \/ RefreshWakes
  BY <1>5 DEF ServerRuns, StartSucceeds, StartFails, ServerLoopTest, RefreshWakes,
              PathInv, RefreshHolds, DataInOrder, TableInOrder, pollerVars, siteVars
<1> QED BY <1>1, <1>2, <1>3, <1>4, <1>5 DEF ServerNext

\* One step of the main thread, which touches no data.
LEMMA MainData ==
    ASSUME TypeOK, PathInv, Signal \/ Shutdown
    PROVE  RefreshHolds' /\ DataInOrder' /\ TableInOrder'
<1>1. /\ heap' = heap /\ current' = current /\ refs' = refs
      /\ sample' = sample /\ plant' = plant /\ pPc' = pPc
      /\ served' = served /\ bPc' = bPc
  BY DEF Signal, Shutdown, MainStep, StopPoller, CloseClient, ClearClient, StopServer,
         CloseApp, storeVars, pollerVars, siteVars, serverVars
<1> QED BY <1>1 DEF PathInv, RefreshHolds, DataInOrder, TableInOrder

\* Nobody but stop() clears the client while the poller is between its loads.
LEMMA ClientStaysThere ==
    ASSUME TypeOK, PathInv, [Next]_vars
    PROVE  ClientThere'
<1> USE DEF ClientThere
<1>1. ClientThere
  BY DEF PathInv
<1>2. CASE Poller
  <2>1. mainPc' = mainPc
    BY <1>2 DEF Poller
  <2>2. CASE ProbeClient
    BY <2>1, <2>2, <1>1 DEF ProbeClient, Goto
  <2>3. CASE ProbeSocket
    BY <2>1, <2>3, <1>1 DEF ProbeSocket, Goto, TypeOK, PollerTypeOK
  <2>4. CASE PollerNext /\ ~(ProbeClient \/ ProbeSocket)
    <3>1. pPc' \notin {"probe2", "crashed"}
      BY <2>4 DEF PollerNext, PollerStarts, LoopTest, Goto, NewClient, Connect,
                  ConnectFailed, ReadInputs, ReadInputsFails, ReadCommand, ReadCommandErrs,
                  ReadCommandRaises, Publish, ReadFailed, Disconnect, CheckStale, Wake
    <3> QED BY <3>1
  <2> QED BY <1>2, <2>2, <2>3, <2>4 DEF Poller
<1>3. CASE Shutdown
  BY <1>1, <1>3 DEF Shutdown, MainStep, StopPoller, CloseClient, ClearClient,
                    StopServer, CloseApp, pollerVars
<1>4. CASE Server \/ BACnetClient \/ Site \/ Clock \/ UNCHANGED vars
  <2>1. pPc' = pPc /\ client' = client /\ mainPc' = mainPc
    BY <1>4 DEF Server, BACnetClient, Site, Clock, vars, pollerVars
  <2> QED BY <1>1, <2>1
<1>5. CASE Signal
  BY <1>1, <1>5 DEF Signal, MainStep, pollerVars
<1> QED BY <1>2, <1>3, <1>4, <1>5 DEF Next, InService

LEMMA StepInv ==
    ASSUME TypeOK, PathInv, [Next]_vars
    PROVE  PathInv'
<1>1. CASE Poller
  BY <1>1, PollerData, ClientStaysThere DEF Poller, PathInv
<1>2. CASE Server
  BY <1>2, ServerData, ClientStaysThere DEF Server, PathInv
<1>3. CASE BACnetClient
  <2>1. /\ heap' = heap /\ current' = current /\ refs' = refs
        /\ sample' = sample /\ plant' = plant /\ pPc' = pPc /\ bPc' = bPc
        /\ served'.ai = served.ai /\ served'.bi = served.bi
    BY <1>3 DEF BACnetClient, SocketBinds, OperatorWrites, pollerVars, siteVars,
                TypeOK, ServerTypeOK, Table
  <2> QED
    BY <2>1, ClientStaysThere DEF PathInv, RefreshHolds, DataInOrder, TableInOrder
<1>4. CASE Site
  <2>1. plant'.block \in Nat /\ plant'.block >= plant.block
    BY <1>4, Blocks DEF Site, PlantChanges, LinkChanges, TypeOK, PollerTypeOK, Registers
  <2>2. /\ heap' = heap /\ current' = current /\ refs' = refs
        /\ sample' = sample /\ pPc' = pPc /\ served' = served /\ bPc' = bPc
    BY <1>4 DEF Site, storeVars, pollerVars, serverVars
  <2> QED
    BY <2>1, <2>2, Blocks, ClientStaysThere
       DEF PathInv, RefreshHolds, DataInOrder, TableInOrder
<1>5. CASE Clock
  <2>1. /\ refs' = refs /\ current' = current
        /\ \A o \in Objects : heap'[o].block = heap[o].block
    BY <1>5, AgeHeld DEF Clock, TypeOK
  <2> QED
    BY <1>5, <2>1, HeapKept, ClientStaysThere
       DEF Clock, pollerVars, siteVars, PathInv, DataInOrder
<1>6. CASE Signal \/ Shutdown
  BY <1>6, MainData, ClientStaysThere DEF PathInv
<1>7. CASE UNCHANGED vars
  BY <1>7, ClientStaysThere DEF vars, PathInv, RefreshHolds, DataInOrder, TableInOrder
<1> QED BY <1>1, <1>2, <1>3, <1>4, <1>5, <1>6, <1>7 DEF Next, InService

LEMMA InitInv == Init => PathInv
BY DEF Init, StoreInit, PollerInit, ServerInit, Defaults, NoSample,
       PathInv, RefreshHolds, DataInOrder, TableInOrder, ClientThere

-----------------------------------------------------------------------------
(* The theorems.                                                           *)

\* The variables of the telemetry path (main.py:117-252 with the modules it
\* starts) keep their types, and the table, the object the refresh holds, the
\* current object, the poll under way and the plant stay in this order.
THEOREM PathInvariant == Spec => [](TypeOK /\ PathInv)
<1>1. Init => TypeOK /\ PathInv
  BY InitType, InitInv
<1>2. TypeOK /\ PathInv /\ [Next]_vars => (TypeOK /\ PathInv)'
  BY StepType, StepInv DEF PathInv
<1> QED BY <1>1, <1>2, PTL DEF Spec

\* Type correctness.
THEOREM TypeCorrect == Spec => []TypeOK
BY PathInvariant, PTL

\* A BACnet client never sees analog and binary points of different polls.
THEOREM TableIsOnePollHolds == Spec => []TableIsOnePoll
<1>1. PathInv => TableIsOnePoll
  BY DEF PathInv, TableInOrder, TableIsOnePoll
<1> QED BY <1>1, PathInvariant, PTL

\* The polling thread can only die of the cleared client during stop().
THEOREM CrashOnlyOnStopHolds == Spec => []CrashOnlyOnStop
<1>1. PathInv => CrashOnlyOnStop
  BY DEF PathInv, ClientThere, CrashOnlyOnStop
<1> QED BY <1>1, PathInvariant, PTL

-----------------------------------------------------------------------------
(* The refinements.                                                        *)

\* Only the two copying statements change what the inputs show.
LEMMA ServedStep ==
    ASSUME TypeOK, PathInv, [Next]_vars
    PROVE  \/ served'.ai = served.ai /\ served'.bi = served.bi
           \/ /\ Server /\ CopyAnalog
              /\ served'.ai = heap[refs[Bacnet]].block /\ served'.bi = served.bi
           \/ /\ Server /\ CopyBinary
              /\ served'.bi = heap[refs[Bacnet]].block /\ served'.ai = served.ai
<1> USE DEF TypeOK, ServerTypeOK, Table
<1>1. CASE Server
  <2>1. CASE CopyAnalog
    BY <1>1, <2>1 DEF CopyAnalog
  <2>2. CASE CopyBinary
    BY <1>1, <2>2 DEF CopyBinary
  <2>3. CASE ~(CopyAnalog \/ CopyBinary)
    BY <1>1, <2>3 DEF Server, ServerNext, ServerRuns, StartSucceeds, StartFails,
                      ServerLoopTest, RefreshGet, CopyCommand, RefreshWakes
  <2> QED BY <2>1, <2>2, <2>3
<1>2. CASE BACnetClient
  BY <1>2 DEF BACnetClient, SocketBinds, OperatorWrites
<1>3. CASE Poller \/ Site \/ Clock \/ Signal \/ UNCHANGED vars
  BY <1>3 DEF Poller, Site, Clock, Signal, MainStep, serverVars, vars
<1>4. CASE Shutdown
  BY <1>4 DEF Shutdown, MainStep, StopServer, CloseApp, serverVars
<1> QED BY <1>1, <1>2, <1>3, <1>4 DEF Next, InService

\* The held object is newer than what CopyAnalog and CopyBinary overwrite.
LEMMA ServedNoOlder ==
    ASSUME TypeOK, PathInv, [Next]_vars
    PROVE  served'.ai >= served.ai /\ served'.bi >= served.bi
<1> USE Blocks, BacnetAssumption
<1>1. CASE CopyAnalog /\ served'.ai = heap[refs[Bacnet]].block /\ served'.bi = served.bi
  BY <1>1 DEF CopyAnalog, PathInv, RefreshHolds, TableInOrder
<1>2. CASE CopyBinary /\ served'.bi = heap[refs[Bacnet]].block /\ served'.ai = served.ai
  BY <1>2 DEF CopyBinary, PathInv, RefreshHolds, TableInOrder
<1>3. CASE served'.ai = served.ai /\ served'.bi = served.bi
  BY <1>3
<1> QED BY <1>1, <1>2, <1>3, ServedStep

\* The BACnet inputs never show an older state of the plant than before.
THEOREM ServedMonotone == Spec => ServedNeverGoesBack
<1>1. TypeOK /\ PathInv /\ [Next]_vars
        => [served'.ai >= served.ai /\ served'.bi >= served.bi]_vars
  BY ServedNoOlder
<1> QED BY <1>1, PathInvariant, PTL DEF Spec, ServedNeverGoesBack

\* A published object's block only changes by a newer poll.
LEMMA PublishedStep ==
    ASSUME TypeOK, PathInv, [Next]_vars
    PROVE  \/ heap'[current'].block = heap[current].block
           \/ /\ heap'[current'].block \in heap[current].block..plant.block
              /\ plant' = plant /\ served' = served
<1> USE Blocks
<1>1. CASE Poller
  <2>1. CASE Publish
    <3>1. heap'[current'].block = sample.block
      BY <2>1, UpdateHeld DEF Publish, TypeOK
    <3>2. heap[current].block <= sample.block /\ sample.block <= plant.block
      BY <2>1 DEF Publish, PathInv, DataInOrder
    <3> QED BY <1>1, <2>1, <3>1, <3>2 DEF Publish, Poller, serverVars
  <2>2. CASE ConnectFailed \/ ReadFailed
    BY <2>2, MarkHeld DEF ConnectFailed, ReadFailed, TypeOK
  <2>3. CASE ~(Publish \/ ConnectFailed \/ ReadFailed)
    BY <1>1, <2>3
       DEF Poller, PollerNext, PollerStarts, LoopTest, ProbeClient, ProbeSocket, Goto,
           NewClient, Connect, ReadInputs, ReadInputsFails, ReadCommand,
           ReadCommandErrs, ReadCommandRaises, Disconnect, CheckStale, Wake
  <2> QED BY <2>1, <2>2, <2>3
<1>2. CASE Server
  <2>1. CASE CopyCommand
    BY <2>1, ReleaseHeld, BacnetAssumption DEF CopyCommand, TypeOK
  <2>2. CASE ~CopyCommand
    BY <1>2, <2>2 DEF Server, ServerNext, ServerRuns, StartSucceeds, StartFails,
                      ServerLoopTest, RefreshGet, Get, CopyAnalog, CopyBinary, RefreshWakes
  <2> QED BY <2>1, <2>2
<1>3. CASE Clock
  BY <1>3, AgeHeld DEF Clock, TypeOK
<1>4. CASE BACnetClient \/ Site \/ Signal \/ Shutdown \/ UNCHANGED vars
  BY <1>4 DEF BACnetClient, SocketBinds, OperatorWrites, Site, Signal, Shutdown, MainStep,
              StopPoller, CloseClient, ClearClient, StopServer, CloseApp, storeVars, vars
<1> QED BY <1>1, <1>2, <1>3, <1>4 DEF Next, InService

\* Only the site changes the plant, by one step of it.
LEMMA PlantStep ==
    ASSUME TypeOK, [Next]_vars
    PROVE  \/ plant' = plant
           \/ plant'.block = plant.block + 1 /\ UNCHANGED <<heap, current, served>>
<1>1. CASE Site
  BY <1>1 DEF Site, PlantChanges, LinkChanges, storeVars, serverVars,
              TypeOK, PollerTypeOK, Registers
<1>2. CASE Poller
  BY <1>2 DEF Poller, PollerNext, PollerStarts, LoopTest, ProbeClient, ProbeSocket, Goto,
              NewClient, Connect, ConnectFailed, ReadInputs, ReadInputsFails, ReadCommand,
              ReadCommandErrs, ReadCommandRaises, Publish, ReadFailed, Disconnect,
              CheckStale, Wake
<1>3. CASE Server \/ BACnetClient \/ Clock \/ Signal \/ Shutdown \/ UNCHANGED vars
  BY <1>3 DEF Server, BACnetClient, Clock, Signal, Shutdown, MainStep, siteVars, vars
<1> QED BY <1>1, <1>2, <1>3 DEF Next, InService

LEMMA FeedStep ==
    ASSUME TypeOK, PathInv, [Next]_vars
    PROVE  [Feed!FeedNext]_(Feed!feedVars)
<1> USE Blocks, BacnetAssumption
<1>1. CASE plant'.block = plant.block + 1 /\ UNCHANGED <<heap, current, served>>
  BY <1>1 DEF Feed!FeedNext, Feed!Produce, Feed!feedVars
<1>2. CASE /\ plant' = plant /\ served' = served
           /\ heap'[current'].block \in heap[current].block..plant.block
  BY <1>2 DEF Feed!FeedNext, Feed!Poll, Feed!feedVars
<1>3. CASE plant' = plant /\ heap'[current'].block = heap[current].block
  <2>1. CASE CopyAnalog /\ served'.ai = heap[refs[Bacnet]].block
    <3>1. /\ served.ai <= heap[refs[Bacnet]].block
          /\ heap[refs[Bacnet]].block <= heap[current].block
      BY <2>1 DEF CopyAnalog, PathInv, RefreshHolds, TableInOrder, DataInOrder
    <3> QED
      BY <1>3, <2>1, <3>1 DEF CopyAnalog, PathInv, RefreshHolds,
                              Feed!FeedNext, Feed!Show, Feed!feedVars
  <2>2. CASE served'.ai = served.ai
    BY <1>3, <2>2 DEF Feed!feedVars
  <2> QED BY <2>1, <2>2, ServedStep
<1> QED BY <1>1, <1>2, <1>3, PlantStep, PublishedStep

\* Telemetry implements the abstract feed.
THEOREM FeedRefinement == Spec => FeedRefined
<1>1. Init => Feed!FeedInit
  BY DEF Init, StoreInit, PollerInit, ServerInit, Defaults, Feed!FeedInit
<1>2. TypeOK /\ PathInv /\ [Next]_vars => [Feed!FeedNext]_(Feed!feedVars)
  BY FeedStep
<1> QED BY <1>1, <1>2, PathInvariant, PTL DEF Spec, FeedRefined, Feed!FeedSpec

LEMMA SocketStep ==
    ASSUME TypeOK, [Next]_vars
    PROVE  [Socket!SocketNext]_(Socket!socketVars)
<1> USE DEF Socket!SocketNext, Socket!ThreadStarts, Socket!ThreadDies, Socket!Binds,
            Socket!Closes, Socket!socketVars
<1>1. CASE Server
  BY <1>1 DEF Server, ServerNext, ServerRuns, StartSucceeds, StartFails, ServerLoopTest,
              RefreshGet, CopyAnalog, CopyBinary, CopyCommand, RefreshWakes
<1>2. CASE BACnetClient
  BY <1>2 DEF BACnetClient, SocketBinds, OperatorWrites
<1>3. CASE Shutdown
  BY <1>3 DEF Shutdown, MainStep, StopServer, CloseApp, serverVars, TypeOK, ServerTypeOK
<1>4. CASE Poller \/ Site \/ Clock \/ Signal \/ UNCHANGED vars
  BY <1>4 DEF Poller, Site, Clock, Signal, serverVars, vars
<1> QED BY <1>1, <1>2, <1>3, <1>4 DEF Next, InService

\* What the status pages can see of the server is what ServerSocket says.
THEOREM SocketRefinement == Spec => SocketRefined
<1>1. Init => Socket!SocketInit
  BY DEF Init, ServerInit, Socket!SocketInit
<1>2. TypeOK /\ [Next]_vars => [Socket!SocketNext]_(Socket!socketVars)
  BY SocketStep
<1> QED BY <1>1, <1>2, TypeCorrect, PTL DEF Spec, SocketRefined, Socket!SocketSpec

-----------------------------------------------------------------------------
(* The safety half of the liveness properties.                             *)

\* The table is never ahead of the plant, and never goes back.
THEOREM FreshTableStays == Spec => FreshStays
<1>1. TypeOK /\ PathInv /\ [Next]_vars /\ TypeOK' /\ PathInv'
        => [served.ai = plant.block /\ served.bi = plant.block /\ plant' = plant
              => served'.ai = served.ai /\ served'.bi = served.bi]_vars
  <2> SUFFICES ASSUME TypeOK, PathInv, [Next]_vars, TypeOK', PathInv',
                      served.ai = plant.block, served.bi = plant.block, plant' = plant
               PROVE  served'.ai = served.ai /\ served'.bi = served.bi
    OBVIOUS
  <2>1. served'.ai >= served.ai /\ served'.bi >= served.bi
    BY ServedNoOlder
  <2>2. served'.ai <= plant'.block /\ served'.bi <= plant'.block
    BY BlocksNext DEF PathInv, DataInOrder, TableInOrder
  <2> QED BY <2>1, <2>2, Blocks, BlocksNext
<1> QED BY <1>1, PathInvariant, PTL DEF Spec, FreshStays

LEMMA LossStep ==
    ASSUME TypeOK, RefreshHolds, [Next]_vars, LossNoticed, link' = "down"
    PROVE  LossNoticed'
<1> USE DEF LossNoticed, IsStale, TooOld, Never
<1>1. /\ current \in Objects /\ heap[current].age \in {Never} \cup 0..AgeCap
      /\ StoreTypeOK
  BY DEF TypeOK, StoreTypeOK, BESSData
<1>2. CASE Poller
  <2>1. CASE ConnectFailed \/ ReadFailed
    <3>1. pPc' \notin {"read2", "publish"}
      BY <2>1 DEF ConnectFailed, ReadFailed
    <3> QED BY <1>1, <2>1, <3>1, MarkHeld DEF ConnectFailed, ReadFailed
  <2>2. CASE ~(ConnectFailed \/ ReadFailed)
    <3>1. heap' = heap /\ current' = current
      BY <1>2, <2>2
         DEF Poller, PollerNext, PollerStarts, LoopTest, ProbeClient, ProbeSocket, Goto,
             NewClient, Connect, ReadInputs, ReadInputsFails, ReadCommand, Publish,
             ReadCommandErrs, ReadCommandRaises, Disconnect, CheckStale, Wake
    <3>2. pPc' \notin {"read2", "publish"}
      <4>1. CASE PollerStarts \/ LoopTest \/ ProbeClient \/ NewClient \/ Connect
        BY <4>1 DEF PollerStarts, LoopTest, ProbeClient, Goto, NewClient, Connect
      <4>2. CASE ProbeSocket
        BY <4>2 DEF ProbeSocket, Goto, TypeOK, PollerTypeOK
      <4>3. CASE ReadInputs \/ ReadInputsFails \/ ReadCommand \/ ReadCommandErrs
                 \/ ReadCommandRaises \/ Publish \/ Disconnect \/ CheckStale \/ Wake
        BY <4>3 DEF ReadInputs, ReadInputsFails, ReadCommand, ReadCommandErrs,
                    ReadCommandRaises, Publish, Disconnect, CheckStale, Wake, Goto
      <4> QED BY <1>2, <2>2, <4>1, <4>2, <4>3 DEF Poller, PollerNext
    <3> QED BY <3>1, <3>2
  <2> QED BY <2>1, <2>2
<1>3. CASE Server
  <2>1. heap'[current'] = heap[current]
    <3>1. CASE CopyCommand
      BY <1>1, <3>1, ReleaseHeld, BacnetAssumption DEF CopyCommand
    <3>2. CASE ~CopyCommand
      BY <1>3, <3>2 DEF Server, ServerNext, ServerRuns, StartSucceeds, StartFails,
                        ServerLoopTest, RefreshGet, Get, CopyAnalog, CopyBinary, RefreshWakes
    <3> QED BY <3>1, <3>2
  <2> QED BY <1>3, <2>1 DEF Server, pollerVars
<1>4. CASE Clock
  <2>1. /\ current' = current /\ heap'[current].poll_success = heap[current].poll_success
        /\ heap'[current].age = Older(heap[current].age) /\ pPc' = pPc
    BY <1>1, <1>4, AgeHeld DEF Clock, pollerVars
  <2>2. heap'[current].age = Never \/ heap'[current].age > StaleTimeout
    BY <1>1, <2>1, StoreAssumption DEF Older
  <2> QED BY <2>1, <2>2
<1>5. CASE BACnetClient \/ Site \/ Signal \/ Shutdown \/ UNCHANGED vars
  <2>1. heap' = heap /\ current' = current /\ pPc' = pPc
    BY <1>5 DEF BACnetClient, SocketBinds, OperatorWrites, Site, Signal, Shutdown, MainStep,
                StopPoller, CloseClient, ClearClient, StopServer, CloseApp, storeVars,
                pollerVars, vars
  <2> QED BY <2>1
<1> QED BY <1>2, <1>3, <1>4, <1>5 DEF Next, InService

\* A lost link is not forgotten before it is back.
THEOREM NoticedLossStays == Spec => LossStays
<1>1. TypeOK /\ PathInv /\ [Next]_vars => [LossNoticed /\ link' = "down" => LossNoticed']_vars
  BY LossStep DEF PathInv
<1> QED BY <1>1, PathInvariant, PTL DEF Spec, LossStays

LEMMA FlagsStep ==
    ASSUME TypeOK, PathInv, ClientThere', FlagsSet, [Next]_vars
    PROVE  FlagsSet'
<1> USE DEF FlagsSet, LoopsGoOn, TypeOK
<1>1. CASE Poller
  <2>1. mainPc' = mainPc /\ bPc' = bPc /\ bRunning' = bRunning
    BY <1>1 DEF Poller, serverVars
  <2>2. (pRunning' = pRunning /\ pPc # "init") \/ pRunning'
    BY <1>1 DEF Poller, PollerNext, PollerStarts, LoopTest, ProbeClient, ProbeSocket, Goto,
                NewClient, Connect, ConnectFailed, ReadInputs, ReadInputsFails, ReadCommand,
                ReadCommandErrs, ReadCommandRaises, Publish, ReadFailed, Disconnect,
                CheckStale, Wake
  <2>3. pPc' # "exited" \/ (pPc \in {"top", "exited"} /\ ~pRunning)
    <3>1. CASE LoopTest
      BY <3>1 DEF LoopTest, Goto
    <3>2. CASE ProbeSocket
      BY <3>2 DEF ProbeSocket, Goto, PollerTypeOK
    <3>3. CASE ~LoopTest /\ ~ProbeSocket
      BY <1>1, <3>3
         DEF Poller, PollerNext, PollerStarts, ProbeClient, Goto,
             NewClient, Connect, ConnectFailed, ReadInputs, ReadInputsFails, ReadCommand,
             ReadCommandErrs, ReadCommandRaises, Publish, ReadFailed, Disconnect,
             CheckStale, Wake
    <3> QED BY <3>1, <3>2, <3>3
  <2>4. mainPc = "up" => pPc' # "crashed"
    BY <2>1 DEF ClientThere
  <2> QED BY <2>1, <2>2, <2>3, <2>4
<1>2. CASE Server
  <2>1. mainPc' = mainPc /\ pPc' = pPc /\ pRunning' = pRunning
    BY <1>2 DEF Server, pollerVars
  <2>2. (bRunning' = bRunning /\ bPc # "init") \/ bRunning'
    BY <1>2 DEF Server, ServerNext, ServerRuns, StartSucceeds, StartFails, ServerLoopTest,
                RefreshGet, CopyAnalog, CopyBinary, CopyCommand, RefreshWakes
  <2>3. bPc' # "exited" \/ (bPc = "loop" /\ ~bRunning)
    BY <1>2 DEF Server, ServerNext, ServerRuns, StartSucceeds, StartFails, ServerLoopTest,
                RefreshGet, CopyAnalog, CopyBinary, CopyCommand, RefreshWakes
  <2> QED BY <2>1, <2>2, <2>3
<1>3. CASE BACnetClient \/ Site \/ Clock \/ UNCHANGED vars
  <2>1. /\ mainPc' = mainPc /\ pPc' = pPc /\ pRunning' = pRunning
        /\ bPc' = bPc /\ bRunning' = bRunning
    BY <1>3 DEF BACnetClient, SocketBinds, OperatorWrites, Site, Clock, pollerVars,
                serverVars, vars
  <2> QED BY <2>1
<1>4. CASE Signal
  BY <1>4 DEF Signal, MainStep, pollerVars, serverVars
<1>5. CASE Shutdown
  BY <1>5 DEF Shutdown, MainStep, StopPoller, CloseClient, ClearClient, StopServer,
              CloseApp, pollerVars, serverVars, storeVars
<1> QED BY <1>1, <1>2, <1>3, <1>4, <1>5 DEF Next, InService

\* Nothing but stop() makes either thread leave its loop.
THEOREM ThreadsGoOn == Spec => []LoopsGoOn
<1>1. Init => FlagsSet
  BY DEF Init, PollerInit, ServerInit, FlagsSet, LoopsGoOn
<1>2. TypeOK /\ PathInv /\ PathInv' /\ FlagsSet /\ [Next]_vars => FlagsSet'
  BY FlagsStep DEF PathInv
<1>3. FlagsSet => LoopsGoOn
  BY DEF FlagsSet
<1> QED BY <1>1, <1>2, <1>3, PathInvariant, PTL DEF Spec

-----------------------------------------------------------------------------
(* The appliance with its status requests: the store as the pages see it.  *)

LEMMA PagesSee ==
    ASSUME StoreTypeOK
    PROVE  /\ PagesHeap \in [Objects -> BESSData]
           /\ PagesHeap[current] = heap[current]
           /\ \A w \in Requests : refs[w] # None => PagesHeap[refs[w]] = heap[refs[w]]
BY DefaultsType DEF PagesHeap, SeenByPages, StoreTypeOK, Requests

LEMMA PagesSeeNext ==
    ASSUME StoreTypeOK'
    PROVE  /\ PagesHeap'[current'] = heap'[current']
           /\ \A w \in Requests : refs'[w] # None => PagesHeap'[refs'[w]] = heap'[refs'[w]]
BY DEF PagesHeap, SeenByPages, StoreTypeOK, Requests

PagesRefs == [w \in Requests |-> refs[w]]

\* Nothing changes for the pages if only other readers' references do.
LEMMA NothingSeen ==
    ASSUME current' = current, \A w \in Requests : refs'[w] = refs[w],
           \A o \in Objects : SeenByPages(o) => heap'[o] = heap[o]
    PROVE  PagesHeap' = PagesHeap /\ PagesRefs' = PagesRefs
BY DEF PagesHeap, SeenByPages, PagesRefs

LEMMA UpdateSeen ==
    ASSUME StoreTypeOK, NEW s, Update(s)
    PROVE  Status!Update(s)
<1>1. PICK o \in Objects : Update(s)!(o)
  BY DEF Update
<1> DEFINE fresh == [block |-> s.block, cmd |-> s.cmd, age |-> 0,
                     poll_success |-> TRUE, stale |-> FALSE]
           seen == [PagesHeap EXCEPT ![o] = fresh]
<1>2. ~Status!Held(o, current, PagesRefs)
  BY <1>1 DEF Held, Status!Held, PagesRefs, Requests
<1>3. refs' = refs /\ current' = o
  BY <1>1
<1>4. PagesRefs' = PagesRefs
  BY <1>3 DEF PagesRefs
<1>5. heap'[o] = fresh /\ \A p \in Objects : p # o /\ (\E w \in Requests : refs[w] = p)
                             => heap'[p] = heap[p]
  BY <1>1 DEF Collected, Held, StoreTypeOK, Requests
<1>6. PagesHeap' = Status!Collected(seen, o, PagesRefs)
  <2>1. seen = [p \in Objects |-> IF p = o THEN fresh ELSE PagesHeap[p]]
    BY DEF PagesHeap
  <2>2. \A p \in Objects : Status!Held(p, o, PagesRefs) <=> SeenByPages(p)'
    BY <1>3 DEF Status!Held, PagesRefs, SeenByPages
  <2>3. ASSUME NEW p \in Objects
        PROVE  PagesHeap'[p] = IF Status!Held(p, o, PagesRefs) THEN seen[p] ELSE Status!Defaults
    <3>1. CASE p = o
      BY <1>3, <1>5, <2>1, <2>2, <3>1 DEF PagesHeap, SeenByPages
    <3>2. CASE p # o /\ \E w \in Requests : refs[w] = p
      BY <1>3, <1>5, <2>1, <2>2, <3>2 DEF PagesHeap, SeenByPages
    <3>3. CASE p # o /\ ~\E w \in Requests : refs[w] = p
      BY <1>3, <2>2, <3>3 DEF PagesHeap, SeenByPages, Defaults, Status!Defaults, Never,
                              Status!Never
    <3> QED BY <3>1, <3>2, <3>3
  <2> QED BY <2>3 DEF PagesHeap, Status!Collected
<1> QED BY <1>1, <1>2, <1>3, <1>4, <1>6 DEF Status!Update, PagesRefs

LEMMA MarksSeen ==
    ASSUME StoreTypeOK
    PROVE  /\ MarkStale => Status!MarkStale
           /\ MarkPollFailed => Status!MarkPollFailed
<1> USE DEF PagesHeap, SeenByPages, StoreTypeOK, PagesRefs
<1>1. ASSUME MarkStale PROVE Status!MarkStale
  BY <1>1 DEF MarkStale, Status!MarkStale, BESSData
<1>2. ASSUME MarkPollFailed PROVE Status!MarkPollFailed
  BY <1>2 DEF MarkPollFailed, Status!MarkPollFailed, BESSData
<1> QED BY <1>1, <1>2

LEMMA AgeSeen ==
    ASSUME StoreTypeOK, AgeData
    PROVE  Status!AgeData
<1>1. current' = current /\ refs' = refs
  BY DEF AgeData
<1>2. ASSUME NEW o \in Objects
      PROVE  PagesHeap'[o] = [PagesHeap[o] EXCEPT !.age = Status!Older(@)]
  <2>1. CASE SeenByPages(o)
    BY <1>1, <2>1 DEF PagesHeap, SeenByPages, AgeData, Older, Status!Older, Never,
                      Status!Never
  <2>2. CASE ~SeenByPages(o)
    BY <1>1, <2>2 DEF PagesHeap, SeenByPages, Defaults, Status!Older, Never, Status!Never
  <2> QED BY <2>1, <2>2
<1>3. PagesHeap' = [o \in Objects |-> PagesHeap'[o]]
  BY DEF PagesHeap
<1> QED BY <1>1, <1>2, <1>3 DEF Status!AgeData

\* The references of a request, and nothing else, change with its get().
LEMMA GetSeen ==
    ASSUME StoreTypeOK, NEW w \in Requests, refs[w] = None, Pages!Get(w)
    PROVE  Status!Get(w)
<1>1. refs' = [refs EXCEPT ![w] = current] /\ heap' = heap /\ current' = current
  BY DEF Pages!Get
<1>2. w \in Readers
  BY DEF Requests
<1>3. [v \in Requests |-> refs'[v]] = [[v \in Requests |-> refs[v]] EXCEPT ![w] = current]
  BY <1>1, <1>2 DEF StoreTypeOK, Requests
<1>4. ASSUME NEW o \in Objects PROVE SeenByPages(o)' <=> SeenByPages(o)
  <2>1. \A v \in Requests : refs'[v] = IF v = w THEN current ELSE refs[v]
    BY <1>1, <1>2 DEF StoreTypeOK, Requests
  <2> QED BY <1>1, <2>1, StoreAssumption DEF SeenByPages
<1>5. PagesHeap' = PagesHeap
  BY <1>1, <1>4 DEF PagesHeap
<1> QED BY <1>1, <1>3, <1>5 DEF Status!Get

LEMMA ReleaseSeen ==
    ASSUME StoreTypeOK, NEW w \in Requests, Pages!Release(w)
    PROVE  Status!Release(w)
<1>1. refs' = [refs EXCEPT ![w] = None] /\ current' = current
  BY DEF Pages!Release
<1>2. w \in Readers
  BY DEF Requests
<1>3. PagesRefs' = [PagesRefs EXCEPT ![w] = None]
  BY <1>1, <1>2 DEF StoreTypeOK, Requests, PagesRefs
<1>4. ASSUME NEW o \in Objects
      PROVE  PagesHeap'[o] = IF Status!Held(o, current, PagesRefs') THEN PagesHeap[o]
                                                                   ELSE Status!Defaults
  <2>1. Status!Held(o, current, PagesRefs') <=> SeenByPages(o)'
    BY <1>1 DEF Status!Held, PagesRefs, SeenByPages
  <2>2. SeenByPages(o)' => SeenByPages(o) /\ heap'[o] = heap[o]
    <3>1. \A v \in Requests : refs'[v] = IF v = w THEN None ELSE refs[v]
      BY <1>1, <1>2 DEF StoreTypeOK, Requests
    <3>2. SeenByPages(o)' => SeenByPages(o)
      BY <1>1, <3>1, StoreAssumption DEF SeenByPages
    <3>3. SeenByPages(o)' => Pages!Held(o, current, refs')
      BY <1>1 DEF SeenByPages, Pages!Held, Requests
    <3> QED BY <3>2, <3>3 DEF Pages!Release, Pages!Collected
  <2> QED BY <2>1, <2>2 DEF PagesHeap, Defaults, Status!Defaults, Never, Status!Never
<1>5. PagesHeap' = Status!Collected(PagesHeap, current, PagesRefs')
  BY <1>4 DEF Status!Collected, PagesHeap
<1> QED BY <1>1, <1>3, <1>5 DEF Status!Release, PagesRefs

-----------------------------------------------------------------------------
(* The threads' steps, as StatusPath has them.                             *)

LEMMA PollerAsStatus ==
    ASSUME StoreTypeOK, PollerNext
    PROVE  Status!PollerNext
<1>1. CASE Publish
  BY <1>1, UpdateSeen DEF Publish, Status!PollerNext, Status!Publish, NoSample, Status!NoSample
<1>2. CASE ConnectFailed \/ ReadFailed
  BY <1>2, MarksSeen DEF ConnectFailed, ReadFailed, Status!PollerNext,
                         Status!ConnectFailed, Status!ReadFailed
<1>3. CASE ~(Publish \/ ConnectFailed \/ ReadFailed)
  <2>1. heap' = heap /\ current' = current /\ refs' = refs
    BY <1>3 DEF PollerNext, PollerStarts, LoopTest, ProbeClient, ProbeSocket, Goto,
                NewClient, Connect, ReadInputs, ReadInputsFails, ReadCommand,
                ReadCommandErrs, ReadCommandRaises, Disconnect, CheckStale, Wake
  <2>2. PagesHeap' = PagesHeap /\ PagesRefs' = PagesRefs
    BY <2>1, NothingSeen
  <2>3. CASE LoopTest \/ ProbeClient \/ ProbeSocket \/ CheckStale \/ Wake
    BY <2>1, <2>2, <2>3
       DEF LoopTest, ProbeClient, ProbeSocket, CheckStale, Wake, Goto, PagesRefs,
           Status!PollerNext, Status!LoopTest, Status!ProbeClient, Status!ProbeSocket,
           Status!CheckStale, Status!Wake, Status!Goto
  <2>4. CASE PollerStarts \/ NewClient \/ Connect \/ Disconnect
    BY <2>1, <2>2, <2>4
       DEF PollerStarts, NewClient, Connect, Disconnect, PagesRefs, Status!PollerNext,
           Status!PollerStarts, Status!NewClient, Status!Connect, Status!Disconnect
  <2>5. CASE ReadInputs \/ ReadInputsFails
    BY <2>1, <2>2, <2>5
       DEF ReadInputs, ReadInputsFails, PagesRefs, Status!PollerNext, Status!ReadInputs,
           Status!ReadInputsFails
  <2>6. CASE ReadCommand \/ ReadCommandErrs \/ ReadCommandRaises
    BY <2>1, <2>2, <2>6
       DEF ReadCommand, ReadCommandErrs, ReadCommandRaises, PagesRefs, NoSample,
           Status!PollerNext, Status!ReadCommand, Status!ReadCommandErrs,
           Status!ReadCommandRaises, Status!NoSample
  <2> QED BY <1>3, <2>3, <2>4, <2>5, <2>6 DEF PollerNext
<1> QED BY <1>1, <1>2, <1>3

\* A step of the server, or of its clients, is one of ServerSocket or invisible.
LEMMA ServerAsStatus ==
    ASSUME StoreTypeOK, RefreshHolds, ServerNext \/ SocketBinds \/ OperatorWrites
    PROVE  /\ PagesHeap' = PagesHeap /\ PagesRefs' = PagesRefs /\ current' = current
           /\ heap'[current] = heap[current]
           /\ Status!SocketNext \/ UNCHANGED <<ThreadSeen, socket>>
<1> USE BacnetAssumption
<1>1. CASE RefreshGet
  <2>1. \A w \in Requests : refs'[w] = refs[w]
    BY <1>1 DEF RefreshGet, Get, StoreTypeOK, Requests
  <2>2. current' = current /\ heap' = heap
    BY <1>1 DEF RefreshGet, Get
  <2>3. UNCHANGED <<ThreadSeen, socket>>
    BY <1>1 DEF RefreshGet, ThreadSeen
  <2> QED BY <2>1, <2>2, <2>3, NothingSeen
<1>2. CASE CopyCommand
  <2>1. \A w \in Requests : refs'[w] = refs[w]
    BY <1>2 DEF CopyCommand, Release, StoreTypeOK, Requests
  <2>2. current' = current /\ \A o \in Objects : SeenByPages(o) => heap'[o] = heap[o]
    <3>1. current' = current /\ heap' = Collected(heap, current, refs')
      BY <1>2 DEF CopyCommand, Release
    <3>2. \A o \in Objects : SeenByPages(o) => Held(o, current, refs')
      BY <2>1 DEF SeenByPages, Held, Requests
    <3> QED BY <3>1, <3>2 DEF Collected
  <2>3. UNCHANGED <<ThreadSeen, socket>>
    BY <1>2 DEF CopyCommand, ThreadSeen
  <2>4. SeenByPages(current)
    BY DEF SeenByPages
  <2> QED BY <2>1, <2>2, <2>3, <2>4, NothingSeen DEF StoreTypeOK
<1>3. CASE ~RefreshGet /\ ~CopyCommand
  <2>1. heap' = heap /\ current' = current /\ refs' = refs
    BY <1>3 DEF ServerNext, ServerRuns, StartSucceeds, StartFails, ServerLoopTest,
                CopyAnalog, CopyBinary, RefreshWakes, SocketBinds, OperatorWrites
  <2>2. Status!SocketNext \/ UNCHANGED <<ThreadSeen, socket>>
    <3>1. CASE StartSucceeds \/ StartFails \/ SocketBinds
      BY <3>1 DEF StartSucceeds, StartFails, SocketBinds, ThreadSeen, Status!SocketNext,
                  Status!ThreadStarts, Status!ThreadDies, Status!Binds
    <3>2. CASE ~(StartSucceeds \/ StartFails \/ SocketBinds)
      BY <1>3, <3>2 DEF ServerNext, ServerRuns, ServerLoopTest, CopyAnalog, CopyBinary,
                        RefreshWakes, OperatorWrites, ThreadSeen
    <3> QED BY <3>1, <3>2
  <2> QED BY <2>1, <2>2, NothingSeen
<1> QED BY <1>1, <1>2, <1>3

\* The pages' own steps read the same through what they can see of the heap.
LEMMA WebAsStatus ==
    ASSUME StoreTypeOK, RequestsHold, NEW w \in Requests, Pages!WebNext(w)
    PROVE  Status!WebNext(w)
<1>1. CASE Pages!ReadStore(w)
  <2>1. refs[w] = None
    BY <1>1 DEF Pages!ReadStore, RequestsHold
  <2> QED BY <1>1, <2>1, GetSeen DEF Pages!ReadStore, Status!ReadStore, Status!WebNext
<1>2. CASE Pages!Respond(w)
  BY <1>2, ReleaseSeen DEF Pages!Respond, Status!Respond, Status!WebNext, Pages!Blank,
                           Status!Blank
<1>3. CASE ~Pages!ReadStore(w) /\ ~Pages!Respond(w)
  <2>1. heap' = heap /\ current' = current /\ refs' = refs
    BY <1>3 DEF Pages!WebNext, Pages!Request, Pages!ReadStale, Pages!ReadEpms,
                Pages!ReadActive, Pages!ReadEpmsAgain, Pages!ReadActiveAgain, Pages!Reply
  <2>2. PagesHeap' = PagesHeap /\ PagesRefs' = PagesRefs
    BY <2>1, NothingSeen
  <2>3. PagesHeap[current] = heap[current] /\ PagesRefs[w] = refs[w]
    BY PagesSee DEF PagesRefs
  <2>4. rPc[w] \notin {"idle", "get"} => PagesHeap[refs[w]] = heap[refs[w]]
    BY PagesSee DEF RequestsHold
  <2>5. CASE Pages!Request(w)
    BY <2>1, <2>2, <2>5 DEF Pages!Request, Status!Request, Status!WebNext, PagesRefs,
                            Pages!Kinds, Status!Kinds
  <2>6. CASE Pages!ReadStale(w)
    BY <2>1, <2>2, <2>3, <2>6
       DEF Pages!ReadStale, Status!ReadStale, Status!WebNext, Pages!Reply, Status!Reply,
           Pages!IsStale, Status!IsStale, Pages!TooOld, Status!TooOld, Pages!Never,
           Status!Never, PagesRefs
  <2>7. CASE Pages!ReadEpms(w)
    BY <2>1, <2>2, <2>3, <2>4, <2>7
       DEF Pages!ReadEpms, Status!ReadEpms, Status!WebNext, Pages!Reply, Status!Reply,
           PagesRefs
  <2>8. CASE Pages!ReadEpmsAgain(w)
    BY <2>1, <2>2, <2>3, <2>4, <2>8
       DEF Pages!ReadEpmsAgain, Status!ReadEpmsAgain, Status!WebNext, Pages!Reply,
           Status!Reply, PagesRefs
  <2>9. CASE Pages!ReadActive(w) \/ Pages!ReadActiveAgain(w)
    BY <2>1, <2>2, <2>9
       DEF Pages!ReadActive, Status!ReadActive, Pages!ReadActiveAgain,
           Status!ReadActiveAgain, Status!WebNext, Pages!Reply, Status!Reply,
           Pages!Listening, Status!Listening, PagesRefs
  <2> QED BY <1>3, <2>5, <2>6, <2>7, <2>8, <2>9 DEF Pages!WebNext
<1> QED BY <1>1, <1>2, <1>3

-----------------------------------------------------------------------------
(* What is invariant of the whole appliance.                               *)

\* A request's step: it touches no other reader's object, and the store's
\* objects stay what they are while somebody holds them.
LEMMA WebDisturbsNobody ==
    ASSUME StoreTypeOK, NEW w \in Requests, Pages!WebNext(w)
    PROVE  /\ StoreTypeOK'
           /\ current' = current /\ heap'[current] = heap[current]
           /\ \A r \in Readers \ {w} : refs'[r] = refs[r]
           /\ \A r \in Readers \ {w} : refs[r] # None => heap'[refs[r]] = heap[refs[r]]
           /\ refs'[w] \in {refs[w], current, None}
           /\ refs'[w] # None => heap'[refs'[w]] = heap[refs'[w]]
<1>0. w \in Readers
  BY DEF Requests
<1>1. CASE Pages!ReadStore(w)
  <2>1. Get(w)
    BY <1>1 DEF Pages!ReadStore, Pages!Get, Get
  <2>2. StoreTypeOK'
    BY <1>0, <2>1, GetType
  <2> QED BY <1>0, <2>1, <2>2 DEF Get, StoreTypeOK
<1>2. CASE Pages!Respond(w)
  <2>1. Release(w)
    BY <1>2 DEF Pages!Respond, Pages!Release, Release, Pages!Collected, Collected,
                Pages!Held, Held, Pages!Defaults, Defaults, Pages!Never, Never
  <2>2. StoreTypeOK'
    BY <1>0, <2>1, ReleaseType
  <2>3. refs' = [refs EXCEPT ![w] = None]
    BY <2>1 DEF Release
  <2>4. current' = current /\ heap'[current] = heap[current]
    BY <1>0, <2>1, ReleaseHeld
  <2>5. \A r \in Readers \ {w} : refs'[r] = refs[r]
    BY <2>3 DEF StoreTypeOK
  <2>6. \A r \in Readers : refs'[r] # None => heap'[refs'[r]] = heap[refs'[r]]
    BY <1>0, <2>1, ReleaseHeld
  <2>7. refs'[w] = None
    BY <1>0, <2>3 DEF StoreTypeOK
  <2> QED BY <2>2, <2>4, <2>5, <2>6, <2>7
<1>3. CASE ~Pages!ReadStore(w) /\ ~Pages!Respond(w)
  <2>1. heap' = heap /\ current' = current /\ refs' = refs
    BY <1>3 DEF Pages!WebNext, Pages!Request, Pages!ReadStale, Pages!ReadEpms,
                Pages!ReadActive, Pages!ReadEpmsAgain, Pages!ReadActiveAgain, Pages!Reply
  <2> QED BY <2>1 DEF StoreTypeOK
<1> QED BY <1>1, <1>2, <1>3

\* The threads leave the requests' references to objects alone.
LEMMA ThreadsKeepRefs ==
    ASSUME TypeOK, PathInv, Threads
    PROVE  \A w \in Requests : refs'[w] = refs[w]
<1>1. CASE Poller
  BY <1>1 DEF Poller, PollerNext, PollerStarts, LoopTest, ProbeClient, ProbeSocket, Goto,
              NewClient, Connect, ConnectFailed, ReadInputs, ReadInputsFails, ReadCommand,
              ReadCommandErrs, ReadCommandRaises, Publish, ReadFailed, Disconnect,
              CheckStale, Wake, Update, MarkStale, MarkPollFailed
<1>2. CASE Server \/ BACnetClient
  <2>1. PagesRefs' = PagesRefs
    BY <1>2, ServerAsStatus DEF Server, BACnetClient, TypeOK, PathInv
  <2> QED BY <2>1 DEF PagesRefs
<1>3. CASE Site \/ Clock
  BY <1>3 DEF Site, Clock, AgeData, storeVars
<1> QED BY <1>1, <1>2, <1>3 DEF Threads, InService

LEMMA WebKeepsPath ==
    ASSUME TypeOK, PathInv, Web
    PROVE  TypeOK' /\ PathInv'
<1>1. PICK w \in Requests : Pages!WebNext(w)
  BY DEF Web
<1>2. /\ pPc' = pPc /\ pRunning' = pRunning /\ client' = client /\ sample' = sample
      /\ plant' = plant /\ link' = link /\ bPc' = bPc /\ bRunning' = bRunning
      /\ served' = served /\ socket' = socket /\ mainPc' = mainPc
  BY DEF Web, pollerVars, siteVars
<1>3. /\ StoreTypeOK' /\ current' = current /\ heap'[current] = heap[current]
      /\ \A r \in Readers \ {w} : refs'[r] = refs[r]
      /\ \A r \in Readers \ {w} : refs[r] # None => heap'[refs[r]] = heap[refs[r]]
      /\ refs'[w] \in {refs[w], current, None}
      /\ refs'[w] # None => heap'[refs'[w]] = heap[refs'[w]]
  BY <1>1, WebDisturbsNobody DEF TypeOK
<1>4. TypeOK'
  BY <1>2, <1>3 DEF TypeOK, PollerTypeOK, ServerTypeOK
<1>5. Bacnet \in Readers \ {w}
  BY <1>1, BacnetAssumption DEF Requests
<1>6. RefreshHolds'
  BY <1>2, <1>3, <1>5 DEF PathInv, RefreshHolds
<1>7. DataInOrder'
  <2>1. ASSUME NEW r \in Readers, refs'[r] # None
        PROVE  heap'[refs'[r]].block <= heap'[current'].block
    <3>1. refs'[r] = refs[r] \/ refs'[r] = current
      BY <1>3, <2>1
    <3>2. heap'[refs'[r]] = heap[refs'[r]]
      BY <1>3, <2>1
    <3> QED BY <1>3, <2>1, <3>1, <3>2, Blocks DEF PathInv, DataInOrder
  <2> QED BY <1>2, <1>3, <2>1 DEF PathInv, DataInOrder
<1>8. TableInOrder'
  <2>1. bPc \in {"ai", "bi", "av"} => heap'[refs'[Bacnet]] = heap[refs[Bacnet]]
    BY <1>3, <1>5 DEF PathInv, RefreshHolds
  <2> QED BY <1>2, <1>3, <2>1 DEF PathInv, TableInOrder
<1>9. ClientThere'
  BY <1>2 DEF PathInv, ClientThere
<1> QED BY <1>4, <1>6, <1>7, <1>8, <1>9 DEF PathInv

\* A request holds an object from its get() to its answer, whatever happens.
LEMMA WebKeepsHolding ==
    ASSUME ApplianceTypeOK, RequestsHold, Web
    PROVE  /\ rPc' \in [Requests -> Pages!RequestPcs]
           /\ RequestsHold'
<1>1. PICK w \in Requests : Pages!WebNext(w)
  BY DEF Web
<1>2. w \in Readers /\ refs \in [Readers -> Objects \cup {None}] /\ current \in Objects
  BY DEF Requests, ApplianceTypeOK, TypeOK, StoreTypeOK
<1> USE DEF ApplianceTypeOK, Pages!RequestPcs, RequestsHold, Requests
<1>3. CASE Pages!Request(w)
  BY <1>2, <1>3 DEF Pages!Request
<1>4. CASE Pages!ReadStore(w)
  BY <1>2, <1>4, StoreAssumption DEF Pages!ReadStore, Pages!Get
<1>5. CASE Pages!Respond(w)
  BY <1>2, <1>5 DEF Pages!Respond, Pages!Release
<1>6. CASE \/ Pages!ReadStale(w) \/ Pages!ReadEpms(w) \/ Pages!ReadActive(w)
           \/ Pages!ReadEpmsAgain(w) \/ Pages!ReadActiveAgain(w)
  BY <1>2, <1>6 DEF Pages!ReadStale, Pages!ReadEpms, Pages!ReadActive,
                    Pages!ReadEpmsAgain, Pages!ReadActiveAgain, Pages!Reply
<1> QED BY <1>1, <1>3, <1>4, <1>5, <1>6 DEF Pages!WebNext

LEMMA HistoryNoticed ==
    ASSUME GreenHistory
    PROVE  sawGreen' \in [Requests -> BOOLEAN] /\ GreenNoticed'
BY DEF GreenHistory, GreenNoticed

LEMMA ApplianceInitInv == ApplianceInit => ApplianceTypeOK /\ ApplianceInv
<1> SUFFICES ASSUME ApplianceInit PROVE ApplianceTypeOK /\ ApplianceInv
  OBVIOUS
<1>1. TypeOK /\ PathInv
  BY InitType, InitInv DEF ApplianceInit
<1>2. /\ rPc = [w \in Requests |-> "idle"] /\ refs = [r \in Readers |-> None]
      /\ sawGreen = [w \in Requests |-> FALSE]
  BY DEF ApplianceInit, Init, StoreInit, Pages!WebInit
<1> QED BY <1>1, <1>2 DEF ApplianceTypeOK, ApplianceInv, RequestsHold, GreenNoticed,
                          Pages!RequestPcs, Requests

LEMMA ApplianceStepInv ==
    ASSUME ApplianceTypeOK, ApplianceInv, [ApplianceNext]_applianceVars
    PROVE  ApplianceTypeOK' /\ ApplianceInv'
<1>0. TypeOK /\ PathInv /\ RefreshHolds /\ RequestsHold /\ GreenNoticed
  BY DEF ApplianceTypeOK, ApplianceInv, PathInv
<1>1. CASE ApplianceNext
  <2>1. sawGreen' \in [Requests -> BOOLEAN] /\ GreenNoticed'
    BY <1>1, HistoryNoticed DEF ApplianceNext
  <2>2. CASE Threads
    <3>1. TypeOK' /\ PathInv'
      BY <1>0, <2>2, StepType, StepInv DEF Threads, Next
    <3>2. rPc' = rPc /\ \A w \in Requests : refs'[w] = refs[w]
      BY <1>0, <2>2, ThreadsKeepRefs DEF Threads
    <3>3. RequestsHold'
      BY <1>0, <3>2 DEF RequestsHold
    <3> QED BY <2>1, <3>1, <3>2, <3>3 DEF ApplianceTypeOK, ApplianceInv
  <2>3. CASE Web
    BY <1>0, <2>1, <2>3, WebKeepsPath, WebKeepsHolding DEF ApplianceTypeOK, ApplianceInv
  <2> QED BY <1>1, <2>2, <2>3 DEF ApplianceNext
<1>2. CASE UNCHANGED applianceVars
  <2>1. UNCHANGED vars /\ rPc' = rPc /\ sawGreen' = sawGreen
    BY <1>2 DEF applianceVars
  <2>2. TypeOK' /\ PathInv'
    BY <1>0, <2>1, StepType, StepInv
  <2>3. heap' = heap /\ current' = current /\ refs' = refs
    BY <2>1 DEF vars
  <2>4. RequestsHold'
    BY <1>0, <2>1, <2>3 DEF RequestsHold
  <2>5. Green' <=> Green
    BY <2>3 DEF Green, IsStale, TooOld
  <2>6. GreenNoticed'
    BY <1>0, <2>1, <2>5 DEF GreenNoticed
  <2> QED BY <2>1, <2>2, <2>4, <2>6 DEF ApplianceTypeOK, ApplianceInv
<1> QED BY <1>1, <1>2

-----------------------------------------------------------------------------
(* The refinement.                                                         *)

\* The pages' green is the store's.
LEMMA GreenSeenAlike ==
    ASSUME StoreTypeOK, StoreTypeOK'
    PROVE  (Status!EpmsGreen <=> Green) /\ (Status!EpmsGreen' <=> Green')
<1>1. PagesHeap[current] = heap[current]
  BY PagesSee
<1>2. PagesHeap'[current'] = heap'[current']
  BY PagesSeeNext
<1> QED BY <1>1, <1>2 DEF Status!EpmsGreen, Green, Status!IsStale, IsStale,
                          Status!TooOld, TooOld, Status!Never, Never

LEMMA HistoryAsStatus ==
    ASSUME StoreTypeOK, StoreTypeOK', GreenHistory
    PROVE  Status!History
<1>1. Status!EpmsGreen' <=> Green'
  BY GreenSeenAlike
<1> QED BY <1>1 DEF GreenHistory, Status!History

\* Where neither the current object nor a request moves, nothing is noticed.
LEMMA NothingNoticed ==
    ASSUME ApplianceTypeOK, GreenNoticed, GreenHistory, rPc' = rPc,
           current' = current, heap'[current] = heap[current]
    PROVE  sawGreen' = sawGreen
<1>1. Green' <=> Green
  BY DEF Green, IsStale, TooOld
<1>2. ASSUME NEW w \in Requests
      PROVE  (rPc'[w] \notin {"idle", "get"} /\ (sawGreen[w] \/ Green')) = sawGreen[w]
  BY <1>1 DEF GreenNoticed, ApplianceTypeOK
<1> QED BY <1>2 DEF GreenHistory, ApplianceTypeOK

LEMMA InitAsStatus == ApplianceInit => Status!Init
<1> SUFFICES ASSUME ApplianceInit PROVE Status!Init
  OBVIOUS
<1>1. Init /\ Pages!WebInit /\ sawGreen = [w \in Requests |-> FALSE]
  BY DEF ApplianceInit
<1>2. Status!StoreInit
  <2>1. /\ current \in Objects /\ heap = [o \in Objects |-> Defaults]
        /\ refs = [r \in Readers |-> None]
    BY <1>1 DEF Init, StoreInit
  <2>2. PagesHeap = [o \in Objects |-> Status!Defaults]
    BY <2>1 DEF PagesHeap, Defaults, Status!Defaults, Never, Status!Never
  <2>3. [w \in Requests |-> refs[w]] = [w \in Requests |-> None]
    BY <2>1 DEF Requests
  <2> QED BY <2>1, <2>2, <2>3 DEF Status!StoreInit
<1>3. Status!PollerInit
  BY <1>1 DEF Init, PollerInit, Status!PollerInit, NoSample, Status!NoSample
<1>4. Status!SocketInit
  BY <1>1 DEF Init, ServerInit, ThreadSeen, Status!SocketInit
<1>5. Status!WebInit
  BY <1>1 DEF Pages!WebInit, Status!WebInit, Pages!Blank, Status!Blank
<1> QED BY <1>1, <1>2, <1>3, <1>4, <1>5 DEF Status!Init

LEMMA StatusStep ==
    ASSUME ApplianceTypeOK, ApplianceInv, [ApplianceNext]_applianceVars
    PROVE  [Status!Next]_(Status!vars)
<1>0. /\ TypeOK /\ StoreTypeOK /\ PathInv /\ RefreshHolds /\ RequestsHold /\ GreenNoticed
      /\ StoreTypeOK'
  BY ApplianceStepInv DEF ApplianceTypeOK, TypeOK, ApplianceInv, PathInv
<1>1. CASE UNCHANGED applianceVars
  <2>1. /\ heap' = heap /\ current' = current /\ refs' = refs /\ pPc' = pPc
        /\ pRunning' = pRunning /\ client' = client /\ sample' = sample
        /\ plant' = plant /\ link' = link /\ bPc' = bPc /\ socket' = socket
        /\ rPc' = rPc /\ kind' = kind /\ resp' = resp /\ sawGreen' = sawGreen
    BY <1>1 DEF applianceVars, vars
  <2>2. PagesHeap' = PagesHeap /\ PagesRefs' = PagesRefs /\ ThreadSeen' = ThreadSeen
    BY <2>1, NothingSeen DEF ThreadSeen
  <2> QED BY <2>1, <2>2 DEF Status!vars, PagesRefs
<1>2. CASE ApplianceNext
  <2>0. GreenHistory /\ Status!History
    BY <1>0, <1>2, HistoryAsStatus DEF ApplianceNext
  <2>1. CASE Web
    <3>1. PICK w \in Requests : Pages!WebNext(w)
      BY <2>1 DEF Web
    <3>2. Status!WebNext(w)
      BY <1>0, <3>1, WebAsStatus
    <3>3. UNCHANGED <<pollerVars, siteVars, ThreadSeen, socket>>
      BY <2>1 DEF Web, ThreadSeen
    <3>4. Status!Web
      BY <3>1, <3>2, <3>3 DEF Status!Web, pollerVars, siteVars, Status!pollerVars,
                              Status!siteVars, Status!socketVars
    <3> QED BY <2>0, <3>4 DEF Status!Next
  <2>2. CASE Threads /\ Poller
    <3>1. Status!PollerNext
      BY <1>0, <2>2, PollerAsStatus DEF Poller
    <3>2. Status!Poller
      BY <2>2, <3>1 DEF Threads, Poller, serverVars, ThreadSeen, Status!Poller,
                        Status!socketVars, Status!webVars
    <3> QED BY <2>0, <3>2 DEF Status!Next
  <2>3. CASE Threads /\ (Server \/ BACnetClient)
    <3>1. /\ PagesHeap' = PagesHeap /\ PagesRefs' = PagesRefs /\ current' = current
          /\ heap'[current] = heap[current]
          /\ Status!SocketNext \/ UNCHANGED <<ThreadSeen, socket>>
      BY <1>0, <2>3, ServerAsStatus DEF Server, BACnetClient
    <3>2. UNCHANGED <<pollerVars, siteVars>> /\ UNCHANGED <<rPc, kind, resp>>
      BY <2>3 DEF Threads, Server, BACnetClient
    <3>3. CASE Status!SocketNext
      <4>1. Status!Server
        BY <3>1, <3>2, <3>3 DEF Status!Server, Status!storeVars, Status!pollerVars,
                                Status!siteVars, Status!webVars, pollerVars, siteVars,
                                PagesRefs
      <4> QED BY <2>0, <4>1 DEF Status!Next
    <3>4. CASE UNCHANGED <<ThreadSeen, socket>>
      <4>1. sawGreen' = sawGreen
        BY <1>0, <2>0, <3>1, <3>2, NothingNoticed
      <4> QED BY <3>1, <3>2, <3>4, <4>1 DEF Status!vars, pollerVars, siteVars, PagesRefs
    <3> QED BY <3>1, <3>3, <3>4
  <2>4. CASE Threads /\ Site
    <3>1. heap' = heap /\ current' = current /\ refs' = refs
      BY <2>4 DEF Site, storeVars
    <3>2. PagesHeap' = PagesHeap /\ PagesRefs' = PagesRefs
      BY <3>1, NothingSeen
    <3>3. Status!PlantChanges \/ Status!LinkChanges
      BY <2>4 DEF Site, PlantChanges, LinkChanges, Status!PlantChanges, Status!LinkChanges
    <3>4. Status!Site
      BY <2>4, <3>1, <3>2, <3>3
         DEF Threads, Site, pollerVars, serverVars, ThreadSeen, Status!Site, PagesRefs,
             Status!storeVars, Status!pollerVars, Status!socketVars, Status!webVars
    <3> QED BY <2>0, <3>4 DEF Status!Next
  <2>5. CASE Threads /\ Clock
    <3>1. Status!AgeData
      BY <1>0, <2>5, AgeSeen DEF Clock
    <3>2. Status!Clock
      BY <2>5, <3>1
         DEF Threads, Clock, pollerVars, siteVars, serverVars, ThreadSeen, Status!Clock,
             Status!pollerVars, Status!siteVars, Status!socketVars, Status!webVars
    <3> QED BY <2>0, <3>2 DEF Status!Next
  <2> QED BY <1>2, <2>1, <2>2, <2>3, <2>4, <2>5 DEF ApplianceNext, Threads, InService
<1> QED BY <1>1, <1>2

-----------------------------------------------------------------------------
\* The requests disturb nothing of what was proved of the telemetry path: the
\* objects they hold are the store's like the server's own.
THEOREM ApplianceInvariant == ApplianceSpec => [](ApplianceTypeOK /\ ApplianceInv)
<1>1. ApplianceTypeOK /\ ApplianceInv /\ [ApplianceNext]_applianceVars
        => (ApplianceTypeOK /\ ApplianceInv)'
  BY ApplianceStepInv
<1> QED BY <1>1, ApplianceInitInv, PTL DEF ApplianceSpec

\* The threads and the requests of web_ui.py together implement StatusPath.
THEOREM StatusRefinement == ApplianceSpec => StatusRefined
<1>1. ApplianceTypeOK /\ ApplianceInv /\ [ApplianceNext]_applianceVars
        => [Status!Next]_(Status!vars)
  BY StatusStep
<1> QED BY <1>1, InitAsStatus, ApplianceInvariant, PTL
        DEF ApplianceSpec, StatusRefined, Status!Spec

\* What the theorems of StatusPath assume of its constants holds here.
LEMMA StatusAssumptions ==
    Status!StoreAssumption /\ Status!PollerAssumption /\ Status!RequestsAssumption
BY StoreAssumption, PollerAssumption
   DEF Status!StoreAssumption, Status!PollerAssumption, Status!RequestsAssumption

\* confirm_status and the live page (web_ui.py:212-221, 431-464) answer the
\* truth about the store also while _update_points reads the same objects.
THEOREM AnswersTrue == ApplianceSpec => []AnswersAreTrue
<1>1. Status!Spec => [](Status!AllOkWasGreen)
  BY StatusAssumptions, Status!AllOkGreen, PTL
<1>2. Status!Spec => [](Status!StaleWarningIsTrue)
  BY StatusAssumptions, Status!StaleWarningTrue, PTL
<1>3. ApplianceTypeOK /\ ApplianceInv /\ Status!AllOkWasGreen /\ Status!StaleWarningIsTrue
        => AnswersAreTrue
  <2> SUFFICES ASSUME ApplianceTypeOK, ApplianceInv, Status!AllOkWasGreen,
                      Status!StaleWarningIsTrue, NEW w \in Requests, rPc[w] = "done"
               PROVE  /\ resp[w].all_ok => sawGreen[w]
                      /\ resp[w].stale => TooOld(refs[w], StaleTimeout)
    BY DEF AnswersAreTrue
  <2>1. resp[w].all_ok => sawGreen[w]
    BY DEF Status!AllOkWasGreen
  <2>2. PagesHeap[refs[w]] = heap[refs[w]]
    BY PagesSee DEF ApplianceTypeOK, TypeOK, ApplianceInv, RequestsHold
  <2>3. resp[w].stale => TooOld(refs[w], StaleTimeout)
    BY <2>2 DEF Status!StaleWarningIsTrue, Status!TooOld, TooOld, Status!Never, Never
  <2> QED BY <2>1, <2>3
<1> QED BY <1>1, <1>2, <1>3, ApplianceInvariant, StatusRefinement, PTL DEF StatusRefined

\* And what was shown of the BACnet table survives the requests: an object
\* they hold is never the place of the next poll.
THEOREM TableNextToPages == ApplianceSpec => []TableIsOnePoll /\ ServedNeverGoesBack
<1>1. ApplianceInv => TableIsOnePoll
  BY DEF ApplianceInv, PathInv, TableInOrder, TableIsOnePoll
<1>2. ApplianceTypeOK /\ ApplianceInv /\ [ApplianceNext]_applianceVars
        => [served'.ai >= served.ai /\ served'.bi >= served.bi]_vars
  <2> SUFFICES ASSUME ApplianceTypeOK, ApplianceInv, [ApplianceNext]_applianceVars
               PROVE  [served'.ai >= served.ai /\ served'.bi >= served.bi]_vars
    OBVIOUS
  <2>1. TypeOK /\ PathInv
    BY DEF ApplianceTypeOK, ApplianceInv
  <2>2. CASE Threads
    BY <2>1, <2>2, ServedNoOlder DEF Threads, Next
  <2>3. CASE Web
    BY <2>1, <2>3, Blocks DEF Web
  <2>4. CASE UNCHANGED applianceVars
    BY <2>4 DEF applianceVars
  <2> QED BY <2>2, <2>3, <2>4 DEF ApplianceNext
<1> QED BY <1>1, <1>2, ApplianceInvariant, PTL DEF ApplianceSpec, ServedNeverGoesBack
=============================================================================
