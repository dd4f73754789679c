--------------------------- MODULE MSTPRouter_proofs ---------------------------
(***************************************************************************)
(* Proofs about MSTPRouter, for any number of children and signals.        *)
(***************************************************************************)
EXTENDS MSTPRouter, FiniteSetTheorems, TLAPS

(* The invariant behind the properties, in named parts.                    *)

\* Children are started one after the other.
StartedInOrder ==
    \A c, d \in Children : d < c /\ child[c] # "unborn" => child[d] # "unborn"

StoredWasStarted == \A c \in Children : c = proc => child[c] # "unborn"

\* Every restart has used up a child, and the one in hand is not counted yet.
InHandPcs == {"settle", "settled", "monitor", "poll", "drain"}
RestartsBehind ==
    /\ restarts # 0 => child[restarts] # "unborn"
    /\ mPc \in InHandPcs \cup {"spawned"} =>
          restarts < MaxSpawns /\ child[restarts + 1] # "unborn"

\* The main thread is where a signal sent it.
SignalFirst == (sPc = "up") <=> (signals = 0)

\* In service the thread runs, the child in hand is there, and nothing ends the thread.
InService ==
    signals = 0 => /\ mPc # "init" => mRunning
                   /\ mPc \in InHandPcs => proc # 0
                   /\ mPc # "ended"
                   /\ mPc = "crashed" => garbled

CountInv == StartedInOrder /\ StoredWasStarted /\ RestartsBehind /\ SignalFirst /\ InService

\* A child AtMostOneRouter counts.
Counted(c) == c \in Children /\ ~(lost /\ c \in late)

NoneStarted == \A c \in Children : child[c] = "unborn"

\* run() is about to start a child, or on its way to.
Starting ==
    mPc \in {"init", "spawn"} \/ (mRunning /\ mPc \in {"loop", "retry", "after"})

\* The thread starts with no child, drains a dead one, and replaces none that is up.
MonitorInv ==
    /\ mPc = "init" => NoneStarted
    /\ mPc = "drain" \/ mPc = "spawned" \/ Starting => ~Alive(proc)

\* No counted child is up when the next one is started.
NoneBefore == Starting => \A c \in Children : Counted(c) => ~Alive(c)

\* A counted child that is up is the last one that was started.
AliveIsNewest == \A c \in Children : Counted(c) /\ Alive(c) => Newest(c)

\* While the thread runs on, a counted child that is up is the one in hand.
OnlyInHand ==
    ProcessUp /\ mRunning /\ mPc \in InHandPcs =>
        \A c \in Children : Counted(c) /\ Alive(c) => c = proc

\* A child that could be killed and was not stored behind stop()'s back is in hand,
\* or not stored yet.
KillableInHand ==
    \A c \in Children : c \notin late /\ child[c] = "alive" =>
        c = proc \/ (mPc = "spawned" /\ Newest(c))

HandInv == MonitorInv /\ NoneBefore /\ AliveIsNewest /\ OnlyInHand /\ KillableInHand

\* Unless it came too early, stop() has cleared _running for good.
NotLost == ~lost /\ mRunning => sPc \in {"up", "flag"}

\* From its test on, stop() has looked, and what it has found was started.
Looked ==
    /\ sPc \in {"terminate", "await", "wait", "kill", "waitKill", "clear", "raise", "unlock",
                 "rest", "exited"} => seen # {}
    /\ \A c \in Children : c \in seen => child[c] # "unborn"

\* stop() has seen to the child that is in hand, unless it was stored in the meantime.
SeenTo ==
    \A c \in Children : c = proc /\ c \notin late =>
        /\ sPc = "wait" => c = waited
        /\ sPc = "clear" => ~Alive(c)
        /\ sPc \in {"waitKill", "raise", "unlock", "rest", "exited"} => child[c] # "alive"

\* What stop() found is dead, wedged, or still in its hands.
SeenDead ==
    \A c \in Children : c \in seen /\ child[c] = "alive" =>
        \/ sPc = "stuck"
        \/ /\ sPc \in {"terminate", "await", "wait", "kill"}
           /\ c = proc
           /\ sPc = "wait" => c = waited

StopInv == NotLost /\ Looked /\ SeenTo /\ SeenDead

OneRouterInv == HandInv /\ StopInv

-----------------------------------------------------------------------------
(* Type correctness, and the counting behind it.                           *)

LEMMA ChildrenAreNats ==
    /\ MaxSpawns \in Nat /\ MaxSpawns >= 1 /\ MaxSignals \in Nat
    /\ Children \subseteq Nat /\ 0 \notin Children
    /\ \A n \in 0..MaxSpawns : n # 0 => n \in Children
BY RouterAssumption DEF Children

LEMMA InitType == Init => TypeOK /\ CountInv
<1> SUFFICES ASSUME Init PROVE TypeOK /\ CountInv
  OBVIOUS
<1>1. 0 \in 0..MaxSpawns /\ 0 \in 0..MaxSignals
  BY ChildrenAreNats
<1>2. TypeOK
  BY <1>1 DEF Init, TypeOK, MonitorPcs, StopPcs, StatusPcs, Backoffs
<1>3. StartedInOrder /\ StoredWasStarted
  BY ChildrenAreNats DEF Init, StartedInOrder, StoredWasStarted
<1>4. RestartsBehind /\ SignalFirst /\ InService
  BY DEF Init, RestartsBehind, SignalFirst, InService, InHandPcs
<1> QED BY <1>2, <1>3, <1>4 DEF CountInv

\* A step of the monitoring thread.
LEMMA MonitorType ==
    ASSUME TypeOK, RestartsBehind, Monitor
    PROVE  TypeOK'
<1> USE DEF TypeOK, stopVars, statusVars, processVars
<1>1. /\ sPc' \in StopPcs /\ signals' \in 0..MaxSignals
      /\ qPc' \in StatusPcs /\ answer' \in {"none", "running", "stopped", "error"}
      /\ lock' \in {"free", "stop", "status"}
      /\ waited' \in 0..MaxSpawns /\ seen' \subseteq 0..MaxSpawns
  BY DEF Monitor
<1> HIDE DEF TypeOK
<1>2. CASE MonitorRuns
  BY <1>1, <1>2 DEF MonitorRuns, TypeOK, MonitorPcs
<1>3. CASE MonitorLoop \/ SpawnFails \/ MonitorTest \/ MonitorPoll \/ AfterExit
  BY <1>1, <1>3 DEF MonitorLoop, SpawnFails, MonitorTest, MonitorPoll, AfterExit, MGoto, TypeOK,
                    MonitorPcs
<1>4. CASE Spawn
  BY <1>1, <1>4 DEF Spawn, TypeOK, MonitorPcs
<1>5. CASE SpawnStored
  <2>1. proc' \in Children /\ late' \subseteq Children /\ garbled' = garbled /\ lost' = lost
    BY <1>5 DEF SpawnStored, TypeOK
  <2>2. proc' \in 0..MaxSpawns
    BY <2>1 DEF Children
  <2> QED BY <1>1, <1>5, <2>1, <2>2 DEF SpawnStored, TypeOK, MonitorPcs
<1>6. CASE Settle
  <2>1. proc' \in 0..MaxSpawns
    BY <1>6, ChildrenAreNats DEF Settle, TypeOK
  <2> QED BY <1>1, <1>6, <2>1 DEF Settle, TypeOK, MonitorPcs
<1>7. CASE Settled
  <2>1. backoff' \in Backoffs
    BY <1>7 DEF Settled, TypeOK, Backoffs
  <2> QED BY <1>1, <1>7, <2>1 DEF Settled, TypeOK, MonitorPcs
<1>8. CASE Retry
  <2>1. backoff \in {5, 10, 20, 40, 80, 120}
    BY DEF TypeOK, Backoffs
  <2>2. (IF backoff * 2 > 120 THEN 120 ELSE backoff * 2) \in {5, 10, 20, 40, 80, 120}
    BY <2>1
  <2>3. backoff' \in Backoffs
    BY <1>8, <2>2, Zenon DEF Retry, Backoffs
  <2> QED BY <1>1, <1>8, <2>3 DEF Retry, TypeOK, MonitorPcs
<1>9. CASE Drain
  <2>0. garbled' \in BOOLEAN /\ mPc' \in {"crashed", "after"}
    BY <1>9 DEF Drain, TypeOK
  <2>1. proc' \in 0..MaxSpawns
    BY <1>9, ChildrenAreNats DEF Drain, TypeOK
  <2>2. restarts < MaxSpawns
    BY <1>9 DEF Drain, RestartsBehind, InHandPcs
  <2>3. restarts + 1 \in 0..MaxSpawns
    BY <2>2, ChildrenAreNats DEF TypeOK
  <2>4. restarts' \in 0..MaxSpawns
    BY <1>9, <2>3, Zenon DEF Drain, TypeOK
  <2>5. mPc' \in MonitorPcs
    BY <2>0 DEF MonitorPcs
  <2> QED BY <1>1, <1>9, <2>0, <2>1, <2>4, <2>5 DEF Drain, TypeOK
<1> QED BY <1>2, <1>3, <1>4, <1>5, <1>6, <1>7, <1>8, <1>9 DEF Monitor

LEMMA StepType ==
    ASSUME TypeOK, RestartsBehind, [Next]_vars
    PROVE  TypeOK'
<1> USE DEF monitorVars, processVars, stopVars, statusVars
<1>1. CASE ChildExits
  BY <1>1 DEF ChildExits, TypeOK
<1>2. CASE Signal
  <2>1. signals + 1 \in 0..MaxSignals
    BY <1>2, ChildrenAreNats DEF Signal, TypeOK
  <2>2. signals' \in 0..MaxSignals
    BY <1>2, <2>1, Zenon DEF Signal
  <2> QED BY <1>2, <2>2 DEF Signal, TypeOK, StopPcs
<1>3. CASE SignalAgain
  <2>1. signals + 1 \in 0..MaxSignals
    BY <1>3, ChildrenAreNats DEF SignalAgain, TypeOK
  <2>2. signals' \in 0..MaxSignals
    BY <1>3, <2>1, Zenon DEF SignalAgain
  <2>3. mRunning' \in BOOLEAN /\ sPc' \in StopPcs
    BY <1>3 DEF SignalAgain, TypeOK, StopPcs
  <2> QED BY <1>3, <2>2, <2>3 DEF SignalAgain, TypeOK
<1>4. CASE Stop
  <2>1. CASE StopFlag \/ StopLock \/ StopUnlock
    BY <2>1 DEF StopFlag, StopLock, StopUnlock, TypeOK, StopPcs
  <2>5. CASE StopTest
    <3>1. seen' \subseteq 0..MaxSpawns
      BY <2>5, Zenon DEF StopTest, TypeOK
    <3> QED BY <2>5, <3>1 DEF StopTest, TypeOK, StopPcs
  <2>6. CASE Await
    BY <2>6 DEF Await, TypeOK, StopPcs
  <2>2. CASE Terminate \/ WaitEnds \/ WaitTimesOut \/ WaitKilled \/ Exit
    BY <2>2 DEF Terminate, WaitEnds, WaitTimesOut, WaitKilled, Exit, SGoto, TypeOK, StopPcs
  <2>3. CASE Kill
    <3>1. child' \in [Children -> {"unborn", "alive", "wedged", "dead"}]
      BY <2>3 DEF Kill, TypeOK
    <3> QED BY <2>3, <3>1 DEF Kill, TypeOK, StopPcs
  <2>4. CASE StopClear
    <3>1. proc' \in 0..MaxSpawns
      BY <2>4, ChildrenAreNats DEF StopClear
    <3> QED BY <2>4, <3>1 DEF StopClear, TypeOK, StopPcs
  <2> QED BY <1>4, <2>1, <2>2, <2>3, <2>4, <2>5, <2>6 DEF Stop
<1>5. CASE AskStatus \/ Status
  BY <1>5 DEF AskStatus, Status, StatusLock, StatusTest, StatusPoll, StatusReturns, QGoto, TypeOK,
              StatusPcs
<1>6. CASE UNCHANGED vars
  BY <1>6 DEF vars, TypeOK
<1> QED BY <1>1, <1>2, <1>3, <1>4, <1>5, <1>6, MonitorType DEF Next

\* Of the children that were started, none comes back to life.
OnlyDie ==
    \A c \in Children : /\ child'[c] = "unborn" <=> child[c] = "unborn"
                        /\ child'[c] = "alive" => child[c] = "alive"
                        /\ Alive(c)' => Alive(c)

LEMMA SpawnOrDie ==
    ASSUME TypeOK, [Next]_vars
    PROVE  (Monitor /\ Spawn) \/ OnlyDie
<1> USE DEF monitorVars, processVars, stopVars, statusVars
<1>1. CASE UNCHANGED child
  BY <1>1 DEF OnlyDie, Alive
<1>2. CASE ChildExits
  BY <1>2 DEF ChildExits, OnlyDie, Alive, TypeOK
<1>3. CASE Kill
  BY <1>3 DEF Kill, OnlyDie, Alive, TypeOK
<1>4. CASE Monitor
  BY <1>1, <1>4 DEF Monitor, MonitorRuns, MonitorLoop, SpawnStored, SpawnFails, Settle, Settled, Retry,
                    MonitorTest, MonitorPoll, Drain, AfterExit, MGoto
<1>5. CASE Stop
  BY <1>1, <1>3, <1>5 DEF Stop, StopFlag, StopLock, StopTest, Terminate, Await, WaitEnds, WaitTimesOut,
                          WaitKilled, StopClear, StopUnlock, Exit, SGoto
<1>6. CASE Signal \/ SignalAgain \/ AskStatus \/ Status
  BY <1>1, <1>6 DEF Signal, SignalAgain, AskStatus, Status, StatusLock, StatusTest, StatusPoll,
                    StatusReturns, QGoto
<1> QED BY <1>1, <1>2, <1>4, <1>5, <1>6 DEF Next, vars

\* The child that is started is the first that was not.
LEMMA SpawnStep ==
    ASSUME TypeOK, Spawn
    PROVE  \E c \in Children :
              /\ child[c] = "unborn" /\ child'[c] = "alive"
              /\ \A d \in Children : d < c => child[d] # "unborn"
              /\ \A d \in Children : d # c => child'[d] = child[d]
BY DEF Spawn, TypeOK

LEMMA StartedInOrderStep ==
    ASSUME TypeOK, StartedInOrder, [Next]_vars
    PROVE  StartedInOrder'
<1>1. CASE OnlyDie
  BY <1>1 DEF OnlyDie, StartedInOrder
<1>2. CASE Spawn
  <2>1. PICK c \in Children :
           /\ child[c] = "unborn" /\ child'[c] = "alive"
           /\ \A d \in Children : d < c => child[d] # "unborn"
           /\ \A d \in Children : d # c => child'[d] = child[d]
    BY <1>2, SpawnStep
  <2>2. SUFFICES ASSUME NEW a \in Children, NEW d \in Children, d < a, child'[a] # "unborn"
                 PROVE  child'[d] # "unborn"
    BY DEF StartedInOrder
  <2>3. a \in Nat /\ c \in Nat /\ d \in Nat
    BY ChildrenAreNats
  <2>4. CASE a = c
    BY <2>1, <2>2, <2>3, <2>4
  <2>5. CASE a # c
    BY <2>1, <2>2, <2>5 DEF StartedInOrder
  <2> QED BY <2>4, <2>5
<1> QED BY <1>1, <1>2, SpawnOrDie

LEMMA StoredWasStartedStep ==
    ASSUME TypeOK, StoredWasStarted, [Next]_vars
    PROVE  StoredWasStarted'
<1> USE DEF monitorVars, processVars, stopVars, statusVars
<1>1. \A c \in Children : child[c] # "unborn" => child'[c] # "unborn"
  <2>1. CASE Spawn
    BY <2>1, SpawnStep
  <2> QED BY <2>1, SpawnOrDie DEF OnlyDie
<1>2. proc' \in {0, proc} \/ (proc' \in Children /\ child[proc'] # "unborn")
  <2>1. CASE Monitor
    BY <2>1 DEF Monitor, MonitorRuns, MonitorLoop, Spawn, SpawnStored, SpawnFails, Settle, Settled,
                Retry, MonitorTest, MonitorPoll, Drain, AfterExit, MGoto, Newest
  <2>2. CASE Stop
    BY <2>2 DEF Stop, StopFlag, StopLock, StopTest, Terminate, Await, WaitEnds, WaitTimesOut, Kill,
                WaitKilled, StopClear, StopUnlock, Exit, SGoto
  <2>3. CASE ChildExits \/ Signal \/ SignalAgain \/ AskStatus \/ Status \/ UNCHANGED vars
    BY <2>3 DEF ChildExits, Signal, SignalAgain, AskStatus, Status, StatusLock, StatusTest,
                StatusPoll, StatusReturns, QGoto, vars
  <2> QED BY <2>1, <2>2, <2>3 DEF Next
<1> QED BY <1>1, <1>2, ChildrenAreNats DEF StoredWasStarted

\* Other steps than the start and the end of a child leave the count alone.
LEMMA RestartsBehindStep ==
    ASSUME TypeOK, StartedInOrder, RestartsBehind, [Next]_vars
    PROVE  RestartsBehind'
<1> USE DEF monitorVars, processVars, stopVars, statusVars
<1> DEFINE InHand == mPc \in InHandPcs \cup {"spawned"}
<1>0. /\ restarts \in Nat /\ restarts + 1 \in Nat
      /\ restarts # 0 => restarts \in Children
      /\ restarts < MaxSpawns => restarts + 1 \in Children
  BY RouterAssumption DEF TypeOK, Children
<1>1. CASE Spawn
  <2>1. PICK c \in Children :
           /\ child[c] = "unborn" /\ child'[c] = "alive"
           /\ \A d \in Children : d < c => child[d] # "unborn"
           /\ \A d \in Children : d # c => child'[d] = child[d]
    BY <1>1, SpawnStep
  <2>2. restarts' = restarts
    BY <1>1 DEF Spawn
  <2>3. c \in Nat /\ 1 <= c /\ c <= MaxSpawns
    BY RouterAssumption DEF Children
  <2>4. restarts < c
    <3>1. CASE restarts = 0
      BY <2>3, <3>1
    <3>2. CASE restarts # 0
      BY <1>0, <2>1, <2>3, <3>2 DEF RestartsBehind, StartedInOrder
    <3> QED BY <3>1, <3>2
  <2>5. restarts < MaxSpawns /\ restarts + 1 <= c
    BY <1>0, <2>3, <2>4, RouterAssumption
  <2>6. child'[restarts + 1] # "unborn"
    <3>1. CASE restarts + 1 = c
      BY <2>1, <3>1
    <3>2. CASE restarts + 1 # c
      BY <1>0, <2>1, <2>3, <2>5, <3>2
    <3> QED BY <3>1, <3>2
  <2>7. restarts # 0 => child'[restarts] # "unborn"
    BY <1>0, <2>1 DEF RestartsBehind
  <2> QED BY <2>2, <2>5, <2>6, <2>7 DEF RestartsBehind
<1>2. ASSUME OnlyDie, restarts' = restarts, InHand' => InHand
      PROVE  RestartsBehind'
  <2>1. restarts # 0 => child'[restarts] # "unborn"
    BY <1>0, <1>2 DEF RestartsBehind, OnlyDie
  <2>2. InHand => restarts < MaxSpawns /\ child'[restarts + 1] # "unborn"
    BY <1>0, <1>2 DEF RestartsBehind, OnlyDie
  <2> QED BY <1>2, <2>1, <2>2 DEF RestartsBehind
<1>3. CASE OnlyDie /\ Monitor /\ Drain
  <2>1. restarts < MaxSpawns /\ child[restarts + 1] # "unborn"
    BY <1>3 DEF Drain, RestartsBehind, InHandPcs
  <2>2. child'[restarts + 1] # "unborn" /\ mPc' \notin InHandPcs \cup {"spawned"}
    BY <1>0, <1>3, <2>1 DEF Drain, OnlyDie, InHandPcs
  <2>3. restarts # 0 => child'[restarts] # "unborn"
    BY <1>0, <1>3 DEF RestartsBehind, OnlyDie
  <2>4. restarts' = restarts \/ restarts' = restarts + 1
    BY <1>3 DEF Drain
  <2>5. restarts' # 0 => child'[restarts'] # "unborn"
    BY <2>2, <2>3, <2>4, Zenon
  <2> QED BY <2>2, <2>5 DEF RestartsBehind
<1>4. CASE OnlyDie /\ Monitor /\ ~Spawn /\ ~Drain
  <2>1. restarts' = restarts /\ (InHand' => InHand)
    BY <1>4 DEF Monitor, MonitorRuns, MonitorLoop, SpawnStored, SpawnFails, Settle, Settled,
                Retry, MonitorTest, MonitorPoll, AfterExit, MGoto, InHandPcs
  <2> QED BY <1>2, <1>4, <2>1
<1>5. CASE OnlyDie /\ ~Monitor
  <2>1. restarts' = restarts /\ mPc' = mPc
    BY <1>5 DEF Next, ChildExits, Signal, SignalAgain, Stop, StopFlag, StopLock, StopTest, Terminate,
                Await, WaitEnds, WaitTimesOut, Kill, WaitKilled, StopClear, StopUnlock, Exit, SGoto,
                AskStatus, Status, StatusLock, StatusTest, StatusPoll, StatusReturns, QGoto, vars
  <2> QED BY <1>2, <1>5, <2>1
<1> QED BY <1>1, <1>3, <1>4, <1>5, SpawnOrDie

LEMMA InServiceStep ==
    ASSUME TypeOK, SignalFirst, InService, [Next]_vars
    PROVE  SignalFirst' /\ InService'
<1> USE DEF monitorVars, processVars, stopVars, statusVars
<1>1. CASE Monitor
  <2>1. SignalFirst' /\ signals' = signals
    BY <1>1 DEF Monitor, SignalFirst
  <2>2. CASE signals = 0
    BY <1>1, <2>1, <2>2, ChildrenAreNats
       DEF Monitor, MonitorRuns, MonitorLoop, Spawn, SpawnStored, SpawnFails, Settle, Settled,
           Retry, MonitorTest, MonitorPoll, Drain, AfterExit, MGoto, InHandPcs, InService, Alive
  <2> QED BY <2>1, <2>2 DEF InService
<1>2. CASE Signal \/ SignalAgain
  <2>1. signals' # 0 /\ sPc' # "up"
    BY <1>2 DEF Signal, SignalAgain, TypeOK
  <2> QED BY <2>1 DEF SignalFirst, InService
<1>3. CASE Stop
  <2>1. sPc # "up" /\ sPc' # "up" /\ signals' = signals
    BY <1>3 DEF Stop, StopFlag, StopLock, StopTest, Terminate, Await, WaitEnds, WaitTimesOut, Kill,
                WaitKilled, StopClear, StopUnlock, Exit, SGoto
  <2> QED BY <2>1 DEF SignalFirst, InService
<1>4. CASE ChildExits \/ AskStatus \/ Status \/ UNCHANGED vars
  BY <1>4 DEF ChildExits, AskStatus, Status, StatusLock, StatusTest, StatusPoll, StatusReturns,
              QGoto, vars, SignalFirst, InService
<1> QED BY <1>1, <1>2, <1>3, <1>4 DEF Next

LEMMA CountStep ==
    ASSUME TypeOK, CountInv, [Next]_vars
    PROVE  TypeOK' /\ CountInv'
BY StepType, StartedInOrderStep, StoredWasStartedStep, RestartsBehindStep, InServiceStep DEF CountInv

\* The children are started in order and counted, and nothing else is kept anywhere.
THEOREM TypeCorrect == Spec => [](TypeOK /\ CountInv)
BY InitType, CountStep, PTL DEF Spec

\* While no signal arrives the monitoring never ends: the thread is always at a step
\* that leads to the next start, the next test of the child, or to a sleep
\* (mstp_router.py:41-42), unless output that is not text has ended it (line 199).  RouterIsRestarted rests on it.
NeverGivesUp == signals = 0 => mPc # "ended" /\ (mPc = "crashed" => garbled)

\* The monitoring never ends in service.
THEOREM MonitoringGoesOn == Spec => []NeverGivesUp
<1>1. CountInv => NeverGivesUp
  BY DEF CountInv, InService, NeverGivesUp
<1> QED BY <1>1, TypeCorrect, PTL

\* The monitoring thread dies only once the appliance is being stopped, or of output
\* that is not text.
THEOREM MonitorSurvivesService == Spec => []MonitorDiesOnlyOnStop
<1>1. TypeOK /\ CountInv => MonitorDiesOnlyOnStop
  BY DEF TypeOK, CountInv, InService, MonitorDiesOnlyOnStop
<1> QED BY <1>1, TypeCorrect, PTL

-----------------------------------------------------------------------------
(* The lock.                                                               *)

\* Where stop() and status() hold the lock.
StopHolds   == {"test", "terminate", "await", "wait", "kill", "waitKill", "clear", "raise", "unlock"}
StatusHolds == {"test", "poll", "answered"}

LockInv ==
    /\ lock = "status" <=> qPc \in StatusHolds
    /\ sPc \in StopHolds => lock = "stop"
    /\ lock = "stop" => sPc \in StopHolds \cup {"stuck"}
    /\ sPc = "stuck" => signals > 1

\* Whoever holds the lock is at a step that waits for no lock, and gives it back, unless
\* a second signal arrived inside stop(): past a killed child and past an
\* exception too (mstp_router.py:69, 216-230).  StopEnds rests on it.
HolderGoesOn ==
    /\ lock = "status" => qPc \in StatusHolds
    /\ lock = "stop" /\ signals <= 1 => sPc \in StopHolds

LEMMA LockStep ==
    ASSUME TypeOK, SignalFirst, LockInv, [Next]_vars
    PROVE  LockInv'
<1> USE DEF LockInv, StopHolds, StatusHolds, monitorVars, processVars, stopVars, statusVars
<1>1. CASE Monitor \/ ChildExits \/ UNCHANGED vars
  BY <1>1 DEF Monitor, ChildExits, vars
<1>2. CASE Signal
  <2>1. sPc' = "flag" /\ sPc = "up" /\ UNCHANGED <<lock, qPc>>
    BY <1>2 DEF Signal
  <2> QED BY <2>1
<1>3. CASE SignalAgain
  <2>1. signals \in Nat /\ signals # 0
    BY <1>3, ChildrenAreNats DEF SignalAgain, SignalFirst, TypeOK
  <2>2. signals + 1 > 1
    BY <2>1
  <2>3. signals' > 1
    BY <1>3, <2>2, Zenon DEF SignalAgain
  <2>4. sPc' \in {"flag", "stuck"} /\ (sPc' = "stuck" <=> lock = "stop") /\ UNCHANGED <<lock, qPc>>
    BY <1>3 DEF SignalAgain
  <2> QED BY <2>3, <2>4
<1>4. CASE Stop
  BY <1>4 DEF Stop, StopFlag, StopLock, StopTest, Terminate, Await, WaitEnds, WaitTimesOut, Kill,
              WaitKilled, StopClear, StopUnlock, Exit, SGoto
<1>5. CASE AskStatus \/ Status
  BY <1>5 DEF AskStatus, Status, StatusLock, StatusTest, StatusPoll, StatusReturns, QGoto
<1> QED BY <1>1, <1>2, <1>3, <1>4, <1>5 DEF Next

\* The lock is given back.
THEOREM LockIsGivenBack == Spec => []HolderGoesOn
<1>1. Init => LockInv
  BY DEF Init, LockInv, StopHolds, StatusHolds
<1>2. TypeOK /\ CountInv /\ LockInv /\ [Next]_vars => LockInv'
  BY LockStep DEF CountInv
<1>3. TypeOK /\ LockInv => HolderGoesOn
  BY ChildrenAreNats DEF TypeOK, LockInv, HolderGoesOn
<1> QED BY <1>1, <1>2, <1>3, TypeCorrect, PTL DEF Spec
-----------------------------------------------------------------------------
(* One router at a time.                                                   *)

LEMMA OneNewest ==
    ASSUME NEW c \in Children, NEW d \in Children, Newest(c), Newest(d)
    PROVE  c = d
BY ChildrenAreNats DEF Newest

LEMMA DeadIsNotAlive == ASSUME NEW c \in Children, child[c] = "alive" PROVE Alive(c)
BY DEF Alive

\* A step that leaves the flags alone, brings no child to life, and forgets only a
\* dead child or, past the wait for it, one stop() has seen to.
LEMMA OthersKeepHand ==
    ASSUME OneRouterInv, OnlyDie, UNCHANGED <<mPc, late, lost>>, mRunning' => mRunning,
           ~ProcessUp => ~ProcessUp',
           \/ proc' = proc
           \/ proc' = 0 /\ sPc = "clear"
           \/ proc' = 0 /\ sPc = "raise" /\ ~ProcessUp'
    PROVE  HandInv'
<1>0. \A c \in Children : /\ Newest(c)' <=> Newest(c)
                          /\ Counted(c)' <=> Counted(c)
                          /\ Alive(c)' => Alive(c)
  BY DEF OnlyDie, Newest, Counted
<1>1. ~Alive(proc) => ~Alive(proc)'
  <2>1. CASE proc' = proc
    BY <2>1 DEF Alive, OnlyDie
  <2>2. CASE proc' = 0
    BY <2>2, ChildrenAreNats DEF Alive
  <2> QED BY <2>1, <2>2
<1>2. MonitorInv'
  BY <1>1 DEF OneRouterInv, HandInv, MonitorInv, NoneStarted, Starting, OnlyDie
<1>3. NoneBefore' /\ AliveIsNewest'
  BY <1>0 DEF OneRouterInv, HandInv, NoneBefore, Starting, AliveIsNewest
<1>4. OnlyInHand'
  <2>1. CASE proc' = proc
    BY <1>0, <2>1 DEF OneRouterInv, HandInv, OnlyInHand
  <2>2. CASE proc' # proc /\ sPc = "clear"
    <3>1. mRunning => lost
      BY <2>2 DEF OneRouterInv, StopInv, NotLost
    <3>2. \A c \in Children : c = proc /\ c \notin late => ~Alive(c)
      BY <2>2 DEF OneRouterInv, StopInv, SeenTo
    <3>3. mRunning /\ mPc \in InHandPcs => \A c \in Children : Counted(c) => ~Alive(c)
      BY <2>2, <3>1, <3>2 DEF OneRouterInv, HandInv, OnlyInHand, Counted, ProcessUp
    <3> QED BY <1>0, <3>3 DEF OnlyInHand
  <2>3. CASE ~ProcessUp'
    BY <2>3 DEF OnlyInHand
  <2> QED BY <2>1, <2>2, <2>3
<1>5. KillableInHand'
  <2>1. CASE proc' = proc
    BY <1>0, <2>1 DEF OneRouterInv, HandInv, KillableInHand, OnlyDie
  <2>2. CASE proc' # proc
    <3>1. \A c \in Children : c = proc /\ c \notin late => child[c] # "alive"
      BY <2>2 DEF OneRouterInv, StopInv, SeenTo, Alive
    <3> QED BY <1>0, <3>1 DEF OneRouterInv, HandInv, KillableInHand, OnlyDie
  <2> QED BY <2>1, <2>2
<1> QED BY <1>2, <1>3, <1>4, <1>5 DEF HandInv

\* A step of the monitoring thread that starts and stores no child, and forgets a
\* dead one at most.
LEMMA MonitorKeepsHand ==
    ASSUME HandInv, UNCHANGED <<child, late, lost, mRunning, sPc>>, ProcessUp,
           proc' = proc \/ (proc' = 0 /\ ~Alive(proc)),
           mPc # "spawned", mPc' \notin {"init", "spawned"},
           mPc' = "drain" => ~Alive(proc),
           mPc' \in InHandPcs => mPc \in InHandPcs,
           Starting' => Starting \/ (mRunning /\ mPc \in InHandPcs /\ ~Alive(proc))
    PROVE  HandInv'
<1>1. \A c \in Children : /\ Counted(c)' <=> Counted(c)
                          /\ Alive(c)' <=> Alive(c)
                          /\ Newest(c)' <=> Newest(c)
  BY DEF Counted, Alive, Newest
<1>2. ~Alive(proc) => ~Alive(proc)'
  BY ChildrenAreNats DEF Alive
<1>3. MonitorInv'
  <2>1. Starting' => ~Alive(proc)
    BY DEF HandInv, MonitorInv
  <2> QED BY <1>2, <2>1 DEF MonitorInv
<1>4. NoneBefore'
  BY <1>1 DEF HandInv, NoneBefore, OnlyInHand
<1>5. AliveIsNewest'
  BY <1>1 DEF HandInv, AliveIsNewest
<1>6. OnlyInHand'
  BY <1>1 DEF HandInv, OnlyInHand
<1>7. KillableInHand'
  BY <1>1, DeadIsNotAlive DEF HandInv, KillableInHand
<1> QED BY <1>3, <1>4, <1>5, <1>6, <1>7 DEF HandInv

NoneRevived ==
    \A c \in Children : child[c] # "unborn" =>
        /\ child'[c] # "unborn"
        /\ child'[c] = "alive" => child[c] = "alive"
        /\ Alive(c)' => Alive(c)

\* The steps of the others between stop()'s own: no child stop() has found comes back,
\* and one that is stored behind its back is late.
LEMMA StopInvKept ==
    ASSUME StopInv, UNCHANGED <<sPc, waited, seen, lost>>, late \subseteq late',
           mRunning' => mRunning,
           NoneRevived,
           \A c \in Children : c = proc => child[c] # "unborn",
           \/ proc' = proc
           \/ /\ ~Alive(proc)
              /\ \A c \in Children : c = proc' => c \in late' \/ seen = {}
    PROVE  StopInv'
<1>1. NotLost' /\ Looked'
  BY DEF StopInv, NotLost, Looked, NoneRevived
<1>2. SeenTo'
  <2>1. CASE proc' = proc
    BY <2>1 DEF StopInv, SeenTo, NoneRevived
  <2>2. CASE \A c \in Children : c = proc' => c \in late' \/ seen = {}
    BY <2>2 DEF StopInv, SeenTo, Looked
  <2> QED BY <2>1, <2>2
<1>3. SeenDead'
  <2>1. \A c \in Children : c \in seen /\ child'[c] = "alive" => child[c] = "alive"
    BY DEF StopInv, Looked, NoneRevived
  <2>2. \A c \in Children : c = proc /\ child[c] = "alive" => proc' = proc
    BY DeadIsNotAlive
  <2> QED BY <2>1, <2>2 DEF StopInv, SeenDead
<1> QED BY <1>1, <1>2, <1>3 DEF StopInv

LEMMA MonitorRunsOne ==
    ASSUME OneRouterInv, MonitorRuns, UNCHANGED <<sPc, waited, seen>>, Looked
    PROVE  OneRouterInv'
<1>1. \A c \in Children : child'[c] = "unborn" /\ child[c] = "unborn"
  BY DEF OneRouterInv, HandInv, MonitorInv, NoneStarted, MonitorRuns, processVars
<1>2. \A c \in Children : child'[c] # "alive" /\ ~Alive(c)'
  BY <1>1 DEF Alive
<1>3. ~Alive(proc)'
  BY <1>2 DEF Alive
<1>4. mPc' = "loop" /\ lost' = (sPc \notin {"up", "flag"})
  BY DEF MonitorRuns
<1>5. HandInv'
  BY <1>1, <1>2, <1>3, <1>4 DEF HandInv, MonitorInv, NoneBefore, AliveIsNewest, OnlyInHand,
                                KillableInHand, InHandPcs
<1>6. NotLost'
  BY <1>4, Zenon DEF NotLost
<1>7. Looked'
  BY <1>1 DEF Looked
<1>8. SeenTo'
  <2>1. UNCHANGED <<proc, late, waited, sPc>> /\ SeenTo
    BY DEF MonitorRuns, processVars, OneRouterInv, StopInv
  <2> QED BY <1>2, <2>1 DEF SeenTo
<1>9. SeenDead'
  BY <1>2, Zenon DEF SeenDead
<1> QED BY <1>5, <1>6, <1>7, <1>8, <1>9 DEF OneRouterInv, StopInv

LEMMA SpawnOne ==
    ASSUME TypeOK, CountInv, OneRouterInv, Spawn, UNCHANGED <<sPc, waited, seen>>
    PROVE  OneRouterInv'
<1>1. PICK c \in Children :
         /\ child[c] = "unborn" /\ child'[c] = "alive"
         /\ \A d \in Children : d < c => child[d] # "unborn"
         /\ \A d \in Children : d # c => child'[d] = child[d]
  BY SpawnStep
<1>2. mPc = "spawn" /\ mPc' = "spawned" /\ UNCHANGED <<late, lost, proc, mRunning>>
  BY DEF Spawn
<1>3. \A d \in Children : (Counted(d)' <=> Counted(d)) /\ (d # c => (Alive(d)' <=> Alive(d)))
  BY <1>1, <1>2 DEF Counted, Alive
<1>4. Newest(c)'
  <2>1. \A d \in Children : d > c => child[d] = "unborn" /\ d # c
    BY <1>1, ChildrenAreNats DEF CountInv, StartedInOrder
  <2>2. \A d \in Children : d > c => child'[d] = "unborn"
    BY <1>1, <2>1
  <2> QED BY <1>1, <2>2 DEF Newest
<1>5. \A d \in Children : Counted(d)' /\ Alive(d)' => d = c
  BY <1>2, <1>3 DEF OneRouterInv, HandInv, NoneBefore, Starting
<1>6. proc # c
  BY <1>1 DEF CountInv, StoredWasStarted
<1>7. ~Alive(proc)'
  <2>1. ~Alive(proc)
    BY <1>2 DEF OneRouterInv, HandInv, MonitorInv, Starting
  <2> QED BY <1>1, <1>2, <1>6, <2>1 DEF Alive
<1>8. MonitorInv' /\ NoneBefore' /\ OnlyInHand'
  BY <1>2, <1>7 DEF MonitorInv, NoneBefore, OnlyInHand, InHandPcs, Starting
<1>9. AliveIsNewest'
  BY <1>4, <1>5 DEF AliveIsNewest
<1>10. KillableInHand'
  <2>1. \A d \in Children : d \notin late /\ child'[d] = "alive" => d = c
    BY <1>2, <1>5 DEF Alive, Counted
  <2> QED BY <1>2, <1>4, <2>1 DEF KillableInHand
<1>11. StopInv'
  <2>1. NoneRevived
    BY <1>1, <1>3 DEF NoneRevived
  <2>2. \A d \in Children : d = proc => child[d] # "unborn"
    BY DEF CountInv, StoredWasStarted
  <2> QED BY <1>2, <2>1, <2>2, StopInvKept DEF OneRouterInv
<1> QED BY <1>8, <1>9, <1>10, <1>11 DEF OneRouterInv, HandInv

\* A child that is stored after stop() has looked is late.
LEMMA SpawnStoredOne ==
    ASSUME TypeOK, CountInv, OneRouterInv, SpawnStored, UNCHANGED <<sPc, waited, seen>>
    PROVE  OneRouterInv'
<1>1. PICK c \in Children :
         /\ Newest(c) /\ proc' = c
         /\ late' = IF seen = {} THEN late ELSE late \cup {c}
  BY DEF SpawnStored
<1>2. mPc = "spawned" /\ mPc' = "settle" /\ UNCHANGED <<child, mRunning, lost>>
  BY DEF SpawnStored
<1>3. \A d \in Children : /\ Counted(d)' => Counted(d)
                          /\ Alive(d)' <=> Alive(d)
                          /\ Newest(d)' <=> Newest(d)
  BY <1>1, <1>2 DEF Counted, Alive, Newest
<1>4. \A d \in Children : Counted(d) /\ Alive(d) => d = c
  BY <1>1, OneNewest DEF OneRouterInv, HandInv, AliveIsNewest
<1>5. MonitorInv' /\ NoneBefore' /\ AliveIsNewest' /\ OnlyInHand'
  BY <1>1, <1>2, <1>3, <1>4
     DEF OneRouterInv, HandInv, MonitorInv, NoneBefore, AliveIsNewest, OnlyInHand, Starting
<1>6. KillableInHand'
  <2>1. \A d \in Children : d \notin late' /\ child'[d] = "alive" => d = c
    BY <1>1, <1>2, <1>4, DeadIsNotAlive DEF Counted
  <2> QED BY <1>1, <2>1 DEF KillableInHand
<1>7. StopInv'
  <2>1. NoneRevived /\ late \subseteq late'
    BY <1>1, <1>2, <1>3 DEF NoneRevived
  <2>2. \A d \in Children : d = proc => child[d] # "unborn"
    BY DEF CountInv, StoredWasStarted
  <2>3. ~Alive(proc)
    BY <1>2 DEF OneRouterInv, HandInv, MonitorInv
  <2> QED BY <1>1, <1>2, <2>1, <2>2, <2>3, StopInvKept DEF OneRouterInv
<1> QED BY <1>5, <1>6, <1>7 DEF OneRouterInv, HandInv

LEMMA MonitorOne ==
    ASSUME TypeOK, CountInv, OneRouterInv, Monitor
    PROVE  OneRouterInv'
<1> USE DEF processVars
<1>0. UNCHANGED <<sPc, waited, seen>> /\ ProcessUp /\ HandInv
  BY DEF Monitor, stopVars, OneRouterInv
<1>1. CASE MonitorRuns
  BY <1>0, <1>1, MonitorRunsOne DEF OneRouterInv, StopInv
<1>2. CASE Spawn
  BY <1>0, <1>2, SpawnOne
<1>3. CASE SpawnStored
  BY <1>0, <1>3, SpawnStoredOne
<1>4. ASSUME UNCHANGED <<child, late, lost, mRunning>>,
             proc' = proc \/ (proc' = 0 /\ ~Alive(proc)), HandInv'
      PROVE  OneRouterInv'
  <2>1. NoneRevived
    BY <1>4 DEF NoneRevived, Alive
  <2>2. \A d \in Children : d = proc => child[d] # "unborn"
    BY DEF CountInv, StoredWasStarted
  <2>3. \A d \in Children : d # 0
    BY ChildrenAreNats
  <2>4. StopInv'
    BY <1>0, <1>4, <2>1, <2>2, <2>3, StopInvKept DEF OneRouterInv
  <2> QED BY <1>4, <2>4 DEF OneRouterInv
<1>5. CASE MonitorLoop \/ SpawnFails \/ Retry \/ MonitorTest \/ AfterExit
  <2>1. HandInv'
    BY <1>0, <1>5, MonitorKeepsHand
       DEF MonitorLoop, SpawnFails, Retry, MonitorTest, AfterExit, MGoto, InHandPcs, Starting
  <2> QED BY <1>4, <1>5, <2>1 DEF MonitorLoop, SpawnFails, Retry, MonitorTest, AfterExit, MGoto
<1>6. CASE Settle
  <2>1. HandInv'
    BY <1>0, <1>6, MonitorKeepsHand DEF Settle, InHandPcs, Starting
  <2> QED BY <1>4, <1>6, <2>1 DEF Settle
<1>7. CASE Settled
  <2>1. proc = 0 => ~Alive(proc)
    BY ChildrenAreNats DEF Alive
  <2>2. HandInv'
    BY <1>0, <1>7, <2>1, MonitorKeepsHand DEF Settled, InHandPcs, Starting
  <2> QED BY <1>4, <1>7, <2>2 DEF Settled
<1>8. CASE MonitorPoll
  <2>1. proc = 0 => ~Alive(proc)
    BY ChildrenAreNats DEF Alive
  <2>2. HandInv'
    BY <1>0, <1>8, <2>1, MonitorKeepsHand DEF MonitorPoll, MGoto, InHandPcs, Starting
  <2> QED BY <1>4, <1>8, <2>2 DEF MonitorPoll, MGoto
<1>9. CASE Drain
  <2>1. ~Alive(proc)
    BY <1>9 DEF Drain, HandInv, OneRouterInv, MonitorInv
  <2>2. HandInv'
    BY <1>0, <1>9, <2>1, MonitorKeepsHand DEF Drain, InHandPcs, Starting
  <2> QED BY <1>4, <1>9, <2>1, <2>2 DEF Drain
<1> QED BY <1>1, <1>2, <1>3, <1>5, <1>6, <1>7, <1>8, <1>9 DEF Monitor

\* stop() sees to the child it finds, unless that is dead.
LEMMA StopStopInv ==
    ASSUME TypeOK, CountInv, OneRouterInv, OnlyDie, Stop
    PROVE  StopInv'
<1> USE DEF monitorVars, processVars, SGoto
<1>0. /\ NotLost /\ Looked /\ SeenTo /\ SeenDead
      /\ \A c \in Children : c # 0 /\ (child[c] = "alive" => Alive(c))
      /\ UNCHANGED <<late, lost>>
      /\ ~Alive(0)
  BY ChildrenAreNats
     DEF OneRouterInv, StopInv, Alive, Stop, StopFlag, StopLock, StopTest, Terminate, Await, WaitEnds,
         WaitTimesOut, Kill, WaitKilled, StopClear, StopUnlock, Exit
<1> USE DEF StopInv, NotLost, Looked, SeenTo, SeenDead, OnlyDie
<1>1. CASE StopFlag
  BY <1>0, <1>1 DEF StopFlag
<1>2. CASE StopLock \/ StopUnlock \/ Exit
  BY <1>0, <1>2 DEF StopLock, StopUnlock, Exit
<1>3. CASE StopTest
  <2>1. \A c \in Children : c = proc => child[c] # "unborn"
    BY DEF CountInv, StoredWasStarted
  <2> QED BY <1>0, <1>3, <2>1 DEF StopTest
<1>4. CASE Terminate
  BY <1>0, <1>4 DEF Terminate
<1>5. CASE Await
  BY <1>0, <1>5 DEF Await
<1>6. CASE WaitEnds
  BY <1>0, <1>6 DEF WaitEnds
<1>7. CASE WaitTimesOut
  BY <1>0, <1>7 DEF WaitTimesOut
<1>8. CASE Kill
  <2>1. \A c \in Children : c = proc => child'[c] # "alive"
    BY <1>8, <1>0 DEF Kill, TypeOK
  <2> QED BY <1>0, <1>8, <2>1 DEF Kill
<1>9. CASE WaitKilled
  BY <1>0, <1>9 DEF WaitKilled
<1>10. CASE StopClear
  BY <1>0, <1>10 DEF StopClear
<1> QED BY <1>1, <1>2, <1>3, <1>4, <1>5, <1>6, <1>7, <1>8, <1>9, <1>10 DEF Stop

LEMMA StopOne ==
    ASSUME TypeOK, CountInv, OneRouterInv, OnlyDie, Stop
    PROVE  OneRouterInv'
<1> USE DEF monitorVars, processVars, SGoto
<1>1. UNCHANGED <<mPc, late, lost>> /\ (mRunning' => mRunning)
  BY DEF Stop, StopFlag, StopLock, StopTest, Terminate, Await, WaitEnds, WaitTimesOut, Kill,
         WaitKilled, StopClear, StopUnlock, Exit
<1>2. /\ ~ProcessUp => ~ProcessUp'
      /\ \/ proc' = proc
         \/ proc' = 0 /\ sPc = "clear"
         \/ proc' = 0 /\ sPc = "raise" /\ ~ProcessUp'
  BY DEF Stop, StopFlag, StopLock, StopTest, Terminate, Await, WaitEnds, WaitTimesOut, Kill,
         WaitKilled, StopClear, StopUnlock, Exit, ProcessUp
<1>3. HandInv'
  BY <1>1, <1>2, OthersKeepHand
<1> QED BY <1>3, StopStopInv DEF OneRouterInv

LEMMA OneRouterStep ==
    ASSUME TypeOK, CountInv, LockInv, OneRouterInv, [Next]_vars
    PROVE  OneRouterInv'
<1> USE DEF monitorVars, processVars, stopVars, statusVars
<1>1. CASE Monitor
  BY <1>1, MonitorOne
<1>2. ASSUME OnlyDie, UNCHANGED <<mPc, late, lost, mRunning, proc, sPc, waited, seen>>
      PROVE  OneRouterInv'
  <2>1. HandInv'
    BY <1>2, OthersKeepHand DEF ProcessUp
  <2>2. NoneRevived
    BY <1>2 DEF OnlyDie, NoneRevived
  <2>3. \A d \in Children : d = proc => child[d] # "unborn"
    BY DEF CountInv, StoredWasStarted
  <2>4. StopInv'
    BY <1>2, <2>2, <2>3, StopInvKept DEF OneRouterInv
  <2> QED BY <2>1, <2>4 DEF OneRouterInv
<1>3. CASE OnlyDie /\ ChildExits
  BY <1>2, <1>3 DEF ChildExits
<1>4. CASE OnlyDie /\ (Signal \/ SignalAgain)
  <2>1. /\ UNCHANGED <<mPc, late, lost, proc, waited, seen, child>>
        /\ sPc' = "flag" \/ (sPc' = "stuck" /\ ~mRunning')
        /\ sPc' = "flag" => sPc \notin StopHolds \cup {"stuck"}
        /\ ProcessUp
    BY <1>4 DEF Signal, SignalAgain, LockInv, StopHolds, ProcessUp
  <2>2. mRunning' => mRunning
    BY <1>4 DEF Signal, SignalAgain, TypeOK
  <2>3. HandInv'
    BY <1>4, <2>1, <2>2, OthersKeepHand
  <2>4. StopInv'
    BY <2>1, <2>2 DEF OneRouterInv, StopInv, NotLost, Looked, SeenTo, SeenDead, StopHolds
  <2> QED BY <2>3, <2>4 DEF OneRouterInv
<1>5. CASE OnlyDie /\ Stop
  BY <1>5, StopOne
<1>6. CASE OnlyDie /\ (AskStatus \/ Status)
  BY <1>2, <1>6 DEF AskStatus, Status, StatusLock, StatusTest, StatusPoll, StatusReturns, QGoto
<1>7. CASE OnlyDie /\ UNCHANGED vars
  BY <1>2, <1>7 DEF vars
<1> QED BY <1>1, <1>3, <1>4, <1>5, <1>6, <1>7, SpawnOrDie DEF Next

LEMMA InitOne == Init => OneRouterInv
<1> SUFFICES ASSUME Init PROVE OneRouterInv
  OBVIOUS
<1>1. \A c \in Children : child[c] = "unborn" /\ ~Alive(c)
  BY DEF Init, Alive
<1>2. ~Alive(proc)
  BY ChildrenAreNats DEF Init, Alive
<1>3. HandInv
  BY <1>1, <1>2 DEF Init, HandInv, MonitorInv, NoneStarted, NoneBefore, AliveIsNewest, OnlyInHand,
                    KillableInHand, InHandPcs
<1>4. StopInv
  BY <1>1 DEF Init, StopInv, NotLost, Looked, SeenTo, SeenDead
<1> QED BY <1>3, <1>4 DEF OneRouterInv

LEMMA OneRouterInvariant == Spec => [](TypeOK /\ CountInv /\ LockInv /\ OneRouterInv)
<1>1. Init => LockInv
  BY DEF Init, LockInv, StopHolds, StatusHolds
<1>2. TypeOK /\ CountInv /\ LockInv /\ [Next]_vars => LockInv'
  BY LockStep DEF CountInv
<1> QED BY <1>1, <1>2, InitType, InitOne, CountStep, OneRouterStep, PTL DEF Spec

\* There are never two router processes on the serial line, counting those stop()
\* leaves behind and one that is not stored yet; of a stop() that was lost, this is
\* claimed of the children stored before it looked.
THEOREM NeverTwoRouters == Spec => []AtMostOneRouter
<1>1. OneRouterInv => AtMostOneRouter
  <2> SUFFICES ASSUME OneRouterInv PROVE AtMostOneRouter
    OBVIOUS
  <2> DEFINE S == {c \in Children : Alive(c) /\ ~(lost /\ c \in late)}
  <2>1. \A c, d \in S : c = d
    BY OneNewest DEF OneRouterInv, HandInv, AliveIsNewest, Counted
  <2>2. Cardinality(S) <= 1
    <3>1. CASE S = {}
      <4>1. Cardinality(S) = 0
        BY <3>1, FS_EmptySet, Zenon
      <4> QED BY <4>1
    <3>2. CASE S # {}
      <4>1. PICK c \in S : TRUE
        BY <3>2
      <4>2. S = {c}
        BY <2>1, <4>1
      <4>3. Cardinality(S) = 1
        BY <4>2, FS_Singleton, Zenon
      <4> QED BY <4>3
    <3> QED BY <3>1, <3>2
  <2> QED BY <2>2 DEF AtMostOneRouter
<1> QED BY <1>1, OneRouterInvariant, PTL

\* A router that stop() leaves behind, though it can be killed, is not one that stop()
\* found in _process: it was stored after stop() had looked, or is not stored; and
\* unless the stop() was lost it is the last one ever started.
THEOREM OnlyLateOnesSurvive == Spec => []OnlyLateSurvive
<1>1. OneRouterInv => OnlyLateSurvive
  <2> SUFFICES ASSUME OneRouterInv, sPc = "exited", NEW c \in Children, child[c] = "alive"
               PROVE  /\ c \notin seen
                      /\ c \in late \/ (mPc = "spawned" /\ Newest(c))
                      /\ ~lost => Newest(c)
    BY DEF OnlyLateSurvive
  <2>1. c \notin seen
    BY DEF OneRouterInv, StopInv, SeenDead
  <2>2. c \in late \/ (mPc = "spawned" /\ Newest(c))
    BY DEF OneRouterInv, HandInv, KillableInHand, StopInv, SeenTo
  <2>3. ~lost => Newest(c)
    BY DeadIsNotAlive DEF OneRouterInv, HandInv, AliveIsNewest, Counted
  <2> QED BY <2>1, <2>2, <2>3
<1> QED BY <1>1, OneRouterInvariant, PTL
=============================================================================
