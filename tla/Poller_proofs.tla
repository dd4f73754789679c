---------------------------- MODULE Poller_proofs ----------------------------
(***************************************************************************)
(* Lemmas about the DataStore's operations and the polling thread's steps, *)
(* for the proofs about the modules that compose them.                     *)
(***************************************************************************)
EXTENDS ModbusPoller, TLAPS

-----------------------------------------------------------------------------
(* The store's operations keep its types.                                  *)

LEMMA DefaultsType == Defaults \in BESSData
BY StoreAssumption DEF Defaults, BESSData, Never

LEMMA CollectedType ==
    ASSUME NEW h \in [Objects -> BESSData], NEW cur, NEW rs
    PROVE  Collected(h, cur, rs) \in [Objects -> BESSData]
BY DefaultsType DEF Collected

LEMMA UpdateType ==
    ASSUME StoreTypeOK, NEW s \in Registers, Update(s)
    PROVE  StoreTypeOK'
<1>1. PICK o \in Objects : Update(s)!(o)
  BY DEF Update
<1> DEFINE fresh == [block |-> s.block, cmd |-> s.cmd, age |-> 0,
                     poll_success |-> TRUE, stale |-> FALSE]
<1>2. fresh \in BESSData
  BY StoreAssumption DEF BESSData, Registers, Never
<1>3. [heap EXCEPT ![o] = fresh] \in [Objects -> BESSData]
  BY <1>2 DEF StoreTypeOK
<1>4. heap' \in [Objects -> BESSData]
  BY <1>1, <1>3, CollectedType
<1> QED BY <1>1, <1>4 DEF StoreTypeOK

LEMMA MarkType ==
    ASSUME StoreTypeOK, MarkStale \/ MarkPollFailed
    PROVE  StoreTypeOK'
BY DEF StoreTypeOK, MarkStale, MarkPollFailed, BESSData

LEMMA GetType ==
    ASSUME StoreTypeOK, NEW r \in Readers, Get(r)
    PROVE  StoreTypeOK'
BY DEF StoreTypeOK, Get

LEMMA ReleaseType ==
    ASSUME StoreTypeOK, NEW r \in Readers, Release(r)
    PROVE  StoreTypeOK'
<1>1. heap' \in [Objects -> BESSData]
  BY CollectedType DEF Release, StoreTypeOK
<1> QED BY <1>1 DEF StoreTypeOK, Release

LEMMA OlderType ==
    ASSUME NEW a \in {Never} \cup 0..AgeCap
    PROVE  Older(a) \in {Never} \cup 0..AgeCap
BY StoreAssumption DEF Older, Never

LEMMA AgeType ==
    ASSUME StoreTypeOK, AgeData
    PROVE  StoreTypeOK'
<1>1. ASSUME NEW o \in Objects
      PROVE  [heap[o] EXCEPT !.age = Older(@)] \in BESSData
  <2>1. heap[o] \in BESSData
    BY DEF StoreTypeOK
  <2>2. Older(heap[o].age) \in {Never} \cup 0..AgeCap
    BY <2>1, OlderType DEF BESSData
  <2> QED BY <2>1, <2>2 DEF BESSData
<1> QED BY <1>1 DEF StoreTypeOK, AgeData

-----------------------------------------------------------------------------
(* What the operations do to objects that somebody still holds.            *)

LEMMA UpdateHeld ==
    ASSUME StoreTypeOK, NEW s, Update(s)
    PROVE  /\ refs' = refs
           /\ current' \in Objects
           /\ heap'[current'].block = s.block
           /\ heap'[current'].poll_success /\ heap'[current'].age = 0
           /\ \A r \in Readers : refs[r] # None => heap'[refs[r]] = heap[refs[r]]
<1>1. PICK o \in Objects : Update(s)!(o)
  BY DEF Update
<1> DEFINE fresh == [block |-> s.block, cmd |-> s.cmd, age |-> 0,
                     poll_success |-> TRUE, stale |-> FALSE]
<1>2. heap'[o] = fresh
  BY <1>1 DEF Collected, Held, StoreTypeOK
<1>3. ASSUME NEW r \in Readers, refs[r] # None
      PROVE  heap'[refs[r]] = heap[refs[r]]
  BY <1>1, <1>3 DEF Collected, Held, StoreTypeOK
<1>4. current' = o /\ refs' = refs
  BY <1>1
<1>5. /\ heap'[current'].block = s.block
      /\ heap'[current'].poll_success /\ heap'[current'].age = 0
  BY <1>2, <1>4
<1> QED BY <1>3, <1>4, <1>5

LEMMA MarkHeld ==
    ASSUME StoreTypeOK, MarkStale \/ MarkPollFailed
    PROVE  /\ refs' = refs /\ current' = current
           /\ \A o \in Objects : /\ heap'[o].block = heap[o].block
                                 /\ heap'[o].age = heap[o].age
                                 /\ heap'[o].poll_success => heap[o].poll_success
BY DEF StoreTypeOK, MarkStale, MarkPollFailed, BESSData

LEMMA ReleaseHeld ==
    ASSUME StoreTypeOK, NEW r \in Readers, Release(r)
    PROVE  /\ current' = current
           /\ heap'[current] = heap[current]
           /\ \A q \in Readers : refs'[q] # None =>
                 /\ refs'[q] = refs[q]
                 /\ heap'[refs'[q]] = heap[refs[q]]
BY DEF StoreTypeOK, Release, Collected, Held

LEMMA AgeHeld ==
    ASSUME StoreTypeOK, AgeData
    PROVE  /\ refs' = refs /\ current' = current
           /\ \A o \in Objects : /\ heap'[o].block = heap[o].block
                                 /\ heap'[o].age = Older(heap[o].age)
                                 /\ heap'[o].poll_success = heap[o].poll_success
BY DEF StoreTypeOK, AgeData, BESSData

\* What a reader sees of the polling thread: its object keeps its data and its
\* stamp, poll_success can only drop, and a new object is a fresh success.
LEMMA PollerSeen ==
    ASSUME StoreTypeOK, PollerNext
    PROVE  /\ refs' = refs
           /\ \A r \in Readers : refs[r] # None =>
                 /\ heap'[refs[r]].age = heap[refs[r]].age
                 /\ heap'[refs[r]].poll_success => heap[refs[r]].poll_success
           /\ \/ current' = current /\ heap'[current].age = heap[current].age
              \/ heap'[current'].poll_success /\ heap'[current'].age = 0
<1>1. CASE Publish
  BY <1>1, UpdateHeld DEF Publish
<1>2. CASE ConnectFailed \/ ReadFailed
  BY <1>2, MarkHeld DEF ConnectFailed, ReadFailed, StoreTypeOK
<1>3. CASE ~(Publish \/ ConnectFailed \/ ReadFailed)
  <2>1. heap' = heap /\ current' = current /\ refs' = refs
    BY <1>3 DEF PollerNext, PollerStarts, LoopTest, ProbeClient, ProbeSocket, Goto,
                NewClient, Connect, ReadInputs, ReadInputsFails, ReadCommand,
                ReadCommandErrs, ReadCommandRaises, Disconnect, CheckStale, Wake
  <2> QED BY <2>1
<1> QED BY <1>1, <1>2, <1>3

-----------------------------------------------------------------------------
(* Every step of the polling thread keeps the types.                       *)

LEMMA GotoType ==
    ASSUME StoreTypeOK, PollerTypeOK, NEW from, NEW to \in PollerPcs, Goto(from, to)
    PROVE  StoreTypeOK' /\ PollerTypeOK'
BY DEF StoreTypeOK, PollerTypeOK, Goto

LEMMA PollerStepType ==
    ASSUME StoreTypeOK, PollerTypeOK, PollerNext
    PROVE  StoreTypeOK' /\ PollerTypeOK'
<1>1. CASE PollerStarts \/ NewClient \/ Disconnect
  BY <1>1 DEF PollerStarts, NewClient, Disconnect, PollerPcs, StoreTypeOK, PollerTypeOK
<1>2. CASE LoopTest
  BY <1>2, GotoType DEF LoopTest, PollerPcs
<1>3. CASE ProbeClient
  BY <1>3, GotoType DEF ProbeClient, PollerPcs
<1>4. CASE ProbeSocket
  <2> DEFINE to == CASE client = "none"   -> "crashed"
                     [] client = "open"   -> "read"
                     [] client = "closed" -> "connect"
  <2>1. to \in PollerPcs
    BY DEF PollerPcs, PollerTypeOK
  <2> QED BY <1>4, <2>1, GotoType DEF ProbeSocket
<1>5. CASE Connect
  BY <1>5 DEF Connect, PollerPcs, StoreTypeOK, PollerTypeOK
<1>6. CASE ConnectFailed
  <2>1. StoreTypeOK'
    BY <1>6, MarkType DEF ConnectFailed
  <2> QED BY <1>6, <2>1 DEF ConnectFailed, PollerPcs, PollerTypeOK
<1>7. CASE ReadInputs
  BY <1>7, StoreAssumption DEF ReadInputs, PollerPcs, Registers, StoreTypeOK, PollerTypeOK
<1>8. CASE ReadInputsFails \/ ReadCommandErrs
  BY <1>8 DEF ReadInputsFails, ReadCommandErrs, PollerPcs, StoreTypeOK, PollerTypeOK
<1>9. CASE ReadCommand
  BY <1>9 DEF ReadCommand, PollerPcs, Registers, StoreTypeOK, PollerTypeOK
<1>10. CASE ReadCommandRaises
  BY <1>10, StoreAssumption
     DEF ReadCommandRaises, NoSample, PollerPcs, Registers, StoreTypeOK, PollerTypeOK
<1>11. CASE Publish
  <2>1. StoreTypeOK'
    BY <1>11, UpdateType DEF Publish, PollerTypeOK
  <2> QED BY <1>11, <2>1, StoreAssumption DEF Publish, NoSample, PollerPcs, Registers, PollerTypeOK
<1>12. CASE ReadFailed
  <2>1. StoreTypeOK'
    BY <1>12, MarkType DEF ReadFailed
  <2> QED BY <1>12, <2>1 DEF ReadFailed, PollerPcs, PollerTypeOK
<1>13. CASE CheckStale \/ Wake
  BY <1>13, GotoType DEF CheckStale, Wake, PollerPcs
<1> QED
  BY <1>1, <1>2, <1>3, <1>4, <1>5, <1>6, <1>7, <1>8, <1>9, <1>10, <1>11, <1>12, <1>13
  DEF PollerNext

LEMMA SiteStepType ==
    ASSUME PollerTypeOK, PlantChanges \/ LinkChanges, UNCHANGED pollerVars
    PROVE  PollerTypeOK'
BY DEF PollerTypeOK, PlantChanges, LinkChanges, pollerVars, Registers, PollerPcs
=============================================================================
