-------------------------- MODULE StatusPath_proofs --------------------------
(***************************************************************************)
(* Proofs about StatusPath, for any number of requests at a time.          *)
(***************************************************************************)
EXTENDS StatusPath, Poller_proofs

-----------------------------------------------------------------------------
(* Type correctness.                                                       *)

LEMMA WebStepType ==
    ASSUME StoreTypeOK, WebTypeOK, ObjectsHeld, NEW w \in Requests, WebNext(w)
    PROVE  StoreTypeOK' /\ WebTypeOK'
<1> USE RequestsAssumption
<1>1. CASE Request(w)
  BY <1>1 DEF Request, StoreTypeOK, WebTypeOK, RequestPcs
<1>2. CASE ReadStore(w)
  <2>1. StoreTypeOK'
    BY <1>2, GetType DEF ReadStore
  <2> QED BY <1>2, <2>1 DEF ReadStore, WebTypeOK, RequestPcs
<1>3. CASE Respond(w)
  <2>1. StoreTypeOK'
    BY <1>3, ReleaseType DEF Respond
  <2> QED BY <1>3, <2>1 DEF Respond, WebTypeOK, RequestPcs, Kinds, Responses, Blank
<1>4. CASE ReadStale(w)
  BY <1>4 DEF ReadStale, Reply, IsStale, TooOld, StoreTypeOK, WebTypeOK, RequestPcs, Responses
<1>5. refs[w] # None => heap[refs[w]].poll_success \in BOOLEAN
  BY DEF StoreTypeOK, BESSData
<1>6. CASE ReadEpms(w) \/ ReadEpmsAgain(w)
  <2>1. heap[refs[w]].poll_success \in BOOLEAN
    BY <1>5, <1>6 DEF ReadEpms, ReadEpmsAgain, ObjectsHeld, Holding
  <2> QED
    BY <1>6, <2>1 DEF ReadEpms, ReadEpmsAgain, Reply, StoreTypeOK, WebTypeOK, RequestPcs,
                      Responses
<1>7. CASE ReadActive(w)
  BY <1>7 DEF ReadActive, Reply, Listening, StoreTypeOK, WebTypeOK, RequestPcs, Responses
<1>8. CASE ReadActiveAgain(w)
  BY <1>8 DEF ReadActiveAgain, Reply, Listening, StoreTypeOK, WebTypeOK, RequestPcs, Responses
<1> QED BY <1>1, <1>2, <1>3, <1>4, <1>6, <1>7, <1>8 DEF WebNext

LEMMA InitType == Init => TypeOK
<1> SUFFICES ASSUME Init PROVE TypeOK
  OBVIOUS
<1>1. StoreTypeOK
  BY DefaultsType DEF Init, StoreInit, StoreTypeOK
<1>2. PollerTypeOK
  <2>1. sample \in Registers
    BY StoreAssumption DEF Init, PollerInit, Registers, NoSample
  <2>2. plant \in Registers
    BY DEF Init, PollerInit, Registers
  <2> QED BY <2>1, <2>2 DEF Init, PollerInit, PollerTypeOK, PollerPcs
<1>3. SocketTypeOK
  BY DEF Init, SocketInit, SocketTypeOK
<1>4. WebTypeOK
  BY DEF Init, WebInit, WebTypeOK, RequestPcs, Kinds, Responses, Blank
<1> QED BY <1>1, <1>2, <1>3, <1>4 DEF Init, TypeOK

LEMMA StepType ==
    ASSUME TypeOK, ObjectsHeld, [Next]_vars
    PROVE  TypeOK'
<1>1. sawGreen' \in [Requests -> BOOLEAN]
  BY DEF Next, History, vars, TypeOK
<1> USE DEF TypeOK
<1>2. CASE Poller
  BY <1>1, <1>2, PollerStepType
     DEF Poller, socketVars, webVars, SocketTypeOK, WebTypeOK
<1>3. CASE Server
  BY <1>1, <1>3
     DEF Server, SocketNext, ThreadStarts, ThreadDies, Binds, Closes, storeVars, pollerVars,
         siteVars, webVars, StoreTypeOK, PollerTypeOK, SocketTypeOK, WebTypeOK
<1>4. CASE Web
  BY <1>1, <1>4, WebStepType DEF Web, pollerVars, siteVars, socketVars, PollerTypeOK, SocketTypeOK
<1>5. CASE Site
  BY <1>1, <1>5, SiteStepType
     DEF Site, storeVars, socketVars, webVars, StoreTypeOK, SocketTypeOK, WebTypeOK
<1>6. CASE Clock
  BY <1>1, <1>6, AgeType
     DEF Clock, pollerVars, siteVars, socketVars, webVars, PollerTypeOK, SocketTypeOK, WebTypeOK
<1>7. CASE UNCHANGED vars
  BY <1>1, <1>7 DEF vars, StoreTypeOK, PollerTypeOK, SocketTypeOK, WebTypeOK
<1> QED BY <1>2, <1>3, <1>4, <1>5, <1>6, <1>7 DEF Next

-----------------------------------------------------------------------------
(* The inductive invariant.                                                *)

LEMMA InitInv == Init => StatusInv
<1> SUFFICES ASSUME Init PROVE StatusInv
  OBVIOUS
<1>1. /\ \A w \in Requests : rPc[w] = "idle" /\ resp[w] = Blank /\ refs[w] = None
      /\ \A r \in Readers : refs[r] = None
  BY RequestsAssumption DEF Init, StoreInit, WebInit
<1>2. ObjectsHeld /\ HeldIsOlder /\ EpmsAnswer
  BY <1>1 DEF ObjectsHeld, HeldIsOlder, EpmsAnswer, Holding, EpmsRead, Blank
<1>3. GreenSeen /\ StaleAnswer
  BY <1>1 DEF GreenSeen, StaleAnswer, Holding, StaleRead, Blank
<1> QED BY <1>2, <1>3 DEF StatusInv

\* What History writes for one request.
LEMMA Remembers ==
    ASSUME TypeOK, History, NEW w \in Requests, rPc'[w] \notin {"idle", "get"}
    PROVE  /\ sawGreen[w] => sawGreen'[w]
           /\ EpmsGreen' => sawGreen'[w]
BY DEF History

\* Steps in which no request moves.
LEMMA QuietStep ==
    ASSUME TypeOK, StatusInv, History, UNCHANGED webVars, refs' = refs, HeldIsOlder',
           current' # current => EpmsGreen',
           \A r \in Readers : refs[r] # None =>
               /\ heap'[refs[r]].poll_success => heap[refs[r]].poll_success
               /\ TooOld(refs[r], StaleTimeout) =>
                      heap'[refs[r]].age = Never \/ heap'[refs[r]].age > StaleTimeout
    PROVE  StatusInv'
<1> USE RequestsAssumption
<1>1. rPc' = rPc /\ kind' = kind /\ resp' = resp
  BY DEF webVars
<1>2. ObjectsHeld'
  BY <1>1 DEF StatusInv, ObjectsHeld, Holding
<1>3. EpmsAnswer'
  BY <1>1 DEF StatusInv, ObjectsHeld, EpmsAnswer, Holding, EpmsRead
<1>4. StaleAnswer'
  BY <1>1 DEF StatusInv, ObjectsHeld, StaleAnswer, Holding, StaleRead, TooOld
<1>5. GreenSeen'
  <2> SUFFICES ASSUME NEW w \in Requests
               PROVE  GreenSeen!(w)'
    BY DEF GreenSeen
  <2>1. CASE ~Holding(w)
    BY <1>1, <2>1 DEF StatusInv, ObjectsHeld, Holding, StaleRead
  <2>2. CASE Holding(w)
    <3>1. (sawGreen[w] => sawGreen'[w]) /\ (EpmsGreen' => sawGreen'[w])
      BY <1>1, <2>2, Remembers DEF Holding
    <3>2. refs[w] # None /\ GreenSeen!(w)
      BY <2>2 DEF StatusInv, ObjectsHeld, GreenSeen
    <3> QED BY <1>1, <3>1, <3>2 DEF Holding, StaleRead
  <2> QED BY <2>1, <2>2
<1> QED BY <1>2, <1>3, <1>4, <1>5 DEF StatusInv

\* The ages the invariant compares.
LEMMA Ages ==
    ASSUME TypeOK
    PROVE  /\ \A o \in Objects : heap[o].age \in {Never} \cup 0..AgeCap
           /\ current \in Objects
           /\ \A r \in Readers : refs[r] # None => refs[r] \in Objects
BY DEF TypeOK, StoreTypeOK, BESSData

LEMMA PollerInv ==
    ASSUME TypeOK, StatusInv, Poller, History
    PROVE  StatusInv'
<1> USE Ages, StoreAssumption
<1>1. /\ refs' = refs
      /\ \A r \in Readers : refs[r] # None =>
            /\ heap'[refs[r]].age = heap[refs[r]].age
            /\ heap'[refs[r]].poll_success => heap[refs[r]].poll_success
      /\ \/ current' = current /\ heap'[current].age = heap[current].age
         \/ heap'[current'].poll_success /\ heap'[current'].age = 0
  BY PollerSeen DEF Poller, TypeOK
<1>2. HeldIsOlder'
  BY <1>1 DEF StatusInv, HeldIsOlder, Never
<1>3. current' # current => EpmsGreen'
  BY <1>1 DEF EpmsGreen, IsStale, TooOld, Never
<1> QED BY <1>1, <1>2, <1>3, QuietStep DEF Poller, TooOld

LEMMA OlderInOrder ==
    ASSUME NEW a \in {Never} \cup 0..AgeCap, NEW b \in {Never} \cup 0..AgeCap
    PROVE  /\ (a = Never \/ a > StaleTimeout) =>
                 (Older(a) = Never \/ Older(a) > StaleTimeout)
           /\ a = Never \/ (b # Never /\ b <= a) =>
                 Older(a) = Never \/ (Older(b) # Never /\ Older(b) <= Older(a))
BY StoreAssumption DEF Older, Never

LEMMA ClockInv ==
    ASSUME TypeOK, StatusInv, Clock, History
    PROVE  StatusInv'
<1> USE Ages
<1>1. /\ refs' = refs /\ current' = current
      /\ \A o \in Objects : /\ heap'[o].age = Older(heap[o].age)
                            /\ heap'[o].poll_success = heap[o].poll_success
  BY AgeHeld DEF Clock, TypeOK
<1>2. HeldIsOlder'
  BY <1>1, OlderInOrder DEF StatusInv, HeldIsOlder
<1>3. \A r \in Readers : refs[r] # None /\ TooOld(refs[r], StaleTimeout) =>
          heap'[refs[r]].age = Never \/ heap'[refs[r]].age > StaleTimeout
  BY <1>1, OlderInOrder DEF TooOld
<1> QED BY <1>1, <1>2, <1>3, QuietStep DEF Clock

LEMMA ElsewhereInv ==
    ASSUME TypeOK, StatusInv, Server \/ Site, History
    PROVE  StatusInv'
<1>1. UNCHANGED storeVars /\ UNCHANGED webVars
  BY DEF Server, Site
<1>2. HeldIsOlder'
  BY <1>1 DEF StatusInv, HeldIsOlder, storeVars
<1> QED BY <1>1, <1>2, QuietStep DEF storeVars, TooOld

-----------------------------------------------------------------------------
(* One step of one request.                                                *)

\* Nothing another request relies on moves.
LEMMA OthersKept ==
    ASSUME TypeOK, NEW w \in Requests, WebNext(w)
    PROVE  /\ current' = current /\ heap'[current] = heap[current]
           /\ \A r \in Readers : r # w => refs'[r] = refs[r]
           /\ \A r \in Readers : refs'[r] # None =>
                 \/ refs'[r] = refs[r] /\ heap'[refs[r]] = heap[refs[r]]
                 \/ r = w /\ refs'[r] = current
           /\ \A q \in Requests \ {w} :
                 rPc'[q] = rPc[q] /\ kind'[q] = kind[q] /\ resp'[q] = resp[q]
<1> USE RequestsAssumption
<1>1. CASE Respond(w)
  <2>1. Release(w)
    BY <1>1 DEF Respond
  <2>2. /\ current' = current /\ heap'[current] = heap[current]
        /\ \A q \in Readers : refs'[q] # None =>
              refs'[q] = refs[q] /\ heap'[refs'[q]] = heap[refs[q]]
        /\ \A r \in Readers : r # w => refs'[r] = refs[r]
    BY <2>1, ReleaseHeld DEF TypeOK, StoreTypeOK, Release
  <2>3. \A q \in Requests \ {w} :
            rPc'[q] = rPc[q] /\ kind'[q] = kind[q] /\ resp'[q] = resp[q]
    BY <1>1 DEF Respond, TypeOK, WebTypeOK
  <2> QED BY <2>2, <2>3
<1>2. CASE ReadStore(w)
  BY <1>2 DEF ReadStore, Get, TypeOK, StoreTypeOK, WebTypeOK
<1>3. CASE Request(w)
  BY <1>3 DEF Request, TypeOK, StoreTypeOK, WebTypeOK
<1>4. CASE ReadStale(w) \/ ReadEpms(w) \/ ReadActive(w) \/ ReadEpmsAgain(w)
           \/ ReadActiveAgain(w)
  BY <1>4 DEF ReadStale, ReadEpms, ReadActive, ReadEpmsAgain, ReadActiveAgain, Reply,
              TypeOK, StoreTypeOK, WebTypeOK
<1> QED BY <1>1, <1>2, <1>3, <1>4 DEF WebNext

\* The invariant of one request.
RequestInv(w) ==
    ObjectsHeld!(w) /\ EpmsAnswer!(w) /\ GreenSeen!(w) /\ StaleAnswer!(w)

\* The request that moved: what it read is what the invariant says of it.
LEMMA MoverInv ==
    ASSUME TypeOK, StatusInv, History, NEW w \in Requests, WebNext(w)
    PROVE  RequestInv(w)'
<1> USE RequestsAssumption, StoreAssumption, Ages
<1>1. RequestInv(w)
  BY DEF StatusInv, ObjectsHeld, EpmsAnswer, GreenSeen, StaleAnswer, RequestInv
<1>2. rPc'[w] \notin {"idle", "get"} =>
         (sawGreen[w] => sawGreen'[w]) /\ (EpmsGreen' => sawGreen'[w])
  BY Remembers
<1>3. /\ current' = current /\ heap'[current] = heap[current]
  BY OthersKept
<1> USE DEF RequestInv, Holding, StaleRead, EpmsRead
<1>4. CASE Request(w)
  BY <1>1, <1>4 DEF Request, TypeOK, WebTypeOK
<1>5. CASE ReadStore(w)
  <2>1. /\ refs'[w] = current /\ heap' = heap /\ resp' = resp /\ kind' = kind
        /\ rPc[w] = "get"
        /\ rPc'[w] = IF kind[w] = "status" THEN "epms" ELSE "stale"
    BY <1>5 DEF ReadStore, Get, TypeOK, StoreTypeOK, WebTypeOK
  <2> QED BY <1>1, <1>2, <1>3, <2>1
<1>6. CASE Respond(w)
  <2>1. refs'[w] = None /\ resp'[w] = Blank /\ rPc'[w] = "idle"
    BY <1>6 DEF Respond, Release, TypeOK, StoreTypeOK, WebTypeOK
  <2> QED BY <2>1 DEF Blank
<1>7. CASE ReadStale(w)
  <2>1. /\ refs' = refs /\ heap' = heap /\ kind' = kind /\ rPc[w] = "stale"
        /\ rPc'[w] = IF kind[w] = "status" THEN "done" ELSE "epms"
        /\ resp'[w].epms = resp[w].epms /\ resp'[w].all_ok = resp[w].all_ok
        /\ resp'[w].stale = IsStale(StaleTimeout)
    BY <1>7 DEF ReadStale, Reply, TypeOK, WebTypeOK, Responses
  <2>2. HeldIsOlder /\ refs[w] # None /\ ~resp[w].all_ok
    BY <1>1, <2>1 DEF StatusInv
  <2>3. IsStale(StaleTimeout) => TooOld(refs[w], StaleTimeout)
    BY <2>2 DEF IsStale, TooOld, HeldIsOlder, Never
  <2>4. ~IsStale(StaleTimeout) /\ heap[refs[w]].poll_success => sawGreen'[w]
    BY <1>1, <1>2, <1>3, <2>1 DEF EpmsGreen, IsStale, TooOld
  <2> QED BY <1>1, <1>2, <1>3, <2>1, <2>2, <2>3, <2>4 DEF TooOld
<1>8. CASE ReadEpms(w)
  <2>1. /\ refs' = refs /\ heap' = heap /\ kind' = kind /\ rPc[w] = "epms"
        /\ rPc'[w] = IF kind[w] = "status" THEN "stale" ELSE "active"
        /\ resp'[w].stale = resp[w].stale /\ resp'[w].all_ok = resp[w].all_ok
        /\ resp'[w].epms = heap[refs[w]].poll_success
    BY <1>8 DEF ReadEpms, Reply, TypeOK, WebTypeOK, Responses
  <2> QED BY <1>1, <1>2, <1>3, <2>1 DEF TooOld
<1>9. CASE ReadActive(w)
  <2>1. /\ refs' = refs /\ heap' = heap /\ kind' = kind /\ rPc[w] = "active"
        /\ rPc'[w] = IF kind[w] = "confirm" THEN "okEpms" ELSE "done"
        /\ resp'[w].stale = resp[w].stale /\ resp'[w].all_ok = resp[w].all_ok
        /\ resp'[w].epms = resp[w].epms
    BY <1>9 DEF ReadActive, Reply, TypeOK, WebTypeOK, Responses
  <2> QED BY <1>1, <1>2, <1>3, <2>1 DEF TooOld
<1>10. CASE ReadEpmsAgain(w)
  <2>1. /\ refs' = refs /\ heap' = heap /\ kind' = kind /\ rPc[w] = "okEpms"
        /\ rPc'[w] = IF heap[refs[w]].poll_success THEN "okActive" ELSE "done"
        /\ resp'[w].stale = resp[w].stale /\ resp'[w].epms = resp[w].epms
        /\ resp'[w].all_ok = heap[refs[w]].poll_success
    BY <1>10 DEF ReadEpmsAgain, Reply, TypeOK, WebTypeOK, Responses
  <2> QED BY <1>1, <1>2, <1>3, <2>1 DEF TooOld
<1>11. CASE ReadActiveAgain(w)
  <2>1. /\ refs' = refs /\ heap' = heap /\ kind' = kind
        /\ rPc[w] = "okActive" /\ rPc'[w] = "done"
        /\ resp'[w].stale = resp[w].stale /\ resp'[w].epms = resp[w].epms
        /\ resp'[w].all_ok = (Listening /\ ~resp[w].stale)
    BY <1>11 DEF ReadActiveAgain, Reply, TypeOK, WebTypeOK, Responses
  <2> QED BY <1>1, <1>2, <1>3, <2>1 DEF TooOld
<1> QED BY <1>4, <1>5, <1>6, <1>7, <1>8, <1>9, <1>10, <1>11 DEF WebNext

\* A request that did not move relies on its own object and answers only.
LEMMA OtherInv ==
    ASSUME TypeOK, StatusInv, History, NEW w \in Requests, WebNext(w),
           NEW q \in Requests \ {w}
    PROVE  RequestInv(q)'
<1> USE RequestsAssumption
<1>1. /\ refs'[q] = refs[q] /\ current' = current
      /\ refs[q] # None => heap'[refs[q]] = heap[refs[q]]
      /\ rPc'[q] = rPc[q] /\ kind'[q] = kind[q] /\ resp'[q] = resp[q]
  BY OthersKept
<1>2. RequestInv(q)
  BY DEF StatusInv, ObjectsHeld, EpmsAnswer, GreenSeen, StaleAnswer, RequestInv
<1> USE DEF RequestInv, Holding, StaleRead, EpmsRead, TooOld
<1>3. CASE ~Holding(q)
  BY <1>1, <1>2, <1>3
<1>4. CASE Holding(q)
  <2>1. sawGreen[q] => sawGreen'[q]
    BY <1>1, <1>4, Remembers
  <2> QED BY <1>1, <1>2, <1>4, <2>1
<1> QED BY <1>3, <1>4

LEMMA WebInv ==
    ASSUME TypeOK, StatusInv, NEW w \in Requests, WebNext(w), History
    PROVE  StatusInv'
<1>1. HeldIsOlder'
  <2>1. ASSUME NEW r \in Readers, refs'[r] # None
        PROVE  \/ refs'[r] = refs[r] /\ heap'[refs'[r]] = heap[refs[r]]
               \/ refs'[r] = current
    BY <2>1, OthersKept
  <2>2. current' = current /\ heap'[current] = heap[current]
    BY OthersKept
  <2> QED BY <2>1, <2>2, Ages, StoreAssumption DEF StatusInv, HeldIsOlder, Never
<1>2. ASSUME NEW q \in Requests
      PROVE  RequestInv(q)'
  BY MoverInv, OtherInv
<1> QED
  BY <1>1, <1>2
  DEF StatusInv, ObjectsHeld, EpmsAnswer, GreenSeen, StaleAnswer, RequestInv

LEMMA StepInv ==
    ASSUME TypeOK, StatusInv, [Next]_vars
    PROVE  StatusInv'
<1>1. CASE Next
  <2>1. CASE Web
    BY <1>1, <2>1, WebInv DEF Next, Web
  <2> QED BY <1>1, <2>1, PollerInv, ClockInv, ElsewhereInv DEF Next
<1>2. CASE UNCHANGED vars
  BY <1>2 DEF vars, StatusInv, ObjectsHeld, HeldIsOlder, EpmsAnswer, GreenSeen,
              StaleAnswer, Holding, StaleRead, EpmsRead, TooOld
<1> QED BY <1>1, <1>2

-----------------------------------------------------------------------------
(* The theorems.                                                           *)

\* The variables keep their types, and the four kinds of fact about what a
\* request holds and has answered are kept by every step.
THEOREM StatusInvariant == Spec => [](TypeOK /\ StatusInv)
<1>1. Init => TypeOK /\ StatusInv
  BY InitType, InitInv
<1>2. TypeOK /\ StatusInv /\ [Next]_vars => (TypeOK /\ StatusInv)'
  BY StepType, StepInv DEF StatusInv
<1> QED BY <1>1, <1>2, PTL DEF Spec

\* Objects, the poller, the socket and every request stay within their types.
THEOREM TypeCorrect == Spec => []TypeOK
BY StatusInvariant, PTL

\* all_ok is never sent with epms_connected false (web_ui.py:430-461).
THEOREM AllOkConnected == Spec => []AllOkShowsConnected
<1>1. StatusInv => AllOkShowsConnected
  BY DEF StatusInv, EpmsAnswer, AllOkShowsConnected
<1> QED BY <1>1, StatusInvariant, PTL

\* all_ok is only sent if the EPMS side was green at one moment of the request.
THEOREM AllOkGreen == Spec => []AllOkWasGreen
<1>1. StatusInv => AllOkWasGreen
  BY DEF StatusInv, GreenSeen, AllOkWasGreen
<1> QED BY <1>1, StatusInvariant, PTL

\* data_stale is only sent with values that are too old.
THEOREM StaleWarningTrue == Spec => []StaleWarningIsTrue
<1>1. StatusInv => StaleWarningIsTrue
  BY DEF StatusInv, StaleAnswer, StaleRead, StaleWarningIsTrue
<1> QED BY <1>1, StatusInvariant, PTL

LEMMA SuccessStep ==
    ASSUME TypeOK, [Next]_vars, NEW o \in Objects,
           Held(o, current, refs), Held(o, current', refs'), heap'[o].poll_success
    PROVE  heap[o].poll_success
<1>1. CASE Poller
  <2>1. CASE Publish
    <3>1. PICK x \in Objects : Update(sample)!(x)
      BY <2>1 DEF Publish, Update
    <3>2. heap'[o] = heap[o]
      BY <3>1 DEF Collected, TypeOK, StoreTypeOK, Held
    <3> QED BY <3>2
  <2>2. CASE ConnectFailed \/ ReadFailed
    BY <2>2, MarkHeld DEF ConnectFailed, ReadFailed, TypeOK
  <2>3. CASE ~(Publish \/ ConnectFailed \/ ReadFailed)
    BY <1>1, <2>3
       DEF Poller, PollerNext, PollerStarts, LoopTest, ProbeClient, ProbeSocket, Goto,
           NewClient, Connect, ReadInputs, ReadInputsFails, ReadCommand,
           ReadCommandErrs, ReadCommandRaises, Disconnect, CheckStale, Wake
  <2> QED BY <2>1, <2>2, <2>3
<1>2. CASE Web
  <2>1. PICK w \in Requests : WebNext(w)
    BY <1>2 DEF Web
  <2>2. CASE Respond(w)
    <3>1. heap' = Collected(heap, current, refs') /\ current' = current
      BY <2>2 DEF Respond, Release
    <3> QED BY <3>1 DEF Collected
  <2>3. CASE ~Respond(w)
    BY <2>1, <2>3 DEF WebNext, Request, ReadStore, Get, ReadStale, ReadEpms, ReadActive,
                      ReadEpmsAgain, ReadActiveAgain, Reply
  <2> QED BY <2>2, <2>3
<1>3. CASE Clock
  BY <1>3, AgeHeld DEF Clock, TypeOK
<1>4. CASE Server \/ Site \/ UNCHANGED vars
  BY <1>4 DEF Server, Site, storeVars, vars
<1> QED BY <1>1, <1>2, <1>3, <1>4 DEF Next

\* An object that somebody holds never turns from failed back to successful.
THEOREM SuccessDrops == Spec => SuccessOnlyDrops
<1>1. TypeOK /\ [Next]_vars
        => [\A o \in Objects :
              Held(o, current, refs) /\ Held(o, current', refs') /\ heap'[o].poll_success
                => heap[o].poll_success]_vars
  BY SuccessStep
<1> QED BY <1>1, StatusInvariant, PTL DEF Spec, SuccessOnlyDrops
=============================================================================
