-------------------------- MODULE PolledData_proofs --------------------------
(***************************************************************************)
(* Proofs about the data of the Modbus poller: how old it is (CycleTimes), *)
(* for any intervals and timeouts, and what its numbers mean               *)
(* (RegisterMap), for the words of 16 bits that the code has.              *)
(***************************************************************************)
EXTENDS CycleTimes, RegisterMap, TLAPS

-----------------------------------------------------------------------------
(* Type correctness.                                                       *)

Phases == {"connect", "first", "second", "sleep", "retry"}

LEMMA MostIsNat == ASSUME NEW p \in Phases PROVE Most(p) \in Nat
BY TimesAssumption DEF Phases, Most

LEMMA LaterIs ==
    ASSUME NEW t \in 0..Cap
    PROVE  Later(t) \in 0..Cap /\ t <= Later(t) /\ Later(t) <= t + 1
BY TimesAssumption DEF Later

LEMMA LaterKeepsOrder ==
    ASSUME NEW s \in 0..Cap, NEW t \in 0..Cap, s <= t
    PROVE  Later(s) <= Later(t)
BY TimesAssumption DEF Later

LEMMA LaterKeepsLag ==
    ASSUME NEW s \in 0..Cap, NEW t \in 0..Cap, NEW d \in Nat, s <= t + d
    PROVE  Later(s) <= Later(t) + d
BY TimesAssumption DEF Later

LEMMA InitType == Init => TypeOK
<1> SUFFICES ASSUME Init PROVE TypeOK
  OBVIOUS
<1>1. ConnectMax \in Nat /\ Cap \in Nat /\ MaxJump \in Nat /\ Refresh \in Nat
  BY TimesAssumption
<1>2. left \in 0..Most(phase)
  BY <1>1 DEF Init, Most
<1>3. since \in 0..Cap /\ age \in 0..Cap /\ steady \in 0..Cap /\ served \in 0..Cap
  BY <1>1 DEF Init
<1>4. drift \in -MaxJump..MaxJump /\ setBack \in 0..MaxJump /\ wake \in 0..Refresh
  BY <1>1 DEF Init
<1> QED BY <1>2, <1>3, <1>4 DEF Init, TypeOK

LEMMA StepType == TypeOK /\ [Next]_vars => TypeOK'
<1> SUFFICES ASSUME TypeOK, [Next]_vars PROVE TypeOK'
  OBVIOUS
<1>1. /\ PollInterval \in Nat /\ RetryDelay \in Nat /\ ConnectMax \in Nat /\ PassMax \in Nat
      /\ Refresh \in Nat /\ MaxJump \in Nat /\ Cap \in Nat
  BY TimesAssumption
<1>2. CASE Tick
  <2>1. left' \in 0..Most(phase) /\ wake' \in 0..Refresh
    BY <1>1, <1>2, MostIsNat DEF Tick, TypeOK, Phases
  <2>2. since' \in 0..Cap /\ age' \in 0..Cap /\ served' \in 0..Cap /\ steady' \in 0..Cap
    BY <1>2, LaterIs DEF Tick, TypeOK
  <2>3. lead' \in Nat /\ lag' \in Nat
    BY <1>2 DEF Tick, TypeOK
  <2> QED BY <1>2, <2>1, <2>2, <2>3 DEF Tick, TypeOK
<1>3. CASE LinkFails \/ LinkRecovers
  <2>1. /\ UNCHANGED <<phase, left, connected, lead, age, lag, success, drift, setBack, steady,
                        served, wake>>
        /\ link' \in {"ok", "down"} /\ since' = 0
    BY <1>3 DEF LinkFails, LinkRecovers, pollVars, dataVars, clockVars, tableVars
  <2>2. hurt' \in BOOLEAN
    BY <1>3 DEF LinkFails, LinkRecovers, pollVars, TypeOK
  <2>3. 0 \in 0..Cap
    BY <1>1
  <2> QED BY <2>1, <2>2, <2>3 DEF TypeOK
<1>4. CASE ClockIsSet
  <2>1. PICK d \in -MaxJump..MaxJump :
          /\ d # 0 /\ Magnitude(drift + d) <= MaxJump /\ drift' = drift + d
          /\ setBack' = IF d < 0 /\ setBack - d <= MaxJump THEN setBack - d
                        ELSE IF d < 0 THEN MaxJump ELSE setBack
    BY <1>4 DEF ClockIsSet
  <2>2. drift \in Int /\ d \in Int /\ setBack \in 0..MaxJump
    BY <1>1, <2>1 DEF TypeOK
  <2>3. drift' \in -MaxJump..MaxJump
    BY <1>1, <2>1, <2>2 DEF Magnitude
  <2>4. setBack' \in 0..MaxJump
    BY <1>1, <2>1, <2>2
  <2>5. steady' \in 0..Cap
    BY <1>1, <1>4 DEF ClockIsSet
  <2> QED BY <1>4, <2>3, <2>4, <2>5 DEF ClockIsSet, TypeOK, pollVars, dataVars, tableVars
<1>5. ASSUME Poller PROVE TypeOK'
  <2>1. ASSUME NEW p \in Phases, Begin(p, Most(p))
        PROVE  phase' \in Phases /\ left' \in 0..Most(phase') /\ hurt' \in BOOLEAN
    BY <2>1, MostIsNat DEF Begin
  <2>2. /\ Most("connect") = ConnectMax /\ Most("first") = PassMax /\ Most("second") = PassMax
        /\ Most("sleep") = PollInterval /\ Most("retry") = RetryDelay
    BY DEF Most
  <2>3. \E p \in Phases : Begin(p, Most(p))
    BY <1>5, <2>2 DEF Poller, ConnectSucceeds, ConnectFails, InputsRead, ReadSucceeds, ReadFails, Wakes, Phases
  <2>4. phase' \in Phases /\ left' \in 0..Most(phase') /\ hurt' \in BOOLEAN
    BY <2>1, <2>3
  <2>5. 0 \in 0..Cap /\ 0 \in -MaxJump..MaxJump /\ 0 \in 0..MaxJump
    BY <1>1
  <2>6. /\ connected' \in BOOLEAN /\ success' \in BOOLEAN /\ age' \in 0..Cap
        /\ drift' \in -MaxJump..MaxJump /\ setBack' \in 0..MaxJump /\ steady' \in 0..Cap
        /\ UNCHANGED <<link, since, served, wake>>
    BY <1>5, <2>5 DEF Poller, ConnectSucceeds, ConnectFails, InputsRead, ReadSucceeds, ReadFails, Wakes, TypeOK,
                      dataVars, clockVars, tableVars
  <2>7. lead' \in Nat /\ lag' \in Nat
    BY <1>5 DEF Poller, ConnectSucceeds, ConnectFails, InputsRead, ReadSucceeds, ReadFails, Wakes,
                Begin, TypeOK, dataVars
  <2> QED BY <2>4, <2>6, <2>7 DEF TypeOK, Phases
<1>6. CASE TableRefreshes
  <2>1. wake' \in 0..Refresh /\ served' \in 0..Cap
    BY <1>1, <1>6 DEF TableRefreshes, ReadingAge, TypeOK
  <2> QED BY <1>6, <2>1 DEF TableRefreshes, TypeOK, pollVars, dataVars, clockVars
<1>7. CASE UNCHANGED vars
  BY <1>7 DEF vars, pollVars, dataVars, clockVars, tableVars, TypeOK
<1> QED BY <1>2, <1>3, <1>4, <1>5, <1>6, <1>7 DEF Next

\* Type correctness, and no phase of the polling thread outlasts its timeout.
THEOREM TypeCorrect == Spec => []TypeOK
BY InitType, StepType, PTL DEF Spec

-----------------------------------------------------------------------------
(* The invariant behind the properties, in named parts.                    *)

\* Success comes with a connection, and a dead link hurts the call under way.
LinkInv ==
    /\ phase \in {"connect", "retry"} => ~connected
    /\ phase \in {"first", "second"} => connected
    /\ success => connected
    /\ link = "down" => hurt

\* While the link is down the second pass under way is the last that may succeed.
LossInv ==
    link = "down" =>
        /\ since <= age + PassMax
        /\ phase = "second"            => since + left <= PassMax
        /\ success /\ phase = "sleep" => since + left <= PollInterval + PassMax
        /\ success /\ phase = "first" => since + left <= CycleTime

\* The latest that phase p ends after the link came back, if the data is not
\* fresh by then; a call that is hurt may still fail.
Latest(p, isHurt) ==
    CASE p = "connect" /\ isHurt  -> RecoveryTime - (RetryDelay + ConnectMax + ReadingTime)
      [] p = "connect" /\ ~isHurt -> RecoveryTime - ReadingTime
      [] p \in {"first", "second"} /\ isHurt -> RecoveryTime - (PollInterval + ConnectMax + ReadingTime)
      [] p = "first" /\ ~isHurt    -> RecoveryTime - PassMax
      [] p = "second" /\ ~isHurt   -> RecoveryTime
      [] p \in {"sleep", "retry"} -> RecoveryTime - (ConnectMax + ReadingTime)

\* The data is fresh, and the next data will be there in time.
Good ==
    /\ success
    /\ \/ phase = "sleep" /\ age + left <= PollInterval
       \/ phase = "first" /\ ~hurt /\ age + left <= PollInterval + PassMax
       \/ phase = "second" /\ ~hurt /\ age + left <= CycleTime

RecoveryInv ==
    link = "ok" => Good \/ since + left <= Latest(phase, hurt)

TableInv ==
    link = "ok" => \/ served + wake <= CycleTime + ReadingTime + Refresh
                   \/ since + wake <= RecoveryTime + Refresh

\* The clock differs from last_update's only if it was set since.
ClockInv ==
    /\ drift # 0 => age >= steady
    /\ drift + setBack >= 0

\* A poll's values are at most two passes old when it publishes them.
LeadInv ==
    /\ phase = "first"  => lead + left <= PassMax
    /\ phase = "second" => lead + left <= ReadingTime
    /\ lag <= ReadingTime

TimeInv == LinkInv /\ LossInv /\ RecoveryInv /\ TableInv /\ ClockInv

LEMMA TimesAre ==
    /\ PollInterval \in Nat /\ RetryDelay \in Nat /\ ConnectMax \in Nat /\ PassMax \in Nat
    /\ Refresh \in Nat /\ MaxJump \in Nat /\ Cap \in Nat /\ StaleTimeout \in Nat
    /\ ReadingTime \in Nat /\ ReadingTime = PassMax + PassMax
    /\ CycleTime = PollInterval + ReadingTime
    /\ RecoveryTime >= PassMax + PollInterval + ConnectMax + ReadingTime
    /\ RecoveryTime >= ConnectMax + RetryDelay + ConnectMax + ReadingTime
    /\ RecoveryTime \in Nat
BY TimesAssumption DEF CycleTime, RecoveryTime, Longer, ReadingTime

LEMMA TimesStay ==
    CycleTime' = CycleTime /\ RecoveryTime' = RecoveryTime /\ ReadingTime' = ReadingTime
BY DEF CycleTime, RecoveryTime, ReadingTime, Longer

LEMMA ClocksAre ==
    ASSUME TypeOK
    PROVE  /\ left \in Nat /\ left <= Most(phase) /\ since \in Nat /\ age \in Nat /\ steady \in Nat
           /\ lead \in Nat /\ lag \in Nat
           /\ served \in Nat /\ wake \in Nat /\ wake <= Refresh /\ drift \in Int /\ setBack \in Nat
           /\ hurt \in BOOLEAN /\ connected \in BOOLEAN /\ success \in BOOLEAN
           /\ phase \in Phases /\ link \in {"ok", "down"}
BY MostIsNat, TimesAssumption DEF TypeOK, Phases

LEMMA LatestIsInt ==
    ASSUME NEW p \in Phases, NEW h \in BOOLEAN
    PROVE  Latest(p, h) \in Int
BY TimesAre DEF Latest, Phases

LEMMA TimeInit == Init => TimeInv
<1> SUFFICES ASSUME Init PROVE TimeInv
  OBVIOUS
<1>1. LinkInv
  BY TimesAre DEF Init, LinkInv
<1>2. LossInv
  BY TimesAre DEF Init, LossInv
<1>3. RecoveryInv
  <2>1. Latest("connect", FALSE) = RecoveryTime - ReadingTime
    BY DEF Latest
  <2>2. 0 + ConnectMax <= RecoveryTime - ReadingTime
    BY TimesAre
  <2> QED BY <2>1, <2>2, Zenon DEF Init, RecoveryInv
<1>4. TableInv
  BY TimesAre DEF Init, TableInv
<1>5. ClockInv
  BY DEF Init, ClockInv
<1> QED BY <1>1, <1>2, <1>3, <1>4, <1>5 DEF TimeInv

\* A count that goes up by one at most, and one that goes down, have a sum that
\* does not grow.
LEMMA SumStays ==
    ASSUME NEW a \in Int, NEW b \in Int, NEW a2 \in Int, NEW b2 \in Int,
           a2 <= a + 1, b2 <= b - 1
    PROVE  \A d \in Int : a + b <= d => a2 + b2 <= d
OBVIOUS

LEMMA TickStep == TypeOK /\ TypeOK' /\ TimeInv /\ Tick => TimeInv'
<1> SUFFICES ASSUME TypeOK, TypeOK', TimeInv, Tick PROVE TimeInv'
  OBVIOUS
<1>1. UNCHANGED <<phase, connected, hurt, link, success, drift, setBack>>
  BY DEF Tick
<1>2. /\ since' <= since + 1 /\ age' <= age + 1 /\ served' <= served + 1 /\ age <= age'
      /\ (since <= age + PassMax => since' <= age' + PassMax) /\ (age >= steady => age' >= steady')
  <2>1. since <= age + PassMax => Later(since) <= Later(age) + PassMax
    BY LaterKeepsLag, TimesAre DEF TypeOK
  <2>2. since' = Later(since) /\ age' = Later(age)
    BY DEF Tick
  <2>3. since <= age + PassMax => since' <= age' + PassMax
    BY <2>1, <2>2, Zenon
  <2>4. /\ since' <= since + 1 /\ age' <= age + 1 /\ served' <= served + 1 /\ age <= age'
        /\ (age >= steady => age' >= steady')
    BY LaterIs, LaterKeepsOrder DEF Tick, TypeOK
  <2> QED BY <2>3, <2>4, Zenon
<1>3. /\ left \in Int /\ since \in Int /\ age \in Int /\ served \in Int /\ wake \in Int
      /\ left' \in Int /\ since' \in Int /\ age' \in Int /\ served' \in Int /\ wake' \in Int
  <2>1. left' = left - 1 /\ wake' = wake - 1
    BY DEF Tick
  <2> QED BY ClocksAre, <2>1 DEF TypeOK
<1>4. left' <= left - 1 /\ wake' <= wake - 1
  BY <1>3 DEF Tick
<1>5. /\ PollInterval \in Int /\ PassMax \in Int /\ PollInterval + PassMax \in Int /\ CycleTime \in Int /\ RecoveryTime \in Int
      /\ CycleTime + ReadingTime + Refresh \in Int /\ RecoveryTime + Refresh \in Int
  BY TimesAre
<1>6. LinkInv' /\ ClockInv'
  BY <1>1, <1>2 DEF TimeInv, LinkInv, ClockInv
<1>7. \A d \in Int : since + left <= d => since' + left' <= d
  <2>1. /\ since' <= since + 1 /\ left' <= left - 1
        /\ since \in Int /\ since' \in Int /\ left \in Int /\ left' \in Int
    BY <1>2, <1>3, <1>4
  <2> QED BY <2>1, SumStays, Zenon
<1>8. \A d \in Int : age + left <= d => age' + left' <= d
  <2>1. /\ age' <= age + 1 /\ left' <= left - 1
        /\ age \in Int /\ age' \in Int /\ left \in Int /\ left' \in Int
    BY <1>2, <1>3, <1>4
  <2> QED BY <2>1, SumStays, Zenon
<1>9. LossInv'
  <2>1. since <= age + PassMax => since' <= age' + PassMax
    BY <1>2
  <2> QED BY <1>1, <1>5, <1>7, <2>1, TimesStay, Zenon DEF TimeInv, LossInv
<1>10. RecoveryInv'
  <2>1. Good => Good'
    BY <1>1, <1>5, <1>8, TimesStay, Zenon DEF Good
  <2>2. Latest(phase, hurt) \in Int
    BY ClocksAre, LatestIsInt
  <2>3. Latest(phase, hurt)' = Latest(phase, hurt)
    BY <1>1, TimesStay DEF Latest
  <2> QED BY <1>1, <1>7, <2>1, <2>2, <2>3, Zenon DEF TimeInv, RecoveryInv
<1>11. TableInv'
  <2>1. \A d \in Int : served + wake <= d => served' + wake' <= d
    <3>1. /\ served' <= served + 1 /\ wake' <= wake - 1
          /\ served \in Int /\ served' \in Int /\ wake \in Int /\ wake' \in Int
      BY <1>2, <1>3, <1>4
    <3> QED BY <3>1, SumStays, Zenon
  <2>2. \A d \in Int : since + wake <= d => since' + wake' <= d
    <3>1. /\ since' <= since + 1 /\ wake' <= wake - 1
          /\ since \in Int /\ since' \in Int /\ wake \in Int /\ wake' \in Int
      BY <1>2, <1>3, <1>4
    <3> QED BY <3>1, SumStays, Zenon
  <2> QED BY <1>1, <1>5, <2>1, <2>2, TimesStay, Zenon DEF TimeInv, TableInv
<1> QED BY <1>6, <1>9, <1>10, <1>11 DEF TimeInv

LEMMA LatestIs ==
    /\ Latest("connect", TRUE)  = RecoveryTime - (RetryDelay + ConnectMax + ReadingTime)
    /\ Latest("connect", FALSE) = RecoveryTime - ReadingTime
    /\ \A p \in {"first", "second"} :
          Latest(p, TRUE)       = RecoveryTime - (PollInterval + ConnectMax + ReadingTime)
    /\ Latest("first", FALSE)   = RecoveryTime - PassMax
    /\ Latest("second", FALSE)  = RecoveryTime
    /\ \A h : /\ Latest("sleep", h) = RecoveryTime - (ConnectMax + ReadingTime)
              /\ Latest("retry", h) = RecoveryTime - (ConnectMax + ReadingTime)
<1>1. \A h : /\ Latest("sleep", h) = RecoveryTime - (ConnectMax + ReadingTime)
             /\ Latest("retry", h) = RecoveryTime - (ConnectMax + ReadingTime)
  BY DEF Latest
<1>2. /\ Latest("connect", TRUE) = RecoveryTime - (RetryDelay + ConnectMax + ReadingTime)
      /\ Latest("connect", FALSE) = RecoveryTime - ReadingTime
  BY DEF Latest
<1>3. \A p \in {"first", "second"} :
          Latest(p, TRUE) = RecoveryTime - (PollInterval + ConnectMax + ReadingTime)
  BY DEF Latest
<1>4. Latest("first", FALSE) = RecoveryTime - PassMax /\ Latest("second", FALSE) = RecoveryTime
  BY DEF Latest
<1> QED BY <1>1, <1>2, <1>3, <1>4

LEMMA LatestLate ==
    ASSUME NEW p \in Phases, NEW h \in BOOLEAN
    PROVE  Most(p) <= Latest(p, h) /\ Latest(p, h) <= RecoveryTime
<1>1. /\ Most("connect") = ConnectMax /\ Most("first") = PassMax /\ Most("second") = PassMax
      /\ Most("sleep") = PollInterval /\ Most("retry") = RetryDelay
  BY DEF Most
<1>2. Most("connect") <= Latest("connect", TRUE) /\ Latest("connect", TRUE) <= RecoveryTime
  <2>1. ConnectMax <= RecoveryTime - (RetryDelay + ConnectMax + ReadingTime) /\ RecoveryTime - (RetryDelay + ConnectMax + ReadingTime) <= RecoveryTime
    BY TimesAre
  <2> QED BY <1>1, <2>1, LatestIs, Zenon
<1>3. Most("connect") <= Latest("connect", FALSE) /\ Latest("connect", FALSE) <= RecoveryTime
  <2>1. ConnectMax <= RecoveryTime - ReadingTime /\ RecoveryTime - ReadingTime <= RecoveryTime
    BY TimesAre
  <2> QED BY <1>1, <2>1, LatestIs, Zenon
<1>4. /\ Most("first") <= Latest("first", TRUE) /\ Latest("first", TRUE) <= RecoveryTime
      /\ Most("second") <= Latest("second", TRUE) /\ Latest("second", TRUE) <= RecoveryTime
  <2>1. /\ PassMax <= RecoveryTime - (PollInterval + ConnectMax + ReadingTime)
        /\ RecoveryTime - (PollInterval + ConnectMax + ReadingTime) <= RecoveryTime
    BY TimesAre
  <2> QED BY <1>1, <2>1, LatestIs, Zenon
<1>5. /\ Most("first") <= Latest("first", FALSE) /\ Latest("first", FALSE) <= RecoveryTime
      /\ Most("second") <= Latest("second", FALSE) /\ Latest("second", FALSE) <= RecoveryTime
  <2>1. /\ PassMax <= RecoveryTime - PassMax /\ RecoveryTime - PassMax <= RecoveryTime
        /\ PassMax <= RecoveryTime /\ RecoveryTime <= RecoveryTime
    BY TimesAre
  <2> QED BY <1>1, <2>1, LatestIs, Zenon
<1>6. /\ Most("sleep") <= Latest("sleep", h) /\ Latest("sleep", h) <= RecoveryTime
      /\ Most("retry") <= Latest("retry", h) /\ Latest("retry", h) <= RecoveryTime
  <2>1. /\ PollInterval <= RecoveryTime - (ConnectMax + ReadingTime)
        /\ RetryDelay <= RecoveryTime - (ConnectMax + ReadingTime)
        /\ RecoveryTime - (ConnectMax + ReadingTime) <= RecoveryTime
    BY TimesAre
  <2> QED BY <1>1, <2>1, LatestIs, Zenon
<1>7. h = TRUE \/ h = FALSE
  OBVIOUS
<1> QED BY <1>2, <1>3, <1>4, <1>5, <1>6, <1>7, Zenon DEF Phases

LEMMA RecoveryNext ==
    RecoveryInv' <=> (link' = "ok" => Good' \/ since' + left' <= Latest(phase', hurt'))
BY TimesStay DEF RecoveryInv, Latest

LEMMA TableNext ==
    TableInv' <=> (link' = "ok" => \/ served' + wake' <= CycleTime + ReadingTime + Refresh
                                   \/ since' + wake' <= RecoveryTime + Refresh)
BY TimesStay DEF TableInv

LEMMA LeadStep == TypeOK /\ LeadInv /\ [Next]_vars => LeadInv'
<1> SUFFICES ASSUME TypeOK, LeadInv, [Next]_vars PROVE LeadInv'
  OBVIOUS
<1>1. left \in Nat /\ lead \in Nat /\ lag \in Nat /\ PassMax \in Nat /\ ReadingTime = PassMax + PassMax
  BY ClocksAre, TimesAre
<1>2. CASE Tick
  BY <1>1, <1>2, TimesStay DEF Tick, LeadInv
<1>3. CASE LinkFails \/ LinkRecovers \/ ClockIsSet \/ TableRefreshes \/ UNCHANGED vars
  <2>1. UNCHANGED <<phase, left, lead, lag>>
    BY <1>3 DEF LinkFails, LinkRecovers, ClockIsSet, TableRefreshes, vars, pollVars, dataVars
  <2> QED BY <2>1, TimesStay DEF LeadInv
<1>4. CASE ReadSucceeds
  <2>1. phase' = "sleep" /\ lag' = lead /\ phase = "second"
    BY <1>4 DEF ReadSucceeds, Begin
  <2> QED BY <1>1, <2>1, TimesStay DEF LeadInv
<1>5. CASE InputsRead
  <2>1. /\ phase = "first" /\ phase' = "second" /\ left' = PassMax
        /\ lead' = lead /\ lag' = lag
    BY <1>5 DEF InputsRead, Begin, dataVars
  <2> QED BY <1>1, <2>1, TimesStay DEF LeadInv
<1>6. CASE ConnectSucceeds \/ ConnectFails \/ ReadFails \/ Wakes
  <2>1. /\ phase' # "second" /\ lag' = lag /\ lead' = 0
        /\ phase' = "first" => left' = PassMax
    BY <1>6 DEF ConnectSucceeds, ConnectFails, ReadFails, Wakes, Begin, dataVars
  <2> QED BY <1>1, <2>1, TimesStay DEF LeadInv
<1> QED BY <1>2, <1>3, <1>4, <1>5, <1>6 DEF Next, Poller

\* No poll is under way with its values for longer than two passes.
THEOREM LeadInvariant == Spec => []LeadInv
<1>1. Init => LeadInv
  BY TimesAre DEF Init, LeadInv
<1> QED BY <1>1, LeadStep, TypeCorrect, PTL DEF Spec

LEMMA ReadingAgeIs ==
    ASSUME TypeOK, LeadInv
    PROVE  ReadingAge \in Nat /\ ReadingAge <= age + ReadingTime
<1>1. age \in Nat /\ lag \in Nat /\ ReadingTime \in Nat /\ Cap \in Nat /\ lag <= ReadingTime
  BY ClocksAre, TimesAre DEF LeadInv
<1> QED BY <1>1 DEF ReadingAge

LEMMA LinkStep == TypeOK /\ TimeInv /\ (LinkFails \/ LinkRecovers) => TimeInv'
<1> SUFFICES ASSUME TypeOK, TimeInv, LinkFails \/ LinkRecovers PROVE TimeInv'
  OBVIOUS
<1>1. /\ UNCHANGED <<phase, left, connected, age, success, drift, setBack, steady, served, wake>>
      /\ since' = 0
  BY DEF LinkFails, LinkRecovers, pollVars, dataVars, clockVars, tableVars
<1>2. ClockInv'
  BY <1>1 DEF TimeInv, ClockInv
<1>3. left <= Most(phase) /\ 0 <= age + PassMax /\ left \in Int /\ wake \in Int /\ wake <= Refresh 
  BY ClocksAre, TimesAre
<1>4. CASE LinkFails
  <2>1. hurt' = TRUE /\ link' = "down"
    BY <1>4 DEF LinkFails
  <2>2. LinkInv'
    BY <1>1, <2>1 DEF TimeInv, LinkInv
  <2>3. /\ phase = "second" => 0 + left <= PassMax
        /\ phase = "sleep" => 0 + left <= PollInterval + PassMax
        /\ phase = "first" => 0 + left <= CycleTime
    BY <1>3, TimesAre DEF Most
  <2>4. LossInv'
    BY <1>1, <1>3, <2>3, TimesStay, Zenon DEF LossInv
  <2> QED BY <1>2, <2>1, <2>2, <2>4 DEF TimeInv, RecoveryInv, TableInv
<1>5. CASE LinkRecovers
  <2>1. hurt' = hurt /\ link' = "ok"
    BY <1>5 DEF LinkRecovers, pollVars
  <2>2. LinkInv' /\ LossInv'
    BY <1>1, <2>1 DEF TimeInv, LinkInv, LossInv
  <2>3. /\ Most(phase) <= Latest(phase, hurt) 
        /\ Latest(phase, hurt) \in Int /\ Most(phase) \in Int
    BY ClocksAre, LatestLate, LatestIsInt, MostIsNat
  <2>4. 0 + left <= Latest(phase, hurt)
    BY <1>3, <2>3
  <2>5. RecoveryInv'
    BY <1>1, <2>1, <2>4, RecoveryNext, Zenon
  <2>6. 0 + wake <= RecoveryTime + Refresh
    BY <1>3, TimesAre
  <2>7. TableInv'
    BY <1>1, <2>6, TableNext, Zenon
  <2> QED BY <1>2, <2>2, <2>5, <2>7 DEF TimeInv
<1> QED BY <1>4, <1>5

LEMMA ClockStep == TypeOK /\ TimeInv /\ ClockIsSet => TimeInv'
<1> SUFFICES ASSUME TypeOK, TimeInv, ClockIsSet PROVE TimeInv'
  OBVIOUS
<1>1. /\ UNCHANGED <<phase, left, connected, hurt, link, since, age, success, served, wake>>
      /\ steady' = 0
  BY DEF ClockIsSet, pollVars, dataVars, tableVars
<1>2. LinkInv' /\ LossInv' 
  BY <1>1, TimesStay DEF TimeInv, LinkInv, LossInv
<1>3. RecoveryInv' /\ TableInv'
  BY <1>1, TimesStay, RecoveryNext, TableNext DEF TimeInv, RecoveryInv, TableInv, Good
<1>4. ClockInv'
  <2>1. PICK d \in -MaxJump..MaxJump :
          /\ d # 0 /\ Magnitude(drift + d) <= MaxJump /\ drift' = drift + d
          /\ setBack' = IF d < 0 /\ setBack - d <= MaxJump THEN setBack - d
                        ELSE IF d < 0 THEN MaxJump ELSE setBack
    BY DEF ClockIsSet
  <2>2. drift \in Int /\ d \in Int /\ setBack \in Int /\ age \in Nat /\ MaxJump \in Nat
    BY <2>1, ClocksAre, TimesAre
  <2>3. drift + setBack >= 0
    BY DEF TimeInv, ClockInv
  <2>4. drift + d + MaxJump >= 0
    BY <2>1, <2>2 DEF Magnitude
  <2>5. CASE d < 0 /\ setBack - d <= MaxJump
    <3>1. drift' = drift + d /\ setBack' = setBack - d
      BY <2>1, <2>5
    <3>2. (drift + d) + (setBack - d) >= 0
      BY <2>2, <2>3
    <3>3. drift' + setBack' >= 0
      BY <3>1, <3>2, Zenon
    <3> QED BY <1>1, <2>2, <3>3 DEF ClockInv
  <2>6. CASE d < 0 /\ ~(setBack - d <= MaxJump)
    <3>1. drift' = drift + d /\ setBack' = MaxJump
      BY <2>1, <2>6
    <3>2. drift' + setBack' >= 0
      BY <3>1, <2>4, Zenon
    <3> QED BY <1>1, <2>2, <3>2 DEF ClockInv
  <2>7. CASE ~(d < 0)
    <3>1. drift' = drift + d /\ setBack' = setBack
      BY <2>1, <2>7
    <3>2. (drift + d) + setBack >= 0
      BY <2>2, <2>3, <2>7
    <3>3. drift' + setBack' >= 0
      BY <3>1, <3>2, Zenon
    <3> QED BY <1>1, <2>2, <3>3 DEF ClockInv
  <2> QED BY <2>5, <2>6, <2>7
<1> QED BY <1>2, <1>3, <1>4 DEF TimeInv

LEMMA PollerStep == TypeOK /\ TimeInv /\ Poller => TimeInv'
<1> SUFFICES ASSUME TypeOK, TimeInv, Poller PROVE TimeInv'
  OBVIOUS
<1>1. UNCHANGED <<link, since, steady, served, wake>>
  BY DEF Poller, ConnectSucceeds, ConnectFails, InputsRead, ReadSucceeds, ReadFails, Wakes, clockVars, tableVars
<1>2. TableInv'
  BY <1>1, TableNext DEF TimeInv, TableInv
<1>3. /\ left \in Nat /\ since \in Nat /\ age \in Nat /\ link \in {"ok", "down"}
      /\ phase \in Phases /\ hurt \in BOOLEAN
  BY ClocksAre
<1>4. CASE ConnectSucceeds
  <2>1. /\ phase = "connect" /\ link = "ok" /\ link' = "ok" /\ phase' = "first"
        /\ left' = PassMax /\ hurt' = FALSE /\ connected' = TRUE
        /\ UNCHANGED <<age, success, drift, setBack>>
    BY <1>4 DEF ConnectSucceeds, Begin, dataVars, clockVars
  <2>2. LinkInv' /\ LossInv' /\ ClockInv'
    BY <1>1, <2>1 DEF TimeInv, LinkInv, LossInv, ClockInv
  <2>3. since + left <= Latest(phase, hurt)
    BY <2>1 DEF TimeInv, RecoveryInv, Good
  <2>4. since + PassMax <= RecoveryTime - PassMax
    <3>1. CASE hurt
      <4>1. since + left <= Latest("connect", TRUE)
        BY <2>1, <2>3, <3>1
      <4>2. since + left <= RecoveryTime - (RetryDelay + ConnectMax + ReadingTime)
        BY <4>1, LatestIs, Zenon
      <4> QED BY <1>3, <4>2, TimesAre
    <3>2. CASE ~hurt
      <4>1. since + left <= Latest("connect", FALSE)
        BY <1>3, <2>1, <2>3, <3>2
      <4>2. since + left <= RecoveryTime - ReadingTime
        BY <4>1, LatestIs, Zenon
      <4> QED BY <1>3, <4>2, TimesAre
    <3> QED BY <3>1, <3>2
  <2>5. since + PassMax <= Latest("first", FALSE)
    BY <2>4, LatestIs, Zenon
  <2>6. RecoveryInv'
    BY <1>1, <2>1, <2>5, RecoveryNext, Zenon
  <2> QED BY <1>2, <2>2, <2>6 DEF TimeInv
<1>5. CASE ConnectFails
  <2>1. /\ phase = "connect" /\ hurt /\ phase' = "retry" /\ left' = RetryDelay
        /\ hurt' = (link = "down") /\ success' = FALSE
        /\ UNCHANGED <<connected, age, drift, setBack>>
    BY <1>5 DEF ConnectFails, Begin, clockVars
  <2>2. LinkInv' /\ LossInv' /\ ClockInv'
    BY <1>1, <2>1 DEF TimeInv, LinkInv, LossInv, ClockInv
  <2>3. ASSUME link = "ok" PROVE since + RetryDelay <= Latest("retry", hurt')
    <3>1. since + left <= Latest(phase, hurt)
      BY <2>1, <2>3 DEF TimeInv, RecoveryInv, Good
    <3>2. since + left <= Latest("connect", TRUE)
      BY <2>1, <3>1
    <3>3. since + left <= RecoveryTime - (RetryDelay + ConnectMax + ReadingTime)
      BY <3>2, LatestIs, Zenon
    <3>4. since + RetryDelay <= RecoveryTime - (ConnectMax + ReadingTime)
      BY <1>3, <3>3, TimesAre
    <3> QED BY <3>4, LatestIs, Zenon
  <2>4. RecoveryInv'
    BY <1>1, <2>1, <2>3, RecoveryNext, Zenon
  <2> QED BY <1>2, <2>2, <2>4 DEF TimeInv
<1>6. CASE InputsRead
  <2>1. /\ phase = "first" /\ link = "ok" /\ link' = "ok" /\ phase' = "second"
        /\ left' = PassMax /\ hurt' = FALSE
        /\ UNCHANGED <<connected, age, success, drift, setBack>>
    BY <1>1, <1>6 DEF InputsRead, Begin, dataVars, clockVars
  <2>2. LinkInv' /\ LossInv' /\ ClockInv'
    BY <1>1, <2>1 DEF TimeInv, LinkInv, LossInv, ClockInv
  <2>3. CASE Good
    <3>1. age + left <= PollInterval + PassMax
      BY <2>1, <2>3 DEF Good
    <3>2. age + PassMax <= CycleTime
      BY <1>3, <3>1, TimesAre
    <3>3. Good'
      BY <2>1, <2>3, <3>2, TimesStay, Zenon DEF Good
    <3> QED BY <1>2, <2>2, <3>3, RecoveryNext DEF TimeInv
  <2>4. CASE ~Good
    <3>1. since + left <= Latest(phase, hurt)
      BY <2>1, <2>4 DEF TimeInv, RecoveryInv
    <3>2. since + PassMax <= RecoveryTime
      <4>1. CASE hurt
        <5>1. since + left <= Latest("first", TRUE)
          BY <2>1, <3>1, <4>1
        <5>2. since + left <= RecoveryTime - (PollInterval + ConnectMax + ReadingTime)
          BY <5>1, LatestIs, Zenon
        <5> QED BY <1>3, <5>2, TimesAre
      <4>2. CASE ~hurt
        <5>1. since + left <= Latest("first", FALSE)
          BY <1>3, <2>1, <3>1, <4>2
        <5>2. since + left <= RecoveryTime - PassMax
          BY <5>1, LatestIs, Zenon
        <5> QED BY <1>3, <5>2, TimesAre
      <4> QED BY <4>1, <4>2
    <3>3. since + PassMax <= Latest("second", FALSE)
      BY <3>2, LatestIs, Zenon
    <3>4. RecoveryInv'
      BY <1>1, <2>1, <3>3, RecoveryNext, Zenon
    <3> QED BY <1>2, <2>2, <3>4 DEF TimeInv
  <2> QED BY <2>3, <2>4
<1>7. CASE ReadSucceeds
  <2>1. /\ phase = "second" /\ phase' = "sleep" /\ left' = PollInterval
        /\ hurt' = (link = "down")
        /\ age' = 0 /\ success' = TRUE /\ drift' = 0 /\ setBack' = 0 /\ UNCHANGED connected
    BY <1>7 DEF ReadSucceeds, Begin
  <2>2. LinkInv' /\ ClockInv'
    <3>1. LinkInv'
      BY <1>1, <2>1, Zenon DEF TimeInv, LinkInv
    <3>2. 0 + 0 >= 0
      OBVIOUS
    <3>3. ClockInv'
      BY <2>1, <3>2, Zenon DEF ClockInv
    <3> QED BY <3>1, <3>3
  <2>3. LossInv'
    <3>1. link = "down" => since + left <= PassMax
      BY <2>1 DEF TimeInv, LossInv
    <3>2. link = "down" => since <= 0 + PassMax /\ since + PollInterval <= PollInterval + PassMax
      BY <1>3, <3>1, TimesAre
    <3> QED BY <1>1, <2>1, <3>2, Zenon DEF LossInv
  <2>4. 0 + PollInterval <= PollInterval
    BY TimesAre
  <2>5. Good'
    BY <2>1, <2>4, Zenon DEF Good
  <2>6. RecoveryInv'
    BY <2>5, RecoveryNext
  <2> QED BY <1>2, <2>2, <2>3, <2>6 DEF TimeInv
<1>8. CASE ReadFails
  <2>1. /\ phase \in {"first", "second"} /\ hurt /\ phase' = "sleep" /\ left' = PollInterval
        /\ hurt' = (link = "down") /\ success' = FALSE /\ connected' = FALSE
        /\ UNCHANGED <<age, drift, setBack>>
    BY <1>8 DEF ReadFails, Begin, clockVars
  <2>2. LinkInv' /\ LossInv' /\ ClockInv'
    BY <1>1, <2>1 DEF TimeInv, LinkInv, LossInv, ClockInv
  <2>3. ASSUME link = "ok" PROVE since + PollInterval <= Latest("sleep", hurt')
    <3>1. since + left <= Latest(phase, hurt)
      BY <2>1, <2>3 DEF TimeInv, RecoveryInv, Good
    <3>2. since + left <= Latest(phase, TRUE)
      BY <2>1, <3>1
    <3>3. since + left <= RecoveryTime - (PollInterval + ConnectMax + ReadingTime)
      BY <2>1, <3>2, LatestIs, Zenon
    <3>4. since + PollInterval <= RecoveryTime - (ConnectMax + ReadingTime)
      BY <1>3, <3>3, TimesAre
    <3> QED BY <3>4, LatestIs, Zenon
  <2>4. RecoveryInv'
    BY <1>1, <2>1, <2>3, RecoveryNext, Zenon
  <2> QED BY <1>2, <2>2, <2>4 DEF TimeInv
<1>9. CASE Wakes
  <2>1. /\ phase \in {"sleep", "retry"} /\ left = 0 /\ hurt' = (link = "down")
        /\ connected  => phase' = "first" /\ left' = PassMax
        /\ ~connected => phase' = "connect" /\ left' = ConnectMax
        /\ UNCHANGED <<connected, age, success, drift, setBack>>
    BY <1>9 DEF Wakes, Begin, dataVars, clockVars
  <2>2. LinkInv' /\ ClockInv'
    BY <1>1, <2>1, ClocksAre DEF TimeInv, LinkInv, ClockInv
  <2>3. LossInv'
    <3>1. success => connected
      BY DEF TimeInv, LinkInv
    <3>2. link = "down" /\ success => phase = "sleep"
      BY <2>1, <3>1 DEF TimeInv, LinkInv
    <3>3. link = "down" /\ success => since + PassMax <= CycleTime
      <4>1. link = "down" /\ success => since + 0 <= PollInterval + PassMax
        BY <2>1, <3>2 DEF TimeInv, LossInv
      <4> QED BY <1>3, <4>1, TimesAre
    <3>4. link = "down" => since <= age + PassMax
      BY DEF TimeInv, LossInv
    <3>5. success => phase' = "first" /\ left' = PassMax
      BY <2>1, <3>1
    <3> QED BY <1>1, <2>1, <3>3, <3>4, <3>5, TimesStay, Zenon DEF LossInv
  <2>4. ASSUME link = "ok" PROVE Good' \/ since + left' <= Latest(phase', FALSE)
    <3>1. CASE Good
      <4>1. success /\ connected /\ age + 0 <= PollInterval
        BY <2>1, <3>1 DEF Good, TimeInv, LinkInv
      <4>2. age + PassMax <= PollInterval + PassMax
        BY <1>3, <4>1, TimesAre
      <4>3. phase' = "first" /\ ~hurt' /\ left' = PassMax /\ age' = age /\ success'
        BY <2>1, <2>4, <4>1
      <4> QED BY <4>2, <4>3, TimesStay, Zenon DEF Good
    <3>2. CASE ~Good
      <4>1. since + 0 <= Latest(phase, hurt)
        BY <2>1, <2>4, <3>2 DEF TimeInv, RecoveryInv
      <4>2. since + 0 <= RecoveryTime - (ConnectMax + ReadingTime)
        BY <2>1, <4>1, LatestIs, Zenon
      <4>3. since + PassMax <= RecoveryTime - PassMax /\ since + ConnectMax <= RecoveryTime - ReadingTime
        BY <1>3, <4>2, TimesAre
      <4> QED BY <2>1, <4>3, LatestIs, Zenon
    <3> QED BY <3>1, <3>2
  <2>5. link = "ok" => hurt' = FALSE
    BY <2>1
  <2>6. RecoveryInv'
    BY <1>1, <2>4, <2>5, RecoveryNext, Zenon
  <2> QED BY <1>2, <2>2, <2>3, <2>6 DEF TimeInv
<1> QED BY <1>4, <1>5, <1>6, <1>7, <1>8, <1>9 DEF Poller

LEMMA TableStep == TypeOK /\ LeadInv /\ TimeInv /\ TableRefreshes => TimeInv'
<1> SUFFICES ASSUME TypeOK, LeadInv, TimeInv, TableRefreshes PROVE TimeInv'
  OBVIOUS
<1>1. /\ UNCHANGED <<phase, left, connected, hurt, link, since, age, success, drift, setBack, steady>>
      /\ served' = ReadingAge /\ wake' = Refresh
  BY DEF TableRefreshes, pollVars, dataVars, clockVars
<1>2. LinkInv' /\ LossInv' /\ ClockInv'
  BY <1>1, TimesStay DEF TimeInv, LinkInv, LossInv, ClockInv
<1>3. RecoveryInv'
  BY <1>1, TimesStay, RecoveryNext DEF TimeInv, RecoveryInv, Good
<1>4. /\ left \in Nat /\ since \in Nat /\ age \in Nat /\ phase \in Phases /\ hurt \in BOOLEAN
  BY ClocksAre
<1>5. ASSUME link = "ok"
      PROVE  \/ ReadingAge + Refresh <= CycleTime + ReadingTime + Refresh
             \/ since + Refresh <= RecoveryTime + Refresh
  <2>1. CASE Good
    <3>1. age + left <= PollInterval \/ age + left <= PollInterval + PassMax \/ age + left <= CycleTime
      BY <2>1 DEF Good
    <3> QED BY <1>4, <3>1, TimesAre, ReadingAgeIs
  <2>2. CASE ~Good
    <3>1. since + left <= Latest(phase, hurt)
      BY <1>5, <2>2 DEF TimeInv, RecoveryInv
    <3>2. Latest(phase, hurt) <= RecoveryTime /\ Latest(phase, hurt) \in Int
      BY <1>4, LatestLate, LatestIsInt
    <3> QED BY <1>4, <3>1, <3>2, TimesAre
  <2> QED BY <2>1, <2>2
<1>6. TableInv'
  BY <1>1, <1>5, TableNext, Zenon
<1> QED BY <1>2, <1>3, <1>6 DEF TimeInv

\* The bounds on phases and ages that the properties rest on hold in every state.
THEOREM TimeInvariant == Spec => []TimeInv
<1>1. TypeOK /\ TypeOK' /\ LeadInv /\ TimeInv /\ [Next]_vars => TimeInv'
  <2> SUFFICES ASSUME TypeOK, TypeOK', LeadInv, TimeInv, [Next]_vars PROVE TimeInv'
    OBVIOUS
  <2>1. CASE UNCHANGED vars
    BY <2>1, TimesStay, RecoveryNext, TableNext
       DEF vars, pollVars, dataVars, clockVars, tableVars,
           TimeInv, LinkInv, LossInv, RecoveryInv, TableInv, ClockInv, Good
  <2> QED BY <2>1, TickStep, LinkStep, ClockStep, PollerStep, TableStep DEF Next
<1> QED BY <1>1, TimeInit, TypeCorrect, LeadInvariant, PTL DEF Spec

-----------------------------------------------------------------------------
(* The properties.                                                         *)

LEMMA AnsweringIsGood == TypeOK /\ TimeInv /\ Answering => Good
<1> SUFFICES ASSUME TypeOK, TimeInv, Answering, ~Good PROVE FALSE
  OBVIOUS
<1>1. /\ left \in Nat /\ since \in Nat /\ phase \in Phases /\ hurt \in BOOLEAN
  BY ClocksAre
<1>2. since > RecoveryTime /\ since + left <= Latest(phase, hurt)
  BY DEF TimeInv, RecoveryInv, Answering
<1>3. Latest(phase, hurt) <= RecoveryTime /\ Latest(phase, hurt) \in Int
  BY <1>1, LatestLate, LatestIsInt
<1> QED BY <1>1, <1>2, <1>3, TimesAre

\* A link that has been back for RecoveryTime has brought a successful poll, and
\* as long as it holds the last update() is at most one cycle ago.
THEOREM AlwaysRecovers == Spec => []RecoversInTime
<1>1. TypeOK /\ TimeInv => RecoversInTime
  <2> SUFFICES ASSUME TypeOK, TimeInv, Answering PROVE success /\ age <= CycleTime
    BY DEF RecoversInTime
  <2>1. success /\ (age + left <= PollInterval \/ age + left <= PollInterval + PassMax \/ age + left <= CycleTime)
    BY AnsweringIsGood DEF Good
  <2> QED BY <2>1, ClocksAre, TimesAre
<1> QED BY <1>1, TypeCorrect, TimeInvariant, PTL

\* What BACnet shows was then read no longer ago than one cycle, the two passes of
\* the poll that published it, and one refresh.
THEOREM TableAlwaysRecent == Spec => []TableIsRecent
<1>1. TypeOK /\ TimeInv => TableIsRecent
  <2> SUFFICES ASSUME TypeOK, TimeInv, link = "ok", since > RecoveryTime + Refresh
               PROVE  served <= CycleTime + ReadingTime + Refresh
    BY DEF TableIsRecent
  <2>1. \/ served + wake <= CycleTime + ReadingTime + Refresh
        \/ since + wake <= RecoveryTime + Refresh
    BY DEF TimeInv, TableInv
  <2> QED BY <2>1, ClocksAre, TimesAre
<1> QED BY <1>1, TypeCorrect, TimeInvariant, PTL

\* Whatever fails, data that is_stale() calls fresh was read no longer ago than the
\* timeout, two passes and what the clock was set back since.
THEOREM FreshAlwaysRecent == Spec => []FreshIsRecent
<1>1. TypeOK /\ LeadInv /\ TimeInv => FreshIsRecent
  <2> SUFFICES ASSUME TypeOK, LeadInv, TimeInv, ~IsStale
               PROVE  ReadingAge <= StaleTimeout + ReadingTime + setBack
    BY DEF FreshIsRecent
  <2>1. age + drift <= StaleTimeout /\ drift + setBack >= 0
    BY ClocksAre, TimesAre DEF IsStale, TimeInv, ClockInv
  <2> QED BY <2>1, ReadingAgeIs, ClocksAre, TimesAre
<1> QED BY <1>1, TypeCorrect, LeadInvariant, TimeInvariant, PTL

\* A plant that answers is reported stale only in the cycle after the clock was set.
THEOREM NeverFalseAlarm == Spec => []NoFalseAlarm
<1>1. TypeOK /\ TimeInv => NoFalseAlarm
  <2> SUFFICES ASSUME TypeOK, TimeInv, Answering, steady > CycleTime, CycleTime <= StaleTimeout
               PROVE  ~IsStale
    BY DEF NoFalseAlarm
  <2>1. age + left <= PollInterval \/ age + left <= PollInterval + PassMax \/ age + left <= CycleTime
    BY AnsweringIsGood DEF Good
  <2>2. age <= CycleTime
    BY <2>1, ClocksAre, TimesAre
  <2>3. drift = 0
    BY <2>2, ClocksAre, TimesAre DEF TimeInv, ClockInv
  <2>4. since > RecoveryTime /\ since <= Cap
    BY DEF Answering, TypeOK
  <2>5. age # Cap
    BY <2>2, <2>4, ClocksAre, TimesAre
  <2> QED BY <2>2, <2>3, <2>5, ClocksAre, TimesAre DEF IsStale
<1> QED BY <1>1, TypeCorrect, TimeInvariant, PTL

\* A link that is down shows as a failed poll within a cycle, and as stale data
\* within the timeout, one pass and what the clock was set back.
THEOREM LossAlwaysShown == Spec => []LossIsShown
<1>1. TypeOK /\ TimeInv => LossIsShown
  <2> SUFFICES ASSUME TypeOK, TimeInv, link = "down"
               PROVE  /\ since > CycleTime => ~success
                      /\ since > StaleTimeout + PassMax + setBack => IsStale
    BY DEF LossIsShown
  <2>1. ASSUME since > CycleTime, success PROVE FALSE
    <3>1. phase \in {"first", "second", "sleep"}
      BY <2>1, ClocksAre DEF TimeInv, LinkInv, Phases
    <3>2. since + left <= PassMax \/ since + left <= PollInterval + PassMax \/ since + left <= CycleTime
      BY <2>1, <3>1 DEF TimeInv, LossInv
    <3> QED BY <2>1, <3>2, ClocksAre, TimesAre
  <2>2. ASSUME since > StaleTimeout + PassMax + setBack PROVE IsStale
    <3>1. since <= age + PassMax /\ drift + setBack >= 0
      BY DEF TimeInv, LossInv, ClockInv
    <3> QED BY <2>2, <3>1, ClocksAre, TimesAre DEF IsStale
  <2> QED BY <2>1, <2>2
<1> QED BY <1>1, TypeCorrect, TimeInvariant, PTL

-----------------------------------------------------------------------------
(* Words and numbers.                                                      *)

LEMMA HalfIsHalf == Half \in Nat /\ 2 * Half = Base /\ Half >= 16
BY BaseAssumption DEF Half

\* A number with a sign that fits a word survives it.
LEMMA WordRoundTrip ==
    ASSUME NEW v \in -Half..(Half - 1)
    PROVE  ToWord(v) \in Word /\ ToInt16(ToWord(v)) = v
<1>1. Base \in Nat /\ Half \in Nat /\ 2 * Half = Base /\ Base > 0
  BY BaseAssumption, HalfIsHalf
<1>2. CASE v < 0
  <2>1. (v + Base) % Base = v + Base
    BY <1>1, <1>2
  <2> QED BY <1>1, <1>2, <2>1 DEF ToWord, ToInt16, Word
<1>3. CASE v >= 0
  <2>1. v % Base = v
    BY <1>1, <1>3
  <2> QED BY <1>1, <1>3, <2>1 DEF ToWord, ToInt16, Word
<1> QED BY <1>1, <1>2, <1>3

LEMMA WordType == ASSUME NEW v \in Int PROVE ToWord(v) \in Word
BY BaseAssumption DEF ToWord, Word

LEMMA HighType == ASSUME NEW v \in Nat PROVE HighWord(v) \in Word
BY BaseAssumption DEF HighWord, Word

LEMMA LowType == ASSUME NEW v \in Nat PROVE LowWord(v) \in Word
BY BaseAssumption DEF LowWord, Word

LEMMA Monotone ==
    ASSUME NEW a \in Nat, NEW b \in Nat, NEW c \in Nat, a >= b
    PROVE  a * c >= b * c
<1> DEFINE d == a - b
<1>1. d \in Nat /\ a = b + d
  OBVIOUS
<1>2. (b + d) * c = b * c + d * c
  BY <1>1
<1>3. d * c \in Nat /\ b * c \in Nat
  BY <1>1
<1> QED BY <1>1, <1>2, <1>3

\* A counter of two words survives them.
LEMMA LongRoundTrip ==
    ASSUME NEW v \in 0..MaxEnergy
    PROVE  ToInt32(HighWord(v), LowWord(v)) = v
<1>1. Base \in Nat /\ Base > 0 /\ MaxEnergy \in Nat /\ 2 * MaxEnergy < Base * Base
  BY BaseAssumption, ValuesAssumption
<1>2. v = (v \div Base) * Base + (v % Base)
  BY <1>1
<1>3. (v \div Base) \in Nat /\ v % Base \in 0..(Base - 1)
  BY <1>1
<1>4. (v \div Base) < Base
  <2>1. SUFFICES ASSUME (v \div Base) >= Base PROVE FALSE
    BY <1>1, <1>3
  <2>2. (v \div Base) * Base >= Base * Base
    BY <1>1, <1>3, <2>1, Monotone
  <2>3. Base * Base \in Nat /\ (v \div Base) * Base \in Nat /\ v < Base * Base
    BY <1>1, <1>3
  <2> QED BY <1>2, <1>3, <2>2, <2>3
<1> QED BY <1>1, <1>2, <1>3, <1>4, HalfIsHalf DEF ToInt32, HighWord, LowWord

-----------------------------------------------------------------------------
(* The simulator's block, and the points made of it.                       *)

\* What the simulator's quantities range over.
Quantities ==
    [power: Powers, grid: Powers, solar: Powers, soc: 0..(Half - 1), fault: BOOLEAN,
     charged: 0..MaxEnergy, imported: 0..MaxEnergy, produced: 0..MaxEnergy,
     consumed: 0..MaxEnergy]

LEMMA PowersAreSigned == Powers \subseteq -Half..(Half - 1) /\ 0 \in Powers
BY ValuesAssumption DEF Half

LEMMA PowersAreInts == Powers \subseteq Int /\ 0..(Half - 1) \subseteq Int
BY PowersAreSigned, HalfIsHalf

LEMMA EnergiesAreNats == 0..MaxEnergy \subseteq Nat /\ 0 \in 0..MaxEnergy /\ Energy0 \in 0..MaxEnergy
BY ValuesAssumption

LEMMA BlockType ==
    ASSUME NEW q \in Quantities
    PROVE  Block(q) \in [Addresses -> Word]
<1>1. \A v \in Int : ToWord(v) \in Word
  BY WordType
<1>2. \A v \in Nat : HighWord(v) \in Word /\ LowWord(v) \in Word
  BY HighType, LowType
<1>3. /\ q.power \in Int /\ q.grid \in Int /\ q.solar \in Int /\ q.soc \in Int
      /\ q.charged \in Nat /\ q.imported \in Nat /\ q.produced \in Nat /\ q.consumed \in Nat
      /\ (IF q.fault THEN 1 ELSE 0) \in Int
  <2>1. q.power \in Powers /\ q.grid \in Powers /\ q.solar \in Powers /\ q.soc \in 0..(Half - 1)
    BY DEF Quantities
  <2>2. /\ q.charged \in 0..MaxEnergy /\ q.imported \in 0..MaxEnergy
        /\ q.produced \in 0..MaxEnergy /\ q.consumed \in 0..MaxEnergy
    BY DEF Quantities
  <2>3. (IF q.fault THEN 1 ELSE 0) \in Int
    OBVIOUS
  <2> QED BY <2>1, <2>2, <2>3, PowersAreInts, EnergiesAreNats, Zenon
<1>4. Capacity \in Nat
  BY ValuesAssumption, BaseAssumption
<1>5. ASSUME NEW a \in Addresses PROVE Block(q)[a] \in Word
  BY <1>1, <1>2, <1>3, <1>4, <1>5 DEF Block, Addresses
<1> QED BY <1>5 DEF Block

\* What the simulator wrote is what a poll makes of it.
LEMMA PolledAsSimulated ==
    ASSUME NEW q \in Quantities
    PROVE  LET p == Points(Block(q))
           IN  /\ p.power = q.power /\ p.grid = q.grid /\ p.solar = q.solar
               /\ p.soc = q.soc /\ p.error = q.fault
               /\ p.faults = [m \in {1, 2, 4, 8, 16} |-> m = 1 /\ q.fault]
               /\ p.charged = q.charged /\ p.imported = q.imported
               /\ p.produced = q.produced /\ p.consumed = q.consumed
<1>1. /\ q.power \in -Half..(Half - 1) /\ q.grid \in -Half..(Half - 1)
      /\ q.solar \in -Half..(Half - 1) /\ q.soc \in -Half..(Half - 1)
  <2>1. q.power \in Powers /\ q.grid \in Powers /\ q.solar \in Powers /\ q.soc \in 0..(Half - 1)
    BY DEF Quantities
  <2>2. 0..(Half - 1) \subseteq -Half..(Half - 1)
    BY HalfIsHalf
  <2> QED BY <2>1, <2>2, PowersAreSigned
<1>2. /\ Block(q)[202] = ToWord(q.power) /\ Block(q)[206] = ToWord(q.soc)
      /\ Block(q)[211] = ToWord(q.grid)  /\ Block(q)[214] = ToWord(q.solar)
      /\ Block(q)[207] = ToWord(IF q.fault THEN 1 ELSE 0)
      /\ Block(q)[208] = ToWord(IF q.fault THEN 1 ELSE 0)
  BY DEF Block, Addresses
<1>3. /\ Block(q)[209] = HighWord(q.charged)  /\ Block(q)[210] = LowWord(q.charged)
      /\ Block(q)[212] = HighWord(q.imported) /\ Block(q)[213] = LowWord(q.imported)
      /\ Block(q)[215] = HighWord(q.produced) /\ Block(q)[216] = LowWord(q.produced)
      /\ Block(q)[217] = HighWord(q.consumed) /\ Block(q)[218] = LowWord(q.consumed)
  BY DEF Block, Addresses
<1>4. /\ q.charged \in 0..MaxEnergy /\ q.imported \in 0..MaxEnergy
      /\ q.produced \in 0..MaxEnergy /\ q.consumed \in 0..MaxEnergy /\ q.fault \in BOOLEAN
  BY DEF Quantities
<1>5. ToWord(0) = 0 /\ ToWord(1) = 1
  BY BaseAssumption DEF ToWord
<1>6. /\ ToInt16(Block(q)[202]) = q.power /\ ToInt16(Block(q)[206]) = q.soc
      /\ ToInt16(Block(q)[211]) = q.grid  /\ ToInt16(Block(q)[214]) = q.solar
  BY <1>1, <1>2, WordRoundTrip
<1>7. /\ ToInt32(Block(q)[209], Block(q)[210]) = q.charged
      /\ ToInt32(Block(q)[212], Block(q)[213]) = q.imported
      /\ ToInt32(Block(q)[215], Block(q)[216]) = q.produced
      /\ ToInt32(Block(q)[217], Block(q)[218]) = q.consumed
  BY <1>3, <1>4, LongRoundTrip
<1>8. (Block(q)[207] # 0) = q.fault
  BY <1>2, <1>4, <1>5
<1>9. ASSUME NEW m \in {1, 2, 4, 8, 16}
      PROVE  HasBit(Block(q)[208], m) = (m = 1 /\ q.fault)
  <2>1. CASE q.fault
    <3>1. Block(q)[208] = 1
      BY <1>2, <1>5, <2>1
    <3> QED BY <2>1, <3>1 DEF HasBit
  <2>2. CASE ~q.fault
    <3>1. Block(q)[208] = 0
      BY <1>2, <1>5, <2>2
    <3> QED BY <2>2, <3>1 DEF HasBit
  <2> QED BY <2>1, <2>2
<1>10. Points(Block(q)).faults = [m \in {1, 2, 4, 8, 16} |-> m = 1 /\ q.fault]
  BY <1>9 DEF Points
<1> QED BY <1>6, <1>7, <1>8, <1>10 DEF Points

-----------------------------------------------------------------------------
(* The invariant: the quantities stay in range, registers hold words.      *)

RangeInv ==
    /\ truth \in Quantities
    /\ regs \in [Addresses -> Word]
    /\ held \in Word
    /\ sent \in [kw: Commands \cup {0}, ok: BOOLEAN]

LEMMA RangeInit == MapInit => RangeInv
<1> SUFFICES ASSUME MapInit PROVE RangeInv
  OBVIOUS
<1>1. 0 \in Word /\ 0 \in 0..(Half - 1) /\ Half - 1 \in 0..(Half - 1)
  BY BaseAssumption, HalfIsHalf DEF Word
<1>2. Simulated0 \in Quantities
  BY <1>1, PowersAreSigned, EnergiesAreNats DEF Simulated0, Quantities
<1>3. regs \in [Addresses -> Word]
  BY <1>1 DEF MapInit
<1>4. sent \in [kw: Commands \cup {0}, ok: BOOLEAN]
  BY DEF MapInit
<1> QED BY <1>1, <1>2, <1>3, <1>4 DEF MapInit, RangeInv

LEMMA CountedType ==
    ASSUME NEW e \in 0..MaxEnergy, NEW p \in Int
    PROVE  Counted(e, p) \in 0..MaxEnergy /\ Counted(e, p) >= e
BY ValuesAssumption DEF Counted

LEMMA UpdateStep ==
    ASSUME truth \in Quantities, SimulatorUpdates
    PROVE  /\ truth' \in Quantities /\ regs' = Block(truth')
           /\ truth.charged <= truth'.charged   /\ truth.imported <= truth'.imported
           /\ truth.produced <= truth'.produced /\ truth.consumed <= truth'.consumed
<1>1. PICK p \in Powers, g \in Powers, s \in Powers, fault \in BOOLEAN :
          truth' = [power |-> p, grid |-> g, solar |-> s,
                    soc |-> IF fault THEN 0 ELSE Half - 1, fault |-> fault,
                    charged  |-> Counted(truth.charged, p),
                    imported |-> Counted(truth.imported, g),
                    produced |-> Counted(truth.produced, s),
                    consumed |-> Counted(truth.consumed, 1)]
  BY DEF SimulatorUpdates
<1>2. /\ truth.charged \in 0..MaxEnergy /\ truth.imported \in 0..MaxEnergy
      /\ truth.produced \in 0..MaxEnergy /\ truth.consumed \in 0..MaxEnergy
  BY DEF Quantities
<1>3. p \in Int /\ g \in Int /\ s \in Int /\ 1 \in Int
  BY PowersAreSigned, HalfIsHalf
<1>4. /\ Counted(truth.charged, p) \in 0..MaxEnergy /\ Counted(truth.charged, p) >= truth.charged
      /\ Counted(truth.imported, g) \in 0..MaxEnergy /\ Counted(truth.imported, g) >= truth.imported
      /\ Counted(truth.produced, s) \in 0..MaxEnergy /\ Counted(truth.produced, s) >= truth.produced
      /\ Counted(truth.consumed, 1) \in 0..MaxEnergy /\ Counted(truth.consumed, 1) >= truth.consumed
  BY <1>2, <1>3, CountedType
<1>5. (IF fault THEN 0 ELSE Half - 1) \in 0..(Half - 1)
  BY HalfIsHalf
<1>6. truth' \in Quantities
  BY <1>1, <1>4, <1>5 DEF Quantities
<1>7. /\ truth.charged <= truth'.charged   /\ truth.imported <= truth'.imported
      /\ truth.produced <= truth'.produced /\ truth.consumed <= truth'.consumed
  BY <1>1, <1>2, <1>4, EnergiesAreNats
<1> QED BY <1>6, <1>7 DEF SimulatorUpdates

LEMMA RangeStep == RangeInv /\ [MapNext]_mapVars => RangeInv'
<1> SUFFICES ASSUME RangeInv, [MapNext]_mapVars PROVE RangeInv'
  OBVIOUS
<1>1. CASE SimulatorUpdates
  BY <1>1, UpdateStep, BlockType DEF RangeInv, SimulatorUpdates
<1>2. ASSUME NEW kw \in Commands, WriteCommand(kw) PROVE RangeInv'
  <2>1. truth' = truth /\ regs' = regs
    BY <1>2 DEF WriteCommand
  <2>2. held' \in Word
    BY <1>2 DEF WriteCommand, RangeInv
  <2>3. sent' \in [kw: Commands \cup {0}, ok: BOOLEAN]
    <3>1. \E ok \in BOOLEAN : sent' = [kw |-> kw, ok |-> ok]
      BY <1>2 DEF WriteCommand
    <3> QED BY <3>1
  <2> QED BY <2>1, <2>2, <2>3 DEF RangeInv
<1>3. CASE UNCHANGED mapVars
  BY <1>3 DEF mapVars, RangeInv
<1> QED BY <1>1, <1>2, <1>3 DEF MapNext

THEOREM RangeInvariant == MapSpec => []RangeInv
BY RangeInit, RangeStep, PTL DEF MapSpec

-----------------------------------------------------------------------------
(* The properties, for any number of values a register has.                *)

\* Registers hold words, whatever is simulated and sent.
THEOREM MapTypeCorrect == MapSpec => []MapTypeOK
<1>1. RangeInv => MapTypeOK
  BY EnergiesAreNats, HalfIsHalf DEF RangeInv, MapTypeOK, Quantities, Word
<1> QED BY <1>1, RangeInvariant, PTL

\* Every point that has its registers to itself is polled as it was simulated.
THEOREM PolledIsSimulated == MapSpec => []SimulatedIsPolled
<1>1. RangeInv => SimulatedIsPolled
  BY PolledAsSimulated DEF RangeInv, SimulatedIsPolled
<1> QED BY <1>1, RangeInvariant, PTL

\* The energy counters never run backwards as polled, over the carry from one
\* register into the other.
THEOREM CountersRunOn == MapSpec => CountersNeverRunBack
<1> DEFINE Act == regs = Block(truth) =>
         LET p == Points(regs)  q == Points(regs')
         IN  /\ p.charged <= q.charged   /\ p.imported <= q.imported
             /\ p.produced <= q.produced /\ p.consumed <= q.consumed
<1>1. ASSUME RangeInv, RangeInv', [MapNext]_mapVars PROVE [Act]_mapVars
  <2> SUFFICES ASSUME regs = Block(truth), ~UNCHANGED mapVars PROVE Act
    OBVIOUS
  <2>1. /\ Points(regs).charged = truth.charged   /\ Points(regs).imported = truth.imported
        /\ Points(regs).produced = truth.produced /\ Points(regs).consumed = truth.consumed
    BY <1>1, PolledAsSimulated DEF RangeInv
  <2>2. CASE SimulatorUpdates
    <3>1. /\ Points(regs').charged = truth'.charged   /\ Points(regs').imported = truth'.imported
          /\ Points(regs').produced = truth'.produced /\ Points(regs').consumed = truth'.consumed
      BY <1>1, <2>2, UpdateStep, PolledAsSimulated DEF RangeInv
    <3> QED BY <1>1, <2>1, <2>2, <3>1, UpdateStep DEF RangeInv
  <2>3. ASSUME NEW kw \in Commands, WriteCommand(kw) PROVE Act
    <3>1. regs' = regs
      BY <2>3 DEF WriteCommand
    <3>2. /\ truth.charged \in Nat /\ truth.imported \in Nat
          /\ truth.produced \in Nat /\ truth.consumed \in Nat
      BY <1>1, EnergiesAreNats DEF RangeInv, Quantities
    <3> QED BY <2>1, <3>1, <3>2
  <2> QED BY <1>1, <2>2, <2>3 DEF MapNext
<1> QED BY <1>1, RangeInvariant, PTL DEF MapSpec, CountersNeverRunBack

\* int() drops less than a kilowatt, and never changes the direction.
LEMMA WholeIs ==
    ASSUME NEW kw \in Int
    PROVE  /\ Whole(kw) \in Int
           /\ kw >= 0 => 0 <= Whole(kw) /\ 10 * Whole(kw) <= kw /\ kw < 10 * Whole(kw) + 10
           /\ kw < 0 => Whole(kw) <= 0 /\ kw <= 10 * Whole(kw) /\ 10 * Whole(kw) - 10 < kw
<1>1. CASE kw >= 0
  BY <1>1 DEF Whole
<1>2. CASE kw < 0
  <2> DEFINE m == -kw
  <2>1. m \in Nat /\ m \div 10 \in Nat /\ 10 * (m \div 10) <= m /\ m < 10 * (m \div 10) + 10
    BY <1>2
  <2>2. Whole(kw) = -(m \div 10) /\ kw = -m
    BY <1>2 DEF Whole
  <2> QED BY <1>2, <2>1, <2>2
<1> QED BY <1>1, <1>2

\* What the word of a command is read as.
LEMMA CommandAsRead ==
    ASSUME NEW kw \in Int, CommandWord(kw) \in Word
    PROVE  /\ Whole(kw) \in -Half..(Half - 1) => ToInt16(CommandWord(kw)) = Whole(kw)
           /\ Whole(kw) >= Half => ToInt16(CommandWord(kw)) < 0
           /\ Whole(kw) < -Half => ToInt16(CommandWord(kw)) >= 0
<1>1. Base \in Nat /\ Half \in Nat /\ 2 * Half = Base /\ Whole(kw) \in Int
  BY BaseAssumption, HalfIsHalf, WholeIs
<1>2. CommandWord(kw) = IF Whole(kw) < 0 THEN Whole(kw) + Base ELSE Whole(kw)
  BY DEF CommandWord
<1> QED BY <1>1, <1>2 DEF ToInt16, Word

\* Whole kilowatts fit a word with a sign exactly if the command is in range.
LEMMA InRange ==
    ASSUME NEW kw \in Int, NEW whole \in Int, NEW h \in Nat, h > 0,
           kw >= 0 => 0 <= whole /\ 10 * whole <= kw /\ kw < 10 * whole + 10,
           kw < 0 => whole <= 0 /\ kw <= 10 * whole /\ 10 * whole - 10 < kw
    PROVE  /\ kw > -10 * (h + 1) /\ kw < 10 * h => whole \in -h..(h - 1)
           /\ ~(kw > -10 * (h + 1) /\ kw < 10 * h) => IF kw > 0 THEN whole >= h ELSE whole < -h
<1>1. CASE kw >= 0
  <2>1. whole < h <=> kw < 10 * h
    BY <1>1
  <2> QED BY <1>1, <2>1
<1>2. CASE kw < 0
  <2>1. whole >= -h <=> kw > (0 - 10) * (h + 1)
    BY <1>2
  <2>2. -10 * (h + 1) = (0 - 10) * (h + 1)
    OBVIOUS
  <2> QED BY <1>2, <2>1, <2>2
<1> QED BY <1>1, <1>2

\* A command that was reported as written reads back as its whole kilowatts, in the
\* same direction, or, if they do not fit 16 bits with a sign, with another sign.
THEOREM CommandIsReadBack == MapSpec => []CommandReadsBack
<1>1. MapInit => CommandReadsBack
  BY DEF MapInit, CommandReadsBack
<1>2. ASSUME RangeInv, CommandReadsBack, [MapNext]_mapVars PROVE CommandReadsBack'
  <2>1. ASSUME NEW kw \in Commands, WriteCommand(kw) PROVE CommandReadsBack'
    <3>1. kw \in Int /\ Base \in Nat /\ Half \in Nat /\ 2 * Half = Base /\ Half > 0
      BY ValuesAssumption, BaseAssumption, HalfIsHalf
    <3>2. CASE sent'.ok
      <4>1. sent'.kw = kw /\ held' = CommandWord(kw) /\ CommandWord(kw) \in Word
        BY <2>1, <3>2 DEF WriteCommand
      <4>2. CommandRead' = ToInt16(CommandWord(kw))
        BY <4>1 DEF CommandRead, ToInt16
      <4>3. /\ Whole(kw) \in -Half..(Half - 1) => CommandRead' = Whole(kw)
            /\ Whole(kw) >= Half => CommandRead' < 0
            /\ Whole(kw) < -Half => CommandRead' >= 0
        BY <3>1, <4>1, <4>2, CommandAsRead
      <4> DEFINE whole == Whole(kw)
      <4>4. /\ whole \in Int /\ Whole(kw) = whole
            /\ kw >= 0 => 0 <= whole /\ 10 * whole <= kw /\ kw < 10 * whole + 10
            /\ kw < 0 => whole <= 0 /\ kw <= 10 * whole /\ 10 * whole - 10 < kw
        BY <3>1, WholeIs, Zenon
      <4> HIDE DEF whole
      <4>5. CASE kw > -10 * (Half + 1) /\ kw < 10 * Half
        <5>1. whole \in -Half..(Half - 1)
          BY <3>1, <4>4, <4>5, InRange
        <5>2. IF kw >= 0
                THEN whole >= 0 /\ 10 * whole \in (kw - 9)..kw
                ELSE whole <= 0 /\ 10 * whole \in kw..(kw + 9)
          BY <3>1, <4>4
        <5> QED BY <4>1, <4>3, <4>4, <4>5, <5>1, <5>2 DEF CommandReadsBack
      <4>6. CASE ~(kw > -10 * (Half + 1) /\ kw < 10 * Half)
        <5>1. IF kw > 0 THEN whole >= Half ELSE whole < -Half
          BY <3>1, <4>4, <4>6, InRange
        <5> QED BY <4>1, <4>3, <4>4, <4>6, <5>1 DEF CommandReadsBack
      <4> QED BY <4>5, <4>6
    <3>3. CASE ~sent'.ok
      BY <3>3 DEF CommandReadsBack
    <3> QED BY <3>2, <3>3
  <2>2. CASE UNCHANGED <<held, sent>>
    BY <1>2, <2>2 DEF CommandReadsBack, CommandRead
  <2> QED BY <1>2, <2>1, <2>2 DEF MapNext, SimulatorUpdates, mapVars
<1> QED BY <1>1, <1>2, RangeInvariant, PTL DEF MapSpec
=============================================================================
