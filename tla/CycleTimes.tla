----------------------------- MODULE CycleTimes -----------------------------
(***************************************************************************)
(* How long things take: the poll cycle (poller.py), staleness measured    *)
(* with a wall clock that may be set (data_store.py), and the BACnet       *)
(* refresh (bacnet_server.py).                                             *)
(*                                                                         *)
(* ModbusPoller and BACnetServer say what the threads do in which order;   *)
(* here their steps have durations.  Time advances in ticks.  A phase of   *)
(* the polling thread has `left` ticks at most: a sleep takes them all, a  *)
(* call over the network may return earlier.                               *)
(***************************************************************************)
EXTENDS Integers

CONSTANTS
    PollInterval,   \* poll_interval_seconds
    RetryDelay,     \* the 30 s after a connection that failed
    ConnectMax,     \* longest a connect() takes
    PassMax,        \* longest one pass of a poll takes, retries included
    StaleTimeout,   \* stale_data_timeout_seconds
    Refresh,        \* bacnet_refresh_seconds
    MaxJump,        \* bound: how far the wall clock is set, in all
    Cap             \* bound: ages and waits saturate here

ASSUME TimesAssumption ==
    /\ PollInterval \in Nat \ {0} /\ RetryDelay \in Nat \ {0} /\ Refresh \in Nat \ {0}
    /\ ConnectMax \in Nat /\ PassMax \in Nat /\ StaleTimeout \in Nat /\ MaxJump \in Nat
    /\ Cap \in Nat

VARIABLES
    phase, left,    \* what the polling thread is at, and for how long at most
    connected,      \* the client's socket is open
    hurt,           \* the link failed during this call
    lead,           \* for how long a poll has been reading
    link, since,    \* "ok" or "down", and for how long
    age,            \* time since the last update(); Cap: ever so long, or none
    lag,            \* time from the start of that poll's reading to its update()
    success,        \* poll_success of the current data
    drift,          \* how far the clock was set since last_update
    setBack,        \* how far back, of that
    steady,         \* for how long the clock has not been set
    served, wake    \* age of the readings BACnet shows; ticks to the next refresh

pollVars == <<phase, left, connected, hurt, lead>>
dataVars == <<age, lag, success>>
clockVars == <<drift, setBack, steady>>
tableVars == <<served, wake>>
vars == <<pollVars, link, since, dataVars, clockVars, tableVars>>

Later(t) == IF t < Cap THEN t + 1 ELSE t

\* How old the values of the current data are, counted from the start of the call
\* that read them: wherever in it the plant took them, they are no older.
ReadingAge == IF age + lag < Cap THEN age + lag ELSE Cap

\* DataStore.is_stale(), by the wall clock.
IsStale == age = Cap \/ age + drift > StaleTimeout

Init ==
    /\ phase = "connect" /\ left = ConnectMax
    /\ connected = FALSE
    /\ link \in {"ok", "down"} /\ since = 0
    /\ hurt = (link = "down") /\ lead = 0
    /\ age = Cap /\ lag = 0 /\ success = FALSE
    /\ drift = 0 /\ setBack = 0 /\ steady = 0
    /\ served = Cap /\ wake = Refresh

-----------------------------------------------------------------------------
Tick ==
    /\ left > 0 /\ wake > 0
    /\ left' = left - 1 /\ wake' = wake - 1
    /\ since' = Later(since) /\ age' = Later(age)
    /\ served' = Later(served) /\ steady' = Later(steady)
    /\ lead' = IF phase \in {"first", "second"} THEN lead + 1 ELSE lead
    /\ UNCHANGED <<phase, connected, hurt, link, lag, success, drift, setBack>>

\* The link, and what answers behind it.
LinkFails ==
    /\ link = "ok" /\ link' = "down" /\ since' = 0
    /\ hurt' = TRUE
    /\ UNCHANGED <<phase, left, connected, lead, dataVars, clockVars, tableVars>>

LinkRecovers ==
    /\ link = "down" /\ link' = "ok" /\ since' = 0
    /\ UNCHANGED <<pollVars, dataVars, clockVars, tableVars>>

Magnitude(d) == IF d < 0 THEN -d ELSE d

\* Somebody, or NTP, sets the clock.
ClockIsSet ==
    /\ \E d \in (-MaxJump..MaxJump) \ {0} :
          /\ Magnitude(drift + d) <= MaxJump
          /\ drift' = drift + d
          /\ setBack' = IF d < 0 /\ setBack - d <= MaxJump THEN setBack - d
                        ELSE IF d < 0 THEN MaxJump ELSE setBack
    /\ steady' = 0
    /\ UNCHANGED <<pollVars, link, since, dataVars, tableVars>>

-----------------------------------------------------------------------------
(* The polling thread.                                                     *)

Begin(p, most) ==
    /\ phase' = p /\ left' = most
    /\ hurt' = (link = "down")
    /\ lead' = IF p = "second" THEN lead ELSE 0

ConnectSucceeds ==
    /\ phase = "connect" /\ link = "ok"
    /\ Begin("first", PassMax)
    /\ connected' = TRUE
    /\ UNCHANGED <<link, since, dataVars, clockVars, tableVars>>

ConnectFails ==
    /\ phase = "connect" /\ hurt
    /\ Begin("retry", RetryDelay)
    /\ success' = FALSE
    /\ UNCHANGED <<connected, link, since, age, lag, clockVars, tableVars>>

\* The input registers are there; the command is read next.
InputsRead ==
    /\ phase = "first" /\ link = "ok"
    /\ Begin("second", PassMax)
    /\ UNCHANGED <<connected, link, since, dataVars, clockVars, tableVars>>

\* Mutant of ReadSucceeds: last_update counts on from the clock at the start.
ReadSucceeds_KeepsDrift ==
    /\ phase = "second"
    /\ Begin("sleep", PollInterval)
    /\ age' = 0 /\ lag' = lead /\ success' = TRUE
    /\ UNCHANGED <<connected, link, since, clockVars, tableVars>>

\* update() stamps the data.  An error answer to the second pass is a success too:
\* the command is then 0.0, also when it is the link that is gone.
ReadSucceeds ==
    /\ phase = "second"
    /\ Begin("sleep", PollInterval)
    /\ age' = 0 /\ lag' = lead /\ success' = TRUE
    /\ drift' = 0 /\ setBack' = 0
    /\ UNCHANGED <<connected, link, since, steady, tableVars>>

\* Mutant of ReadFails: the failure is not marked in the store.
ReadFails_Unmarked ==
    /\ phase \in {"first", "second"} /\ hurt
    /\ Begin("sleep", PollInterval)
    /\ connected' = FALSE
    /\ UNCHANGED <<link, since, dataVars, clockVars, tableVars>>

\* Mutant of ReadFails: mark_stale() stamps the old data.
ReadFails_Stamps ==
    /\ phase \in {"first", "second"} /\ hurt
    /\ Begin("sleep", PollInterval)
    /\ connected' = FALSE /\ success' = FALSE
    /\ age' = 0 /\ lag' = ReadingAge
    /\ drift' = 0 /\ setBack' = 0
    /\ UNCHANGED <<link, since, steady, tableVars>>

\* mark_stale() and _disconnect().
ReadFails ==
    /\ phase \in {"first", "second"} /\ hurt
    /\ Begin("sleep", PollInterval)
    /\ connected' = FALSE /\ success' = FALSE
    /\ UNCHANGED <<link, since, age, lag, clockVars, tableVars>>

\* Mutant of Wakes: connecting gets the delay of a retry as its timeout.
Wakes_LongConnect ==
    /\ phase \in {"sleep", "retry"} /\ left = 0
    /\ IF connected THEN Begin("first", PassMax) ELSE Begin("connect", RetryDelay)
    /\ UNCHANGED <<connected, link, since, dataVars, clockVars, tableVars>>

\* Mutant of Wakes: every cycle opens a new connection.
Wakes_Reconnects ==
    /\ phase \in {"sleep", "retry"} /\ left = 0
    /\ Begin("connect", ConnectMax)
    /\ UNCHANGED <<connected, link, since, dataVars, clockVars, tableVars>>

Wakes ==
    /\ phase \in {"sleep", "retry"} /\ left = 0
    /\ IF connected THEN Begin("first", PassMax) ELSE Begin("connect", ConnectMax)
    /\ UNCHANGED <<connected, link, since, dataVars, clockVars, tableVars>>

-----------------------------------------------------------------------------
\* Mutant of TableRefreshes: only data younger than one refresh is copied.
TableRefreshes_OnlyNews ==
    /\ wake = 0 /\ wake' = Refresh
    /\ served' = IF age < Refresh THEN ReadingAge ELSE served
    /\ UNCHANGED <<pollVars, link, since, dataVars, clockVars>>

\* _update_points, and the sleep after it.
TableRefreshes ==
    /\ wake = 0 /\ wake' = Refresh
    /\ served' = ReadingAge
    /\ UNCHANGED <<pollVars, link, since, dataVars, clockVars>>

Poller ==
    \/ ConnectSucceeds \/ ConnectFails \/ InputsRead \/ ReadSucceeds \/ ReadFails \/ Wakes

Next == Tick \/ LinkFails \/ LinkRecovers \/ ClockIsSet \/ Poller \/ TableRefreshes

Spec == Init /\ [][Next]_vars

-----------------------------------------------------------------------------
Most(p) == CASE p = "connect" -> ConnectMax [] p \in {"first", "second"} -> PassMax
             [] p = "sleep"   -> PollInterval [] p = "retry" -> RetryDelay

\* Type correctness, and no phase outlasts its timeout.
TypeOK ==
    /\ phase \in {"connect", "first", "second", "sleep", "retry"}
    /\ left \in 0..Most(phase) /\ connected \in BOOLEAN /\ hurt \in BOOLEAN
    /\ lead \in Nat /\ lag \in Nat
    /\ link \in {"ok", "down"} /\ since \in 0..Cap
    /\ age \in 0..Cap /\ success \in BOOLEAN
    /\ drift \in -MaxJump..MaxJump /\ setBack \in 0..MaxJump /\ steady \in 0..Cap
    /\ served \in 0..Cap /\ wake \in 0..Refresh

Longer(a, b) == IF a > b THEN a ELSE b

\* The longest a link can be back before fresh data is published: the call that
\* still fails, the sleep after it, and a whole cycle.
RecoveryTime ==
    Longer(PassMax + PollInterval, ConnectMax + RetryDelay) + ConnectMax + PassMax + PassMax

\* The longest from one update() to the next while every poll succeeds.
CycleTime == PollInterval + PassMax + PassMax

\* The longest that a poll's values are under way before it publishes them.
ReadingTime == PassMax + PassMax

Answering == link = "ok" /\ since > RecoveryTime

\* A link that has been back for RecoveryTime has brought a successful poll, and
\* as long as it holds the last update() is never longer ago than one cycle: that
\* is the age which is_stale() measures (poller.py:236-263).
RecoversInTime == Answering => success /\ age <= CycleTime

\* What BACnet shows was then read from the plant no longer ago than one cycle, one
\* refresh, and the two passes after whose start it was published
\* (poller.py:125-176, 245-250, bacnet_server.py:302-304).
TableIsRecent ==
    link = "ok" /\ since > RecoveryTime + Refresh => served <= CycleTime + ReadingTime + Refresh

\* Whatever fails, data that is_stale() calls fresh was read no longer ago than the
\* timeout, the two passes that came before its stamp, and what the clock was set
\* back since (data_store.py:62-86, poller.py:250, 256).
FreshIsRecent ==
    ~IsStale => ReadingAge <= StaleTimeout + ReadingTime + setBack

\* A plant that answers is reported stale only in the cycle after the clock was
\* set, if the timeout leaves room for a cycle (data_store.py:82-86).
NoFalseAlarm ==
    Answering /\ steady > CycleTime /\ CycleTime <= StaleTimeout => ~IsStale

\* A link that is down for longer than one cycle shows as a failed poll.  One that is
\* down for longer than the timeout shows as stale data, plus what the clock was set
\* back and the pass that a poll may succeed after it (poller.py:178-184, 240-256,
\* data_store.py:82-86).
LossIsShown ==
    link = "down" => /\ since > CycleTime => ~success
                     /\ since > StaleTimeout + PassMax + setBack => IsStale
=============================================================================
