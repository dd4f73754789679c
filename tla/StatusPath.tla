----------------------------- MODULE StatusPath -----------------------------
(***************************************************************************)
(* The status pages next to the polling thread: web_ui.py's requests read  *)
(* the DataStore and the server's socket while ModbusPoller.run publishes  *)
(* and marks polls as failed, and the BACnet server starts, binds or dies. *)
(* The shutdown is left out: it ends the web threads with the process.     *)
(***************************************************************************)
EXTENDS ModbusPoller, WebStatus

VARIABLE
    sawGreen        \* history: [Requests -> the EPMS side was green since get()]

vars == <<heap, current, refs, pPc, pRunning, client, sample, plant, link,
          thread, socket, rPc, kind, resp, sawGreen>>

\* The EPMS half of "both sides green", as the store has it now.
EpmsGreen == heap[current].poll_success /\ ~IsStale(StaleTimeout)

Init ==
    /\ StoreInit /\ PollerInit /\ SocketInit /\ WebInit
    /\ sawGreen = [w \in Requests |-> FALSE]

Poller == PollerNext /\ UNCHANGED <<socketVars, webVars>>

Server == SocketNext /\ UNCHANGED <<storeVars, pollerVars, siteVars, webVars>>

Web == (\E w \in Requests : WebNext(w)) /\ UNCHANGED <<pollerVars, siteVars, socketVars>>

Site ==
    /\ PlantChanges \/ LinkChanges
    /\ UNCHANGED <<storeVars, pollerVars, socketVars, webVars>>

Clock == AgeData /\ UNCHANGED <<pollerVars, siteVars, socketVars, webVars>>

\* Green now, or green before within the same request.
History ==
    sawGreen' = [w \in Requests |->
                    /\ rPc'[w] \notin {"idle", "get"}
                    /\ sawGreen[w] \/ EpmsGreen']

Next == (Poller \/ Server \/ Web \/ Site \/ Clock) /\ History

Spec == Init /\ [][Next]_vars

TypeOK ==
    /\ StoreTypeOK /\ PollerTypeOK /\ SocketTypeOK /\ WebTypeOK
    /\ sawGreen \in [Requests -> BOOLEAN]

-----------------------------------------------------------------------------
(* What the pages may show.                                                *)

\* An object some reader holds never turns from "last poll failed" back to
\* "last poll succeeded": success always comes in a new object, so two reads
\* of one get() can only see poll_success drop (web_ui.py:442 and 460).
SuccessOnlyDrops ==
    [][\A o \in Objects :
          Held(o, current, refs) /\ Held(o, current', refs') /\ heap'[o].poll_success
            => heap[o].poll_success]_vars

\* "Both Sides Green" is never enabled next to an EPMS panel that says
\* WAITING, although confirm_status reads poll_success twice.
AllOkShowsConnected ==
    \A w \in Requests : resp[w].all_ok => resp[w].epms

\* If confirm_status answers all_ok, there was a moment during that very
\* request at which the current data was fresh AND of a successful poll,
\* although it reads staleness off one object and success off another.
AllOkWasGreen ==
    \A w \in Requests : rPc[w] = "done" /\ resp[w].all_ok => sawGreen[w]

\* If a response says data_stale, the values in that response are too old:
\* a poll between get() and is_stale() cannot raise a false alarm.
StaleWarningIsTrue ==
    \A w \in Requests :
        rPc[w] = "done" /\ resp[w].stale => TooOld(refs[w], StaleTimeout)

-----------------------------------------------------------------------------
(* The inductive invariant behind them, in named parts.                    *)

\* What of its reads a request has behind it.
Holding(w)   == rPc[w] \notin {"idle", "get"}
StaleRead(w) == \/ rPc[w] \in {"active", "okEpms", "okActive", "done"}
                \/ rPc[w] = "epms" /\ kind[w] # "status"
EpmsRead(w)  == \/ rPc[w] \in {"active", "okEpms", "okActive", "done"}
                \/ rPc[w] = "stale" /\ kind[w] = "status"

\* A request that has read the store holds an object, no younger than the
\* current one; a request that has not holds nothing and has said nothing.
ObjectsHeld ==
    \A w \in Requests :
        /\ Holding(w) => refs[w] # None
        /\ ~Holding(w) => refs[w] = None /\ ~resp[w].all_ok

HeldIsOlder ==
    \A r \in Readers : refs[r] # None =>
        heap[refs[r]].age = Never \/ (heap[current].age # Never
                                       /\ heap[current].age <= heap[refs[r]].age)

\* poll_success of the held object can only have dropped since it was read.
EpmsAnswer ==
    \A w \in Requests :
        /\ EpmsRead(w) /\ heap[refs[w]].poll_success => resp[w].epms
        /\ resp[w].all_ok => rPc[w] \in {"okActive", "done"} /\ resp[w].epms
        /\ rPc[w] = "okActive" => resp[w].all_ok

\* Superseded means published meanwhile; and a fresh answer about an object
\* that still counts as a success was, or came after, a green moment.
GreenSeen ==
    \A w \in Requests :
        /\ Holding(w) /\ refs[w] # current => sawGreen[w]
        /\ StaleRead(w) /\ ~resp[w].stale /\ heap[refs[w]].poll_success => sawGreen[w]
        /\ resp[w].all_ok /\ ~resp[w].stale => sawGreen[w]
        /\ rPc[w] = "done" /\ resp[w].all_ok => ~resp[w].stale

StaleAnswer ==
    \A w \in Requests :
        StaleRead(w) /\ resp[w].stale => TooOld(refs[w], StaleTimeout)

\* Every step preserves them together.
StatusInv == ObjectsHeld /\ HeldIsOlder /\ EpmsAnswer /\ GreenSeen /\ StaleAnswer
=============================================================================
