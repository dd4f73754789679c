------------------------------ MODULE Appliance ------------------------------
(***************************************************************************)
(* The telemetry path in service together with the status requests: every  *)
(* thread that touches the store, at once.  StatusPath leaves the BACnet   *)
(* server's references to objects, its refresh and its table out, and      *)
(* keeps ServerSocket of it.  This module says what that abstraction must  *)
(* be: the whole appliance implements StatusPath, so nothing that was      *)
(* shown of the pages there gets lost when the server reads the same       *)
(* objects.                                                                *)
(***************************************************************************)
EXTENDS TelemetryProperties

VARIABLES
    rPc, kind, resp,    \* the requests, as in WebStatus
    sawGreen            \* history, as in StatusPath

\* Every reader of the store but the server's thread is a request.
Requests == Readers \ {Bacnet}

ThreadSeen == IF bPc \in {"init", "starting"} THEN "starting"
              ELSE IF bPc = "dead" THEN "dead" ELSE "up"

Pages == INSTANCE WebStatus WITH thread <- ThreadSeen

\* What the pages can tell of the heap: an object that only the server still
\* holds is gone for them.
SeenByPages(o) == o = current \/ \E w \in Requests : refs[w] = o
PagesHeap == [o \in Objects |-> IF SeenByPages(o) THEN heap[o] ELSE Defaults]

\* StatusPath together with its theorems, which hold here once it is implemented.
Status == INSTANCE StatusPath_proofs
             WITH Readers <- Requests, thread <- ThreadSeen, heap <- PagesHeap,
                  refs <- [w \in Requests |-> refs[w]]

applianceVars == <<vars, rPc, kind, resp, sawGreen>>

-----------------------------------------------------------------------------
Green == heap[current].poll_success /\ ~IsStale(StaleTimeout)

ApplianceInit ==
    /\ Init /\ Pages!WebInit
    /\ sawGreen = [w \in Requests |-> FALSE]

Web ==
    /\ ProcessUp /\ \E w \in Requests : Pages!WebNext(w)
    /\ UNCHANGED <<pollerVars, siteVars, bPc, bRunning, served, socket, mainPc>>

Threads == InService /\ UNCHANGED <<rPc, kind, resp>>

\* Green now, or green before within the same request.
GreenHistory ==
    sawGreen' = [w \in Requests |->
                    /\ rPc'[w] \notin {"idle", "get"}
                    /\ sawGreen[w] \/ Green']

ApplianceNext == (Threads \/ Web) /\ GreenHistory

ApplianceSpec == ApplianceInit /\ [][ApplianceNext]_applianceVars

-----------------------------------------------------------------------------
\* The whole appliance implements what the status pages were checked with.
StatusRefined == Status!Spec

\* So its answers are true of the store itself, next to the server's thread:
\* all_ok only after a green moment of the request, data_stale only with
\* values that are too old.
AnswersAreTrue ==
    \A w \in Requests : rPc[w] = "done" =>
        /\ resp[w].all_ok => sawGreen[w]
        /\ resp[w].stale => TooOld(refs[w], StaleTimeout)

-----------------------------------------------------------------------------
(* The inductive invariant behind it.                                      *)

\* A request holds an object from its get() to its answer, and only then.
RequestsHold ==
    \A w \in Requests : rPc[w] \in {"idle", "get"} <=> refs[w] = None

\* A green moment within a request was noticed when it came.
GreenNoticed ==
    \A w \in Requests :
        /\ rPc[w] \in {"idle", "get"} => ~sawGreen[w]
        /\ rPc[w] \notin {"idle", "get"} /\ Green => sawGreen[w]

ApplianceTypeOK ==
    /\ TypeOK
    /\ rPc \in [Requests -> Pages!RequestPcs]
    /\ sawGreen \in [Requests -> BOOLEAN]

ApplianceInv == PathInv /\ RequestsHold /\ GreenNoticed
=============================================================================
