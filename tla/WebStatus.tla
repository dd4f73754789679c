------------------------------ MODULE WebStatus ------------------------------
(***************************************************************************)
(* web_ui.py: the three read-only endpoints the pages poll.                *)
(*     "live"     api_live_data    the dashboard                           *)
(*     "status"   api_status       header and hardware panels              *)
(*     "confirm"  confirm_status   step 4, "Both Sides Green"              *)
(*                                                                         *)
(* Each runs in a thread of the threaded server, and reads the store, the  *)
(* object get() gave it, and the socket table one after the other, in the  *)
(* order of its statements (rPc names the read that is next).              *)
(***************************************************************************)
EXTENDS DataStore, ServerSocket

CONSTANT Requests   \* the web server's threads, as readers of the store

ASSUME RequestsAssumption == Requests \subseteq Readers

VARIABLES
    rPc,            \* [Requests -> next read]
    kind,           \* [Requests -> endpoint]
    resp            \* [Requests -> the response so far]

webVars == <<rPc, kind, resp>>

Kinds == {"live", "status", "confirm"}

RequestPcs == {"idle", "get", "stale", "epms", "active", "okEpms", "okActive", "done"}

Responses == [epms: BOOLEAN, active: BOOLEAN, stale: BOOLEAN, all_ok: BOOLEAN]

Blank == [epms |-> FALSE, active |-> FALSE, stale |-> FALSE, all_ok |-> FALSE]

WebInit ==
    /\ rPc = [w \in Requests |-> "idle"]
    /\ kind = [w \in Requests |-> "live"]
    /\ resp = [w \in Requests |-> Blank]

\* ss lists the socket; anything else on that port is left out.
Listening == socket = "bound"

\* The read goes into a field of the response; `to` is the read after it.
Reply(w, field, value, to) ==
    /\ resp' = [resp EXCEPT ![w][field] = value]
    /\ rPc' = [rPc EXCEPT ![w] = to]
    /\ UNCHANGED <<kind, heap, current, refs>>

Request(w) ==
    /\ rPc[w] = "idle"
    /\ \E k \in Kinds : kind' = [kind EXCEPT ![w] = k]
    /\ rPc' = [rPc EXCEPT ![w] = "get"]
    /\ UNCHANGED <<resp, heap, current, refs>>

ReadStore(w) ==
    /\ rPc[w] = "get"
    /\ Get(w)
    /\ rPc' = [rPc EXCEPT ![w] = IF kind[w] = "status" THEN "epms" ELSE "stale"]
    /\ UNCHANGED <<kind, resp>>

ReadStale(w) ==
    /\ rPc[w] = "stale"
    /\ Reply(w, "stale", IsStale(StaleTimeout),
             IF kind[w] = "status" THEN "done" ELSE "epms")

\* Mutant of ReadEpms: the values are taken from a second get().
ReadEpms_GetsAgain(w) ==
    /\ rPc[w] = "epms"
    /\ Get(w)
    /\ resp' = [resp EXCEPT ![w].epms = heap[current].poll_success]
    /\ rPc' = [rPc EXCEPT ![w] = IF kind[w] = "status" THEN "stale" ELSE "active"]
    /\ UNCHANGED kind

ReadEpms(w) ==
    /\ rPc[w] = "epms"
    /\ Reply(w, "epms", heap[refs[w]].poll_success,
             IF kind[w] = "status" THEN "stale" ELSE "active")

\* The dashboard's endpoint does not look: it says True.
ReadActive(w) ==
    /\ rPc[w] = "active"
    /\ Reply(w, "active", kind[w] = "live" \/ Listening,
             IF kind[w] = "confirm" THEN "okEpms" ELSE "done")

\* Mutant of ReadEpmsAgain: the second look goes through the store.
ReadEpmsAgain_Current(w) ==
    /\ rPc[w] = "okEpms"
    /\ Reply(w, "all_ok", heap[current].poll_success,
             IF heap[current].poll_success THEN "okActive" ELSE "done")

\* all_ok reads the object and the socket table a second time.
ReadEpmsAgain(w) ==
    /\ rPc[w] = "okEpms"
    /\ Reply(w, "all_ok", heap[refs[w]].poll_success,
             IF heap[refs[w]].poll_success THEN "okActive" ELSE "done")

\* Mutant of ReadActiveAgain: all_ok forgets staleness.
ReadActiveAgain_IgnoresStale(w) ==
    /\ rPc[w] = "okActive"
    /\ Reply(w, "all_ok", Listening, "done")

ReadActiveAgain(w) ==
    /\ rPc[w] = "okActive"
    /\ Reply(w, "all_ok", Listening /\ ~resp[w].stale, "done")

Respond(w) ==
    /\ rPc[w] = "done"
    /\ Release(w)
    /\ rPc' = [rPc EXCEPT ![w] = "idle"]
    /\ kind' = [kind EXCEPT ![w] = "live"]
    /\ resp' = [resp EXCEPT ![w] = Blank]

WebNext(w) ==
    \/ Request(w) \/ ReadStore(w) \/ ReadStale(w) \/ ReadEpms(w)
    \/ ReadActive(w) \/ ReadEpmsAgain(w) \/ ReadActiveAgain(w) \/ Respond(w)

WebTypeOK ==
    /\ rPc \in [Requests -> RequestPcs]
    /\ kind \in [Requests -> Kinds]
    /\ resp \in [Requests -> Responses]
=============================================================================
