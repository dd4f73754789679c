------------------------------ MODULE DataStore ------------------------------
(***************************************************************************)
(* data_store.py: the one BESSData object that the Modbus poller publishes *)
(* and that the BACnet server and the web UI read.                         *)
(*                                                                         *)
(* The store holds a REFERENCE.  get() hands that reference out and the    *)
(* caller goes on reading the object without the lock; update() replaces   *)
(* the reference, while mark_stale() and mark_poll_failed() change the     *)
(* current object in place.  So the model has a heap of objects, the       *)
(* store's reference to it, and one reference per reader.                  *)
(*                                                                         *)
(* The sixteen analog and six binary points of one poll are the abstract   *)
(* version "block" of the register block 200-218; register 300 is "cmd".   *)
(***************************************************************************)
EXTENDS Integers

CONSTANTS
    Objects,        \* the heap: places for BESSData objects
    Readers,        \* threads that hold what get() returned in a local
    None,           \* no reference
    Commands,       \* values register 300 may hold
    StaleTimeout,   \* stale_data_timeout_seconds, in ticks
    AgeCap          \* bound: ages saturate here, beyond every timeout

ASSUME StoreAssumption ==
    /\ None \notin Objects
    /\ Commands \subseteq Int /\ 0 \in Commands
    /\ StaleTimeout \in Nat /\ AgeCap \in Nat /\ AgeCap > StaleTimeout

VARIABLES
    heap,           \* [Objects -> BESSData]
    current,        \* DataStore._data
    refs            \* [Readers -> Objects \cup {None}]: the readers' locals

storeVars == <<heap, current, refs>>

-----------------------------------------------------------------------------
Never == -1         \* age of an object whose last_update is still 0

BESSData == [block: Nat, cmd: Commands, age: {Never} \cup 0..AgeCap,
             poll_success: BOOLEAN, stale: BOOLEAN]

Defaults == [block |-> 0, cmd |-> 0, age |-> Never,
             poll_success |-> FALSE, stale |-> TRUE]

\* Somebody can still reach the object.
Held(o, cur, rs) == o = cur \/ \E r \in Readers : rs[r] = o

\* CPython frees an object with its last reference; its place is blank again.
Collected(h, cur, rs) ==
    [o \in Objects |-> IF Held(o, cur, rs) THEN h[o] ELSE Defaults]

StoreInit ==
    /\ current \in Objects
    /\ heap = [o \in Objects |-> Defaults]
    /\ refs = [r \in Readers |-> None]

\* Mutant of Update: every poll is written into the same object.
Update_InPlace(s) ==
    /\ heap' = [heap EXCEPT ![current] = [block |-> s.block, cmd |-> s.cmd, age |-> 0,
                                         poll_success |-> TRUE, stale |-> FALSE]]
    /\ UNCHANGED <<current, refs>>

\* update(): the poll's object becomes current, stamped and marked good.
Update(s) ==
    \E o \in Objects :
        /\ ~Held(o, current, refs)
        /\ current' = o
        /\ heap' = Collected(
               [heap EXCEPT ![o] = [block |-> s.block, cmd |-> s.cmd, age |-> 0,
                                    poll_success |-> TRUE, stale |-> FALSE]],
               o, refs)
        /\ UNCHANGED refs

\* Mutant of MarkStale: the points are cleared too.
MarkStale_Clears ==
    /\ heap' = [heap EXCEPT ![current] = [Defaults EXCEPT !.age = heap[current].age]]
    /\ UNCHANGED <<current, refs>>

MarkStale ==
    /\ heap' = [heap EXCEPT ![current].stale = TRUE,
                            ![current].poll_success = FALSE]
    /\ UNCHANGED <<current, refs>>

\* Mutant of MarkPollFailed: the failed poll stamps last_update as well.
MarkPollFailed_Stamps ==
    /\ heap' = [heap EXCEPT ![current].poll_success = FALSE, ![current].age = 0]
    /\ UNCHANGED <<current, refs>>

MarkPollFailed ==
    /\ heap' = [heap EXCEPT ![current].poll_success = FALSE]
    /\ UNCHANGED <<current, refs>>

Get(r) ==
    /\ refs' = [refs EXCEPT ![r] = current]
    /\ UNCHANGED <<heap, current>>

\* The reader's local goes out of scope.
Release(r) ==
    /\ refs' = [refs EXCEPT ![r] = None]
    /\ heap' = Collected(heap, current, refs')
    /\ UNCHANGED current

\* Nothing was ever published in o, or it was published too long ago.
TooOld(o, timeout) == heap[o].age = Never \/ heap[o].age > timeout

\* is_stale(): always about the object that is current NOW.
IsStale(timeout) == TooOld(current, timeout)

\* The clock: time.time() - last_update of every published object grows.
Older(a) == IF a = Never \/ a = AgeCap THEN a ELSE a + 1

AgeData ==
    /\ heap' = [o \in Objects |-> [heap[o] EXCEPT !.age = Older(@)]]
    /\ UNCHANGED <<current, refs>>

StoreTypeOK ==
    /\ heap \in [Objects -> BESSData]
    /\ current \in Objects
    /\ refs \in [Readers -> Objects \cup {None}]
=============================================================================
