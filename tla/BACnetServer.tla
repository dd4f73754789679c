---------------------------- MODULE BACnetServer ----------------------------
(***************************************************************************)
(* bacnet_server.py: the thread that serves the points over BACnet/IP.     *)
(*                                                                         *)
(* Its asyncio loop runs one coroutine at a time: a BACnet client reads    *)
(* the table, or writes AV:1, only where _run_async awaits (bPc =          *)
(* "await"), while the poller's thread may run between any two statements. *)
(* The 16 analog inputs are copied from one object, as are the 6 binary    *)
(* inputs, so "ai" and "bi" are the register block each was copied from.   *)
(***************************************************************************)
EXTENDS DataStore

CONSTANT Bacnet     \* the server's thread, as a reader of the store

ASSUME BacnetAssumption == Bacnet \in Readers

VARIABLES
    bPc,            \* where the server's thread is
    bRunning,       \* BACnetServer._running
    served,         \* the presentValues of the objects
    socket          \* UDP 47808: "none", "opening" (in a task), "bound", "shut"

serverVars == <<bPc, bRunning, served, socket>>

ServerPcs == {"init", "starting", "loop", "get", "ai", "bi", "av", "await",
              "exited", "dead"}

Table == [ai: Nat, bi: Nat, av: Commands]

ServerInit ==
    /\ bPc = "init"
    /\ bRunning = FALSE
    /\ served = [ai |-> 0, bi |-> 0, av |-> 0]
    /\ socket = "none"

ServerRuns ==
    /\ bPc = "init" /\ bPc' = "starting"
    /\ bRunning' = TRUE
    /\ UNCHANGED <<served, socket, heap, current, refs>>

\* _start_bacnet succeeds.  The library opens the socket in a task of the
\* loop, which has not run yet.
StartSucceeds ==
    /\ bPc = "starting" /\ bPc' = "loop"
    /\ socket' = IF socket = "none" THEN "opening" ELSE socket
    /\ UNCHANGED <<bRunning, served, heap, current, refs>>

\* Mutant of StartFails: the socket is opened before the objects are added.
StartFails_SocketOpen ==
    /\ bPc = "starting" /\ bPc' = "dead"
    /\ socket' = "opening"
    /\ UNCHANGED <<bRunning, served, heap, current, refs>>

\* Any exception while starting is logged by run(), and the thread ends.
StartFails ==
    /\ bPc = "starting" /\ bPc' = "dead"
    /\ UNCHANGED <<bRunning, served, socket, heap, current, refs>>

ServerLoopTest ==
    /\ bPc = "loop"
    /\ bPc' = IF bRunning THEN "get" ELSE "exited"
    /\ UNCHANGED <<bRunning, served, socket, heap, current, refs>>

\* _update_points, in the order of its statements.  What is_stale answers is
\* only logged.
RefreshGet ==
    /\ bPc = "get" /\ bPc' = "ai"
    /\ Get(Bacnet)
    /\ UNCHANGED <<bRunning, served, socket>>

CopyAnalog ==
    /\ bPc = "ai" /\ bPc' = "bi"
    /\ served' = [served EXCEPT !.ai = heap[refs[Bacnet]].block]
    /\ UNCHANGED <<bRunning, socket, heap, current, refs>>

\* Mutant of CopyBinary: the store is read again for the fault flags.
CopyBinary_Rereads ==
    /\ bPc = "bi" /\ bPc' = "av"
    /\ served' = [served EXCEPT !.bi = heap[current].block]
    /\ UNCHANGED <<bRunning, socket, heap, current, refs>>

CopyBinary ==
    /\ bPc = "bi" /\ bPc' = "av"
    /\ served' = [served EXCEPT !.bi = heap[refs[Bacnet]].block]
    /\ UNCHANGED <<bRunning, socket, heap, current, refs>>

\* The except after it swallows what a copy may raise; nothing it copies is known to.
CopyCommand ==
    /\ bPc = "av" /\ bPc' = "await"
    /\ served' = [served EXCEPT !.av = heap[refs[Bacnet]].cmd]
    /\ Release(Bacnet)
    /\ UNCHANGED <<bRunning, socket>>

RefreshWakes ==
    /\ bPc = "await" /\ bPc' = "loop"
    /\ UNCHANGED <<bRunning, served, socket, heap, current, refs>>

\* The library's task binds UDP 47808; it may fail, which nobody is told.
SocketBinds ==
    /\ bPc = "await" /\ socket = "opening"
    /\ socket' \in {"bound", "shut"}
    /\ UNCHANGED <<bPc, bRunning, served, heap, current, refs>>

\* A BACnet client (an operator at the building's controller) writes AV:1.  The
\* next refresh overwrites it: nothing reads it before.
OperatorWrites ==
    /\ bPc = "await" /\ socket = "bound"
    /\ \E c \in Commands : served' = [served EXCEPT !.av = c]
    /\ UNCHANGED <<bPc, bRunning, socket, heap, current, refs>>

\* What the thread does by itself.
ServerNext ==
    \/ ServerRuns \/ StartSucceeds \/ StartFails \/ ServerLoopTest
    \/ RefreshGet \/ CopyAnalog \/ CopyBinary \/ CopyCommand \/ RefreshWakes

-----------------------------------------------------------------------------
(* stop(), in the main thread: the flag, then the application.             *)

StopServer ==
    /\ bRunning' = FALSE
    /\ UNCHANGED <<bPc, served, socket, heap, current, refs>>

CloseApp ==
    /\ socket' = IF socket = "none" THEN "none" ELSE "shut"
    /\ UNCHANGED <<bPc, bRunning, served, heap, current, refs>>

ServerTypeOK ==
    /\ bPc \in ServerPcs
    /\ bRunning \in BOOLEAN
    /\ served \in Table
    /\ socket \in {"none", "opening", "bound", "shut"}
=============================================================================
