---------------------------- MODULE ServerSocket ----------------------------
(***************************************************************************)
(* What the rest of the appliance can see of the BACnet server: whether    *)
(* its thread has died, and UDP socket 47808.  BACnetServer implements     *)
(* this (checked as SocketRefined of TelemetryProperties), and the status  *)
(* pages are composed with it instead of with the whole server.            *)
(***************************************************************************)

VARIABLES
    thread,         \* "starting", "up" (or ended by stop), "dead"
    socket          \* "none", "opening" (in a task), "bound", "shut"

socketVars == <<thread, socket>>

SocketInit == thread = "starting" /\ socket = "none"

\* The application exists: its socket will be opened by a task of the loop.
ThreadStarts ==
    /\ thread = "starting" /\ thread' = "up"
    /\ socket' = IF socket = "none" THEN "opening" ELSE socket

\* An exception while starting ends the thread, before any socket is opened.
ThreadDies ==
    /\ thread = "starting" /\ thread' = "dead"
    /\ UNCHANGED socket

\* The task binds the port, or fails to, which the thread does not notice.
Binds ==
    /\ thread = "up" /\ socket = "opening"
    /\ socket' \in {"bound", "shut"}
    /\ UNCHANGED thread

Closes ==
    /\ socket \in {"opening", "bound"} /\ socket' = "shut"
    /\ UNCHANGED thread

SocketNext == ThreadStarts \/ ThreadDies \/ Binds \/ Closes

SocketSpec == SocketInit /\ [][SocketNext]_socketVars

SocketTypeOK ==
    /\ thread \in {"starting", "up", "dead"}
    /\ socket \in {"none", "opening", "bound", "shut"}
=============================================================================
