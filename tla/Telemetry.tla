------------------------------ MODULE Telemetry ------------------------------
(***************************************************************************)
(* main.py: one process, in which the poller's thread and the BACnet       *)
(* server's thread share the DataStore, and a signal makes the main thread *)
(* stop them one by one and exit.  The clock, the site controller and the  *)
(* BACnet clients are the environment.                                     *)
(*                                                                         *)
(* The threads are untimed: how long a sleep or a network call takes is    *)
(* left open.  What is timed is the age of the data.                       *)
(***************************************************************************)
EXTENDS ModbusPoller, BACnetServer

VARIABLE
    mainPc          \* the main thread: "up", a step of shutdown(), "exited"

vars == <<heap, current, refs, pPc, pRunning, client, sample, plant, link,
          bPc, bRunning, served, socket, mainPc>>

MainPcs == {"up", "stopPoller", "closeClient", "clearClient", "stopOthers",
            "stopServer", "closeApp", "exited"}

ProcessUp == mainPc # "exited"

-----------------------------------------------------------------------------
Init ==
    /\ StoreInit /\ PollerInit /\ ServerInit
    /\ mainPc = "up"

Poller ==
    /\ ProcessUp /\ PollerNext
    /\ UNCHANGED <<serverVars, mainPc>>

Server ==
    /\ ProcessUp /\ ServerNext
    /\ UNCHANGED <<pollerVars, siteVars, mainPc>>

BACnetClient ==
    /\ ProcessUp /\ (SocketBinds \/ OperatorWrites)
    /\ UNCHANGED <<pollerVars, siteVars, mainPc>>

Site ==
    /\ PlantChanges \/ LinkChanges
    /\ UNCHANGED <<storeVars, pollerVars, serverVars, mainPc>>

Clock ==
    /\ ProcessUp /\ AgeData
    /\ UNCHANGED <<pollerVars, siteVars, serverVars, mainPc>>

-----------------------------------------------------------------------------
(* shutdown(): poller.stop(), the other services' stop(), bacnet.stop().   *)

MainStep(from, to) ==
    /\ mainPc = from /\ mainPc' = to
    /\ UNCHANGED siteVars

Signal ==
    /\ MainStep("up", "stopPoller")
    /\ UNCHANGED <<storeVars, pollerVars, serverVars>>

Shutdown ==
    \/ MainStep("stopPoller", "closeClient") /\ StopPoller /\ UNCHANGED serverVars
    \/ MainStep("closeClient", "clearClient") /\ CloseClient /\ UNCHANGED serverVars
    \/ MainStep("clearClient", "stopOthers") /\ ClearClient /\ UNCHANGED serverVars
    \/ MainStep("stopOthers", "stopServer")
         /\ UNCHANGED <<storeVars, pollerVars, serverVars>>
    \/ MainStep("stopServer", "closeApp") /\ StopServer /\ UNCHANGED pollerVars
    \/ MainStep("closeApp", "exited") /\ CloseApp /\ UNCHANGED pollerVars

InService == Poller \/ Server \/ BACnetClient \/ Site \/ Clock

Next == InService \/ Signal \/ Shutdown

Spec == Init /\ [][Next]_vars

-----------------------------------------------------------------------------
(* The appliance in service, never signalled to stop.  The operating       *)
(* system goes on running both threads, and time passes; nothing is        *)
(* assumed of the site, the BACnet clients, the socket, or whether the     *)
(* server's start succeeds.                                                *)

ServiceSpec ==
    /\ Init /\ [][InService]_vars
    /\ WF_vars(Poller) /\ WF_vars(Server) /\ WF_vars(Clock)

-----------------------------------------------------------------------------
TypeOK ==
    /\ StoreTypeOK /\ PollerTypeOK /\ ServerTypeOK
    /\ mainPc \in MainPcs
=============================================================================
