------------------------ MODULE TelemetryProperties ------------------------
(***************************************************************************)
(* What the telemetry path must do, and what the repository's own comments *)
(* say it does.                                                            *)
(***************************************************************************)
EXTENDS Telemetry

-----------------------------------------------------------------------------
(* The BACnet table.                                                       *)

\* Wherever a BACnet client can look (the server awaits), the analog and the
\* binary points come from one poll, although the poller may have published
\* in the middle of _update_points (bacnet_server.py:238-286).
TableIsOnePoll == bPc = "await" => served.ai = served.bi

\* No interleaving, failed poll, reconnect or late refresh makes the analog
\* inputs show an older state of the plant than they showed before.
ServedNeverGoesBack ==
    [][served'.ai >= served.ai /\ served'.bi >= served.bi]_vars

\* The whole path implements the abstract feed: the table only shows states
\* the plant was in, in the plant's order, each of them through the store.
Feed == INSTANCE TelemetryFeed
            WITH source <- plant.block,
                 published <- heap[current].block,
                 shown <- served.ai

FeedRefined == Feed!FeedSpec

\* All that the status pages can see of the server is what ServerSocket says:
\* a server that died while starting never has the socket.
Socket == INSTANCE ServerSocket
              WITH thread <- IF bPc \in {"init", "starting"} THEN "starting"
                             ELSE IF bPc = "dead" THEN "dead" ELSE "up"

SocketRefined == Socket!SocketSpec

-----------------------------------------------------------------------------
(* The threads.                                                            *)

\* The AttributeError at poller.py:238 cannot end the polling thread while
\* the appliance is in service: only stop() clears the client under it.
CrashOnlyOnStop ==
    pPc = "crashed" => mainPc \notin {"up", "stopPoller", "closeClient", "clearClient"}

-----------------------------------------------------------------------------
(* The inductive invariant behind the safety properties, in named parts.   *)

\* While _update_points copies, it holds an object.
RefreshHolds == bPc \in {"ai", "bi", "av"} => refs[Bacnet] # None

\* A reader's object is no newer than the current one, the current one no
\* newer than the poll under way, and no poll is newer than the plant.
DataInOrder ==
    /\ \A r \in Readers : refs[r] # None => heap[refs[r]].block <= heap[current].block
    /\ heap[current].block <= plant.block
    /\ sample.block <= plant.block
    /\ pPc \in {"read2", "publish"} => heap[current].block <= sample.block

\* Half-way through _update_points one half of the table is the held object's
\* and the other half is older.
TableInOrder ==
    /\ served.ai <= heap[current].block /\ served.bi <= heap[current].block
    /\ bPc \in {"ai", "bi"} => served.bi <= heap[refs[Bacnet]].block
    /\ bPc \in {"bi", "av"} => served.ai = heap[refs[Bacnet]].block
    /\ bPc # "bi" => served.ai = served.bi

\* Only stop() can have cleared the client between the two loads.
ClientThere ==
    pPc = "crashed" \/ (pPc = "probe2" /\ client = "none")
        => mainPc \notin {"up", "stopPoller", "closeClient", "clearClient"}

\* Every step of every thread preserves the four together: at each moment
\* table <= held object <= current object <= poll under way <= plant.
PathInv == RefreshHolds /\ DataInOrder /\ TableInOrder /\ ClientThere

-----------------------------------------------------------------------------
(* Liveness.                                                               *)

\* If the site controller answers from some time on and the server started,
\* the BACnet points come to show the plant's registers, and stay there.
FreshDataReachesClients ==
    <>[](link = "ok") /\ [](bPc # "dead")
        => <>[](served.ai = plant.block /\ served.bi = plant.block)

\* If the link stays down, then wherever it caught the poller (between the
\* two passes the poll even counts as a success) the data gets stale and the
\* last poll failed, for good.
LinkLossIsNoticed ==
    <>[](link = "down") => <>[](IsStale(StaleTimeout) /\ ~heap[current].poll_success)

\* The safety half of the two.  A table that shows the plant as it is stays as
\* it is until the plant changes, whatever older poll is still on its way.
FreshStays ==
    [][served.ai = plant.block /\ served.bi = plant.block /\ plant' = plant
         => served'.ai = served.ai /\ served'.bi = served.bi]_vars

\* And a loss that was noticed stays so while the link is down: outside its two
\* last steps a poll cannot succeed any more.
LossNoticed ==
    /\ link = "down" /\ pPc \notin {"read2", "publish"}
    /\ IsStale(StaleTimeout) /\ ~heap[current].poll_success

LossStays == [][LossNoticed /\ link' = "down" => LossNoticed']_vars

\* What both rest on: no failed connect, failed poll or failed start but a stop
\* makes a thread leave its loop (poller.py:227-263, bacnet_server.py:311-316).
LoopsGoOn ==
    /\ mainPc = "up" => pPc \notin {"exited", "crashed"}
    /\ mainPc # "exited" /\ mainPc # "closeApp" => bPc # "exited"

\* It takes the flags: run() sets them, and only stop() resets them.
FlagsSet ==
    /\ mainPc \in {"up", "stopPoller"} /\ pPc # "init" => pRunning
    /\ mainPc \notin {"closeApp", "exited"} /\ bPc # "init" => bRunning
    /\ LoopsGoOn

=============================================================================
