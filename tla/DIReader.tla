------------------------------ MODULE DIReader ------------------------------
(***************************************************************************)
(* revpi_di.py: the thread that scans the digital inputs, next to those    *)
(* who read them, the BACnet refresh (bacnet_server.py) and /api/di_status *)
(* (web_ui.py), and shutdown() in the main thread.                         *)
(*                                                                         *)
(* The reader holds its lock for a whole scan.  The others take it only    *)
(* to get the list, and then read the LIVE input objects without it.  A    *)
(* lock that is held within one step by all but the reader is the reader's *)
(* being in "scan".  The refresh and the requests write nothing that any   *)
(* other thread reads, so that a behaviour follows one of them (client).   *)
(*                                                                         *)
(* What a read of channel c would give is level[c]: it counts the changes, *)
(* and the input is energised when it is odd.  An input that cannot be     *)
(* read is one that is not energised: the code makes no difference.        *)
(***************************************************************************)
EXTENDS Integers

CONSTANTS
    NumChannels,    \* NUM_CHANNELS
    Enabled,        \* channels with a name
    Closed,         \* channels with normal_state "closed"
    MaxTurn         \* bound: how often an input changes

ASSUME DIAssumption ==
    /\ NumChannels \in Nat \ {0} /\ MaxTurn \in Nat
    /\ Enabled \subseteq 1..NumChannels /\ Closed \subseteq 1..NumChannels

VARIABLES
    fitted,         \* there is a board, and DEV_MODE is not set
    client,         \* whose reads are followed: "refresh" or "request"
    level,          \* [Channels -> changes]: the process image (external)
    dPc, nextRead,  \* where the reader is, and the channel it reads next
    dRunning,       \* RevPiDIReader._running
    simulate,       \* _simulate
    board,          \* _rpi: "none", "open" or "closed"
    raw,            \* [Channels -> changes behind raw_value]
    sPc, nextCopy,  \* the BACnet server's thread
    sRunning,       \* BACnetServer._running
    bi,             \* [Channels -> presentValue of the BI, and the change behind it]
    wPc, shown,     \* a /api/di_status request, and the input it is looked at for
    answer,         \* what it answers for that input
    mPc,            \* the main thread: "service", then shutdown() step by step
    listed,         \* history: raw when the refresh got its list
    asked,          \* history: raw of the input when the request got its list
    closing         \* history: who was cut off when the board was closed

readerVars == <<dPc, nextRead, dRunning, simulate, board, raw, level>>
serverVars == <<sPc, nextCopy, sRunning, bi>>
webVars    == <<wPc, shown, answer, asked>>
vars == <<fitted, client, readerVars, serverVars, webVars, mPc, listed, closing>>

Channels == 1..NumChannels
Turns    == 0..(MaxTurn + 1)    \* closing the board may be one more change
Blank    == -1                  \* a BI that no refresh has written yet

NoAnswer == [raw |-> 0, active |-> FALSE]

Energised(turn) == turn % 2 = 1

\* Mutant of IsActive: the contact's normal state is ignored.
IsActive_Plain(c, turn) == Energised(turn)

\* DIInput.is_active
IsActive(c, turn) == IF c \in Closed THEN ~Energised(turn) ELSE Energised(turn)

\* The next enabled channel from c on, or the one after the last.
NextEnabled(c) ==
    IF \E d \in Enabled : d >= c
      THEN CHOOSE d \in Enabled : d >= c /\ \A e \in Enabled : e >= c => d <= e
      ELSE NumChannels + 1

Init ==
    /\ fitted \in BOOLEAN /\ client \in {"refresh", "request"}
    /\ level = [c \in Channels |-> 0]
    /\ dPc = "init" /\ nextRead = 1 /\ dRunning = FALSE
    /\ simulate = FALSE /\ board = "none"
    /\ raw = [c \in Channels |-> 0]
    /\ sPc = "init" /\ nextCopy = 1 /\ sRunning = FALSE
    /\ bi = [c \in Channels |-> [active |-> FALSE, turn |-> Blank]]
    /\ wPc = "idle" /\ shown = 1
    /\ answer = NoAnswer
    /\ mPc = "service"
    /\ listed = raw /\ asked = 0
    /\ closing = [late |-> FALSE, forced |-> {}]

-----------------------------------------------------------------------------
(* The inputs.  Nothing depends on them while they are simulated, and once *)
(* the board is closed no read gets through any more.                      *)

InputChanges ==
    /\ ~simulate /\ board # "closed"
    /\ \E c \in Channels :
          /\ level[c] < MaxTurn
          /\ level' = [level EXCEPT ![c] = @ + 1]
    /\ UNCHANGED <<dPc, nextRead, dRunning, simulate, board, raw,
                   fitted, client, serverVars, webVars, mPc, listed, closing>>

-----------------------------------------------------------------------------
(* The reader's thread: run().                                             *)

ReaderStarts ==
    /\ dPc = "init" /\ dPc' = "hardware"
    /\ dRunning' = TRUE
    /\ UNCHANGED <<nextRead, simulate, board, raw, level>>

\* _init_hardware.  Without a board, or a library that opens it, it says False.
\* handlesignalend() comes after the board was opened, and may raise as well.
InitHardware ==
    /\ dPc = "hardware" /\ dPc' = "top"
    /\ board' \in IF fitted THEN {"none", "open"} ELSE {"none"}
    /\ simulate' \in IF board' = "open" THEN BOOLEAN ELSE {TRUE}
    /\ UNCHANGED <<nextRead, dRunning, raw, level>>

\* Mutant of ReaderLoop: the flag is not tested again.
ReaderLoop_Forever ==
    /\ dPc = "top" /\ dPc' = "lock"
    /\ UNCHANGED <<nextRead, dRunning, simulate, board, raw, level>>

ReaderLoop ==
    /\ dPc = "top"
    /\ dPc' = IF dRunning THEN "lock" ELSE "exited"
    /\ UNCHANGED <<nextRead, dRunning, simulate, board, raw, level>>

\* Mutant of ReaderLocks: a scan starts from blank inputs.
ReaderLocks_Blank ==
    /\ dPc = "lock" /\ dPc' = "scan"
    /\ nextRead' = 1
    /\ raw' = [c \in Channels |-> 0]
    /\ UNCHANGED <<dRunning, simulate, board, level>>

ReaderLocks ==
    /\ dPc = "lock" /\ dPc' = "scan"
    /\ nextRead' = 1
    /\ UNCHANGED <<dRunning, simulate, board, raw, level>>

\* _read_hardware, one input.
ReadChannel ==
    /\ dPc = "scan" /\ nextRead <= NumChannels /\ ~simulate
    /\ raw' = [raw EXCEPT ![nextRead] = level[nextRead]]
    /\ nextRead' = nextRead + 1
    /\ UNCHANGED <<dPc, dRunning, simulate, board, level>>

\* _read_simulated, one input: the random number says toggle, or not.
SimulateChannel ==
    /\ dPc = "scan" /\ nextRead <= NumChannels /\ simulate
    /\ \/ UNCHANGED raw
       \/ /\ nextRead \in Enabled /\ raw[nextRead] < MaxTurn
          /\ raw' = [raw EXCEPT ![nextRead] = @ + 1]
    /\ nextRead' = nextRead + 1
    /\ UNCHANGED <<dPc, dRunning, simulate, board, level>>

\* Mutant of ReaderUnlocks: an early return leaves the lock behind.
ReaderUnlocks_Never ==
    /\ dPc = "scan" /\ nextRead > NumChannels
    /\ UNCHANGED readerVars

\* The lock is released; the sleep ends with the next test of the flag.
ReaderUnlocks ==
    /\ dPc = "scan" /\ nextRead > NumChannels
    /\ dPc' = "top" /\ nextRead' = 1
    /\ UNCHANGED <<dRunning, simulate, board, raw, level>>

Reader ==
    /\ \/ ReaderStarts \/ InitHardware \/ ReaderLoop \/ ReaderLocks
       \/ ReadChannel \/ SimulateChannel \/ ReaderUnlocks
    /\ UNCHANGED <<fitted, client, serverVars, webVars, mPc, listed, closing>>

-----------------------------------------------------------------------------
(* The BACnet server's thread.                                             *)

LockFree == dPc # "scan"

\* run(), and _start_bacnet: a BI "inactive" for each enabled input.
ServerStarts ==
    /\ sPc = "init" /\ LockFree
    /\ sPc' = "await" /\ sRunning' = TRUE
    /\ UNCHANGED <<nextCopy, bi, listed>>

ServerLoop ==
    /\ sPc = "await"
    /\ sPc' = IF sRunning THEN "list" ELSE "exited"
    /\ UNCHANGED <<nextCopy, sRunning, bi, listed>>

ListInputs ==
    /\ sPc = "list" /\ LockFree
    /\ sPc' = "copy" /\ nextCopy' = NextEnabled(1)
    /\ listed' = raw
    /\ UNCHANGED <<sRunning, bi>>

\* Mutant of CopyInput: only active inputs are written.
CopyInput_OnlyActive ==
    /\ sPc = "copy" /\ nextCopy \in Enabled
    /\ bi' = IF IsActive(nextCopy, raw[nextCopy])
               THEN [bi EXCEPT ![nextCopy] = [active |-> TRUE, turn |-> raw[nextCopy]]]
               ELSE bi
    /\ nextCopy' = NextEnabled(nextCopy + 1)
    /\ UNCHANGED <<sPc, sRunning, listed>>

CopyInput ==
    /\ sPc = "copy" /\ nextCopy \in Enabled
    /\ bi' = [bi EXCEPT ![nextCopy] = [active |-> IsActive(nextCopy, raw[nextCopy]),
                                       turn |-> raw[nextCopy]]]
    /\ nextCopy' = NextEnabled(nextCopy + 1)
    /\ UNCHANGED <<sPc, sRunning, listed>>

RefreshDone ==
    /\ sPc = "copy" /\ nextCopy > NumChannels
    /\ sPc' = "await" /\ nextCopy' = 1
    /\ listed' = [c \in Channels |-> 0]
    /\ UNCHANGED <<sRunning, bi>>

Server ==
    /\ client = "refresh"
    /\ \/ ServerStarts \/ ServerLoop \/ ListInputs
       \/ CopyInput \/ RefreshDone
    /\ UNCHANGED <<fitted, client, readerVars, webVars, mPc, closing>>

-----------------------------------------------------------------------------
(* api_di_status loops over all inputs, whose entries do not depend on each *)
(* other: a request is followed for one of them.  raw_value and is_active  *)
(* are two loads.                                                          *)

Ask ==
    /\ wPc = "idle" /\ wPc' = "list"
    /\ shown' \in Channels
    /\ UNCHANGED <<answer, asked>>

ListAll ==
    /\ wPc = "list" /\ LockFree
    /\ wPc' = "raw"
    /\ asked' = raw[shown]
    /\ UNCHANGED <<shown, answer>>

ShowRaw ==
    /\ wPc = "raw" /\ wPc' = "active"
    /\ answer' = [answer EXCEPT !.raw = raw[shown]]
    /\ UNCHANGED <<shown, asked>>

ShowActive ==
    /\ wPc = "active" /\ wPc' = "done"
    /\ answer' = [answer EXCEPT !.active = IsActive(shown, raw[shown])]
    /\ UNCHANGED <<shown, asked>>

Answer ==
    /\ wPc = "done" /\ wPc' = "idle"
    /\ shown' = 1 /\ answer' = NoAnswer /\ asked' = 0

Web ==
    /\ client = "request"
    /\ Ask \/ ListAll \/ ShowRaw \/ ShowActive \/ Answer
    /\ UNCHANGED <<fitted, client, readerVars, serverVars, mPc, listed, closing>>

-----------------------------------------------------------------------------
(* shutdown(), which runs in the main thread.                              *)

Signal ==
    /\ mPc = "service" /\ mPc' = "flag"
    /\ UNCHANGED <<readerVars, serverVars, closing>>

StopFlag ==
    /\ mPc = "flag" /\ mPc' = "board"
    /\ dRunning' = FALSE
    /\ UNCHANGED <<dPc, nextRead, simulate, board, raw, level, serverVars, closing>>

\* cleanup() closes the process image without the lock: every read of a scan
\* that goes on raises from here, and the input counts as off.
CloseBoard ==
    /\ mPc = "board" /\ mPc' = "others"
    /\ IF board # "open" THEN UNCHANGED <<board, level, closing>>
       ELSE /\ board' = "closed"
            /\ closing' = [late   |-> dRunning \/ dPc \in {"lock", "scan"},
                           forced |-> {c \in Channels : Energised(level[c])}]
            /\ level' = [c \in Channels |-> IF Energised(level[c]) THEN level[c] + 1
                                                                  ELSE level[c]]
    /\ UNCHANGED <<dPc, nextRead, dRunning, simulate, raw, serverVars>>

\* The other services are stopped in between, which may take seconds.
StopServer ==
    /\ mPc = "others" /\ mPc' = "exit"
    /\ sRunning' = FALSE
    /\ UNCHANGED <<readerVars, sPc, nextCopy, bi, closing>>

Exit ==
    /\ mPc = "exit" /\ mPc' = "gone"
    /\ UNCHANGED <<readerVars, serverVars, closing>>

Main ==
    /\ Signal \/ StopFlag \/ CloseBoard \/ StopServer \/ Exit
    /\ UNCHANGED <<fitted, client, webVars, listed>>

-----------------------------------------------------------------------------
Next ==
    /\ mPc # "gone"
    /\ Reader \/ Server \/ Web \/ Main \/ InputChanges

\* The system schedules the threads, no wait in them is unbounded, and the
\* reader, which sleeps between two scans, lets everybody have the lock.
Fairness ==
    /\ WF_vars(Reader /\ mPc # "gone") /\ WF_vars(Web /\ wPc # "idle" /\ mPc # "gone")
    /\ WF_vars(Server /\ mPc # "gone")
    /\ SF_vars(ListInputs /\ UNCHANGED <<fitted, client, readerVars, webVars, mPc, closing>>)
    /\ SF_vars(ServerStarts /\ UNCHANGED <<fitted, client, readerVars, webVars, mPc, closing>>)
    /\ SF_vars(ListAll /\ UNCHANGED <<fitted, client, readerVars, serverVars, mPc, listed, closing>>)

Spec == Init /\ [][Next]_vars

FairSpec == Spec /\ Fairness

-----------------------------------------------------------------------------
\* Type correctness.
TypeOK ==
    /\ fitted \in BOOLEAN /\ client \in {"refresh", "request"}
    /\ level \in [Channels -> Turns]
    /\ dPc \in {"init", "hardware", "top", "lock", "scan", "exited"}
    /\ nextRead \in 1..(NumChannels + 1)
    /\ dRunning \in BOOLEAN /\ simulate \in BOOLEAN
    /\ board \in {"none", "open", "closed"}
    /\ raw \in [Channels -> Turns]
    /\ sPc \in {"init", "await", "list", "copy", "exited"}
    /\ nextCopy \in 1..(NumChannels + 1)
    /\ sRunning \in BOOLEAN
    /\ bi \in [Channels -> [active: BOOLEAN, turn: {Blank} \cup Turns]]
    /\ wPc \in {"idle", "list", "raw", "active", "done"}
    /\ shown \in Channels
    /\ answer \in [raw: Turns, active: BOOLEAN]
    /\ mPc \in {"service", "flag", "board", "others", "exit", "gone"}
    /\ listed \in [Channels -> Turns] /\ asked \in Turns
    /\ closing \in [late: BOOLEAN, forced: SUBSET Channels]

\* The contact of channel c is away from its normal state.
Away(c, turn) == Energised(turn) # (c \in Closed)

\* Although the refresh reads live objects while a scan changes them, what a
\* BACnet client sees is no older than the last scan that was complete when the
\* refresh asked for the list, and tells the contact's state at that change
\* (bacnet_server.py:276-280, revpi_di.py:106-109).
RefreshIsCurrent ==
    [][sPc = "copy" /\ sPc' = "await" =>
         \A c \in Enabled : /\ bi[c].turn >= listed[c]
                            /\ bi[c].active = Away(c, bi[c].turn)]_vars

\* raw_value and is_active of one answer contradict each other only for an
\* input that a scan changed during the request (web_ui.py:645-646).
AnswerTornByScanOnly ==
    wPc = "done" /\ raw[shown] = asked => answer.active = Away(shown, answer.raw)

\* An input is reported as off because the board was closed, and not because it
\* is off, only by a scan that was under way when stop() closed it, or by a
\* reader that started after stop() (revpi_di.py:182-186).
MadeUpByLateScanOnly ==
    ~simulate /\ (\E c \in closing.forced : raw[c] = level[c]) => closing.late

\* Each input that is not simulated implements the abstract feed: although scan,
\* refresh and the closing of the board overlap, a BI shows only what its input
\* was, in order, and by way of a scan.  An input read from a closed board is off,
\* which counts as a change of the input.  Simulated inputs are no data of the plant:
\* to the feed they are none (bacnet_server.py:276-280, revpi_di.py:146-162, 182-186).
Feed(c) == INSTANCE TelemetryFeed
               WITH source <- level[c],
                    published <- IF simulate THEN 0 ELSE raw[c],
                    shown <- IF simulate \/ bi[c].turn = Blank THEN 0 ELSE bi[c].turn

InputFeedRefined ==
    /\ \A c \in Channels : Feed(c)!FeedInit
    /\ [][\A c \in Channels : [Feed(c)!FeedNext]_(Feed(c)!feedVars)]_vars

\* A reader that has opened the board reads it: BACnet shows no made-up inputs
\* (revpi_di.py:86-87, 126-135, 162).
OpenBoardIsRead ==
    ~(board = "open" /\ simulate /\ \E c \in Enabled : bi[c].turn > 0)

\* In service, and unless they are simulated, inputs that no longer change come
\* to be shown as they are: a normally closed contact that is open, or cannot be
\* read, is active (revpi_di.py:137-146, 173-180).
SteadyInputIsShown ==
    [](mPc = "service" /\ client = "refresh") =>
        <>[](simulate \/ \A c \in Enabled : bi[c].active = Away(c, level[c]))

\* A request for the inputs is answered, whenever it meets a scan
\* (web_ui.py:633-650).
RequestsAreAnswered == [](mPc = "service") => (wPc = "list" ~> wPc = "idle")

\* The safety half of the two.  An input that BACnet shows as it is stays shown
\* so until the contact changes, whatever scan or refresh is half-way through.
ShownAsItIs(c) == bi[c].turn = level[c] /\ bi[c].active = Away(c, level[c])

SteadyStays ==
    [][\A c \in Enabled :
          ~simulate /\ ShownAsItIs(c) /\ level'[c] = level[c] => ShownAsItIs(c)']_vars

\* And the scan for which a request waits comes to its end: each of its steps is
\* on to the next input or gives the lock back, also after stop() has closed the
\* board (revpi_di.py:173-186).
ScanGoesOn ==
    [][dPc = "scan" =>
         \/ UNCHANGED <<dPc, nextRead>>
         \/ nextRead <= NumChannels /\ dPc' = "scan" /\ nextRead' = nextRead + 1
         \/ nextRead > NumChannels /\ dPc' = "top"]_vars
=============================================================================
