----------------------------- MODULE MSTPRouter -----------------------------
(***************************************************************************)
(* mstp_router.py: the thread that keeps the router-mstp child process     *)
(* running (run), the request threads that ask for its status (status),    *)
(* and the main thread that stops it from the signal handler (stop).       *)
(*                                                                         *)
(* run() takes no lock: it reads and clears _process under the feet of the *)
(* two that do.  One action is one step between two loads or stores of     *)
(* _process.  The router is enabled, and this is not DEV_MODE: otherwise   *)
(* run() returns at once and there is nothing to model.                    *)
(***************************************************************************)
EXTENDS Integers, FiniteSets

CONSTANTS
    MaxSpawns,      \* bound: how many children are ever started
    MaxSignals      \* bound: how many termination signals arrive

ASSUME RouterAssumption == MaxSpawns \in Nat \ {0} /\ MaxSignals \in Nat

VARIABLES
    mPc,            \* where the monitoring thread (run) is
    mRunning,       \* MSTProuter._running
    proc,           \* _process: 0 for None, or the child
    child,          \* [1..MaxSpawns -> state of that child process]
    seen,           \* history: what stop() found in _process each time it looked
    late,           \* history: children stored after stop() first looked
    garbled,        \* history: output that is not text ended run()
    backoff,        \* run()'s local, in seconds
    restarts,       \* _restart_count
    sPc,            \* where the main thread is: "up", in shutdown(), "exited"
    waited,         \* the child stop() waits for
    lost,           \* history: run() set _running after stop() had cleared it
    lock,           \* _lock: who holds it
    signals,        \* how many signals have arrived
    qPc,            \* where the status request is
    answer          \* what it found: "none", "running", "stopped", "error"

vars == <<mPc, mRunning, proc, child, seen, late, garbled, backoff, restarts,
          sPc, waited, lost, lock, signals, qPc, answer>>

monitorVars == <<mPc, mRunning, backoff, restarts, late, garbled, lost>>
processVars == <<proc, child>>
stopVars    == <<sPc, signals, waited, seen>>
statusVars  == <<qPc, answer>>

MonitorPcs == {"init", "loop", "spawn", "spawned", "settle", "settled", "retry", "monitor", "poll",
               "drain", "after", "ended", "crashed"}
StopPcs == {"up", "flag", "lock", "test", "terminate", "await", "wait", "kill", "waitKill",
            "clear", "raise", "unlock", "rest", "stuck", "exited"}
StatusPcs == {"idle", "lock", "test", "poll", "answered"}

Children == 1..MaxSpawns
Backoffs == {5, 10, 20, 40, 80, 120}

Alive(c) == c \in Children /\ child[c] \in {"alive", "wedged"}

Init ==
    /\ mPc = "init" /\ mRunning = FALSE
    /\ proc = 0
    /\ child = [c \in Children |-> "unborn"]
    /\ seen = {} /\ late = {} /\ garbled = FALSE
    /\ backoff = 5
    /\ restarts = 0
    /\ sPc = "up" /\ lock = "free" /\ signals = 0
    /\ waited = 0 /\ lost = FALSE
    /\ qPc = "idle" /\ answer = "none"

ProcessUp == sPc # "exited"

-----------------------------------------------------------------------------
(* run(): the monitoring thread.                                           *)

MGoto(from, to) ==
    /\ mPc = from /\ mPc' = to
    /\ UNCHANGED <<mRunning, backoff, restarts, late, garbled, lost, processVars>>

\* A stop() that has cleared _running by now is lost.
MonitorRuns ==
    /\ mPc = "init" /\ mPc' = "loop"
    /\ mRunning' = TRUE
    /\ lost' = (sPc \notin {"up", "flag"})
    /\ UNCHANGED <<backoff, restarts, late, garbled, processVars>>

MonitorLoop == MGoto("loop", IF mRunning THEN "spawn" ELSE "ended")

Newest(c) == child[c] # "unborn" /\ \A d \in Children : d > c => child[d] = "unborn"

\* Popen starts a child, and then its handle is stored.
Spawn ==
    /\ mPc = "spawn" /\ mPc' = "spawned"
    /\ \E c \in Children :
          /\ child[c] = "unborn"
          /\ \A d \in Children : d < c => child[d] # "unborn"
          /\ child' = [child EXCEPT ![c] = "alive"]
    /\ UNCHANGED <<mRunning, backoff, restarts, proc, late, garbled, lost>>

SpawnStored ==
    /\ mPc = "spawned" /\ mPc' = "settle"
    /\ \E c \in Children :
          /\ Newest(c)
          /\ proc' = c
          /\ late' = IF seen = {} THEN late ELSE late \cup {c}
    /\ UNCHANGED <<mRunning, backoff, restarts, child, garbled, lost>>

\* No binary, no serial port, or Popen raises.
SpawnFails == MGoto("spawn", "retry")

\* Mutant of Settle: the test of poll() is inverted.
Settle_PollInverted ==
    /\ mPc = "settle"
    /\ \/ Alive(proc) /\ mPc' = "retry" /\ proc' = 0
       \/ ~Alive(proc) /\ mPc' = "settled" /\ UNCHANGED proc
    /\ UNCHANGED <<mRunning, backoff, restarts, child, late, garbled, lost>>

\* After sleep(1): a child that died is forgotten, unless its output is not text:
\* that raises before, inside the try, as a cleared _process does.  Either way the
\* start has failed.
Settle ==
    /\ mPc = "settle"
    /\ \/ /\ ~Alive(proc)
          /\ mPc' = "retry" /\ proc' \in {0, proc}
       \/ /\ Alive(proc)
          /\ mPc' = "settled" /\ UNCHANGED proc
    /\ UNCHANGED <<mRunning, backoff, restarts, child, late, garbled, lost>>

\* The log line reads _process.pid, still inside the try; then backoff is reset.
Settled ==
    /\ mPc = "settled"
    /\ mPc' = IF proc = 0 THEN "retry" ELSE "monitor"
    /\ backoff' = IF proc = 0 THEN backoff ELSE 5
    /\ UNCHANGED <<mRunning, restarts, late, garbled, lost, processVars>>

\* Mutant of Retry: the backoff is not capped.
Retry_Uncapped ==
    /\ mPc = "retry" /\ mPc' = "loop"
    /\ backoff' = backoff * 2
    /\ UNCHANGED <<mRunning, restarts, late, garbled, lost, processVars>>

\* Sleep, double the backoff, and continue.
Retry ==
    /\ mPc = "retry" /\ mPc' = "loop"
    /\ backoff' = IF backoff * 2 > 120 THEN 120 ELSE backoff * 2
    /\ UNCHANGED <<mRunning, restarts, late, garbled, lost, processVars>>

MonitorTest == MGoto("monitor", IF mRunning THEN "poll" ELSE "after")

\* Outside any try: a cleared _process ends the thread.
MonitorPoll ==
    MGoto("poll", IF proc = 0 THEN "crashed" ELSE IF Alive(proc) THEN "monitor" ELSE "drain")

\* Mutant of Drain: the loop goes on where the code breaks out of it.
Drain_NoBreak ==
    /\ mPc = "drain" /\ mPc' = "monitor"
    /\ proc' = 0 /\ restarts' = restarts + 1
    /\ UNCHANGED <<mRunning, backoff, child, late, garbled, lost>>

\* Mutant of Drain: the thread returns where the code breaks out of the loop.
Drain_Returns ==
    /\ mPc = "drain" /\ mPc' = "ended"
    /\ proc' = 0 /\ restarts' = restarts + 1
    /\ UNCHANGED <<mRunning, backoff, child, late, garbled, lost>>

\* The child has exited: its output is read, and it is forgotten.  Neither load of
\* _process is inside a try, and neither is the read, which decodes: bytes that
\* are not text raise UnicodeDecodeError and end the thread.
Drain ==
    /\ mPc = "drain"
    /\ \/ /\ proc = 0
          /\ mPc' = "crashed" /\ UNCHANGED <<proc, restarts, garbled>>
       \/ /\ proc # 0
          /\ mPc' = "crashed" /\ garbled' = TRUE /\ UNCHANGED <<proc, restarts>>
       \/ /\ proc # 0
          /\ mPc' = "after" /\ proc' = 0 /\ restarts' = restarts + 1 /\ UNCHANGED garbled
    /\ UNCHANGED <<mRunning, backoff, child, late, lost>>

\* Sleep for the backoff, if still running; the loop tests again.
AfterExit == MGoto("after", "loop")

Monitor ==
    /\ ProcessUp
    /\ \/ MonitorRuns \/ MonitorLoop \/ Spawn \/ SpawnStored \/ SpawnFails \/ Settle
       \/ Settled \/ Retry \/ MonitorTest \/ MonitorPoll \/ Drain \/ AfterExit
    /\ UNCHANGED <<stopVars, lock, statusVars>>

-----------------------------------------------------------------------------
(* The child processes (external).                                         *)

\* A child exits, by itself or because it was told to.
ChildExits ==
    /\ \E c \in Children : child[c] = "alive" /\ child' = [child EXCEPT ![c] = "dead"]
    /\ UNCHANGED <<monitorVars, proc, stopVars, lock, statusVars>>

-----------------------------------------------------------------------------
(* stop(), called by the signal handler in the main thread.                *)

SGoto(from, to) ==
    /\ sPc = from /\ sPc' = to
    /\ UNCHANGED <<signals, waited, seen, lock, monitorVars, processVars, statusVars>>

Signal ==
    /\ sPc = "up" /\ signals < MaxSignals
    /\ sPc' = "flag" /\ signals' = signals + 1
    /\ UNCHANGED <<waited, seen, lock, monitorVars, processVars, statusVars>>

\* Another signal runs shutdown() on top of the one it interrupts.  If that
\* one holds the lock, this one waits for it for ever; if not, it replaces it.
SignalAgain ==
    /\ sPc \notin {"up", "stuck", "exited"} /\ signals < MaxSignals
    /\ sPc' = IF lock = "stop" THEN "stuck" ELSE "flag"
    /\ signals' = signals + 1
    /\ mRunning' = (mRunning /\ lock # "stop")
    /\ UNCHANGED <<mPc, backoff, restarts, late, garbled, lost, waited, seen, lock, processVars,
                   statusVars>>

StopFlag ==
    /\ sPc = "flag" /\ sPc' = "lock"
    /\ mRunning' = FALSE
    /\ UNCHANGED <<signals, waited, seen, lock, mPc, backoff, restarts, late, garbled, lost,
                   processVars, statusVars>>

StopLock ==
    /\ sPc = "lock" /\ sPc' = "test"
    /\ lock = "free" /\ lock' = "stop"
    /\ UNCHANGED <<signals, waited, seen, monitorVars, processVars, statusVars>>

\* `if self._process is not None`: what stop() finds here is what it sees to.
StopTest ==
    /\ sPc = "test" /\ sPc' = IF proc = 0 THEN "unlock" ELSE "terminate"
    /\ seen' = seen \cup {proc}
    /\ UNCHANGED <<signals, waited, lock, monitorVars, processVars, statusVars>>

\* Mutant of Terminate: stop() does not wait for the child.
Terminate_NoWait == SGoto("terminate", "clear")

\* terminate(): a cleared _process raises, which stop() swallows.
Terminate == SGoto("terminate", IF proc = 0 THEN "clear" ELSE "await")

\* wait(timeout=5) loads _process anew, and stays with the child it has loaded.
Await ==
    /\ sPc = "await" /\ sPc' = IF proc = 0 THEN "clear" ELSE "wait"
    /\ waited' = proc
    /\ UNCHANGED <<signals, seen, lock, monitorVars, processVars, statusVars>>

\* The child exits within five seconds, or it does not.
WaitEnds  == ~Alive(waited) /\ SGoto("wait", "clear")
WaitTimesOut == Alive(waited) /\ SGoto("wait", "kill")

\* kill() works, except on a child stuck in the kernel.  A cleared _process
\* raises here from inside the handler, and nothing swallows that.
Kill ==
    /\ sPc = "kill"
    /\ IF proc = 0
         THEN sPc' = "raise" /\ UNCHANGED child
         ELSE /\ sPc' = "waitKill"
              /\ \E s \in {"dead", "wedged"} :
                    child' = [child EXCEPT ![proc] = IF @ = "alive" THEN s ELSE @]
    /\ UNCHANGED <<signals, waited, seen, lock, monitorVars, proc, statusVars>>

\* wait(timeout=2) may raise as well.
WaitKilled ==
    SGoto("waitKill", IF proc # 0 /\ ~Alive(proc) THEN "clear" ELSE "raise")

\* finally: the process is forgotten; an exception goes on through shutdown().
StopClear ==
    /\ sPc \in {"clear", "raise"}
    /\ proc' = 0
    /\ sPc' = IF sPc = "clear" THEN "unlock" ELSE "exited"
    /\ lock' = IF sPc = "clear" THEN lock ELSE "free"
    /\ UNCHANGED <<signals, waited, seen, monitorVars, child, statusVars>>

StopUnlock ==
    /\ sPc = "unlock" /\ sPc' = "rest"
    /\ lock' = "free"
    /\ UNCHANGED <<signals, waited, seen, monitorVars, processVars, statusVars>>

\* bacnet.stop() and sys.exit(0).
Exit == SGoto("rest", "exited")

Stop ==
    \/ StopFlag \/ StopLock \/ StopTest \/ Terminate \/ Await \/ WaitEnds \/ WaitTimesOut
    \/ Kill \/ WaitKilled \/ StopClear \/ StopUnlock \/ Exit

-----------------------------------------------------------------------------
(* status(), in a thread of the web server.                                *)

QGoto(from, to) ==
    /\ qPc = from /\ qPc' = to
    /\ UNCHANGED <<monitorVars, processVars, stopVars>>

AskStatus == ProcessUp /\ QGoto("idle", "lock") /\ UNCHANGED <<lock, answer>>

StatusLock ==
    /\ QGoto("lock", "test")
    /\ lock = "free" /\ lock' = "status"
    /\ UNCHANGED answer

\* `self._process is not None and self._process.poll() is None`: two loads.
StatusTest ==
    /\ QGoto("test", IF proc = 0 THEN "answered" ELSE "poll")
    /\ answer' = IF proc = 0 THEN "stopped" ELSE "none"
    /\ UNCHANGED lock

StatusPoll ==
    /\ QGoto("poll", "answered")
    /\ answer' = IF proc = 0 THEN "error" ELSE IF Alive(proc) THEN "running" ELSE "stopped"
    /\ UNCHANGED lock

\* Mutant of StatusReturns: the lock is not released when poll() raises.
StatusReturns_KeepsLock ==
    /\ QGoto("answered", "idle")
    /\ lock' = IF answer = "error" THEN lock ELSE "free"
    /\ answer' = "none"

StatusReturns ==
    /\ QGoto("answered", "idle")
    /\ lock' = "free" /\ answer' = "none"

Status == ProcessUp /\ (StatusLock \/ StatusTest \/ StatusPoll \/ StatusReturns)

-----------------------------------------------------------------------------
Next == Monitor \/ ChildExits \/ Signal \/ SignalAgain \/ Stop \/ AskStatus \/ Status

Spec == Init /\ [][Next]_vars

(* The threads go on, and a lock that is freed again and again is obtained *)
(* in the end (the pages ask for the status every few seconds, and hold it *)
(* for microseconds).  Nothing is assumed of the children or the signals.  *)
FairSpec ==
    /\ Spec
    /\ WF_vars(Monitor) /\ WF_vars(Stop) /\ WF_vars(Status)
    /\ SF_vars(StopLock)

TypeOK ==
    /\ mPc \in MonitorPcs
    /\ mRunning \in BOOLEAN
    /\ proc \in 0..MaxSpawns
    /\ child \in [Children -> {"unborn", "alive", "wedged", "dead"}]
    /\ seen \subseteq 0..MaxSpawns /\ late \subseteq Children /\ garbled \in BOOLEAN
    /\ backoff \in Backoffs
    /\ restarts \in 0..MaxSpawns
    /\ sPc \in StopPcs /\ waited \in 0..MaxSpawns /\ lost \in BOOLEAN
    /\ lock \in {"free", "stop", "status"}
    /\ signals \in 0..MaxSignals
    /\ qPc \in StatusPcs
    /\ answer \in {"none", "running", "stopped", "error"}

-----------------------------------------------------------------------------
(* What the router must do.                                                *)

\* However starts, exits, status requests and stops interleave, there are
\* never two router processes on the serial line, counting those stop() leaves
\* behind and one that is not stored yet (mstp_router.py:116-230).  Of a stop()
\* that came before run() set _running, and was lost, this is claimed of the
\* children stored before that stop() looked.
AtMostOneRouter == Cardinality({c \in Children : Alive(c) /\ ~(lost /\ c \in late)}) <= 1

\* A router that stop() leaves behind, though it can be killed, is not one that
\* stop() found in _process (mstp_router.py:219): it was stored after stop()
\* had looked, or is not stored at all; and unless the stop() was lost it is the
\* last one that is ever started.
OnlyLateSurvive ==
    sPc = "exited" => \A c \in Children : child[c] = "alive" =>
        /\ c \notin seen
        /\ c \in late \/ (mPc = "spawned" /\ Newest(c))
        /\ ~lost => Newest(c)

\* The unguarded poll() at line 194 and the cleared _process of line 198 end
\* the monitoring thread only once the appliance is being stopped; in service
\* nothing but output that is not text does (line 199).
MonitorDiesOnlyOnStop == mPc = "crashed" => signals > 0 \/ garbled

\* While no signal arrives and no output fails to decode in run(), the router
\* either stays up for good or is started again and again
\* (mstp_router.py:41-42): the monitoring never gives up.
RouterIsRestarted ==
    [](signals = 0 /\ ~garbled) =>
        ([]<>(mPc = "spawn") \/ <>[](\E c \in Children : Alive(c)))

\* A single signal always leads to the end of the process, also past a child
\* that ignores terminate() or kill(), and past a status request in progress.
StopEnds == [](signals <= 1) => ((sPc = "flag") ~> (sPc = "exited"))

-----------------------------------------------------------------------------
(* What comments say, and the code does not do.                            *)

\* mstp_router.py:69: status() is to "Return MSTP status dict"; it does not
\* when run() clears _process between its two loads.
StatusAnswers == answer # "error"

\* main.py:229: "Graceful Shutdown", however often the signal is sent.
GracefulShutdown == (sPc = "flag") ~> (sPc = "exited")
=============================================================================
