# A formal model of the SBS EnergyLink appliance

SBS EnergyLink reads a Tesla battery site over Modbus TCP and serves its points
over BACnet/IP to the building's controller, with a small web UI for
commissioning.  It is one Python process with one thread per service.  This
directory models that process in TLA+: what the threads share, in which order
they touch it, and what goes wrong, or does not, when a poll fails, a socket
does not open, a child process dies or a signal arrives in the middle.
Small instances are checked by TLC, and the central results are proved for
every value of the constants by TLAPS.

## The system

| Component | State it keeps | Operations | Interacts with |
|---|---|---|---|
| Data store (`data_store.py`) | a reference to the current `BESSData`, under a lock | `update`, `mark_stale`, `mark_poll_failed`, `get`, `is_stale` | written by the poller; read by the BACnet server and the web requests, which keep the object after the lock is released |
| Modbus poller (`poller.py`) | `_client`, `_running`, the loop's position | `run`, `_connect`, `_read_all` (two passes), `_disconnect`, `stop` | the site controller; the data store; `stop()` comes from the main thread |
| BACnet server (`bacnet_server.py`) | the BACnet objects, `_app` with its UDP socket, `_running` | `run`, `_start_bacnet`, `_update_points`, `stop` | reads the data store; BACnet clients read, and write AV:1 |
| MS/TP router (`mstp_router.py`) | `_process`, `_running`, `_lock`, the backoff, counters | `run`, `_start_process`, `status`, `stop` | a `router-mstp` child; web requests; the signal handler |
| Process (`main.py`) | the threads, the signal handler | `main`, `shutdown`, simulation mode, `load_config` | starts and stops all of the above |
| Status endpoints (`web_ui.py`) | locals of each request | `api_live_data`, `api_status`, `confirm_status` | read the store, the socket table, the router's status |
| Wizard (`web_ui.py`) | `config.yaml` | `step1`..`step3`, `apply_network`, imports and tests | reads and rewrites the file; the services read it at boot only |
| DI reader (`revpi_di.py`) | 14 shared input objects, the open board | `run`, `_init_hardware`, `get_enabled_inputs`, `inputs`, `stop` | the BACnet refresh and `api_di_status` take a list under its lock and read the objects without it |
| RTU poller (`rtu_poller.py`) | devices and their values, under a lock held for a whole scan | `run`, `status`, `stop` | the RS485 port, which the router may have instead; web requests |
| Licence, profiles | none after start | load and check files | read by the web UI |

What is hard in it: readers go on reading an object after `get()`'s lock is
released, while the poller replaces it or changes it in place; values and their
staleness come from two calls; `stop()` takes things away from a running thread;
`run()` of the router touches `_process` without the lock that the others hold;
signal handlers run on top of whatever the main thread was doing; a thread
that dies is neither restarted nor reported; live input objects are read while a
scan changes them; staleness is measured by a clock that may be set; and registers
overlap.  `PROJECT.json` lists each of these
hazards at its line, with the properties that watch it.

What makes each component correct: the **store** never lets a reader see success
come back into an old object, or an old poll become current; the **poller**
publishes whole polls only, in the plant's order, and survives every failure in
service; the **server** shows one poll at a time and never goes back; the
**status pages** never call a side green that was not; the **router** is never
started twice, is always restarted, and never keeps the appliance from stopping;
the **digital inputs** are shown as scanned, whenever they are looked at; the
**RS485 port** has one owner, and a failing device costs nobody's values; the
**configuration** never loses a step to a post that is alone, and never half of one; and
every **number** arrives as it was sent, a command in whole kilowatts.

## Modules

| Module | Models |
|---|---|
| `DataStore` | `data_store.py`: a heap of objects, the store's reference and one reference per reader |
| `ModbusPoller` | `poller.py`: the polling thread statement by statement, `stop()`, and the site it polls |
| `BACnetServer` | `bacnet_server.py`: the server's thread, its table and socket, `stop()` |
| `Telemetry` | `main.py`: poller, server, store, clock, site and `shutdown()` composed |
| `TelemetryFeed` | abstract: data goes source -> store -> BACnet, nothing made up, never back; `Telemetry` implements it, and each input of `DIReader` |
| `ServerSocket` | abstract: what others can see of the server (its thread and UDP 47808) |
| `TelemetryProperties` | the properties of `Telemetry`, the two refinement mappings, the inductive invariant |
| `WebStatus` | the three status endpoints of `web_ui.py`, read by read |
| `StatusPath` | `WebStatus` composed with the poller and `ServerSocket`; its properties and invariant |
| `Appliance` | `Telemetry` in service with the requests of `WebStatus` next to it; implements `StatusPath` |
| `MSTPRouter` | `mstp_router.py` with the signal handler and a status request; its properties |
| `ConfigFile` | `web_ui.py`'s wizard and `main.py`'s loader: `config.yaml`, the netplan file, concurrent requests, restarts |
| `SettingsStore` | abstract: a form replaces one step's settings at one moment, a start is given what was saved last |
| `CycleTimes` | how long the poller's and the server's steps take, and staleness by a clock that is set |
| `RegisterMap` | `poller.py`'s conversions and power command, next to the words that `tools/modbus_simulator.py` writes |
| `DIReader` | `revpi_di.py` next to the BACnet refresh, `/api/di_status` and `shutdown()`; its properties |
| `RTUPoller` | `rtu_poller.py`, and the choice between it and the router in `main.py`; its properties |
| `Poller_proofs`, `Telemetry_proofs`, `StatusPath_proofs`, `MSTPRouter_proofs`, `ConfigFile_proofs`, `DIReader_proofs`, `RTUPoller_proofs`, `PolledData_proofs` | the theorems; the last is about `CycleTimes` and `RegisterMap` together, whose `Map...` names keep the two apart |
| `MC...` | instances for TLC, one per composed module |

`Telemetry` composes `ModbusPoller` and `BACnetServer` over one `DataStore`.
`StatusPath` composes `ModbusPoller` and `WebStatus`, and uses `ServerSocket` in
place of the server, which makes it small enough for TLC.  Two things show that
nothing is lost by that.  The server implements `ServerSocket` (the run
`telemetry_path`, the theorem `SocketRefinement`); and `Appliance`, the composition
of everything that touches the store (poller, server with its own reference,
requests), implements `StatusPath`, so what is shown there is true of all of it.
Three specifications say what a part promises without saying how: `ServerSocket`,
`TelemetryFeed` and `SettingsStore`.  Each is implemented by the detailed module
through a refinement mapping, which TLC checks on the instances and TLAPS for all
constants: `SocketRefined`, `FeedRefined`, `InputFeedRefined`, `SettingsRefined`.

### How state and steps correspond to the code

* **Objects.**  `update()` replaces the store's reference; `mark_stale()` and
  `mark_poll_failed()` change the current object in place, also for readers that
  hold it.  That difference is what several properties are about, so the model
  keeps object identity: `heap[current]`, and `refs[r]` for a reader's local.
  An unreachable object is blank again and can be reused (`Collected`), which
  keeps the heap finite.  The sixteen analog and six binary values of one poll
  are one version number (`block`), register 300 is `cmd`; blocks are numbered in
  the order in which the plant's registers took those values.
* **Time.**  in the modules of the path `last_update` is the age of the object,
  saturating at `AgeCap`; `is_stale` compares it, and sleeps and network calls take
  any time.  `CycleTimes` is the module for durations: ticks, at
  most `left` of them in each phase of the polling thread, and a wall clock that
  may be set by up to `MaxJump` (`drift`: how far since the data was stamped).
  `age` is what `is_stale()` measures, the time since `update()`.  The values are older:
  a poll has been reading for `lead` when it stamps them (kept as `lag`), so
  `ReadingAge`, their age and what `served` shows of it, counts from the start of
  the reading.
  A link that fails during a call hurts it, which may then fail, at once or after
  all its retries; a second pass that fails may still make a successful poll.
* **Atomicity.**  One action is what runs between two points at which another
  thread can be noticed: each load or store of a shared field that another
  thread writes is an action of its own.  In the poller, `not self._client or not
  self._client.is_socket_open()` is two loads (`ProbeClient`, `ProbeSocket`), and
  stop()'s `_disconnect` is two steps.  In the server, the copy of the analog
  block, of the binary block and of the command are three steps.  Values within
  a block come from one object whose points nobody changes after `update()`.
  BACnet requests are served on the server's own asyncio loop, so a client sees
  the table only where the coroutine awaits.
* **Failures.**  A Modbus link is `ok`, answers with errors (`erring`: error
  replies, and timeouts, which the library also returns as error replies), or
  is `down`.  It changes at any moment.  Connecting fails when it is down.  In
  pass 1 any failure loses the poll; in pass 2 an error reply leaves the command at
  0.0 and the poll counts as successful, and an exception loses it.
  `_start_bacnet` may raise; the library binds its socket in a task of the loop,
  which may fail without anyone being told.
* **Shutdown.**  `shutdown()` runs in the main thread: each `stop()` is split
  where the stopped thread can get in.  The process ends with it: the threads are
  daemons.
* **Status requests.**  `rPc` names the next read.  The order of the reads is
  that of the statements: `confirm_status` reads `poll_success` and the socket
  table for its panels, then both again for `all_ok`, short-circuiting.
* **Router.**  `_process` is a number: 0 for None, or the child.  A child is
  unborn, alive, wedged (stuck in the kernel, so `kill()` does not work in time) or dead;
  it may exit at any moment, also when told to, which is why `Terminate` needs
  no effect of its own.  `Popen` starting a child and the handle being stored are
  two steps, and `stop()` loads `_process` anew for its test, `terminate()`, `wait()` and
  `kill()`.  The output of a child that exited is decoded as text, which raises
  UnicodeDecodeError on bytes that are none: inside the `try` of a start (`Settle`),
  outside any in the loop (`Drain`: the thread ends, `garbled`).  Three more history
  variables: `seen` (what `stop()` found when it looked), `late` (what was stored after
  that) and `lost` (`run()` set `_running` over a `stop()`).  A second signal runs the
  handler on top of the first.  `DEV_MODE` and a disabled router are left out:
  `run()` then returns at once.
* **Configuration.**  A configuration is a function from top-level keys to the number of
  the form that each one's settings came from.  Six keys stand for all of them, at
  least one for each step and in the order in which `yaml.dump` sorts them: bacnet,
  eth0, eth1, modbus, rs485, site_name.  A file may also hold a configuration without
  some keys, nothing, or text that is not YAML (`broken`).  A request loads
  (`StartPost`), validates (`RejectForm`), empties the file (`OpenFile`) and writes it when
  the stream is closed (`Flush`).  A write that finds the file written meanwhile leaves
  the end of a longer text behind its own.  The two together may not be YAML; or they
  are, and then the keys that are whole in the end of the other text come a second
  time, and the last one wins (`WithTail`, from any key but the first on): eth1 of one post
  with eth0 of another, or `mstp.enabled` of one with `rs485.mode` of another.
  `apply_network` has the same two steps on the netplan file, whose tails end in
  indented lines or in the version and give no interface.  `netplan apply` reads
  whatever is there.  `Crash` ends the process at any moment and every request with
  it; `Boot` is `load_config` in `main()`, which raises on an empty file.  A file that was
  closed is taken to be on the disk.
* **Digital inputs.**  The value of an input is the number of changes behind it
  (odd: energised), so that "older" means something.  The scan writes the
  live objects one by one under the lock; the refresh and the request take the
  lock for the list only, then load from the objects; `raw_value` and `is_active`
  of one answer are two loads.  Neither of the two readers disturbs anybody, so a
  behaviour follows one of them (`client`).  Closing the board turns every read
  of a scan into an exception, and the input into one that is off.
  `_init_hardware` opens the board first and may raise after it: `simulate` with an
  open board.
* **RS485.**  `mode` is one of the three of the file, `mstp.enabled` any boolean; main's
  three steps start the router, the poller, or neither.  A point is read,
  answered with an error (also by a timeout), or raises, which is counted; the device's
  next point is tried in any case.  A point's value is the version of its device's registers.  The
  lock is the poller's while `rPc = "scan"`.
* **Registers.**  A register is a word of `Base` values (2^16 in the code, any even
  number from 32 on in the proofs).  A poll gets its block in one reply and the
  simulator writes its in one call, so a poll is a function of the registers
  (`Points`).  The site is the simulator: which words another site would put into a
  register that two points share is nothing this code could tell.  Commands are in
  tenths of a kilowatt, and `int()` drops the tenths (`Whole`).

## What is checked

All runs are listed in `PROJECT.json`; every property of a passing run is also
tried against a mutant (the operators named `X_<bug>` just above `X`), which
must violate it.  What is only a step of a proof (the inductive invariants, some
type invariants) or follows from a checked property is proved and not run again.

### `telemetry_path` — safety of the path, with shutdown

* `TableIsOnePoll`: where a BACnet client can look, analog and binary points come
  from one poll.
* `ServedNeverGoesBack`: no step shows an older state of the plant than before.
* `CrashOnlyOnStop`: the unguarded double load of `_client` kills the thread only
  in the shutdown (where it does happen: `poller.py:238` outside any try).
* `FeedRefined`, `SocketRefined`: refinement of `TelemetryFeed` and `ServerSocket`.

Bounds: two changes of the plant (three versions and the blank one: enough to
tell "older", "same" and "newer" apart, also across one reader that lags); three
heap places (current, the reader's object and the one being published: with one
reader no more can be in use, so `Update` is never short of a place); one
command value (no property here reads it); ages 0 and "too old".  Heap places
are symmetric.  2.9 million states.

### `telemetry_service` — liveness in service

* `FreshDataReachesClients`: if the site answers from some time on and the server
  started, the points come to show the plant's registers.
* `LinkLossIsNoticed`: if the link stays down, the data becomes stale and the last
  poll failed, for good, also when the link died between the two passes and that
  poll counted as a success.

Fairness: weak fairness of the polling thread, the server's thread and the clock.
The operating system schedules both threads, every wait in them has a bound (a
sleep, the 10 s Modbus timeout), and none blocks on a lock that is held across a wait
(the store's lock is held for a few statements only).  Nothing is assumed of the
site, the clients or the socket.  No signal arrives: `shutdown` is exempt.
Symmetry is not used.

### `status_pages` — the status endpoints next to the poller

* `SuccessOnlyDrops`: `poll_success` of an object somebody holds never returns.
* `AllOkShowsConnected`: `all_ok` never comes with an EPMS panel that says WAITING,
  although `poll_success` is read twice.
* `AllOkWasGreen`: `all_ok` implies a moment inside that request at which the
  current data was fresh and of a successful poll, although staleness is read off
  one object and success off another (`sawGreen` is a history variable).
* `StaleWarningIsTrue`: `data_stale` is never a false alarm about the values it
  comes with.  The converse does not hold: values of an old object can come with
  the freshness of a new one (`web_ui.py:214-215`).

Bounds: one request at a time (requests only read, so they do not affect each
other; the theorems hold for any number), three heap places, timeout 1 of ages 0..2.

### `router` — the MS/TP router's supervisor

* `AtMostOneRouter`: never two routers on the line, those that `stop()` leaves behind and one
  that is not stored yet included.  One case is not claimed: a `stop()` that came before
  `run()` set `_running` is lost, and a child it stored after that `stop()` had looked may
  meet another one, but only if a start with its six seconds of sleeping fits into a
  few statements of `stop()`.  The model does not know durations, and leaves these out.
* `OnlyLateSurvive`: a router left behind, though it could be killed, is not one that
  `stop()` found when it looked.  It was stored after that look, or `Popen` has returned and
  it is not stored at all; and it is the last one ever started, unless the `stop()` was
  lost.  A child that is stored between the signal and the look is not excused.
* `MonitorDiesOnlyOnStop`: the unguarded `_process.poll()` of line 194 and the load of line 198
  end the thread only after a signal; in service only output that does not decode does
  (line 199, which really ends it: see below).
* `RouterIsRestarted`: as long as no signal comes and no output fails to decode, the router
  stays up for good or is started again and again.
* `StopEnds`: if no more than one signal comes, it ends the process, also past a child that ignores
  `terminate()` and `kill()`, and past a status request that is in progress.

Bounds: three children (a first one, its successor, and one that races the stop),
two signals (the liveness properties say themselves how many they allow).
Fairness: the three threads go on
(weak fairness), and the lock, which a status request holds for microseconds
every few seconds, is obtained in the end (strong fairness of `StopLock`).
Nothing is assumed of the child.  Deadlock is not checked: the process ends.
623,000 states.

### `wizard` — the configuration file

* `NeverHalfConfig`: however two posts, applies and restarts interleave, the file
  never holds a configuration that lacks some key's settings.  A request that
  finds the file emptied by another raises before it saves, and a mixed text begins
  with a whole one.  An emptied file is allowed: it really occurs.
* `NothingLost`: with one post at a time, and no crash inside the write itself,
  the file holds what every step saved last, whatever is applied, rejected or
  restarted.  The conditions are history variables (`overlap`, `torn`), and without
  them it is false: there is no lock, so the later of two posts restores what it had
  loaded; and `open(..., "w")` truncates first, so a crash before the flush
  leaves an empty file.  Neither is prevented, and nothing in the repository says so.
* `NetworkWasSaved`: eth0 and eth1 as netplan has them come from config.yaml as it was at
  one moment, also when a post or another apply gets between the steps; and from one
  configuration that somebody saved, unless two posts overlapped.  If they did, the mixed
  text can give the one's eth0 with the other's eth1.
* `SettingsRefined`: the file implements `SettingsStore`.  However many steps a post
  takes to load, empty and rewrite it, the settings change at one moment (the
  flush) and only the posted step's; a rejected form, an apply and a crash between
  two posts change none; a start gets exactly what was saved last.  The mapping is
  the file's content, or, while a post rewrites it, what was saved before; an
  overlap or a torn write loses the store, after which nothing is claimed of it.
* `RestartsAgain`: under the conditions of `NothingLost` the appliance comes back
  after every crash (a torn file makes `main()` raise at every start, for good).

Bounds: two requests (a third adds no new pair of steps: each acts on the files
alone), two forms, which is enough for one form to be lost under another, or mixed
with it.  Crashes are not bounded.  1.1 million states.  Fairness: weak fairness of `Boot` (`Restart=always` in the
service unit); none of the requests.  Deadlock is not checked: with an
unreadable file the process really stays down.

### `digital_inputs` — the DI reader and those who read its inputs

* `RefreshIsCurrent`: a refresh in the middle of a scan shows every enabled input as
  of the last complete scan or later, with the contact's normal state.
* `AnswerTornByScanOnly`: `raw_value` and `is_active` of one answer contradict each other
  only for an input that a scan changed in between (where they do).
* `MadeUpByLateScanOnly`: closing the board turns inputs off only through a scan
  that `stop()` cut off, or a reader that started after it.
* `InputFeedRefined`: each input that is not simulated implements `TelemetryFeed`:
  what BACnet shows of it is what the board gave, in order and by way of a scan.  A
  closed board gives "off".  It is stated as its initial and its step part,
  because TLC takes no temporal formula under a quantifier over channels.
* `SteadyInputIsShown`: inputs that no longer change come to be shown by BACnet.
* `RequestsAreAnswered`: no request waits for the lock for ever.

At present a reader never gets as far as the board: `handlesignalend()` raises in its
thread (the run `di_simulated`), and it simulates.  What `RefreshIsCurrent`,
`MadeUpByLateScanOnly`, `SteadyInputIsShown` and `InputFeedRefined` say of inputs that are
read describes the code behind that call, as it runs once the call is
moved or guarded.  `AnswerTornByScanOnly` and `RequestsAreAnswered` speak of both.

Bounds: three channels (one without a name, one normally closed: the scan is
before, at and behind the channel that is read), one change of each.  564,000 states.
Fairness: weak fairness of the threads; strong fairness of the steps that
take the lock, which the reader gives back for a whole sleep between
two scans.  Deadlock is not checked: the process ends.

### `rs485` — the RS485 port

* `PortHasOneOwner`: the router and the poller never have the port at once, in
  every `rs485.mode` and with `mstp.enabled` set or not, contradictions included.
* `ValuesNeverGoBack`: no error, exception, lost device or closed port takes a
  point back to an older value or its default.
* `StatusIsAnswered`: a status request meets the end of a scan.

Bounds: two devices with two points (one that fails, one that must not notice; a
point before and one after the failure), two changes of the registers, one counted
error (the counter saturates; no property of the run depends on its value).
1.3 million states.  Fairness and deadlock as for the digital inputs; a scan ends
because every read of a point times out.

### `cycle_times` — how long everything takes

* `RecoversInTime`: a link that is back for `RecoveryTime` has brought a successful poll, and
  while it holds the last `update()` is at most one `CycleTime` ago.  That is the age
  which `is_stale()` measures.
* `TableIsRecent`: what BACnet shows was then read at most one cycle, the two passes of
  a poll and one refresh ago, counted from the start of the reading.
* `FreshIsRecent`: whatever fails, data that `is_stale()` calls fresh was read at most
  the timeout, two passes and what the clock was set back ago.
* `NoFalseAlarm`: a plant that answers is called stale only in the cycle after the
  clock was set, provided the timeout leaves room for a cycle.
* `LossIsShown`: a dead link shows as a failed poll within a cycle, and as stale within
  the timeout, plus one pass and what the clock was set back.

`RecoveryTime` and `CycleTime` are formulas over the intervals, not numbers found by trial,
and they are tight: with any of the bounds one tick shorter TLC finds a counterexample.
With the defaults fresh data is back after 160 s, `update()` is then never longer ago
than 110 s and the values that BACnet shows never older than 205 s, although data is
called stale after 120 s.  That timeout leaves 10 s: with a `poll_interval_seconds` beyond 40
alone, a healthy site whose polls need every retry goes stale between two of them.

Bounds: the defaults of the configuration in ticks of 15 s, rounded up (poll 30 s, retry
30 s, connect 10 s, stale 120 s, refresh 15 s, and 40 s for a pass: the library's 10 s
timeout with its three retries); the clock is set by up to 15 s; ages saturate at
270 s, beyond every bound that a property compares them with.  4.5 million states.
No fairness: the properties are about states, and time cannot pass a deadline.

### `registers` — the numbers

* `SimulatedIsPolled`: what the simulator simulates, negative powers and counters
  across words included, is what the poller publishes, for every point
  whose registers are its own.
* `CommandReadsBack`: a command that was reported as written is read back in its own
  direction and short of it by less than one kilowatt, which `int()` drops, exactly if
  its whole kilowatts fit 16 bits with a sign.  One beyond that which still is a word
  comes back with the other sign, or as zero.  Nothing calls
  `write_power_command()` yet: this is what a caller could rely on.

Bounds: a word of 32 values (the five fault bits fit), powers at the edges of a signed
word, commands at the edges of signed and unsigned words with fractions beside them,
counters across the first carry.  78,000 states.

### Where the code does not do what its comments say

Each of these runs checks one statement of the repository and finds it violated.

| Run | What the repository says | What the code does |
|---|---|---|
| `router_status` | `mstp_router.py:69`: returns the status dict | `run()` clears `_process` without the lock between two loads: AttributeError |
| `router_signals` | `main.py:229`: graceful shutdown | a second signal inside `stop()` blocks for ever on the lock its own thread holds |
| `di_simulated` | `revpi_di.py:86-88`: random inputs "in DEV_MODE or when the library is unavailable" | `handlesignalend()` installs a signal handler, which only the main thread may; it raises in the reader's thread after the board was opened, and BACnet gets random inputs |

Seen while modelling, and not worth a run, because one look shows it:

* "BACnet reliability will be set to fault" (`poller.py:261`) is only logged: no
  object's reliability is ever assigned.
* A write to AV:1 is "forwarded to Modbus" (`bacnet_server.py:290-291`) by nobody;
  the next refresh overwrites it, and nothing calls `write_power_command`.
* Saving in the wizard restarts nothing (`_restart`, `web_ui.py:703`, is never
  called) though `step5.html:37-41` says "no further configuration is needed".
* `router-mstp`'s output is read as text outside any `try` (`mstp_router.py:199`): bytes that
  are not UTF-8 end the monitoring thread in service, and the router that
  "restarting on unexpected exit" (lines 168-169) promises is not started again.
* `poller.py:39,42` call registers 210 and 213 "INT16 -- part of INT32 above", while the code
  reads each as the high word of a 32-bit value of its own (lines 163, 166).
* A router that is being started when `stop()` looks is left behind
  (`mstp_router.py:216`); each start that survives a second resets the "exponential
  backoff" (`mstp_router.py:168-169`) to 5 s.
* `BESSData.stale` ("True if data is older than timeout", `data_store.py:49`) is set by
  a failed read only; nothing reads it.
* The dashboard's ACTIVE (`dashboard.html:98`) is the constant True of `web_ui.py:220`,
  and `confirm_status` asks the socket table twice, so `all_ok` can appear next
  to a panel that says INACTIVE.
* The DI warning of `api_status` looks at the device file only (`web_ui.py:421-426`), not
  at whether the inputs are simulated; `inputs` is a "snapshot" (`revpi_di.py:102`)
  of live objects; `alarm_on_fault` is read by nobody.
* A device on the RS485 line stays `connected` for ever, error replies and timeouts
  are not counted (`rtu_poller.py:224`), a serial port that did not open is never tried again,
  and every function code but 3 reads input registers.  The points polled
  there are documented as BACnet points (`rtu_poller.py:5`) and never become any.

## What is proved

All theorems hold for every set of heap objects and readers, every command set,
timeout and bound that satisfies the named assumptions `StoreAssumption` (None is
no object; commands are integers, 0 among them; `AgeCap` lies beyond the timeout),
`PollerAssumption` (`MaxBlock` is a natural number), `BacnetAssumption` and
`RequestsAssumption` (the server, and the requests, are readers).

**The telemetry path** (`Telemetry_proofs`).  `TableIsOnePoll` is not inductive:
half-way through a refresh the table *is* mixed.  The strengthening `PathInv`
follows the data: table <= object the refresh holds <= current object <= poll
under way <= plant.  Its parts are `RefreshHolds` (the refresh holds an object),
`DataInOrder` (no reader's object is newer than the current one, no sample older),
`TableInOrder` (which half of the table is the held object's) and `ClientThere` (a
client that vanished between the two loads was taken by `stop()`).  `PathInvariant`
proves `TypeOK /\ PathInv` invariant, action by action, from lemmas about the
store (`Poller_proofs`: what `Update`, `Get`, `Release` and aging preserve).  From it follow
`TypeCorrect`, `TableIsOnePollHolds`, `CrashOnlyOnStopHolds`, `ServedMonotone` (an action
property) and `FeedRefinement`; `SocketRefinement` proves the other refinement.
Three more are the safety half of the path's liveness: what was reached stays
(`FreshTableStays`, `NoticedLossStays`: outside its last two steps a poll cannot succeed on
a dead link), and no failure makes a thread leave its loop (`ThreadsGoOn`, from `FlagsSet`).

**The appliance** (also `Telemetry_proofs`): the threads of `Telemetry` in service and any number of
status requests, over one store.  `StatusRefinement` maps the heap to what the
requests can see of it (`PagesHeap`: an object that only the server still holds is
blank), so that a step of the server is a step of its socket or none at all, and
`update()`, which must not take an object the server holds, takes one that is free for
the pages too.  It needs `RequestsHold` (a request holds an object exactly from its `get()` to
its answer) and `GreenNoticed` (the history variable follows the store).  `AnswersTrue`
brings the theorems of `StatusPath` back to the store itself, and `TableNextToPages` shows
that requests do not disturb the table: `TableIsOnePoll` and `ServedNeverGoesBack`
hold with them as without.  The composition is proved only: its state space is too
large for a run that ends.

**The status pages** (`StatusPath_proofs`).  `StatusInvariant` proves `StatusInv` for any
number of concurrent requests: a request that has read holds an object
(`ObjectsHeld`), no younger than the current one (`HeldIsOlder`); its success can only have
dropped since (`EpmsAnswer`); if the store has moved on, the current data was green
meanwhile (`GreenSeen`); and if staleness was answered, the held object is too old
(`StaleAnswer`).  `AllOkConnected`, `AllOkGreen`, `StaleWarningTrue` and `SuccessDrops` follow.

**The configuration file** (`ConfigFile_proofs`), for any number of requests and forms, from
`ConfigAssumption` (the three special values differ from all configurations).
`NeverHalfConfig`, `NothingLost` and `NetworkWasSaved` are not inductive: what is in
a file comes from a request's local copy.  `WizardInv` says what those copies
are: in `ConfigInv` every request's has all keys, and an apply's and the interfaces in the
netplan file were in config.yaml at one moment (`held`); in `PostInv`, as long as no two
posts overlapped, a post is alone, the file it rewrites is empty, everything held was
saved, and unless a write was torn the post holds the newest settings, plus its own
form once the file is open.
`ConfigInvariant` proves it; `TypeCorrect`, `NeverHalf`, `NothingIsLost` and
`NetworkIsSaved` follow.  `FileImplementsStore` proves the refinement of
`SettingsStore`, step by step: under `WizardInv` the mapped store is the history
variable `newest` until it is lost (`StoredIsNewest`), so a flush is a save, the
steps that overlap are a loss, a boot is a start, and every other step of a request
stutters; that a file is only written by a running process is `DownMeansIdle`.
`AlwaysBootable` is the safety part of `RestartsAgain`: the guard of `Boot` holds
whenever the appliance is down under that property's conditions.

**The digital inputs** (`DIReader_proofs`), for any number of channels and any sets of enabled and
normally closed ones (`DIAssumption`).  `ReadInv` says what a scan, a refresh and a
request have seen so far: no input is ahead of the board (`RawBehind`); what a
half-done refresh has copied is no older than its list (`RefreshSoFar`); a
request's two loads are of what it found in the list, or a scan came between
(`AnswerSoFar`); and the inputs that closing cut off (`CutOff`).  `TypeCorrect` needs
more than types too: that the board is opened and closed once bounds the count.
`InputsAreAFeed` proves `InputFeedRefined`, with `ShownBehind` (nothing was read before
the hardware is tried, and what is shown was read); `InputImplementsFeed` is
the same in the form that TLC cannot take, `Spec => Feed(c)!FeedSpec` for each channel.
`SteadyInputStays` (an input shown as it is stays so until it changes) and `ScansGoOn` (each
step of a scan is one further, or gives the lock back) are the safety halves of the two
liveness properties.

**The router** (`MSTPRouter_proofs`), for any number of children and signals
(`RouterAssumption`).  Counting comes first: `CountInv` says that children are started one
after the other, that what is stored was started, that each restart used up one, and
that in service `run()` never reaches its end; `TypeCorrect` needs it, because the
counter of restarts is bounded by the children only.  `AtMostOneRouter` is then far from
inductive: it is true because of where the other thread is.  `HandInv` says so of
the children it counts: none is up when the next one is started (`NoneBefore`), one that is
up is the last that was started (`AliveIsNewest`), and while the thread runs on it is
the one in hand (`OnlyInHand`); and one that could be killed and was not stored behind
`stop()`'s back is in hand or not stored yet (`KillableInHand`).  `StopInv` adds what
`stop()` does: unless it came too early it clears `_running` for good (`NotLost`), it
sees to the child in hand (`SeenTo`), and what it found is dead, wedged or
still in its hands (`SeenDead`).
Two lemmas,
one for the monitoring thread's steps and one for everybody else's, carry most
actions.  `NeverTwoRouters`, `OnlyLateOnesSurvive` and `MonitorSurvivesService` follow.
Two more theorems are the safety parts of the liveness properties: `MonitoringGoesOn`
(without a signal, and with output that decodes, the thread is always inside its loop: what `RouterIsRestarted` rests
on) and `LockIsGivenBack` (whoever holds the lock is at a step that waits for no lock,
unless a second signal arrived inside `stop()`: what `StopEnds` rests on).

**The RS485 line** (`RTUPoller_proofs`), for any number of devices and points (`RTUAssumption`).
`LineInv`: the port's owner follows the mode that main() derived (`PortByMode`, with
`StartedLast`); values come from the line (`ReadFromLine`); outside a scan the report is that of
the last whole scan (`BetweenScans`), which is what an answer took (`AnswerTaken`).  It
gives `OneOwner`, `NeverBack`, and what a status answer is worth: it is the report of the last
whole scan (`WholeScans`), and a device that it calls connected has answered once, which is
not to say that it still does (`ConnectedIsTrue`).  `ScansGoOn` is the safety half of
`StatusIsAnswered`: no failure keeps a scan, or its lock, from going on.

**Durations** (`PolledData_proofs`), for all intervals, timeouts and jumps of the clock
(`TimesAssumption`).  A bound on a wait is not inductive; `TimeInv` adds the time that the phase
under way may still take: `Latest(phase, hurt)` is the latest moment after the link came
back at which that phase ends, if the data is not fresh by then (`RecoveryInv`); `LossInv` is its
counterpart for a link that went down, where the second pass under way is the last that
may succeed; `TableInv` adds the refresh to come; `ClockInv` ties `drift` to `steady`; and
`LeadInv` bounds how long a poll is under way with its values (`LeadInvariant`).  From
`TimeInvariant` follow `AlwaysRecovers`, `TableAlwaysRecent`, `FreshAlwaysRecent`,
`NeverFalseAlarm` and `LossAlwaysShown`.

**The numbers** (`PolledData_proofs`), for every even base from 32 on, so also for 2^16
(`BaseAssumption`, `ValuesAssumption`).  Lemmas about words (what comes out of
splitting, joining and signing them) carry `PolledIsSimulated`, `CommandIsReadBack` and `CountersRunOn` (a carry between two registers
never makes a counter run backwards); `RangeInv` keeps the simulated quantities in
their ranges.

Only model-checked: the liveness properties (`FreshDataReachesClients`,
`LinkLossIsNoticed`, `RouterIsRestarted`, `StopEnds`, `RestartsAgain`,
`SteadyInputIsShown`, `RequestsAreAnswered`, `StatusIsAnswered`).  They need fairness, that is
ENABLED, which is beyond the prover.  What each rests on and is safety is proved: that what
was reached stays, and that those who wait wait for a step that goes on.  Every
other property of a passing run is a theorem.

## What is not modelled

* `seconds_since_update`: nobody calls it.
* Simulation mode (`main.py`), which feeds the store made-up data, and `DEV_MODE`.
* The wizard's connection tests, dongle and profile endpoints: they keep nothing.
  A power cut that loses what the disk had not written yet.
* Of the texts that two overlapping posts can mix (`config.yaml`): a tail that starts
  inside a word (it can make another key of it, which nothing reads, or continue the number
  it stands behind), and settings under a key that the form leaves alone
  (`rtu_devices` when the mode is not RTU).
* The `except` of a refresh (`bacnet_server.py:285-286`).  The values it copies are the floats
  and strings that the points were made for, so nothing in it is known to raise; if
  something did half-way, points of two polls would stand side by side until the next
  refresh.
* The licence: a file read at start and checked by pure functions; nothing waits
  for it or shares it.
* The RTU points' float and scaling, and the simulator's curves: the properties
  tell values apart, not what they are worth.
* Device profiles, pages, scripts and unit tests: data, rendering, deployment.
* A socket of the router itself on UDP 47808, which `_bacnet_is_listening` would
  take for the server's (`mstp_router.py:106`, `web_ui.py:687`).
* What the child does when its output pipe is full (`mstp_router.py:142`).

## Plan

1. Done: `DataStore`, `ModbusPoller`, `BACnetServer`, `Telemetry` with its abstract
   specifications and proofs; `WebStatus`, `StatusPath` with proofs; `MSTPRouter`;
   `ConfigFile` with proofs.
2. Done: `DIReader`, `RTUPoller`, `RegisterMap` and `CycleTimes`, with proofs.
3. Done: `MSTPRouter` proved; `SettingsStore` and the digital inputs' feed, with
   their refinements checked and proved; `Appliance` proved to implement `StatusPath`.
4. Done: the safety halves of the liveness properties.
5. Next: the simulation mode of `main.py` as another writer of the store, and the
   licence's tier table if anything comes to wait for it.
