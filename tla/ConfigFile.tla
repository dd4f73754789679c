----------------------------- MODULE ConfigFile -----------------------------
(***************************************************************************)
(* web_ui.py and main.py: config.yaml, which the wizard's steps load,      *)
(* change and rewrite, which apply_network turns into a netplan file, and  *)
(* which the appliance reads when it starts, and only then.                *)
(*                                                                         *)
(* Requests run in threads of their own, with no lock around the files.    *)
(* open(..., "w") empties a file; its few kilobytes are written when the   *)
(* stream is flushed.  In between the process may end (a crash, a stop, a  *)
(* reboot), and systemd starts it again.  A file that was closed is on the *)
(* disk: a power cut that loses cached writes is not modelled.             *)
(*                                                                         *)
(* Each step of the wizard replaces the settings under its own keys: 1 the *)
(* site, 2 the EPMS and eth0, 3 eth1, BACnet, RS485.  A configuration is   *)
(* the number of the form each key's settings came from; 0 is the template.*)
(***************************************************************************)
EXTENDS Integers

CONSTANTS
    Requests,       \* threads of the web server
    MaxForms,       \* bound: how many forms are submitted
    Absent,         \* no such file
    Garbage,        \* a netplan file that says nothing, a store that is lost
    Down            \* no process, or no network configuration

ASSUME ConfigAssumption ==
    /\ MaxForms \in Nat
    /\ Absent # Garbage
    /\ \A v \in {Absent, Garbage, Down} :
         /\ \A S \in SUBSET (1..6) : v \notin [S -> 0..MaxForms]
         /\ v \notin (0..MaxForms) \X (0..MaxForms)

VARIABLES
    file,           \* config.yaml: each key's settings, the last text of them
    broken,         \* what is in config.yaml is not YAML
    netplan,        \* /etc/netplan/01-sbs-energylink.yaml
    network,        \* what netplan last made of it
    run,            \* the configuration the services were started with
    rPc,            \* [Requests -> where the request is]
    rStep,          \* [Requests -> the wizard step it posts]
    rCfg,           \* [Requests -> its local cfg]
    forms,          \* how many forms have been saved
    newest,         \* history: the last form each step saved
    saved,          \* history: every configuration that was saved
    held,           \* history: every configuration config.yaml has held
    overlap,        \* history: two posts were in progress at once
    torn            \* history: the process ended inside a write

vars == <<file, broken, netplan, network, run, rPc, rStep, rCfg,
          forms, newest, saved, held, overlap, torn>>

fileVars    == <<file, broken>>
requestVars == <<rPc, rStep, rCfg>>
networkVars == <<netplan, network>>
savedVars   == <<newest, saved, held>>
historyVars == <<savedVars, overlap, torn>>

-----------------------------------------------------------------------------
Steps == 1..3

\* bacnet, eth0, eth1, modbus, rs485, site_name: the top-level keys in the order in
\* which yaml.dump sorts them, each with the step it belongs to.
Keys == 1..6
StepOf == <<3, 2, 3, 2, 3, 1>>

Configs == [Keys -> 0..MaxForms]
Template == [k \in Keys |-> 0]
Empty == [k \in {} |-> 0]

\* What the file may hold, a configuration without some keys included.
Contents == {Absent} \cup UNION {[S -> 0..MaxForms] : S \in SUBSET Keys}

RequestPcs == {"idle", "post", "write", "net", "netWrite", "netApply"}

\* load_config: without a file, the template.  An empty file is None to YAML,
\* on which every handler raises.
Readable == file # Empty /\ ~broken
Loaded == IF file = Absent THEN Template ELSE file

Posting(r) == rPc[r] \in {"post", "write"}

\* The form's settings under every key of its step.
WithForm(cfg, s, f) ==
    [k \in DOMAIN cfg \cup {k \in Keys : StepOf[k] = s} |-> IF StepOf[k] = s THEN f ELSE cfg[k]]

\* eth0 (a key of step 2) and eth1 (one of step 3), which the netplan file is made from.
Interfaces(cfg) == <<cfg[2], cfg[3]>>

Init ==
    /\ file = Absent /\ broken = FALSE /\ netplan = Absent /\ network = Down /\ run = Down
    /\ rPc = [r \in Requests |-> "idle"]
    /\ rStep = [r \in Requests |-> 1]
    /\ rCfg = [r \in Requests |-> Template]
    /\ forms = 0
    /\ newest = Template /\ saved = {Template} /\ held = {Template}
    /\ overlap = FALSE /\ torn = FALSE

-----------------------------------------------------------------------------
(* The wizard's steps 1 to 3 (POST).                                       *)

Goto(r, from, to) == rPc[r] = from /\ rPc' = [rPc EXCEPT ![r] = to]

\* Mutant of StartPost: an empty file counts as a blank configuration.
StartPost_OrBlank(r) ==
    /\ run # Down /\ ~broken
    /\ Goto(r, "idle", "post")
    /\ rStep' \in {[rStep EXCEPT ![r] = s] : s \in Steps}
    /\ rCfg' = [rCfg EXCEPT ![r] = Loaded]
    /\ overlap' = (overlap \/ \E q \in Requests : Posting(q))
    /\ UNCHANGED <<fileVars, networkVars, run, forms, savedVars, torn>>

StartPost(r) ==
    /\ run # Down /\ Readable
    /\ Goto(r, "idle", "post")
    /\ rStep' \in {[rStep EXCEPT ![r] = s] : s \in Steps}
    /\ rCfg' = [rCfg EXCEPT ![r] = Loaded]
    /\ overlap' = (overlap \/ \E q \in Requests : Posting(q))
    /\ UNCHANGED <<fileVars, networkVars, run, forms, savedVars, torn>>

\* Mutant of RejectForm: the numbers are parsed after the file was opened.
RejectForm_AfterOpen(r) ==
    /\ Goto(r, "post", "idle")
    /\ file' = Empty /\ broken' = FALSE
    /\ UNCHANGED <<networkVars, run, rStep, rCfg, forms, historyVars>>

\* A number in the form is none: int() raises before anything is saved.
RejectForm(r) ==
    /\ Goto(r, "post", "idle")
    /\ UNCHANGED <<fileVars, networkVars, run, rStep, rCfg, forms, historyVars>>

\* The form's settings replace the step's, and save_config opens the file.
OpenFile(r) ==
    /\ Goto(r, "post", "write")
    /\ forms < MaxForms /\ forms' = forms + 1
    /\ rCfg' = [rCfg EXCEPT ![r] = WithForm(@, rStep[r], forms')]
    /\ file' = Empty /\ broken' = FALSE
    /\ UNCHANGED <<networkVars, run, rStep, historyVars>>

\* The end of a longer text that another request has written since stays behind the
\* own one: of the keys from `from' on it, which are in it whole, the last text wins.
\* bacnet, the first key of any text, is never among them.
WithTail(cfg, tail, from) == [k \in Keys |-> IF k < from THEN cfg[k] ELSE tail[k]]

\* The configuration is written at the start of the file.  If there is something behind
\* it then, the two may be YAML together, or not.
Flush(r) ==
    /\ Goto(r, "write", "idle")
    /\ \/ /\ file = Empty
          /\ file' = rCfg[r] /\ broken' = FALSE
       \/ /\ file # Empty
          /\ \E from \in 2..7 : file' = WithTail(rCfg[r], file, from)
          /\ broken' \in BOOLEAN
    /\ newest' = [k \in Keys |-> IF StepOf[k] = rStep[r] THEN rCfg[r][k] ELSE newest[k]]
    /\ saved' = saved \cup {rCfg[r]}
    /\ held' = held \cup (IF broken' THEN {} ELSE {file'})
    /\ UNCHANGED <<networkVars, run, rStep, rCfg, forms, overlap, torn>>

-----------------------------------------------------------------------------
(* apply_network.                                                          *)

StartApply(r) ==
    /\ run # Down /\ Readable
    /\ Goto(r, "idle", "net")
    /\ rCfg' = [rCfg EXCEPT ![r] = Loaded]
    /\ UNCHANGED <<fileVars, networkVars, run, rStep, forms, historyVars>>

\* An address is missing or not valid: an error is returned.
RefuseApply(r) ==
    /\ Goto(r, "net", "idle")
    /\ UNCHANGED <<fileVars, networkVars, run, rStep, rCfg, forms, historyVars>>

OpenNetplan(r) ==
    /\ Goto(r, "net", "netWrite")
    /\ netplan' = Empty
    /\ UNCHANGED <<fileVars, network, run, rStep, rCfg, forms, historyVars>>

\* Mutant of FlushNetplan: eth1 is taken from the file as it is now.
FlushNetplan_Reloads(r) ==
    /\ Readable /\ Goto(r, "netWrite", "netApply")
    /\ netplan' = <<rCfg[r][2], Loaded[3]>>
    /\ UNCHANGED <<fileVars, network, run, rStep, rCfg, forms, historyVars>>

\* A longer text's end is no interface of the shorter one's: it is indented differently,
\* or stands behind the version that ends the text.  At worst the file is refused.
FlushNetplan(r) ==
    /\ Goto(r, "netWrite", "netApply")
    /\ netplan' \in IF netplan = Empty THEN {Interfaces(rCfg[r])}
                                       ELSE {Interfaces(rCfg[r]), Garbage}
    /\ UNCHANGED <<fileVars, network, run, rStep, rCfg, forms, historyVars>>

\* What netplan makes of its file (external): nothing, if there is nothing in it.
Configured == IF netplan \in {Absent, Garbage, Empty} THEN Down ELSE netplan

\* netplan apply reads the file, whoever wrote it last, and may fail.
NetplanApply(r) ==
    /\ Goto(r, "netApply", "idle")
    /\ network' \in {network, Configured}
    /\ UNCHANGED <<fileVars, netplan, run, rStep, rCfg, forms, historyVars>>

-----------------------------------------------------------------------------
(* The process ends (a crash, a stop, a reboot) and systemd starts it; a   *)
(* reboot reads the netplan file too.                                      *)

Crash ==
    /\ run # Down /\ run' = Down
    /\ rPc' = [r \in Requests |-> "idle"]
    /\ torn' = (torn \/ \E r \in Requests : rPc[r] = "write")
    /\ network' \in {network, Configured}
    /\ UNCHANGED <<fileVars, netplan, rStep, rCfg, forms, savedVars, overlap>>

\* Mutant of Boot: an empty file is taken for a configuration.
Boot_OrBlank ==
    /\ run = Down /\ ~broken
    /\ run' = Loaded
    /\ UNCHANGED <<fileVars, networkVars, requestVars, forms, historyVars>>

\* Mutant of Boot: there is no fall-back to the template.
Boot_NeedsFile ==
    /\ run = Down /\ Readable /\ file # Absent
    /\ run' = Loaded
    /\ UNCHANGED <<fileVars, networkVars, requestVars, forms, historyVars>>

\* main() on an unreadable file raises, and systemd tries again: no change.
Boot ==
    /\ run = Down /\ Readable
    /\ run' = Loaded
    /\ UNCHANGED <<fileVars, networkVars, requestVars, forms, historyVars>>

-----------------------------------------------------------------------------
Wizard(r) ==
    \/ StartPost(r) \/ RejectForm(r) \/ OpenFile(r) \/ Flush(r)
    \/ StartApply(r) \/ RefuseApply(r) \/ OpenNetplan(r) \/ FlushNetplan(r)
    \/ NetplanApply(r)

Next == (\E r \in Requests : Wizard(r)) \/ Crash \/ Boot

Spec == Init /\ [][Next]_vars

\* systemd's Restart=always: a process that can start is started.
FairSpec == Spec /\ WF_vars(Boot)

TypeOK ==
    /\ file \in Contents /\ broken \in BOOLEAN
    /\ netplan \in {Absent, Garbage, Empty} \cup (0..MaxForms) \X (0..MaxForms)
    /\ network \in {Down} \cup (0..MaxForms) \X (0..MaxForms)
    /\ run \in {Down} \cup Configs
    /\ rPc \in [Requests -> RequestPcs]
    /\ rStep \in [Requests -> Steps]
    /\ rCfg \in [Requests -> Contents \ {Absent}]
    /\ forms \in 0..MaxForms
    /\ newest \in Configs
    /\ saved \subseteq Contents \ {Absent} /\ held \subseteq Contents \ {Absent}
    /\ overlap \in BOOLEAN /\ torn \in BOOLEAN

-----------------------------------------------------------------------------
(* What the configuration must go through unharmed.                        *)

\* However posts, applies and crashes interleave, nobody ever saves, or boots
\* from, a configuration that lacks some key's settings: a request that finds
\* the file emptied by another raises before it saves, and a mixed text begins
\* with a whole one.  (An emptied file is allowed: hazard of the torn write.)
NeverHalfConfig == file \in {Absent, Empty} \cup Configs

\* With one post at a time, and no crash inside the write itself, nothing
\* that was saved is ever lost, whatever is applied, rejected or restarted.
NothingLost ==
    ~overlap /\ ~torn /\ (\A r \in Requests : rPc[r] # "write")
        => Readable /\ Loaded = newest

\* The two interfaces always come from config.yaml as it was at one moment, also
\* when a post, another apply or a restart gets between the apply's steps; and
\* unless two posts overlapped and their texts got mixed, that is one
\* configuration that somebody saved.
NetworkWasSaved ==
    network # Down =>
        /\ \E cfg \in held : network = Interfaces(cfg)
        /\ overlap \/ \E cfg \in saved : network = Interfaces(cfg)

\* Under the same conditions the appliance comes back after every crash.
RestartsAgain == [](~overlap /\ ~torn) => []<>(run # Down)

-----------------------------------------------------------------------------
(* The abstract store behind the file.                                     *)

\* Overlapping posts and a torn write lose the store.  Until then it is the
\* file, and what was saved before while a post is rewriting the file.
Stored ==
    IF overlap \/ torn THEN Garbage
    ELSE IF \E r \in Requests : rPc[r] = "write" THEN newest ELSE Loaded

Store == INSTANCE SettingsStore
            WITH Forms <- 0..MaxForms, First <- Template, Lost <- Garbage,
                 Stopped <- Down, stored <- Stored, running <- run

\* However many steps it takes to load, empty and rewrite the file, a post
\* changes the settings of its own step at one moment, a rejected form and an
\* apply change none, and every start gets exactly what was saved last.
SettingsRefined == Store!StoreSpec

-----------------------------------------------------------------------------
(* The inductive invariants behind them.                                   *)

Applying(r) == rPc[r] \in {"net", "netWrite", "netApply"}

HeldInterfaces == {Interfaces(cfg) : cfg \in held}

\* What the files and the requests hold was in config.yaml at one moment: an apply's
\* configuration, and the interfaces in the netplan file.
ConfigInv ==
    /\ saved \subseteq Configs /\ held \subseteq Configs /\ Template \in saved \cap held
    /\ file \in {Absent, Empty} \cup Configs
    /\ Readable => Loaded \in held
    /\ \A r \in Requests : rPc[r] = "write" => file # Absent
    /\ netplan \in {Absent, Garbage, Empty} \cup HeldInterfaces
    /\ network \in {Down} \cup HeldInterfaces
    /\ \A r \in Requests : rCfg[r] \in Configs
    /\ \A r \in Requests : Applying(r) => rCfg[r] \in held

\* Posts that never overlapped wrote nothing but what they saved; and with no torn
\* write the only post holds the newest settings, with its own form in them
\* once it has opened the file.
PostInv ==
    ~overlap =>
      /\ \A q, r \in Requests : Posting(q) /\ Posting(r) => q = r
      /\ held \subseteq saved
      /\ \A r \in Requests : rPc[r] = "write" => file = Empty
      /\ ~torn =>
           /\ (\A r \in Requests : rPc[r] # "write") => Readable /\ Loaded = newest
           /\ \A r \in Requests : rPc[r] = "post" => rCfg[r] = newest
           /\ \A r \in Requests : rPc[r] = "write" =>
                 \A k \in Keys : StepOf[k] # rStep[r] => rCfg[r][k] = newest[k]

WizardInv == ConfigInv /\ PostInv

=============================================================================
