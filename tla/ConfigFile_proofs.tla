-------------------------- MODULE ConfigFile_proofs --------------------------
(***************************************************************************)
(* Proofs about ConfigFile, for any number of requests and forms.          *)
(***************************************************************************)
EXTENDS ConfigFile, TLAPS

-----------------------------------------------------------------------------
(* What a configuration is, and is not.                                    *)

LEMMA TemplateType == Template \in Configs
BY ConfigAssumption DEF Template, Configs, Keys

\* An emptied file has no settings.
LEMMA EmptyIsNone == Empty \notin Configs
<1>1. DOMAIN Empty = {}
  BY DEF Empty
<1>2. \A cfg \in Configs : 1 \in DOMAIN cfg
  BY DEF Configs, Keys
<1> QED BY <1>1, <1>2

LEMMA NotConfigs == \A v \in {Absent, Garbage, Down} : v \notin Configs
<1>1. Keys \in SUBSET (1..6)
  BY DEF Keys
<1> QED BY <1>1, ConfigAssumption DEF Configs, Keys

\* A file emptied by open() is there.
LEMMA EmptyIsFile == Empty # Absent
<1>1. Empty \in [{} -> 0..MaxForms]
  BY DEF Empty
<1>2. {} \in SUBSET (1..6)
  OBVIOUS
<1> QED BY <1>1, <1>2, ConfigAssumption

LEMMA ConfigsAreContents == Configs \subseteq Contents /\ Empty \in Contents
<1>1. Keys \in SUBSET Keys /\ {} \in SUBSET Keys
  OBVIOUS
<1>2. Empty \in [{} -> 0..MaxForms]
  BY DEF Empty
<1> QED BY <1>1, <1>2 DEF Configs, Contents

\* A form's settings replace those of one step's keys in a whole configuration.
LEMMA WithFormType ==
    ASSUME NEW cfg \in Configs, NEW s \in Steps, NEW f \in 0..MaxForms
    PROVE  /\ WithForm(cfg, s, f) \in Configs
           /\ \A k \in Keys : WithForm(cfg, s, f)[k] = IF StepOf[k] = s THEN f ELSE cfg[k]
<1>1. DOMAIN cfg \cup {k \in Keys : StepOf[k] = s} = Keys
  BY DEF Configs
<1>2. WithForm(cfg, s, f) = [k \in Keys |-> IF StepOf[k] = s THEN f ELSE cfg[k]]
  BY <1>1 DEF WithForm
<1> QED BY <1>2 DEF Configs

\* Two texts in one file are a whole configuration, if any.
LEMMA WithTailType ==
    ASSUME NEW cfg \in Configs, NEW tail \in Configs, NEW from \in 2..7
    PROVE  WithTail(cfg, tail, from) \in Configs
<1>1. \A k \in Keys : (IF k < from THEN cfg[k] ELSE tail[k]) \in 0..MaxForms
  BY DEF Configs
<1> QED BY <1>1 DEF WithTail, Configs

LEMMA InterfacesType ==
    ASSUME NEW cfg \in Configs
    PROVE  Interfaces(cfg) \in (0..MaxForms) \X (0..MaxForms)
BY DEF Interfaces, Configs, Keys

\* A readable file is a configuration it has held, or the template.
LEMMA LoadedIsHeld ==
    ASSUME ConfigInv, Readable
    PROVE  Loaded \in held /\ Loaded \in Configs
BY DEF ConfigInv

\* What a post leaves in the file.
LEMMA FlushType ==
    ASSUME ConfigInv, NEW r \in Requests, Flush(r)
    PROVE  file' \in Configs
<1>1. rCfg[r] \in Configs
  BY DEF ConfigInv
<1>2. CASE file = Empty
  BY <1>1, <1>2 DEF Flush
<1>3. CASE file # Empty
  <2>1. file \in Configs
    BY <1>3 DEF Flush, Goto, ConfigInv
  <2> QED BY <1>1, <1>3, <2>1, WithTailType DEF Flush
<1> QED BY <1>2, <1>3

-----------------------------------------------------------------------------
(* Every type and the configurations.                                      *)

\* The parts of TypeOK that ConfigInv does not give.
ScalarsOK ==
    /\ run \in {Down} \cup Configs
    /\ rPc \in [Requests -> RequestPcs]
    /\ rStep \in [Requests -> Steps]
    /\ rCfg \in [Requests -> Configs]
    /\ forms \in 0..MaxForms
    /\ newest \in Configs
    /\ broken \in BOOLEAN
    /\ overlap \in BOOLEAN /\ torn \in BOOLEAN

LEMMA TypesFollow == ScalarsOK /\ ConfigInv => TypeOK
<1> SUFFICES ASSUME ScalarsOK, ConfigInv PROVE TypeOK
  OBVIOUS
<1>1. file \in Contents
  BY ConfigsAreContents DEF ConfigInv, Contents
<1>2. HeldInterfaces \subseteq (0..MaxForms) \X (0..MaxForms)
  BY InterfacesType DEF ConfigInv, HeldInterfaces
<1>3. Configs \subseteq Contents \ {Absent}
  BY ConfigsAreContents, NotConfigs
<1> QED BY <1>1, <1>2, <1>3 DEF TypeOK, ScalarsOK, ConfigInv

LEMMA InitHolds == Init => ScalarsOK /\ ConfigInv /\ PostInv
<1> SUFFICES ASSUME Init PROVE ScalarsOK /\ ConfigInv /\ PostInv
  OBVIOUS
<1>1. ScalarsOK
  <2>1. overlap \in BOOLEAN /\ torn \in BOOLEAN /\ broken \in BOOLEAN
    BY Zenon DEF Init
  <2>2. rStep \in [Requests -> Steps] /\ 0 \in 0..MaxForms
    BY ConfigAssumption DEF Init, Steps
  <2> QED BY <2>1, <2>2, TemplateType DEF Init, ScalarsOK, RequestPcs
<1>2. Readable /\ Loaded = newest
  BY EmptyIsFile, ConfigAssumption DEF Init, Readable, Loaded
<1>3. ConfigInv
  BY <1>2, TemplateType DEF Init, ConfigInv, Applying
<1>4. PostInv
  BY <1>2 DEF Init, PostInv, Posting
<1> QED BY <1>1, <1>3, <1>4

LEMMA ScalarsStep ==
    ASSUME ScalarsOK, ConfigInv, [Next]_vars
    PROVE  ScalarsOK'
<1>1. ASSUME NEW r \in Requests, Wizard(r) PROVE ScalarsOK'
  <2>1. Readable => Loaded \in Configs
    BY LoadedIsHeld
  <2>2. CASE StartPost(r)
    BY <2>1, <2>2 DEF StartPost, Goto, ScalarsOK, RequestPcs, Posting, fileVars, savedVars
  <2>3. CASE OpenFile(r)
    <3>1. forms' \in 0..MaxForms
      BY <2>3, ConfigAssumption DEF OpenFile, ScalarsOK
    <3>2. WithForm(rCfg[r], rStep[r], forms') \in Configs
      BY <3>1, WithFormType DEF ScalarsOK
    <3>3. rCfg' = [rCfg EXCEPT ![r] = WithForm(rCfg[r], rStep[r], forms')]
      BY <2>3 DEF OpenFile
    <3>4. rCfg' \in [Requests -> Configs]
      BY <3>2, <3>3 DEF ScalarsOK
    <3> QED BY <2>3, <3>1, <3>4 DEF OpenFile, Goto, ScalarsOK, RequestPcs, savedVars, historyVars
  <2>4. CASE Flush(r)
    <3>1. \A k \in Keys : rCfg[r][k] \in 0..MaxForms /\ newest[k] \in 0..MaxForms
      BY DEF ScalarsOK, Configs
    <3>2. newest' \in Configs
      BY <2>4, <3>1 DEF Flush, Configs
    <3>3. broken' \in BOOLEAN
      BY <2>4, Zenon DEF Flush
    <3> QED BY <2>4, <3>2, <3>3 DEF Flush, Goto, ScalarsOK, RequestPcs
  <2>5. CASE StartApply(r)
    BY <2>1, <2>5 DEF StartApply, Goto, ScalarsOK, RequestPcs, fileVars, savedVars, historyVars
  <2>6. CASE RejectForm(r) \/ RefuseApply(r)
    BY <2>6 DEF RejectForm, RefuseApply, Goto, ScalarsOK, RequestPcs, fileVars, savedVars,
                historyVars
  <2>7. CASE OpenNetplan(r) \/ FlushNetplan(r) \/ NetplanApply(r)
    BY <2>7 DEF OpenNetplan, FlushNetplan, NetplanApply, Goto, ScalarsOK, RequestPcs,
                fileVars, savedVars, historyVars
  <2> QED BY <1>1, <2>2, <2>3, <2>4, <2>5, <2>6, <2>7 DEF Wizard
<1>2. CASE Crash
  BY <1>2 DEF Crash, ScalarsOK, RequestPcs, fileVars, savedVars
<1>3. CASE Boot
  BY <1>3, LoadedIsHeld DEF Boot, ScalarsOK, ConfigInv, requestVars, fileVars, savedVars,
                               historyVars
<1>4. CASE UNCHANGED vars
  BY <1>4 DEF vars, ScalarsOK
<1> QED BY <1>1, <1>2, <1>3, <1>4 DEF Next

\* No write starts, and an apply takes its configuration from the file or keeps it.
RequestsKept ==
    \A q \in Requests :
        /\ (rPc'[q] = "write") => (rPc[q] = "write")
        /\ Applying(q)' => ((Applying(q) /\ rCfg'[q] = rCfg[q]) \/ rCfg'[q] \in held)

\* A step that leaves the file alone.
LEMMA FileKept ==
    ASSUME ScalarsOK', ConfigInv, UNCHANGED <<fileVars, savedVars>>, RequestsKept,
           netplan' \in {Absent, Garbage, Empty} \cup HeldInterfaces,
           network' \in {Down} \cup HeldInterfaces
    PROVE  ConfigInv'
<1>1. \A q \in Requests : rCfg'[q] \in Configs
  BY DEF ScalarsOK
<1>2. HeldInterfaces' = HeldInterfaces
  BY DEF HeldInterfaces, savedVars
<1>3. Readable' => Loaded' \in held'
  BY DEF ConfigInv, Readable, Loaded, fileVars, savedVars
<1>4. UNCHANGED <<file, saved, held>>
  BY DEF fileVars, savedVars
<1>5. \A q \in Requests : Applying(q)' => rCfg'[q] \in held'
  BY <1>4 DEF ConfigInv, RequestsKept
<1>6. \A q \in Requests : rPc'[q] = "write" => file' # Absent
  BY <1>4 DEF ConfigInv, RequestsKept
<1> QED BY <1>1, <1>2, <1>3, <1>4, <1>5, <1>6 DEF ConfigInv

LEMMA ConfigStep ==
    ASSUME ScalarsOK, ScalarsOK', ConfigInv, [Next]_vars
    PROVE  ConfigInv'
<1>1. \A q \in Requests : rCfg'[q] \in Configs
  BY DEF ScalarsOK
<1>2. /\ netplan \in {Absent, Garbage, Empty} \cup HeldInterfaces
      /\ network \in {Down} \cup HeldInterfaces
      /\ Configured \in {Down} \cup HeldInterfaces
  BY DEF ConfigInv, Configured
<1>3. ASSUME NEW r \in Requests, Wizard(r) PROVE ConfigInv'
  <2>1. CASE StartPost(r) \/ RejectForm(r) \/ RefuseApply(r)
    BY <1>2, <2>1, FileKept
       DEF RequestsKept, StartPost, RejectForm, RefuseApply, Goto, ScalarsOK, Applying,
           networkVars, historyVars
  <2>2. CASE OpenFile(r)
    <3>1. \A q \in Requests : Applying(q)' => Applying(q) /\ rCfg'[q] = rCfg[q]
      BY <2>2 DEF OpenFile, Goto, ScalarsOK, Applying
    <3>2. file' = Empty /\ UNCHANGED <<netplan, network, saved, held>>
      BY <2>2 DEF OpenFile, networkVars, savedVars, historyVars
    <3>3. ~Readable' /\ file' # Absent
      BY <3>2, EmptyIsFile DEF Readable
    <3> QED BY <1>1, <3>1, <3>2, <3>3 DEF ConfigInv, HeldInterfaces
  <2>3. CASE Flush(r)
    <3>1. \A q \in Requests : Applying(q)' => Applying(q) /\ rCfg'[q] = rCfg[q]
      BY <2>3 DEF Flush, Goto, ScalarsOK, Applying
    <3>2. file' \in Configs /\ file' # Absent
      BY <2>3, FlushType, NotConfigs
    <3>3. /\ saved \subseteq saved' /\ saved' \subseteq Configs
          /\ held \subseteq held' /\ held' \subseteq Configs
      BY <2>3, <3>2 DEF Flush, ConfigInv
    <3>4. HeldInterfaces \subseteq HeldInterfaces'
      BY <3>3 DEF HeldInterfaces
    <3>5. Readable' => Loaded' \in held'
      BY <2>3, <3>2 DEF Flush, Readable, Loaded
    <3>6. UNCHANGED <<netplan, network>>
      BY <2>3 DEF Flush, networkVars
    <3> QED BY <1>1, <1>2, <3>1, <3>2, <3>3, <3>4, <3>5, <3>6 DEF ConfigInv
  <2>4. CASE StartApply(r)
    <3>1. Loaded \in held
      BY <2>4, LoadedIsHeld DEF StartApply
    <3> QED BY <1>2, <2>4, <3>1, FileKept
               DEF RequestsKept, StartApply, Goto, ScalarsOK, Applying, networkVars, historyVars
  <2>5. CASE OpenNetplan(r)
    BY <1>2, <2>5, FileKept DEF RequestsKept, OpenNetplan, Goto, ScalarsOK, Applying, historyVars
  <2>6. CASE FlushNetplan(r)
    <3>1. Interfaces(rCfg[r]) \in HeldInterfaces
      BY <2>6 DEF FlushNetplan, Goto, ConfigInv, Applying, HeldInterfaces
    <3>2. netplan' \in {Garbage} \cup HeldInterfaces
      BY <2>6, <3>1 DEF FlushNetplan
    <3> QED BY <1>2, <2>6, <3>2, FileKept
               DEF RequestsKept, FlushNetplan, Goto, ScalarsOK, Applying, historyVars
  <2>7. CASE NetplanApply(r)
    BY <1>2, <2>7, FileKept DEF RequestsKept, NetplanApply, Goto, ScalarsOK, Applying, historyVars
  <2> QED BY <1>3, <2>1, <2>2, <2>3, <2>4, <2>5, <2>6, <2>7 DEF Wizard
<1>4. CASE Crash
  BY <1>2, <1>4, FileKept DEF RequestsKept, Crash, Applying, fileVars
<1>5. CASE Boot
  BY <1>2, <1>5, FileKept DEF RequestsKept, Boot, Applying, networkVars, requestVars, historyVars
<1>6. CASE UNCHANGED vars
  BY <1>2, <1>6, FileKept DEF RequestsKept, vars, Applying, fileVars, savedVars
<1> QED BY <1>3, <1>4, <1>5, <1>6 DEF Next

-----------------------------------------------------------------------------
(* Posts.                                                                  *)

\* Every request goes on with its post, or has none.
SamePosts ==
    \A q \in Requests : \/ rPc'[q] = rPc[q] /\ rCfg'[q] = rCfg[q] /\ rStep'[q] = rStep[q]
                        \/ ~Posting(q) /\ ~Posting(q)'

\* A step that leaves the file and the posts alone.
LEMMA PostsKept ==
    ASSUME PostInv, UNCHANGED <<fileVars, savedVars, overlap, torn>>, SamePosts
    PROVE  PostInv'
BY DEF SamePosts, PostInv, Posting, Readable, Loaded, fileVars, savedVars

LEMMA PostStep ==
    ASSUME ScalarsOK, ScalarsOK', ConfigInv, PostInv, [Next]_vars
    PROVE  PostInv'
<1> SUFFICES ASSUME ~overlap' PROVE PostInv'
  BY DEF PostInv
<1>1. ASSUME NEW r \in Requests, Wizard(r) PROVE PostInv'
  <2>1. CASE StartPost(r)
    BY <2>1 DEF StartPost, Goto, ScalarsOK, PostInv, Posting, Readable, Loaded, fileVars, savedVars
  <2>2. CASE RejectForm(r)
    BY <2>2 DEF RejectForm, Goto, ScalarsOK, PostInv, Posting, Readable, Loaded, fileVars,
                savedVars, historyVars
  <2>3. CASE OpenFile(r)
    <3>1. /\ rCfg' = [rCfg EXCEPT ![r] = WithForm(rCfg[r], rStep[r], forms')]
          /\ rPc[r] = "post" /\ rPc' = [rPc EXCEPT ![r] = "write"]
          /\ file' = Empty
          /\ UNCHANGED <<rStep, newest, saved, held, overlap, torn>>
      BY <2>3 DEF OpenFile, Goto, savedVars, historyVars
    <3>2. \A k \in Keys : StepOf[k] # rStep[r] => rCfg'[r][k] = rCfg[r][k]
      BY <2>3, <3>1, WithFormType DEF OpenFile, ScalarsOK
    <3>3. \A q \in Requests : Posting(q)' <=> Posting(q)
      BY <3>1 DEF Posting, ScalarsOK
    <3>4. \A q \in Requests : q # r => ~Posting(q)
      BY <3>1 DEF PostInv, Posting
    <3> QED BY <3>1, <3>2, <3>3, <3>4 DEF PostInv, Posting, ScalarsOK
  <2>4. CASE Flush(r)
    <3>1. \A q \in Requests : q # r => ~Posting(q) /\ ~Posting(q)'
      BY <2>4 DEF Flush, Goto, PostInv, Posting, ScalarsOK
    <3>2. ~Posting(r)'
      BY <2>4 DEF Flush, Goto, Posting, ScalarsOK
    <3>3. UNCHANGED <<overlap, torn>> /\ rCfg[r] \in Configs
      BY <2>4 DEF Flush, ScalarsOK
    <3>4. file = Empty
      BY <2>4, <3>3 DEF Flush, Goto, PostInv
    <3>5. file' = rCfg[r] /\ ~broken' /\ held' \subseteq saved'
      BY <2>4, <3>3, <3>4 DEF Flush, PostInv
    <3>6. ASSUME ~torn' PROVE Readable' /\ Loaded' = newest'
      <4>1. \A k \in Keys : StepOf[k] # rStep[r] => rCfg[r][k] = newest[k]
        BY <2>4, <3>3, <3>6 DEF Flush, Goto, PostInv
      <4>2. newest' = [k \in Keys |-> rCfg[r][k]]
        BY <2>4, <4>1 DEF Flush
      <4>3. newest' = rCfg[r]
        BY <3>3, <4>2 DEF Configs
      <4> QED BY <3>3, <3>5, <4>3, NotConfigs, EmptyIsNone DEF Readable, Loaded
    <3> QED BY <3>1, <3>2, <3>5, <3>6 DEF PostInv, Posting
  <2>5. CASE StartApply(r) \/ RefuseApply(r) \/ OpenNetplan(r) \/ FlushNetplan(r)
             \/ NetplanApply(r)
    <3>1. UNCHANGED <<fileVars, savedVars, overlap, torn>>
      BY <2>5 DEF StartApply, RefuseApply, OpenNetplan, FlushNetplan, NetplanApply, historyVars
    <3>2. /\ ~Posting(r) /\ ~Posting(r)'
          /\ \A q \in Requests : /\ rStep'[q] = rStep[q]
                                 /\ q # r => rPc'[q] = rPc[q] /\ rCfg'[q] = rCfg[q]
      BY <2>5 DEF StartApply, RefuseApply, OpenNetplan, FlushNetplan, NetplanApply, Goto, Posting,
                  ScalarsOK
    <3>3. SamePosts
      BY <3>2, Zenon DEF SamePosts
    <3> QED BY <3>1, <3>3, PostsKept, Zenon
  <2> QED BY <1>1, <2>1, <2>2, <2>3, <2>4, <2>5 DEF Wizard
<1>2. CASE Crash
  <2>1. \A q \in Requests : rPc'[q] = "idle"
    BY <1>2 DEF Crash
  <2>2. ~torn' => ~torn /\ \A q \in Requests : rPc[q] # "write"
    BY <1>2, Zenon DEF Crash
  <2> QED BY <1>2, <2>1, <2>2 DEF Crash, PostInv, Posting, Readable, Loaded, fileVars, savedVars
<1>3. CASE Boot
  <2>1. UNCHANGED <<fileVars, savedVars, overlap, torn>>
    BY <1>3 DEF Boot, requestVars, historyVars
  <2>2. SamePosts
    BY <1>3 DEF Boot, requestVars, historyVars, SamePosts
  <2> QED BY <2>1, <2>2, PostsKept, Zenon
<1>4. CASE UNCHANGED vars
  <2>1. UNCHANGED <<fileVars, savedVars, overlap, torn>>
    BY <1>4 DEF vars, fileVars, savedVars
  <2>2. SamePosts
    BY <1>4 DEF vars, fileVars, savedVars, SamePosts
  <2> QED BY <2>1, <2>2, PostsKept, Zenon
<1> QED BY <1>1, <1>2, <1>3, <1>4 DEF Next

-----------------------------------------------------------------------------
(* The theorems.                                                           *)

\* What is in the files and in the requests' hands was in config.yaml at one moment,
\* whole, as long as no posts overlapped it is what somebody saved, and a post
\* that is alone holds the newest settings (web_ui.py:39-48, 81-181, 312-385).
THEOREM ConfigInvariant == Spec => [](ScalarsOK /\ WizardInv)
<1>1. Init => ScalarsOK /\ WizardInv
  BY InitHolds DEF WizardInv
<1>2. ScalarsOK /\ WizardInv /\ [Next]_vars => (ScalarsOK /\ WizardInv)'
  BY ScalarsStep, ConfigStep, PostStep DEF WizardInv
<1> QED BY <1>1, <1>2, PTL DEF Spec

\* The files and the requests only ever hold what the code can put there.
THEOREM TypeCorrect == Spec => []TypeOK
<1>1. ScalarsOK /\ WizardInv => TypeOK
  BY TypesFollow DEF WizardInv
<1> QED BY <1>1, ConfigInvariant, PTL

\* No configuration without some key's settings is ever in the file.
THEOREM NeverHalf == Spec => []NeverHalfConfig
<1>1. WizardInv => NeverHalfConfig
  BY DEF WizardInv, ConfigInv, NeverHalfConfig
<1> QED BY <1>1, ConfigInvariant, PTL

\* Without overlapping posts and torn writes the file holds every step's last
\* form (save_config, web_ui.py:45-48).
THEOREM NothingIsLost == Spec => []NothingLost
<1>1. WizardInv => NothingLost
  BY DEF WizardInv, PostInv, NothingLost
<1> QED BY <1>1, ConfigInvariant, PTL

\* netplan is never given the interfaces of config.yaml at two moments, nor, unless
\* posts overlapped, those of two saved configurations (web_ui.py:312-385).
THEOREM NetworkIsSaved == Spec => []NetworkWasSaved
<1>1. ConfigInv /\ PostInv => NetworkWasSaved
  <2> SUFFICES ASSUME ConfigInv, PostInv, network # Down PROVE NetworkWasSaved
    BY DEF NetworkWasSaved
  <2>1. PICK cfg \in held : network = Interfaces(cfg)
    BY DEF ConfigInv, HeldInterfaces
  <2>2. ~overlap => cfg \in saved
    BY DEF PostInv
  <2> QED BY <2>1, <2>2 DEF NetworkWasSaved
<1> QED BY <1>1, ConfigInvariant, PTL DEF WizardInv

-----------------------------------------------------------------------------
(* The file implements the abstract store.                                 *)

\* A request is only served, and a file only written, by a running process.
DownIsIdle == run = Down => \A r \in Requests : rPc[r] = "idle"

LEMMA DownStep ==
    ASSUME ScalarsOK, ConfigInv, DownIsIdle, [Next]_vars
    PROVE  DownIsIdle'
<1>1. ASSUME NEW r \in Requests, Wizard(r) PROVE run' = run /\ run # Down
  <2>1. rPc[r] = "idle" => run # Down
    BY <1>1 DEF Wizard, StartPost, StartApply, RejectForm, OpenFile, Flush, RefuseApply,
                OpenNetplan, FlushNetplan, NetplanApply, Goto
  <2>2. run' = run
    BY <1>1 DEF Wizard, StartPost, StartApply, RejectForm, OpenFile, Flush, RefuseApply,
                OpenNetplan, FlushNetplan, NetplanApply
  <2> QED BY <2>1, <2>2 DEF DownIsIdle
<1>2. CASE Crash
  BY <1>2 DEF Crash, DownIsIdle
<1>3. CASE Boot
  <2>1. Loaded # Down
    BY <1>3, LoadedIsHeld, NotConfigs DEF Boot
  <2> QED BY <1>3, <2>1 DEF Boot, DownIsIdle
<1>4. CASE UNCHANGED vars
  BY <1>4 DEF vars, DownIsIdle
<1> QED BY <1>1, <1>2, <1>3, <1>4 DEF Next, DownIsIdle

\* No request is under way while the appliance is down.
THEOREM DownMeansIdle == Spec => []DownIsIdle
<1>1. Init => DownIsIdle
  BY DEF Init, DownIsIdle
<1>2. ScalarsOK /\ WizardInv /\ DownIsIdle /\ [Next]_vars => DownIsIdle'
  BY DownStep DEF WizardInv
<1> QED BY <1>1, <1>2, ConfigInvariant, PTL DEF Spec

\* A post that is writing has its form's number under every key of its step.
FormInv ==
    \A r \in Requests : rPc[r] = "write" =>
        \E f \in 0..MaxForms : \A k \in Keys : StepOf[k] = rStep[r] => rCfg[r][k] = f

LEMMA FormStep ==
    ASSUME ScalarsOK, ScalarsOK', FormInv, [Next]_vars
    PROVE  FormInv'
<1>1. CASE \E r \in Requests : OpenFile(r)
  <2>1. PICK r \in Requests : OpenFile(r)
    BY <1>1
  <2>2. /\ rCfg'[r] = WithForm(rCfg[r], rStep[r], forms') /\ rStep' = rStep
        /\ \A q \in Requests \ {r} : rPc'[q] = rPc[q] /\ rCfg'[q] = rCfg[q]
    BY <2>1 DEF OpenFile, Goto, ScalarsOK
  <2>3. forms' \in 0..MaxForms
    BY DEF ScalarsOK
  <2>4. \A k \in Keys : StepOf[k] = rStep[r] => rCfg'[r][k] = forms'
    BY <2>2, <2>3, WithFormType DEF ScalarsOK
  <2> QED BY <2>2, <2>3, <2>4 DEF FormInv
<1>2. CASE ~\E r \in Requests : OpenFile(r)
  <2>1. \A q \in Requests : rPc'[q] = "write" =>
           rPc[q] = "write" /\ rCfg'[q] = rCfg[q] /\ rStep'[q] = rStep[q]
    BY <1>2 DEF Next, Wizard, StartPost, RejectForm, Flush, StartApply, RefuseApply, OpenNetplan,
                FlushNetplan, NetplanApply, Crash, Boot, Goto, ScalarsOK, requestVars, vars
  <2> QED BY <2>1 DEF FormInv
<1> QED BY <1>1, <1>2

LEMMA FormsWhole == Spec => []FormInv
<1>1. Init => FormInv
  BY DEF Init, FormInv
<1> QED BY <1>1, FormStep, ConfigInvariant, PTL DEF Spec

\* Until it is lost, the store is what every step saved last.
LEMMA StoredIsNewest ==
    ASSUME PostInv
    PROVE  Stored = IF overlap \/ torn THEN Garbage ELSE newest
BY DEF PostInv, Stored

LEMMA StoredIsNewestNext ==
    ASSUME PostInv'
    PROVE  Stored' = IF overlap' \/ torn' THEN Garbage ELSE newest'
BY DEF PostInv, Stored

LEMMA RequestStep ==
    ASSUME ScalarsOK, FormInv, PostInv, PostInv', DownIsIdle, NEW r \in Requests, Wizard(r)
    PROVE  [Store!StoreNext]_(Store!storeVars)
<1>1. Stored = IF overlap \/ torn THEN Garbage ELSE newest
  BY StoredIsNewest
<1>2. Stored' = IF overlap' \/ torn' THEN Garbage ELSE newest'
  BY StoredIsNewestNext
<1>3. run # Down /\ run' = run
  <2>1. rPc[r] = "idle" => run # Down
    BY DEF Wizard, StartPost, StartApply, RejectForm, OpenFile, Flush, RefuseApply,
           OpenNetplan, FlushNetplan, NetplanApply, Goto
  <2>2. run' = run
    BY DEF Wizard, StartPost, StartApply, RejectForm, OpenFile, Flush, RefuseApply,
           OpenNetplan, FlushNetplan, NetplanApply
  <2> QED BY <2>1, <2>2 DEF DownIsIdle
<1>4. CASE overlap' \/ torn'
  <2>1. Stored' = Garbage
    BY <1>2, <1>4
  <2>2. Store!Lose
    BY <1>3, <2>1 DEF Store!Lose
  <2> QED BY <2>2 DEF Store!StoreNext
<1>5. CASE ~overlap' /\ ~torn'
  <2>1. ~overlap /\ ~torn
    <3>1. CASE StartPost(r)
      BY <1>5, <3>1, Zenon DEF StartPost
    <3>2. CASE ~StartPost(r)
      <4>1. overlap' = overlap /\ torn' = torn
        BY <3>2 DEF Wizard, RejectForm, OpenFile, Flush, StartApply, RefuseApply,
                    OpenNetplan, FlushNetplan, NetplanApply, historyVars
      <4> QED BY <1>5, <4>1, Zenon
    <3> QED BY <3>1, <3>2
  <2>2. Stored = newest /\ Stored' = newest'
    BY <1>1, <1>2, <1>5, <2>1
  <2>3. CASE Flush(r)
    <3>1. PICK f \in 0..MaxForms : \A k \in Keys : StepOf[k] = rStep[r] => rCfg[r][k] = f
      BY <2>3 DEF Flush, Goto, FormInv
    <3>2. newest' = [k \in Keys |-> IF StepOf[k] = rStep[r] THEN f ELSE newest[k]]
      BY <2>3, <3>1 DEF Flush
    <3>3. newest # Garbage /\ rStep[r] \in Steps
      BY NotConfigs DEF ScalarsOK
    <3>4. Store!Save
      BY <1>3, <2>2, <3>2, <3>3 DEF Store!Save
    <3> QED BY <3>4 DEF Store!StoreNext
  <2>4. CASE ~Flush(r)
    <3>1. newest' = newest
      BY <2>4 DEF Wizard, StartPost, RejectForm, OpenFile, StartApply, RefuseApply,
                  OpenNetplan, FlushNetplan, NetplanApply, historyVars, savedVars
    <3> QED BY <1>3, <2>2, <3>1 DEF Store!storeVars
  <2> QED BY <2>3, <2>4
<1> QED BY <1>4, <1>5

LEMMA StoreStep ==
    ASSUME ScalarsOK, ConfigInv, FormInv, PostInv, PostInv', DownIsIdle, [Next]_vars
    PROVE  [Store!StoreNext]_(Store!storeVars)
<1>1. Stored = IF overlap \/ torn THEN Garbage ELSE newest
  BY StoredIsNewest
<1>2. Stored' = IF overlap' \/ torn' THEN Garbage ELSE newest'
  BY StoredIsNewestNext
<1>3. CASE \E r \in Requests : Wizard(r)
  BY <1>3, RequestStep
<1>4. CASE Crash
  <2>1. newest' = newest /\ overlap' = overlap /\ (torn => torn')
    <3>1. newest' = newest /\ overlap' = overlap
      BY <1>4 DEF Crash, savedVars
    <3>2. torn => torn'
      BY <1>4, Zenon DEF Crash
    <3> QED BY <3>1, <3>2
  <2>2. Stored' \in {Stored, Garbage}
    <3>1. CASE overlap' \/ torn'
      BY <1>2, <3>1
    <3>2. CASE ~overlap' /\ ~torn'
      BY <1>1, <1>2, <2>1, <3>2
    <3> QED BY <3>1, <3>2
  <2>3. Store!Stop
    BY <1>4, <2>2 DEF Crash, Store!Stop
  <2> QED BY <2>3 DEF Store!StoreNext
<1>5. CASE Boot
  <2>1. run = Down /\ run' = Loaded /\ Readable
    BY <1>5 DEF Boot
  <2>2. Stored' = Stored
    BY <1>1, <1>2, <1>5 DEF Boot, historyVars, savedVars
  <2>3. Loaded \in [Keys -> 0..MaxForms]
    BY <2>1, LoadedIsHeld DEF Configs
  <2>4. Stored # Garbage => Stored = Loaded
    BY <2>1 DEF Stored, DownIsIdle
  <2>5. Store!Start
    BY <2>1, <2>2, <2>3, <2>4 DEF Store!Start
  <2> QED BY <2>5 DEF Store!StoreNext
<1>6. CASE UNCHANGED vars
  BY <1>1, <1>2, <1>6 DEF vars, Store!storeVars
<1> QED BY <1>3, <1>4, <1>5, <1>6 DEF Next

\* A post changes its own step's settings at one moment, everything else none,
\* and every start is given what was saved last (web_ui.py:39-48, 81-181,
\* main.py:96-110).
THEOREM FileImplementsStore == Spec => SettingsRefined
<1>1. Init => Store!StoreInit
  <2>1. ASSUME Init PROVE Stored = Template
    BY <2>1, ConfigAssumption DEF Init, Stored, Loaded
  <2> QED BY <2>1 DEF Init, Store!StoreInit
<1>2. ScalarsOK /\ WizardInv /\ WizardInv' /\ FormInv /\ DownIsIdle /\ [Next]_vars
        => [Store!StoreNext]_(Store!storeVars)
  <2> SUFFICES ASSUME ScalarsOK, WizardInv, WizardInv', FormInv, DownIsIdle, [Next]_vars
               PROVE  [Store!StoreNext]_(Store!storeVars)
    OBVIOUS
  <2>1. ConfigInv /\ PostInv
    BY DEF WizardInv
  <2>2. PostInv'
    BY DEF WizardInv
  <2> QED BY <2>1, <2>2, StoreStep
<1> QED BY <1>1, <1>2, ConfigInvariant, FormsWhole, DownMeansIdle, PTL
        DEF Spec, SettingsRefined, Store!StoreSpec

\* What RestartsAgain rests on: without overlapping posts and torn writes a
\* stopped appliance finds a file it can start from (main.py:96-110).
StartsWhenDown == run = Down /\ ~overlap /\ ~torn => Readable

THEOREM AlwaysBootable == Spec => []StartsWhenDown
<1>1. PostInv /\ DownIsIdle => StartsWhenDown
  BY DEF PostInv, DownIsIdle, StartsWhenDown
<1> QED BY <1>1, ConfigInvariant, DownMeansIdle, PTL DEF WizardInv
=============================================================================
