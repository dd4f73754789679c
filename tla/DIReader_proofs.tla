--------------------------- MODULE DIReader_proofs ---------------------------
(***************************************************************************)
(* Proofs about DIReader, for any number of inputs and of changes.         *)
(***************************************************************************)
EXTENDS DIReader, TLAPS, WellFoundedInduction

-----------------------------------------------------------------------------
(* The enabled inputs, in order.                                           *)

LEMMA Constants ==
    NumChannels \in Nat /\ NumChannels >= 1 /\ MaxTurn \in Nat
    /\ Enabled \subseteq Channels /\ Closed \subseteq Channels
BY DIAssumption DEF Channels

\* A set of numbers that is not empty has a least one.
LEMMA LeastOf ==
    ASSUME NEW S, S \subseteq Nat, S # {}
    PROVE  \E d \in S : \A e \in S : d <= e
<1>1. PICK d \in S : \A e \in S : ~ (<<e, d>> \in OpToRel(<, Nat))
  BY NatLessThanWellFounded, WFMin
<1>2. ASSUME NEW e \in S PROVE ~(e < d)
  <2>1. e \in Nat /\ d \in Nat
    OBVIOUS
  <2> QED BY <1>1, <2>1, Zenon DEF OpToRel
<1> QED BY <1>2

LEMMA NextEnabledIs ==
    ASSUME NEW c \in Nat
    PROVE  \/ /\ NextEnabled(c) \in Enabled /\ NextEnabled(c) >= c
              /\ \A d \in Enabled : d >= c => NextEnabled(c) <= d
           \/ NextEnabled(c) = NumChannels + 1 /\ \A d \in Enabled : ~(d >= c)
<1> DEFINE S == {d \in Enabled : d >= c}
<1>1. S \subseteq Nat
  <2>1. \A d \in Enabled : d \in Nat
    BY DIAssumption
  <2> QED BY <2>1
<1>2. CASE \E d \in Enabled : d >= c
  <2>1. \E d \in S : \A e \in S : d <= e
    BY <1>1, <1>2, LeastOf
  <2>2. \E d \in Enabled : d >= c /\ \A e \in Enabled : e >= c => d <= e
    BY <2>1
  <2> QED BY <1>2, <2>2 DEF NextEnabled
<1>3. CASE ~ \E d \in Enabled : d >= c
  BY <1>3 DEF NextEnabled
<1> QED BY <1>2, <1>3

\* From c on, no enabled input is left out.
LEMMA NextEnabledSkips ==
    ASSUME NEW c \in 1..(NumChannels + 1)
    PROVE  /\ NextEnabled(c) \in 1..(NumChannels + 1)
           /\ \A d \in Enabled : d < NextEnabled(c) => d < c
<1>1. c \in Nat /\ NumChannels \in Nat /\ c <= NumChannels + 1
  BY DIAssumption
<1>2. \A d \in Enabled : d \in Nat /\ 1 <= d /\ d <= NumChannels
  BY DIAssumption
<1>3. CASE /\ NextEnabled(c) \in Enabled
           /\ \A d \in Enabled : d >= c => NextEnabled(c) <= d
  BY <1>1, <1>2, <1>3
<1>4. CASE NextEnabled(c) = NumChannels + 1 /\ \A d \in Enabled : ~(d >= c)
  BY <1>1, <1>2, <1>4
<1> QED BY <1>1, <1>3, <1>4, NextEnabledIs

-----------------------------------------------------------------------------
(* Type correctness.                                                       *)

\* The one change more that closing the board makes finds room.
LevelBound == board # "closed" => \A c \in Channels : level[c] \in 0..MaxTurn

ClosedOnce == mPc \in {"service", "flag", "board"} => board # "closed"

OpenedOnce == dPc \in {"init", "hardware"} => board = "none"

TypeInv == TypeOK /\ LevelBound /\ ClosedOnce /\ OpenedOnce

LEMMA TurnsAre == Turns \subseteq Nat /\ 0..MaxTurn \subseteq Turns /\ 0 \in Turns
BY Constants DEF Turns

LEMMA InitType == Init => TypeInv
<1> SUFFICES ASSUME Init PROVE TypeInv
  OBVIOUS
<1>1. level = [c \in Channels |-> 0] /\ raw = level /\ listed = level
  BY DEF Init
<1>2. level \in [Channels -> Turns] /\ (\A c \in Channels : level[c] \in 0..MaxTurn)
  BY <1>1, TurnsAre, Constants
<1>3. bi \in [Channels -> [active: BOOLEAN, turn: {Blank} \cup Turns]]
  BY DEF Init
<1>4. /\ nextRead \in 1..(NumChannels + 1) /\ nextCopy \in 1..(NumChannels + 1)
      /\ shown \in Channels
  BY Constants DEF Init, Channels
<1>5. answer \in [raw: Turns, active: BOOLEAN] /\ asked \in Turns
  BY TurnsAre DEF Init, NoAnswer
<1>6. closing \in [late: BOOLEAN, forced: SUBSET Channels]
  BY DEF Init
<1> QED
  BY <1>1, <1>2, <1>3, <1>4, <1>5, <1>6 DEF Init, TypeInv, TypeOK, LevelBound, ClosedOnce, OpenedOnce

LEMMA ReaderType == TypeInv /\ Reader => TypeInv'
<1> SUFFICES ASSUME TypeInv, Reader PROVE TypeInv'
  OBVIOUS
<1>1. UNCHANGED <<fitted, client, sPc, nextCopy, sRunning, bi, wPc, shown, answer, asked, mPc,
                  listed, closing, level>>
  BY DEF Reader, serverVars, webVars, ReaderStarts, InitHardware, ReaderLoop, ReaderLocks,
         ReadChannel, SimulateChannel, ReaderUnlocks
<1>2. /\ dPc' \in {"init", "hardware", "top", "lock", "scan", "exited"}
      /\ dRunning' \in BOOLEAN /\ simulate' \in BOOLEAN
      /\ board' \in {"none", "open", "closed"}
  BY DEF TypeInv, TypeOK, Reader, ReaderStarts, InitHardware, ReaderLoop, ReaderLocks,
         ReadChannel, SimulateChannel, ReaderUnlocks
<1>3. LevelBound' /\ ClosedOnce' /\ OpenedOnce'
  BY <1>1 DEF TypeInv, LevelBound, ClosedOnce, OpenedOnce, Reader, ReaderStarts, InitHardware,
              ReaderLoop, ReaderLocks, ReadChannel, SimulateChannel, ReaderUnlocks
<1>4. nextRead' \in 1..(NumChannels + 1)
  <2>1. NumChannels \in Nat /\ nextRead \in 1..(NumChannels + 1)
    BY DIAssumption DEF TypeInv, TypeOK
  <2>2. nextRead' = nextRead \/ nextRead' = 1 \/ (nextRead <= NumChannels /\ nextRead' = nextRead + 1)
    BY DEF Reader, ReaderStarts, InitHardware, ReaderLoop, ReaderLocks,
           ReadChannel, SimulateChannel, ReaderUnlocks
  <2> QED BY <2>1, <2>2
<1>5. raw' \in [Channels -> Turns]
  <2>1. CASE ReadChannel
    <3>1. nextRead \in Channels
      BY <2>1, Constants DEF ReadChannel, TypeInv, TypeOK, Channels
    <3> QED BY <2>1, <3>1 DEF ReadChannel, TypeInv, TypeOK
  <2>2. CASE SimulateChannel
    <3>1. ASSUME nextRead \in Enabled, raw[nextRead] < MaxTurn PROVE raw[nextRead] + 1 \in Turns
      BY <3>1, Constants DEF TypeInv, TypeOK, Turns
    <3> QED BY <2>2, <3>1 DEF SimulateChannel, TypeInv, TypeOK
  <2>3. CASE raw' = raw
    BY <2>3 DEF TypeInv, TypeOK
  <2> QED BY <2>1, <2>2, <2>3 DEF Reader, ReaderStarts, InitHardware, ReaderLoop, ReaderLocks, ReaderUnlocks
<1> QED BY <1>1, <1>2, <1>3, <1>4, <1>5 DEF TypeInv, TypeOK

LEMMA ServerType == TypeInv /\ Server => TypeInv'
<1> SUFFICES ASSUME TypeInv, Server PROVE TypeInv'
  OBVIOUS
<1>1. UNCHANGED <<fitted, client, dPc, nextRead, dRunning, simulate, board, raw, level,
                  wPc, shown, answer, asked, mPc, closing>>
  BY DEF Server, readerVars, webVars
<1>2. sPc' \in {"init", "await", "list", "copy", "exited"} /\ sRunning' \in BOOLEAN
  BY DEF TypeInv, TypeOK, Server, ServerStarts, ServerLoop, ListInputs, CopyInput, RefreshDone
<1>5. listed' \in [Channels -> Turns]
  <2>1. listed' \in {listed, raw, [c \in Channels |-> 0]}
    BY DEF Server, ServerStarts, ServerLoop, ListInputs, CopyInput, RefreshDone
  <2> QED BY <2>1, TurnsAre DEF TypeInv, TypeOK
<1>3. nextCopy' \in 1..(NumChannels + 1)
  <2>1. 1 \in 1..(NumChannels + 1)
    BY Constants
  <2>2. CASE CopyInput
    <3>1. nextCopy + 1 \in 1..(NumChannels + 1)
      BY <2>2, Constants DEF CopyInput, Channels
    <3> QED BY <2>2, <3>1, NextEnabledSkips DEF CopyInput
  <2> QED BY <2>1, <2>2, NextEnabledSkips
          DEF TypeInv, TypeOK, Server, ServerStarts, ServerLoop, ListInputs, RefreshDone
<1>4. bi' \in [Channels -> [active: BOOLEAN, turn: {Blank} \cup Turns]]
  <2>1. CASE CopyInput
    <3>1. IsActive(nextCopy, raw[nextCopy]) \in BOOLEAN
      BY DEF IsActive, Energised
    <3>2. raw[nextCopy] \in Turns
      BY <2>1, Constants DEF CopyInput, TypeInv, TypeOK
    <3> QED BY <2>1, <3>1, <3>2 DEF CopyInput, TypeInv, TypeOK
  <2> QED BY <2>1 DEF TypeInv, TypeOK, Server, ServerStarts, ServerLoop, ListInputs, RefreshDone
<1> QED BY <1>1, <1>2, <1>3, <1>4, <1>5 DEF TypeInv, TypeOK, LevelBound, ClosedOnce, OpenedOnce

LEMMA WebType == TypeInv /\ Web => TypeInv'
<1> SUFFICES ASSUME TypeInv, Web PROVE TypeInv'
  OBVIOUS
<1>1. UNCHANGED <<fitted, client, dPc, nextRead, dRunning, simulate, board, raw, level,
                  sPc, nextCopy, sRunning, bi, mPc, listed, closing>>
  BY DEF Web, readerVars, serverVars
<1>2. 1 \in Channels /\ NoAnswer \in [raw: Turns, active: BOOLEAN] /\ 0 \in Turns
  BY Constants, TurnsAre DEF Channels, NoAnswer
<1>3. raw[shown] \in Turns /\ IsActive(shown, raw[shown]) \in BOOLEAN
  BY DEF TypeInv, TypeOK, IsActive, Energised
<1>4. /\ wPc' \in {"idle", "list", "raw", "active", "done"} /\ shown' \in Channels
      /\ answer' \in [raw: Turns, active: BOOLEAN] /\ asked' \in Turns
  BY <1>2, <1>3 DEF TypeInv, TypeOK, Web, Ask, ListAll, ShowRaw, ShowActive, Answer
<1> QED BY <1>1, <1>4 DEF TypeInv, TypeOK, LevelBound, ClosedOnce, OpenedOnce

LEMMA MainType == TypeInv /\ Main => TypeInv'
<1> SUFFICES ASSUME TypeInv, Main PROVE TypeInv'
  OBVIOUS
<1>1. UNCHANGED <<fitted, client, dPc, nextRead, simulate, raw, sPc, nextCopy, bi,
                  wPc, shown, answer, asked, listed>>
  BY DEF Main, Signal, StopFlag, CloseBoard, StopServer, Exit, readerVars, serverVars, webVars
<1>2. /\ mPc' \in {"service", "flag", "board", "others", "exit", "gone"}
      /\ dRunning' \in BOOLEAN /\ sRunning' \in BOOLEAN
  BY DEF TypeInv, TypeOK, Main, Signal, StopFlag, CloseBoard, StopServer, Exit, readerVars, serverVars
<1>3. CASE CloseBoard
  <2>1. /\ board' \in {"none", "open", "closed"} /\ ClosedOnce' /\ OpenedOnce'
    BY <1>3 DEF CloseBoard, TypeInv, TypeOK, ClosedOnce, OpenedOnce
  <2>2. closing' \in [late: BOOLEAN, forced: SUBSET Channels]
    <3>1. CASE board # "open"
      BY <1>3, <3>1 DEF CloseBoard, TypeInv, TypeOK
    <3>2. CASE board = "open"
      <4> DEFINE l == dRunning \/ dPc \in {"lock", "scan"}
                 f == {c \in Channels : Energised(level[c])}
      <4>1. l \in BOOLEAN /\ f \in SUBSET Channels
        BY DEF TypeInv, TypeOK
      <4>2. closing' = [late |-> l, forced |-> f]
        BY <1>3, <3>2 DEF CloseBoard
      <4> HIDE DEF l, f
      <4> QED BY <4>1, <4>2
    <3> QED BY <3>1, <3>2
  <2>3. level' \in [Channels -> Turns] /\ LevelBound'
    <3>1. CASE board # "open"
      BY <1>3, <3>1 DEF CloseBoard, TypeInv, TypeOK, LevelBound
    <3>2. CASE board = "open"
      <4>1. \A c \in Channels : level[c] \in Turns /\ level[c] + 1 \in Turns
        BY <3>2, Constants DEF TypeInv, LevelBound, Turns
      <4> QED BY <1>3, <3>2, <4>1 DEF CloseBoard, LevelBound
    <3> QED BY <3>1, <3>2
  <2> QED BY <1>1, <1>2, <2>1, <2>2, <2>3 DEF TypeInv, TypeOK
<1>4. CASE ~CloseBoard
  <2>1. UNCHANGED <<board, level, closing>> /\ mPc # "board"
    BY <1>4 DEF Main, Signal, StopFlag, StopServer, Exit, readerVars
  <2> QED BY <1>1, <1>2, <1>4, <2>1 DEF TypeInv, TypeOK, LevelBound, ClosedOnce, OpenedOnce,
             Main, Signal, StopFlag, StopServer, Exit
<1> QED BY <1>3, <1>4

LEMMA InputType == TypeInv /\ InputChanges => TypeInv'
<1> SUFFICES ASSUME TypeInv, InputChanges PROVE TypeInv'
  OBVIOUS
<1>1. UNCHANGED <<fitted, client, dPc, nextRead, dRunning, simulate, board, raw,
                  sPc, nextCopy, sRunning, bi, wPc, shown, answer, asked, mPc, listed, closing>>
  BY DEF InputChanges, serverVars, webVars
<1>2. PICK c \in Channels : level[c] < MaxTurn /\ level' = [level EXCEPT ![c] = @ + 1]
  BY DEF InputChanges
<1>3. level[c] + 1 \in 0..MaxTurn
  BY <1>2, Constants DEF TypeInv, TypeOK, Turns
<1>4. level' \in [Channels -> Turns] /\ LevelBound'
  BY <1>1, <1>2, <1>3, TurnsAre DEF TypeInv, TypeOK, LevelBound
<1> QED BY <1>1, <1>4 DEF TypeInv, TypeOK, ClosedOnce, OpenedOnce

THEOREM TypeInvariant == Spec => []TypeInv
<1>1. TypeInv /\ UNCHANGED vars => TypeInv'
  BY DEF vars, readerVars, serverVars, webVars, TypeInv, TypeOK, LevelBound, ClosedOnce, OpenedOnce
<1>2. TypeInv /\ [Next]_vars => TypeInv'
  BY <1>1, ReaderType, ServerType, WebType, MainType, InputType DEF Next
<1> QED BY <1>2, InitType, PTL DEF Spec

\* Type correctness of the digital inputs and of those who read them.
THEOREM TypeCorrect == Spec => []TypeOK
<1>1. TypeInv => TypeOK
  BY DEF TypeInv
<1> QED BY <1>1, TypeInvariant, PTL

-----------------------------------------------------------------------------
(* The invariant behind the other properties, in named parts.              *)

\* What was read is no newer than what there was to read.
RawBehind ==
    /\ dPc \in {"init", "hardware"} => ~simulate
    /\ ~simulate => \A c \in Channels : raw[c] <= level[c]

\* How far a refresh got: behind nextCopy every enabled input is current.
RefreshSoFar ==
    sPc = "copy" =>
        /\ \A c \in Channels : listed[c] <= raw[c]
        /\ \A c \in Enabled : c < nextCopy => /\ bi[c].turn >= listed[c]
                                              /\ bi[c].active = Away(c, bi[c].turn)

\* What a request has read, between the list and now.
AnswerSoFar ==
    /\ wPc \in {"raw", "active", "done"} => asked <= raw[shown]
    /\ wPc \in {"active", "done"} => asked <= answer.raw /\ answer.raw <= raw[shown]
    /\ wPc = "done" => \E t \in Turns : /\ answer.raw <= t /\ t <= raw[shown]
                                        /\ answer.active = Away(shown, t)

\* A reader that was not in a scan when the board was closed never scans again.
CutOff ==
    /\ board # "closed" => closing.forced = {}
    /\ board = "closed" /\ ~closing.late =>
          /\ ~dRunning /\ dPc \in {"top", "exited"}
          /\ ~simulate => \A c \in closing.forced : raw[c] < level[c]

ReadInv == RawBehind /\ RefreshSoFar /\ AnswerSoFar /\ CutOff

LEMMA ActiveIsAway ==
    ASSUME NEW c, NEW t
    PROVE  IsActive(c, t) = Away(c, t)
BY DEF IsActive, Away, Energised

LEMMA ReadInit == Init => ReadInv
<1> SUFFICES ASSUME Init PROVE ReadInv
  OBVIOUS
<1>1. raw = [c \in Channels |-> 0] /\ level = raw
  BY DEF Init
<1>2. RawBehind
  BY <1>1 DEF Init, RawBehind
<1>3. RefreshSoFar /\ AnswerSoFar /\ CutOff
  BY DEF Init, RefreshSoFar, AnswerSoFar, CutOff
<1> QED BY <1>2, <1>3 DEF ReadInv

\* Scans only move forward.
LEMMA RawGrows ==
    ASSUME TypeInv, ReadInv, Reader, NEW c \in Channels
    PROVE  raw[c] \in Nat /\ raw'[c] \in Nat /\ raw[c] <= raw'[c]
<1>1. raw[c] \in Nat /\ level[c] \in Nat
  BY TurnsAre DEF TypeInv, TypeOK
<1>2. CASE raw' = raw
  BY <1>1, <1>2
<1>3. CASE ReadChannel
  BY <1>1, <1>3 DEF ReadChannel, ReadInv, RawBehind, TypeInv, TypeOK
<1>4. CASE SimulateChannel
  BY <1>1, <1>4 DEF SimulateChannel, TypeInv, TypeOK
<1> QED
  BY <1>2, <1>3, <1>4 DEF Reader, ReaderStarts, InitHardware, ReaderLoop, ReaderLocks, ReaderUnlocks

LEMMA ReaderStep == TypeInv /\ ReadInv /\ Reader => ReadInv'
<1> SUFFICES ASSUME TypeInv, ReadInv, Reader PROVE ReadInv'
  OBVIOUS
<1>1. UNCHANGED <<sPc, nextCopy, bi, wPc, shown, answer, asked, listed, closing, level>>
  BY DEF Reader, serverVars, webVars, ReaderStarts, InitHardware, ReaderLoop, ReaderLocks,
         ReadChannel, SimulateChannel, ReaderUnlocks
<1>2. \A c \in Channels : raw[c] \in Nat /\ raw'[c] \in Nat /\ raw[c] <= raw'[c]
  BY RawGrows
<1>3. RawBehind'
  <2>1. CASE ReadChannel
    BY <1>1, <2>1 DEF ReadChannel, ReadInv, RawBehind, TypeInv, TypeOK, Turns
  <2>2. CASE SimulateChannel
    BY <1>1, <2>2 DEF SimulateChannel, ReadInv, RawBehind
  <2>3. CASE InitHardware
    <3>1. raw' = raw /\ ~simulate /\ dPc' = "top"
      BY <2>3 DEF InitHardware, ReadInv, RawBehind
    <3> QED BY <1>1, <3>1 DEF ReadInv, RawBehind
  <2>4. CASE ReaderStarts \/ ReaderLoop \/ ReaderLocks \/ ReaderUnlocks
    <3>1. raw' = raw /\ simulate' = simulate
      BY <2>4 DEF ReaderStarts, ReaderLoop, ReaderLocks, ReaderUnlocks
    <3>2. dPc' \in {"init", "hardware"} => dPc \in {"init", "hardware"}
      BY <2>4 DEF ReaderStarts, ReaderLoop, ReaderLocks, ReaderUnlocks
    <3> QED BY <1>1, <3>1, <3>2 DEF ReadInv, RawBehind
  <2> QED BY <2>1, <2>2, <2>3, <2>4 DEF Reader
<1>4. RefreshSoFar'
  <2>1. \A c \in Channels : listed[c] \in Nat
    BY TurnsAre DEF TypeInv, TypeOK
  <2> QED BY <1>1, <1>2, <2>1 DEF ReadInv, RefreshSoFar, Away
<1>5. AnswerSoFar'
  <2>1. shown \in Channels /\ asked \in Nat /\ answer.raw \in Nat
    BY TurnsAre DEF TypeInv, TypeOK
  <2>2. raw[shown] <= raw'[shown] /\ raw[shown] \in Nat /\ raw'[shown] \in Nat
    BY <1>2, <2>1
  <2>3. wPc = "done" => \E t \in Turns : /\ answer.raw <= t /\ t <= raw'[shown]
                                         /\ answer.active = Away(shown, t)
    BY <2>1, <2>2, TurnsAre DEF ReadInv, AnswerSoFar
  <2> QED BY <1>1, <2>1, <2>2, <2>3 DEF ReadInv, AnswerSoFar, Away
<1>6. CutOff'
  <2>1. CASE InitHardware
    <3>1. board' # "closed" /\ board # "closed"
      BY <2>1 DEF InitHardware, TypeInv, OpenedOnce
    <3> QED BY <1>1, <3>1 DEF ReadInv, CutOff
  <2>2. CASE ~InitHardware
    <3>1. board' = board /\ simulate' = simulate
      BY <2>2 DEF Reader, ReaderStarts, ReaderLoop, ReaderLocks, ReadChannel, SimulateChannel, ReaderUnlocks
    <3>2. ~dRunning /\ dPc \in {"top", "exited"} =>
             ~dRunning' /\ dPc' \in {"top", "exited"} /\ raw' = raw
      BY <2>2 DEF Reader, ReaderStarts, ReaderLoop, ReaderLocks, ReadChannel, SimulateChannel, ReaderUnlocks
    <3> QED BY <1>1, <3>1, <3>2 DEF ReadInv, CutOff
  <2> QED BY <2>1, <2>2
<1> QED BY <1>3, <1>4, <1>5, <1>6 DEF ReadInv

LEMMA ServerStep == TypeInv /\ ReadInv /\ Server => ReadInv'
<1> SUFFICES ASSUME TypeInv, ReadInv, Server PROVE ReadInv'
  OBVIOUS
<1>1. UNCHANGED <<dPc, dRunning, simulate, board, raw, level, wPc, shown, answer, asked, closing>>
  BY DEF Server, readerVars, webVars
<1>2. RawBehind' /\ AnswerSoFar' /\ CutOff'
  BY <1>1 DEF ReadInv, RawBehind, AnswerSoFar, CutOff, Away
<1>3. RefreshSoFar'
  <2>1. CASE ListInputs
    <3>1. \A d \in Enabled : ~(d < nextCopy')
      <4>1. 1 \in 1..(NumChannels + 1) /\ \A d \in Enabled : d \in Nat /\ d >= 1
        BY DIAssumption
      <4> QED BY <2>1, <4>1, NextEnabledSkips DEF ListInputs
    <3>2. \A c \in Channels : raw[c] \in Nat
      BY TurnsAre DEF TypeInv, TypeOK
    <3> QED BY <1>1, <2>1, <3>1, <3>2 DEF ListInputs, RefreshSoFar
  <2>2. CASE CopyInput
    <3>1. /\ nextCopy \in Channels /\ nextCopy + 1 \in 1..(NumChannels + 1)
          /\ \A d \in Enabled : d \in Nat /\ d \in Channels
      BY <2>2, DIAssumption DEF CopyInput, Channels
    <3>2. ASSUME NEW d \in Enabled, d < nextCopy' PROVE d < nextCopy \/ d = nextCopy
      <4>1. d < nextCopy + 1
        BY <2>2, <3>1, <3>2, NextEnabledSkips DEF CopyInput
      <4>2. d \in Nat /\ nextCopy \in Nat
        BY <3>1 DEF Channels
      <4> QED BY <4>1, <4>2
    <3>3. bi'[nextCopy].turn = raw[nextCopy] /\ bi'[nextCopy].active = Away(nextCopy, raw[nextCopy])
      BY <2>2, <3>1, ActiveIsAway DEF CopyInput, TypeInv, TypeOK
    <3>4. \A d \in Channels : d # nextCopy => bi'[d] = bi[d]
      BY <2>2 DEF CopyInput, TypeInv, TypeOK
    <3>5. listed' = listed /\ sPc' = sPc /\ sPc = "copy"
      BY <2>2 DEF CopyInput
    <3>6. \A c \in Channels : listed[c] <= raw[c] /\ listed[c] \in Nat /\ raw[c] \in Nat
      BY <3>5, TurnsAre DEF ReadInv, RefreshSoFar, TypeInv, TypeOK
    <3>7. ASSUME NEW d \in Enabled, d < nextCopy'
          PROVE  bi'[d].turn >= listed[d] /\ bi'[d].active = Away(d, bi'[d].turn)
      <4>1. CASE d = nextCopy
        BY <3>1, <3>3, <3>6, <4>1
      <4>2. CASE d # nextCopy
        <5>1. d < nextCopy /\ bi'[d] = bi[d]
          BY <3>1, <3>2, <3>4, <3>7, <4>2
        <5> QED BY <3>5, <5>1 DEF ReadInv, RefreshSoFar
      <4> QED BY <4>1, <4>2
    <3>8. \A d \in Enabled : d < nextCopy' => /\ bi'[d].turn >= listed[d]
                                              /\ bi'[d].active = Away(d, bi'[d].turn)
      BY <3>7
    <3> QED BY <1>1, <3>5, <3>6, <3>8 DEF RefreshSoFar, Away
  <2>3. CASE ServerStarts \/ ServerLoop \/ RefreshDone
    BY <2>3 DEF ServerStarts, ServerLoop, RefreshDone, RefreshSoFar
  <2> QED BY <2>1, <2>2, <2>3 DEF Server
<1> QED BY <1>2, <1>3 DEF ReadInv

LEMMA WebStep == TypeInv /\ ReadInv /\ Web => ReadInv'
<1> SUFFICES ASSUME TypeInv, ReadInv, Web PROVE ReadInv'
  OBVIOUS
<1>1. UNCHANGED <<dPc, dRunning, simulate, board, raw, level, sPc, nextCopy, bi, listed, closing>>
  BY DEF Web, readerVars, serverVars
<1>2. RawBehind' /\ RefreshSoFar' /\ CutOff'
  BY <1>1 DEF ReadInv, RawBehind, RefreshSoFar, CutOff, Away
<1>3. shown \in Channels /\ raw[shown] \in Nat /\ raw[shown] \in Turns /\ asked \in Nat /\ answer.raw \in Nat
  BY TurnsAre DEF TypeInv, TypeOK
<1>4. AnswerSoFar'
  <2>1. CASE Ask
    BY <2>1 DEF Ask, AnswerSoFar
  <2>2. CASE ListAll
    BY <1>1, <1>3, <2>2 DEF ListAll, AnswerSoFar
  <2>3. CASE ShowRaw
    BY <1>1, <1>3, <2>3 DEF ShowRaw, ReadInv, AnswerSoFar, TypeInv, TypeOK
  <2>4. CASE ShowActive
    <3>1. UNCHANGED <<shown, asked>> /\ wPc = "active" /\ wPc' = "done"
      BY <2>4 DEF ShowActive
    <3>2. answer'.raw = answer.raw /\ answer'.active = Away(shown, raw[shown])
      BY <2>4, ActiveIsAway DEF ShowActive, TypeInv, TypeOK
    <3> QED BY <1>1, <1>3, <3>1, <3>2 DEF ReadInv, AnswerSoFar, Away
  <2>5. CASE Answer
    BY <2>5 DEF Answer, AnswerSoFar
  <2> QED BY <2>1, <2>2, <2>3, <2>4, <2>5 DEF Web
<1> QED BY <1>2, <1>4 DEF ReadInv

LEMMA MainStep == TypeInv /\ ReadInv /\ Main => ReadInv'
<1> SUFFICES ASSUME TypeInv, ReadInv, Main PROVE ReadInv'
  OBVIOUS
<1>1. UNCHANGED <<dPc, simulate, raw, sPc, nextCopy, bi, listed, wPc, shown, answer, asked>>
  BY DEF Main, Signal, StopFlag, CloseBoard, StopServer, Exit, readerVars, serverVars, webVars
<1>2. RefreshSoFar' /\ AnswerSoFar'
  BY <1>1 DEF ReadInv, RefreshSoFar, AnswerSoFar, Away
<1>3. CASE CloseBoard
  <2>1. CASE board # "open"
    <3>1. UNCHANGED <<board, level, closing, dRunning>>
      BY <1>3, <2>1 DEF CloseBoard
    <3> QED BY <1>1, <1>2, <3>1 DEF ReadInv, RawBehind, CutOff
  <2>2. CASE board = "open"
    <3>1. \A c \in Channels : raw[c] \in Nat /\ level[c] \in Nat
      BY TurnsAre DEF TypeInv, TypeOK
    <3>2. /\ board' = "closed" /\ dRunning' = dRunning
          /\ closing'.late = (dRunning \/ dPc \in {"lock", "scan"})
          /\ closing'.forced = {c \in Channels : Energised(level[c])}
          /\ \A c \in Channels : level'[c] = IF Energised(level[c]) THEN level[c] + 1 ELSE level[c]
      BY <1>3, <2>2 DEF CloseBoard
    <3>3. RawBehind'
      BY <1>1, <3>1, <3>2 DEF ReadInv, RawBehind
    <3>4. ~simulate => \A c \in closing'.forced : raw[c] < level'[c]
      BY <3>1, <3>2 DEF ReadInv, RawBehind
    <3>5. ~closing'.late => ~dRunning /\ dPc \in {"top", "exited"}
      BY <2>2, <3>2 DEF TypeInv, TypeOK, OpenedOnce
    <3>6. CutOff'
      BY <1>1, <3>2, <3>4, <3>5 DEF CutOff
    <3> QED BY <1>2, <3>3, <3>6 DEF ReadInv
  <2> QED BY <2>1, <2>2
<1>4. CASE ~CloseBoard
  <2>1. UNCHANGED <<board, level, closing>> /\ (dRunning' => dRunning)
    BY <1>4 DEF Main, Signal, StopFlag, StopServer, Exit, readerVars
  <2> QED BY <1>1, <1>2, <2>1 DEF ReadInv, RawBehind, CutOff
<1> QED BY <1>3, <1>4

LEMMA InputStep == TypeInv /\ ReadInv /\ InputChanges => ReadInv'
<1> SUFFICES ASSUME TypeInv, ReadInv, InputChanges PROVE ReadInv'
  OBVIOUS
<1>1. /\ UNCHANGED <<dPc, dRunning, simulate, board, raw, sPc, nextCopy, bi, wPc, shown, answer, asked,
                     listed, closing>>
      /\ board # "closed"
  BY DEF InputChanges, serverVars, webVars
<1>2. \A c \in Channels : raw[c] \in Nat /\ level[c] \in Nat /\ level'[c] \in Nat /\ level[c] <= level'[c]
  <2>1. PICK d \in Channels : level' = [level EXCEPT ![d] = @ + 1]
    BY DEF InputChanges
  <2>2. \A c \in Channels : raw[c] \in Nat /\ level[c] \in Nat
    BY TurnsAre DEF TypeInv, TypeOK
  <2>3. \A c \in Channels : level'[c] = IF c = d THEN level[c] + 1 ELSE level[c]
    BY <2>1 DEF TypeInv, TypeOK
  <2> QED BY <2>2, <2>3
<1>3. RawBehind'
  BY <1>1, <1>2 DEF ReadInv, RawBehind
<1> QED BY <1>1, <1>3 DEF ReadInv, RefreshSoFar, AnswerSoFar, CutOff, Away

THEOREM ReadInvariant == Spec => []ReadInv
<1>1. ReadInv /\ UNCHANGED vars => ReadInv'
  BY DEF vars, readerVars, serverVars, webVars, ReadInv, RawBehind, RefreshSoFar, AnswerSoFar, CutOff, Away
<1>2. TypeInv /\ ReadInv /\ [Next]_vars => ReadInv'
  BY <1>1, ReaderStep, ServerStep, WebStep, MainStep, InputStep DEF Next
<1> QED BY <1>2, ReadInit, TypeInvariant, PTL DEF Spec

-----------------------------------------------------------------------------
(* The properties.                                                         *)

\* However scans and a refresh overlap, the refresh leaves every enabled input at
\* a state no older than when it asked for the list.
THEOREM RefreshCurrent == Spec => RefreshIsCurrent
<1> DEFINE Act == sPc = "copy" /\ sPc' = "await" =>
         \A c \in Enabled : /\ bi[c].turn >= listed[c]
                            /\ bi[c].active = Away(c, bi[c].turn)
<1>1. ASSUME TypeInv, ReadInv, [Next]_vars PROVE [Act]_vars
  <2> SUFFICES ASSUME sPc = "copy", sPc' = "await" PROVE Act
    OBVIOUS
  <2>1. nextCopy > NumChannels
    BY <1>1 DEF Next, Reader, Server, ServerStarts, ServerLoop, ListInputs, CopyInput, RefreshDone, Web, Main,
                Signal, StopFlag, CloseBoard, StopServer, Exit, InputChanges, serverVars, vars
  <2>2. \A c \in Enabled : c < nextCopy
    <3>1. nextCopy \in Nat /\ NumChannels \in Nat
      BY <1>1, DIAssumption DEF TypeInv, TypeOK
    <3>2. \A c \in Enabled : c \in Nat /\ c <= NumChannels
      BY DIAssumption
    <3> QED BY <2>1, <3>1, <3>2
  <2> QED BY <1>1, <2>2 DEF ReadInv, RefreshSoFar
<1> QED BY <1>1, TypeInvariant, ReadInvariant, PTL DEF Spec, RefreshIsCurrent

\* raw_value and is_active contradict each other only over a scan in between.
THEOREM TornByScanOnly == Spec => []AnswerTornByScanOnly
<1>1. TypeInv /\ ReadInv => AnswerTornByScanOnly
  <2> SUFFICES ASSUME TypeInv, ReadInv, wPc = "done", raw[shown] = asked
               PROVE  answer.active = Away(shown, answer.raw)
    BY DEF AnswerTornByScanOnly
  <2>1. asked \in Nat /\ answer.raw \in Nat
    BY TurnsAre DEF TypeInv, TypeOK
  <2>2. PICK t \in Turns : /\ answer.raw <= t /\ t <= raw[shown] /\ answer.active = Away(shown, t)
    BY DEF ReadInv, AnswerSoFar
  <2>3. t = answer.raw
    BY <2>1, <2>2, TurnsAre DEF ReadInv, AnswerSoFar
  <2> QED BY <2>2, <2>3
<1> QED BY <1>1, TypeInvariant, ReadInvariant, PTL

\* A closed board makes up "off" only within a scan that it cut.
THEOREM MadeUpLateOnly == Spec => []MadeUpByLateScanOnly
<1>1. TypeInv /\ ReadInv => MadeUpByLateScanOnly
  <2> SUFFICES ASSUME TypeInv, ReadInv, ~simulate, ~closing.late,
                      NEW c \in closing.forced, raw[c] = level[c]
               PROVE  FALSE
    BY DEF MadeUpByLateScanOnly, TypeInv, TypeOK
  <2>1. board = "closed"
    BY DEF ReadInv, CutOff
  <2>2. raw[c] < level[c] /\ c \in Channels
    BY <2>1 DEF ReadInv, CutOff, TypeInv, TypeOK
  <2>3. raw[c] \in Nat
    BY <2>2, TurnsAre DEF TypeInv, TypeOK
  <2> QED BY <2>2, <2>3
<1> QED BY <1>1, TypeInvariant, ReadInvariant, PTL

-----------------------------------------------------------------------------
(* Each input implements the abstract feed.                                *)

\* Before the hardware is tried nothing was read, and what is shown was read.
ShownBehind ==
    /\ dPc \in {"init", "hardware"} => \A c \in Channels : raw[c] = 0
    /\ ~simulate => \A c \in Channels : bi[c].turn <= raw[c]

LEMMA Numbers ==
    ASSUME TypeInv, NEW c \in Channels
    PROVE  /\ raw[c] \in Nat /\ level[c] \in Nat
           /\ bi[c].turn = Blank \/ bi[c].turn \in Nat
           /\ Blank \in Int /\ Blank < 0 /\ bi[c].turn \in Int
<1>1. bi[c].turn \in {Blank} \cup Turns /\ raw[c] \in Turns /\ level[c] \in Turns
  BY DEF TypeInv, TypeOK
<1>2. raw[c] \in Nat /\ level[c] \in Nat
  BY <1>1, TurnsAre
<1>3. bi[c].turn = Blank \/ bi[c].turn \in Nat
  BY <1>1, TurnsAre
<1>4. Blank \in Int /\ Blank < 0
  BY DEF Blank
<1>5. bi[c].turn \in Int
  BY <1>3, <1>4
<1> QED BY <1>2, <1>3, <1>4, <1>5

\* The only step that writes a BI.
LEMMA CopyStep ==
    ASSUME TypeInv, Server, NEW c \in Channels
    PROVE  bi'[c].turn \in {bi[c].turn, raw[c]}
<1>1. CASE CopyInput
  BY <1>1 DEF CopyInput, TypeInv, TypeOK
<1>2. CASE bi' = bi
  BY <1>2
<1> QED BY <1>1, <1>2 DEF Server, ServerStarts, ServerLoop, ListInputs, RefreshDone

LEMMA ShownBehindStep == TypeInv /\ ReadInv /\ ShownBehind /\ [Next]_vars => ShownBehind'
<1> SUFFICES ASSUME TypeInv, ReadInv, ShownBehind, [Next]_vars PROVE ShownBehind'
  OBVIOUS
<1>1. CASE Reader
  <2>1. bi' = bi
    BY <1>1 DEF Reader, serverVars
  <2>2. dPc' \in {"init", "hardware"} => dPc \in {"init", "hardware"} /\ raw' = raw
    BY <1>1 DEF Reader, ReaderStarts, InitHardware, ReaderLoop, ReaderLocks, ReadChannel,
                SimulateChannel, ReaderUnlocks
  <2>3. ~simulate' => ~simulate
    BY <1>1 DEF Reader, ReaderStarts, InitHardware, ReaderLoop, ReaderLocks, ReadChannel,
                SimulateChannel, ReaderUnlocks, ReadInv, RawBehind
  <2>4. \A c \in Channels : /\ raw[c] <= raw'[c] /\ raw[c] \in Nat /\ raw'[c] \in Nat
                            /\ bi[c].turn \in Int
    BY <1>1, RawGrows, Numbers
  <2>5. ~simulate' => \A c \in Channels : bi[c].turn <= raw'[c]
    <3> SUFFICES ASSUME ~simulate', NEW c \in Channels PROVE bi[c].turn <= raw'[c]
      OBVIOUS
    <3>1. bi[c].turn <= raw[c]
      BY <2>3 DEF ShownBehind
    <3> QED BY <2>4, <3>1
  <2>6. dPc' \in {"init", "hardware"} => \A c \in Channels : raw'[c] = 0
    BY <2>2 DEF ShownBehind
  <2> QED BY <2>1, <2>5, <2>6 DEF ShownBehind
<1>2. CASE Server
  <2>1. UNCHANGED <<dPc, raw, simulate>>
    BY <1>2 DEF Server, readerVars
  <2>2. \A c \in Channels : bi'[c].turn \in {bi[c].turn, raw[c]} /\ raw[c] \in Nat
    BY <1>2, CopyStep, Numbers
  <2> QED BY <2>1, <2>2 DEF ShownBehind
<1>3. CASE Web \/ Main \/ InputChanges \/ UNCHANGED vars
  BY <1>3 DEF Web, Main, Signal, StopFlag, CloseBoard, StopServer, Exit, InputChanges,
              readerVars, serverVars, vars, ShownBehind
<1> QED BY <1>1, <1>2, <1>3 DEF Next

LEMMA ShownBehindInvariant == Spec => []ShownBehind
<1>1. Init => ShownBehind
  <2> SUFFICES ASSUME Init PROVE ShownBehind
    OBVIOUS
  <2>1. \A c \in Channels : raw[c] = 0 /\ bi[c].turn = Blank
    BY DEF Init
  <2> QED BY <2>1 DEF ShownBehind, Blank
<1> QED BY <1>1, ShownBehindStep, TypeInvariant, ReadInvariant, PTL DEF Spec

LEMMA FeedStep ==
    ASSUME TypeInv, ReadInv, ShownBehind, [Next]_vars, NEW c \in Channels
    PROVE  [Feed(c)!FeedNext]_(Feed(c)!feedVars)
<1> USE DEF Feed!FeedNext, Feed!feedVars
<1>1. /\ raw[c] \in Nat /\ level[c] \in Nat /\ bi[c].turn \in Int
      /\ bi[c].turn = Blank \/ bi[c].turn \in Nat
      /\ Blank \in Int /\ Blank < 0
  BY Numbers
<1>2. CASE Reader
  <2>1. level' = level /\ bi' = bi
    BY <1>2 DEF Reader, serverVars, ReaderStarts, InitHardware, ReaderLoop, ReaderLocks,
                ReadChannel, SimulateChannel, ReaderUnlocks
  <2>2. CASE InitHardware
    <3>1. raw' = raw /\ raw[c] = 0 /\ ~simulate
      BY <2>2 DEF InitHardware, ReadInv, RawBehind, ShownBehind
    <3>2. bi[c].turn = Blank \/ bi[c].turn = 0
      BY <1>1, <3>1 DEF ShownBehind
    <3> QED BY <2>1, <3>1, <3>2
  <2>3. CASE ~InitHardware
    <3>1. simulate' = simulate
      BY <1>2, <2>3 DEF Reader, ReaderStarts, ReaderLoop, ReaderLocks, ReadChannel,
                        SimulateChannel, ReaderUnlocks
    <3>2. CASE simulate
      BY <2>1, <3>1, <3>2
    <3>3. CASE ~simulate
      <4>1. ReadInv'
        BY <1>2, ReaderStep
      <4>2. raw[c] <= raw'[c] /\ raw'[c] \in Nat /\ raw'[c] <= level'[c]
        BY <1>2, <3>1, <3>3, <4>1, RawGrows DEF ReadInv, RawBehind
      <4> QED BY <1>1, <2>1, <3>1, <3>3, <4>2 DEF Feed!Poll
    <3> QED BY <3>2, <3>3
  <2> QED BY <2>2, <2>3
<1>3. CASE Server
  <2>1. UNCHANGED <<level, raw, simulate>>
    BY <1>3 DEF Server, readerVars
  <2>2. bi'[c].turn \in {bi[c].turn, raw[c]}
    BY <1>3, CopyStep
  <2>3. ~simulate => bi[c].turn <= raw[c]
    BY DEF ShownBehind
  <2>4. CASE bi'[c].turn = bi[c].turn
    BY <2>1, <2>4
  <2>5. CASE bi'[c].turn = raw[c]
    BY <1>1, <2>1, <2>3, <2>5 DEF Feed!Show
  <2> QED BY <2>2, <2>4, <2>5
<1>4. CASE Main \/ InputChanges
  <2>1. UNCHANGED <<raw, bi, simulate>>
    BY <1>4 DEF Main, Signal, StopFlag, CloseBoard, StopServer, Exit, InputChanges,
                readerVars, serverVars
  <2>2. level'[c] = level[c] \/ level'[c] = level[c] + 1
    BY <1>4 DEF Main, Signal, StopFlag, CloseBoard, StopServer, Exit, InputChanges,
                readerVars, TypeInv, TypeOK
  <2> QED BY <2>1, <2>2 DEF Feed!Produce
<1>5. CASE Web \/ UNCHANGED vars
  BY <1>5 DEF Web, readerVars, serverVars, vars
<1> QED BY <1>2, <1>3, <1>4, <1>5 DEF Next

LEMMA FeedStarts == ASSUME Init, NEW c \in Channels PROVE Feed(c)!FeedInit
<1>1. level[c] = 0 /\ raw[c] = 0 /\ bi[c].turn = Blank
  BY DEF Init
<1> QED BY <1>1 DEF Feed!FeedInit

\* What BACnet shows of an input is what the input was, in order, and by way of a scan.
THEOREM InputsAreAFeed == Spec => InputFeedRefined
<1>1. Init => \A c \in Channels : Feed(c)!FeedInit
  BY FeedStarts
<1>2. TypeInv /\ ReadInv /\ ShownBehind /\ [Next]_vars
        => [\A c \in Channels : [Feed(c)!FeedNext]_(Feed(c)!feedVars)]_vars
  BY FeedStep
<1> QED BY <1>1, <1>2, TypeInvariant, ReadInvariant, ShownBehindInvariant, PTL
        DEF Spec, InputFeedRefined

\* The same for one input, in the form of a refinement.
THEOREM InputImplementsFeed ==
    ASSUME NEW CONSTANT c \in Channels
    PROVE  Spec => Feed(c)!FeedSpec
<1>1. Init => Feed(c)!FeedInit
  BY FeedStarts
<1>2. TypeInv /\ ReadInv /\ ShownBehind /\ [Next]_vars => [Feed(c)!FeedNext]_(Feed(c)!feedVars)
  BY FeedStep
<1> QED BY <1>1, <1>2, TypeInvariant, ReadInvariant, ShownBehindInvariant, PTL
        DEF Spec, Feed!FeedSpec

-----------------------------------------------------------------------------
(* The safety half of the liveness properties.                             *)

\* An input that is shown as it is stays so until it changes.
THEOREM SteadyInputStays == Spec => SteadyStays
<1>1. TypeInv /\ ReadInv /\ ShownBehind /\ [Next]_vars
        => [\A c \in Enabled :
              ~simulate /\ ShownAsItIs(c) /\ level'[c] = level[c] => ShownAsItIs(c)']_vars
  <2> SUFFICES ASSUME TypeInv, ReadInv, ShownBehind, [Next]_vars, NEW c \in Enabled,
                      ~simulate, ShownAsItIs(c), level'[c] = level[c]
               PROVE  ShownAsItIs(c)'
    OBVIOUS
  <2>0. c \in Channels
    BY Constants
  <2>1. raw[c] = level[c] /\ bi[c].turn = raw[c]
    <3>1. bi[c].turn <= raw[c] /\ raw[c] <= level[c] /\ bi[c].turn = level[c]
      BY <2>0 DEF ShownBehind, ReadInv, RawBehind, ShownAsItIs
    <3> QED BY <2>0, <3>1, Numbers
  <2>2. bi'[c] = bi[c] \/ bi'[c] = [active |-> IsActive(c, raw[c]), turn |-> raw[c]]
    <3>1. CASE Server /\ CopyInput
      BY <2>0, <3>1 DEF CopyInput, TypeInv, TypeOK
    <3>2. CASE ~(Server /\ CopyInput)
      BY <3>2 DEF Next, Reader, Server, ServerStarts, ServerLoop, ListInputs, RefreshDone,
                  Web, Main, Signal, StopFlag, CloseBoard, StopServer, Exit, InputChanges,
                  serverVars, vars
    <3> QED BY <3>1, <3>2
  <2> QED BY <2>1, <2>2, ActiveIsAway DEF ShownAsItIs, Away
<1> QED BY <1>1, TypeInvariant, ReadInvariant, ShownBehindInvariant, PTL DEF Spec, SteadyStays

\* A scan only goes on, and gives the lock back at its end.
THEOREM ScansGoOn == Spec => ScanGoesOn
<1>1. [Next]_vars
        => [dPc = "scan" =>
              \/ UNCHANGED <<dPc, nextRead>>
              \/ nextRead <= NumChannels /\ dPc' = "scan" /\ nextRead' = nextRead + 1
              \/ nextRead > NumChannels /\ dPc' = "top"]_vars
  <2> SUFFICES ASSUME [Next]_vars, dPc = "scan"
               PROVE  \/ UNCHANGED <<dPc, nextRead>>
                      \/ nextRead <= NumChannels /\ dPc' = "scan" /\ nextRead' = nextRead + 1
                      \/ nextRead > NumChannels /\ dPc' = "top"
    OBVIOUS
  <2>1. CASE Reader
    BY <2>1 DEF Reader, ReaderStarts, InitHardware, ReaderLoop, ReaderLocks, ReadChannel,
                SimulateChannel, ReaderUnlocks
  <2>2. CASE Server \/ Web \/ Main \/ InputChanges \/ UNCHANGED vars
    BY <2>2 DEF Server, Web, Main, Signal, StopFlag, CloseBoard, StopServer, Exit,
                InputChanges, readerVars, vars
  <2> QED BY <2>1, <2>2 DEF Next
<1> QED BY <1>1, PTL DEF Spec, ScanGoesOn
=============================================================================
