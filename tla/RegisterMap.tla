---------------------------- MODULE RegisterMap ----------------------------
(***************************************************************************)
(* The numbers behind the points: what tools/modbus_simulator.py writes    *)
(* into registers 200-218, what poller.py makes of them, and what becomes  *)
(* of a power command on its way into register 300.                        *)
(*                                                                         *)
(* A register is a word of Base values, 2^16 in the code.  Four of the     *)
(* 32-bit values overlap the next value's register.  A poll takes the      *)
(* block in one reply, and the simulator writes it in one call: what a     *)
(* poll publishes is a function of the registers.                          *)
(***************************************************************************)
EXTENDS Integers

CONSTANTS
    Base,           \* values of a register
    Capacity,       \* the simulator's battery, kWh
    Powers,         \* kW the simulator's battery, grid and sun may give
    Energy0,        \* where its counters start, kWh
    MaxEnergy,      \* bound: where they end
    Commands        \* power commands, in tenths of a kW

ASSUME BaseAssumption == Base \in Nat /\ Base >= 32 /\ Base % 2 = 0

ASSUME ValuesAssumption ==
    /\ Capacity \in 0..(Base - 1)
    /\ Powers \subseteq -(Base \div 2)..((Base \div 2) - 1) /\ 0 \in Powers
    /\ MaxEnergy \in Nat /\ Energy0 \in 0..MaxEnergy /\ 2 * MaxEnergy < Base * Base
    /\ Commands \subseteq Int

VARIABLES
    truth,          \* the simulator's quantities
    regs,           \* [200..218 -> words]
    held,           \* register 300
    sent            \* the last command, and what write_power_command said

mapVars == <<truth, regs, held, sent>>

Half == Base \div 2
Word == 0..(Base - 1)
Addresses == 200..218

-----------------------------------------------------------------------------
(* poller.py: words to numbers.                                            *)

\* Mutant of ToInt16: the sign bit itself is not negative.
ToInt16_OffByOne(w) == IF w > Half THEN w - Base ELSE w

\* _to_int16_signed
ToInt16(w) == IF w >= Half THEN w - Base ELSE w

\* _to_int32
ToInt32(high, low) ==
    LET combined == high * Base + low
    IN  IF combined >= Half * Base THEN combined - Base * Base ELSE combined

\* fault_bits & FAULT_..., for the bit of weight `mask`.
HasBit(w, mask) == (w \div mask) % 2 = 1

\* _read_all, pass 1.  The settings in 200 and 203 to 205 are like soc.
Points(r) ==
    [capacity |-> ToInt32(r[201], r[202]), power |-> ToInt16(r[202]),
     soc |-> ToInt16(r[206]), error |-> r[207] # 0,
     faults |-> [m \in {1, 2, 4, 8, 16} |-> HasBit(r[208], m)],
     charged |-> ToInt32(r[209], r[210]), discharged |-> ToInt32(r[210], r[211]),
     grid |-> ToInt16(r[211]),
     imported |-> ToInt32(r[212], r[213]), exported |-> ToInt32(r[213], r[214]),
     solar |-> ToInt16(r[214]),
     produced |-> ToInt32(r[215], r[216]), load |-> ToInt16(r[216]),
     consumed |-> ToInt32(r[217], r[218])]

-----------------------------------------------------------------------------
(* tools/modbus_simulator.py: numbers to words.                            *)

\* _to_uint16
ToWord(v) == (IF v < 0 THEN v + Base ELSE v) % Base

\* _int32_to_regs
HighWord(v) == ((IF v < 0 THEN v + Base * Base ELSE v) \div Base) % Base
LowWord(v)  == (IF v < 0 THEN v + Base * Base ELSE v) % Base

\* The block that _update writes: each 32-bit value that overlaps another one
\* loses its low word to it.  The settings in 203 to 205 never change: one number
\* stands for the three.
Block(q) ==
    [a \in Addresses |->
       CASE a = 200 -> ToWord(1)
         [] a = 201 -> HighWord(Capacity)       [] a = 202 -> ToWord(q.power)
         [] a \in 203..205 -> ToWord(Capacity)
         [] a = 206 -> ToWord(q.soc)
         [] a \in {207, 208} -> ToWord(IF q.fault THEN 1 ELSE 0)
         [] a = 209 -> HighWord(q.charged)      [] a = 210 -> LowWord(q.charged)
         [] a = 211 -> ToWord(q.grid)
         [] a = 212 -> HighWord(q.imported)     [] a = 213 -> LowWord(q.imported)
         [] a = 214 -> ToWord(q.solar)
         [] a = 215 -> HighWord(q.produced)     [] a = 216 -> LowWord(q.produced)
         [] a = 217 -> HighWord(q.consumed)     [] a = 218 -> LowWord(q.consumed)]

\* An energy counter: it counts while the power is positive.
Counted(e, power) == IF power > 0 /\ e < MaxEnergy THEN e + 1 ELSE e

\* _update.  What is discharged and exported is counted as well, but reaches no
\* register.  The quantities follow their curves; here they take any value.
SimulatorUpdates ==
    /\ \E p, g \in Powers, s \in {w \in Powers : w >= 0}, fault \in BOOLEAN :
          truth' = [power |-> p, grid |-> g, solar |-> s,
                    soc |-> IF fault THEN 0 ELSE Half - 1, fault |-> fault,
                    charged  |-> Counted(truth.charged, p),
                    imported |-> Counted(truth.imported, g),
                    produced |-> Counted(truth.produced, s),
                    consumed |-> Counted(truth.consumed, 1)]
    /\ regs' = Block(truth')
    /\ UNCHANGED <<held, sent>>

-----------------------------------------------------------------------------
(* poller.py: write_power_command, and pass 2, which reads it back.        *)

\* int() of a float: the fraction is dropped, towards zero.
Whole(kw) == IF kw >= 0 THEN kw \div 10 ELSE -((-kw) \div 10)

\* Mutant of CommandWord: the command is rounded down.
CommandWord_Floor(kw) ==
    LET value == kw \div 10
    IN  IF value < 0 THEN value + Base ELSE value

CommandWord(kw) ==
    LET value == Whole(kw)
    IN  IF value < 0 THEN value + Base ELSE value

\* A value that is no word raises when it is packed.  The reply may be lost: the
\* command is then written, and reported as failed.
WriteCommand(kw) ==
    /\ \/ /\ CommandWord(kw) \in Word
          /\ held' = CommandWord(kw)
          /\ \E ok \in BOOLEAN : sent' = [kw |-> kw, ok |-> ok]
       \/ /\ UNCHANGED held
          /\ sent' = [kw |-> kw, ok |-> FALSE]
    /\ UNCHANGED <<truth, regs>>

CommandRead == ToInt16(held)

-----------------------------------------------------------------------------
Simulated0 == [power |-> 0, grid |-> 0, solar |-> 0, soc |-> Half - 1, fault |-> FALSE,
               charged |-> Energy0, imported |-> Energy0, produced |-> Energy0,
               consumed |-> Energy0]

\* The simulator has all its registers at zero until the first update.
MapInit ==
    /\ truth = Simulated0 /\ regs = [a \in Addresses |-> 0]
    /\ held = 0
    /\ sent = [kw |-> 0, ok |-> FALSE]

MapNext == SimulatorUpdates \/ \E kw \in Commands : WriteCommand(kw)

MapSpec == MapInit /\ [][MapNext]_mapVars

-----------------------------------------------------------------------------
\* Type correctness: registers hold words.
MapTypeOK ==
    /\ truth \in [power: Powers, grid: Powers, solar: Powers, soc: Word, fault: BOOLEAN,
                  charged: Nat, imported: Nat, produced: Nat, consumed: Nat]
    /\ regs \in [Addresses -> Word]
    /\ held \in Word
    /\ sent \in [kw: Commands \cup {0}, ok: BOOLEAN]

\* Every point that has its registers to itself is polled as it was simulated,
\* negative powers and counters beyond one word included (poller.py:142-170,
\* modbus_simulator.py:109-139).
SimulatedIsPolled ==
    regs = Block(truth) =>
        LET p == Points(regs)
        IN  /\ p.power = truth.power /\ p.grid = truth.grid /\ p.solar = truth.solar
            /\ p.soc = truth.soc /\ p.error = truth.fault
            /\ p.faults = [m \in {1, 2, 4, 8, 16} |-> m = 1 /\ truth.fault]
            /\ p.charged = truth.charged /\ p.imported = truth.imported
            /\ p.produced = truth.produced /\ p.consumed = truth.consumed

\* As polled, the simulator's energy counters never run backwards, although they
\* carry from one register into the other (modbus_simulator.py:48-54, 91-102).
CountersNeverRunBack ==
    [][regs = Block(truth) =>
         LET p == Points(regs)  q == Points(regs')
         IN  /\ p.charged <= q.charged   /\ p.imported <= q.imported
             /\ p.produced <= q.produced /\ p.consumed <= q.consumed]_mapVars

\* A command that was reported as written is read back in its own direction, short
\* of it by less than one kilowatt, if its whole kilowatts fit 16 bits with a sign;
\* one that does not fit comes back with the other sign, or as zero
\* (poller.py:206-221, 172-180).
CommandReadsBack ==
    sent.ok =>
        IF sent.kw > -10 * (Half + 1) /\ sent.kw < 10 * Half
          THEN IF sent.kw >= 0
                 THEN CommandRead >= 0 /\ 10 * CommandRead \in (sent.kw - 9)..sent.kw
                 ELSE CommandRead <= 0 /\ 10 * CommandRead \in sent.kw..(sent.kw + 9)
          ELSE IF sent.kw > 0 THEN CommandRead < 0 ELSE CommandRead >= 0
=============================================================================
