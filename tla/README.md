# PyCorewar in TLA+

PyCorewar is a memory array redcode simulator (MARS) for Core War: two or more small
programs, the warriors, share a circular memory, the core; each owns a queue of
processes; the warriors execute one instruction each in turn; a process that
executes a DAT dies, and a warrior without processes has lost the round. The
simulator is a Python 2 extension in C, and its run functions are written for speed:
more than 20 000 lines of hand-unrolled switch statements, process queues that are
never checked for overflow, and counters that are corrected after the fact. These
modules say what that code does and what it promises, check it with TLC on small
instances, and prove the most important parts with TLAPS for all sizes.

Paths below are relative to the repository; the C sources are in `src/`.

## 1. The system

| Part | Source | State it keeps | Operations | Interacts with |
|---|---|---|---|---|
| `run_88`, `p_run_88` | `src/BenchMARS88.c` | core, one array for both process queues, one head, two tails, two process counters, cycle, instruction counter, results | a round: load, turns, verdict; four unrolled copies of the turn | positions; instructions; called by `MARS_88` |
| `mw_run_88` | same | core, a linear array of queues, a doubly linked ring of living warriors, cycle and instruction counter (unsigned), result matrix | as above, for n warriors | `calc_pos`, `calc_pos_backup` |
| the '88 switch | same, `src/BenchMacros.h` | the core | 11 opcodes, 4 modes per operand, about 100 case blocks, nine copies | queue macros |
| `run_94nop`, `p_run_94nop` | `src/OptMARS94nop.c` | core, a ring of pointers shared by two queues | a round; a fast switch for common instructions and a generic one | counts for `Optimizing` |
| `run_94nop`, `p_run_94nop` | `src/BenchMARS94nop.c` | as above in another layout; `mw_run_94nop` is a stub | a round | called by `MARS_94nop` |
| queue macros | `src/BenchProcessQueue.h` | head and tail pointers | append, next; small and big, interleaved and not | all loops |
| positioning | `src/BenchPositioning.c` | seed, positions | `rng`, `calc_pos`, `calc_pos_backup` | run functions |
| `MARS_88`, `MARS_94nop` | `src/Benchmarkingmodule.c` | core buffer, limits | `run`, `p_run`, `mw_run`: check arguments, copy warriors, run, free | Python; run functions |
| `Optimizing` | `src/Optimizingmodule.c` | as above, counts per instruction | `run`, `p_run` | `OptMARS94nop.c`, optimizer script |
| `Redcode` | `src/Redcodemodule.c`, `src/Instruction.h` | instruction objects | construct, compare, print, pickle | parser, `MARS_*` |
| parser | `corewar/__init__.py` | lines, labels, EQUs | passes over a program text; expression calculator | `Redcode` |
| optimizer, templates, benchmarks | `Optimization/`, `Benchmarks/` | - | generate C, measure | - |

Nothing runs concurrently: each call runs to its end with the interpreter's lock
held, and nothing is persisted. The two actors are the warriors, which interleave
strictly and change each other's code. What is hard here is therefore

* *long sequences of legal steps* that must keep an unchecked data structure
  inside its bounds (an interleaved array, a ring two queues chase each other
  around, a linked list that shrinks while it is walked);
* *stale data*: the queue array is not cleared between rounds, the core must be,
  and a predecrement may change what the same instruction reads next;
* *off-by-one at the end of a round*: the instruction counter is charged for the
  whole round in advance and corrected when a warrior dies; `cycle` is unsigned;
* *role swaps*: in odd rounds the second warrior moves first and owns `tail1`;
* *the same thing written several times*: an operand evaluation in 64 blocks and
  again in two switches, special cases beside general ones, two machines, a rule
  of the standard in the assembler and in the interpreter;
* *retries that must end*: random positions are drawn again, backtracked and
  finally replaced by a second algorithm;
* *several ways out of a function*, each of which must free the same memory.

What makes each part correct:

* loops: both warriors have the same number of turns; a fetch finds a process of
  the right warrior and round; queues do not run into each other or out of the
  array; the counter counts executed instructions; the right warrior wins; the
  call returns;
* instructions: a core of valid instructions stays one; execution is relative to
  the position in the core; blocks written several times agree; no process is
  dropped;
* positioning: warriors do not overlap, in every core that has room for them,
  and the search for a place ends;
* Python types: what is checked suffices for what the run functions assume; no
  buffer is leaked or freed twice, on any path; `p_run` is exhaustive;
* instruction objects: what is written is what was meant, pickling can be undone
  and so can printing as long as nothing is cut off, and the assembler accepts
  what the machine executes.

`PROJECT.json` lists the hazards line by line, with the properties that cover
them, and says of those that no property covers why.

## 2. The modules

```
             Fight <------------- implements ---------------+
            ^  ^  ^ \                                       |
           /   |   \ \ implements                           |
  RunLoop88    |    \ RunLoopRing            MultiRun (two warriors)
     ^         |     \
     | EXTENDS |    Mars94 --- INSTANCE ---> Exec94 <-- EXTENDS -- Process94
   Mars88 -----+                                                      ^
     |                                                      INSTANCE  |
     +-- INSTANCE --> Exec88 <-- EXTENDS -- Process88 <- EXTENDS - Processes
                        ^
                        | INSTANCE
                     Redcode           Session --- EXTENDS ---> Positioning
```

**Fight** is what every two-warrior run function promises: `queue[w]` are two
FIFO sequences, `mover` is on turn, `left` turns are left in the round,
`executed` counts instructions, `round` and `score` the results. A turn is
`Continue`, `Split` or `Die`; `EndRound` counts the verdict and sets up the next
round. It says nothing of arrays, heads and tails. `Opening` is the first mover
of even rounds: 1 everywhere except in `p_run_94nop` of `OptMARS94nop.c`.

**RunLoop88** is the loop of `run_88` and `p_run_88`, variable by variable:
`pqueue`, `head`, `tail[1..2]`, `numprocesses[1..2]`, `cycle`, `insn_counter`,
`results`, `round`, and `copy`, the one of the four unrolled copies of the body
that runs next. An action is a whole pass through a copy - fetch, the effect of
the instruction on the queue, the decrement and the test of `cycle`:
`Continue` (label `queue1`), `Split` (SPL), `Die` (DAT), `Invalid` (the default
case), `Lose` (the `goto no_queue1` of the JMZ described in section 4).
`RoundDone` is the code behind the label of that name together with the head of
the `for` loop. The instruction is abstracted to its outcome; which outcomes may
occur is the constant `Outcomes`.

**RunLoopRing** is the loop of `OptMARS94nop.c`: a ring of `2 * maxprocesses + 2`
pointers, `head[w]`, `tail[w]`, and `pqinfo`, which the loop advances *before*
it fetches. `Lose` is its default case, which prints a message and queues
nothing.

**MultiRun** is the loop of `mw_run_88`: queues that start `maxprocesses + 1`
slots apart in one array and walk upwards over each other's old slots, the ring
of living warriors (`next`, `prev`), `numalive`, and the cycle accounting when a
warrior dies. `cycle` and `insn_counter` are words of `WordSize` values
(`u32_t` is an `unsigned long`). An access behind the array is undefined; the
model stops there.

**Exec88** is the switch of BenchMARS88.c. Its case blocks are four steps each,
written as operators on a core and an instruction pointer: evaluate A (`coreA`,
`aAddr`), evaluate B (`coreB`, `bAddr`), change the core (`CoreAfter`), queue
something (`Outcome`, `Queued`). What differs from block to block is when a
value is saved, and the operators keep that: B is evaluated with the B field the
instruction had before A was (`rb_b`), the values of A are those before B was
(`ra_b`). An instruction's code is the triple of opcode and modes, and
`ValidCode` are the codes that have a case.

**Exec94** are the instructions of the '94 draft, from both files that execute
them. `BenchOperands` are the 64 case blocks of BenchMARS94nop.c for pairs of
modes, one operator per A mode (`ImmediateA` ... `APostincrementA`), since that
is where they differ in what they save; `OptA` and `OptB` are the two switches of
OptMARS94nop.c. `Switch` is the switch over opcode and modifier that both share:
`Meets` says which fields of A and B a modifier pairs, `Mov`, `Add`, ..., `Slt`
what is done with them. `BenchFast1` to `BenchFast5` and `OptFast1` to `OptFast4`
are the special cases of frequent instructions in front of the general code, and
`Bench` and `Opt` what the loop bodies do: special case if there is one, else
general code. A result is the new core, what becomes of the process (`does`),
and the address that is queued (`next`).

**Process88** and **Process94** execute these instructions with one process alone
in the core. **Processes** puts both machines side by side, so that one run
checks the instructions of both and compares them (`As88`, with `Modifier94`,
the modifiers `fromString` gives to an instruction of '88).

**Mars88** puts RunLoop88 and Exec88 together: a turn of RunLoop88 whose outcome
and address are those of the instruction at `ip`, which also changes the core;
`NextRound` clears and reloads the core. The second warrior may be at every
position the computation from the seed can produce, in every round (which one
it is, is the subject of Positioning and Session).

**Mars94** is the same for `run_94nop` of BenchMARS94nop.c, whose loop is written
once: one interleaved array and one head as in `run_88`, but tails and counters
that belong to the warriors, found through `pqinfo`.

**Positioning** is BenchPositioning.c: `Rng` is the generator of the code; an
action is one pass through a loop of `calc_pos` (`Place`, `Retry`, `Backtrack`,
`GiveUp`) or of `calc_pos_backup` (`Choose`, `Spread`, `Permute`). The last one
may use elements behind the array; `inside` remembers it, and `Behind` are the
values that may be found there.

**Session** is a program that creates a MARS of one of three types, calls its
methods and drops it. `New` and `Call` have the checks of the constructors and
methods as guards; a refused call changes nothing and is no step. Inside a call
come `LoadWarrior` or `LoadFails` for each warrior, `Start`, a position for each
round (computed for `run` and `p_run`, by the actions of Positioning for
`mw_run`), `FightRound`, and `Answer`; `Crash` is what happens to a caller that
does not expect NULL. `blocks` is the memory that is allocated. Integers pass
through `Long`, which is what parsing an `int` into an `unsigned long` does.

**Redcode** is an instruction object: its number `insn` and the macros of
Instruction.h that read and write parts of it, constructors, setters, `reinit`,
`__getstate__` and restoring, `repr` (as the list of tokens it prints), and
`fromString` with the rules of '88 and the default modifiers. In cores of 200000
cells and more (`Wide`) `repr` cuts off the last digit of the B number
(`CutNumber`); a text whose B number had only that digit is marked as `cut`.

The `MC` modules define instructions, warriors, calls and texts for the checks.
Operators marked *Mutant* are plausible slips in the code they stand before;
each is used to show that a property can fail.

## 3. What TLC checks

No run but `redcode` checks for deadlock: the functions return, and the state in
which `round` has its last value has no successor; a process dies; a crashed
program stays crashed.

| Run | Question | Bounds |
|---|---|---|
| `mars88` | are whole fights of real instructions the abstract fight, in an array that suffices and a valid core that starts fresh each round | core of 5, 2 processes, 4 cycles, 2 rounds, warriors of one or two instructions |
| `mars_lost` | has every turn handled its process (violated) | core of 5, 3 cycles, warriors with the JMZ of section 4 |
| `mars94` | the same question for BenchMARS94nop.c, with instructions of P-space among the warriors | core of 5, 2 processes, 4 cycles, 2 rounds, 72 warriors |
| `ring` | with all outcomes, do the queues of the ring stay apart | 2 processes, ring of 6, 5 cycles, opening 2 (`p_run_94nop`) |
| `ring_refines` | does the ring implement Fight, and the call return | 6 cycles, opening 1 (`run_94nop`) |
| `multi` | with three warriors, are the linked ring, the queues, the turns, the counters and the results consistent | 3 warriors, 2 processes, 3 cycles, 2 rounds |
| `multi_pair` | is `mw_run_88` with two warriors the fight of `run_88`, and does it return | 2 warriors |
| `multi_turns` | does a warrior never have more than `maxcycles` turns (violated) | 3 warriors |
| `process` | do the instructions of both standards keep the core valid, are they relocatable, do blocks, special cases, files and machines agree | core of 3 |
| `session` | do argument checks, positions, rounds and memory fit together, for every type and method, and does every call end | cores of 6, 9, 13 and 127 cells, up to four warriors, seeds 1 to 60 |
| `session_shuffle` | does the shuffle only permute (violated) | same |
| `redcode` | can objects be printed, read and pickled, do setters leave each other alone, is what can be read what can be run | cores of 1, 3 and 200000, `int` of 20 bits, `long` of 24 |

Why the bounds are enough. Two rounds contain both assignments of roles and one
reuse of the array with old contents in it. Two processes are the smallest limit at
which an SPL is both obeyed and refused. In the ring of six slots five or six cycles
let both queues pass the end of the ring and their starting point, at every
combination of lengths. Three warriors are the smallest number for which a ring is
more than a pair and the survivors of a death are still two. On a core of three
cells the instruction, its operands and what they point at can coincide or differ in
every way two operands can; the process starts at each of 1 125 valid instructions
of '88, and for '94 at all pairs of modes with three instructions, at every
instruction that has a special case, and at all opcodes and modifiers with three
pairs of modes, with all fields; the chain of its successors is followed to the end.
WordSize is 128 in `multi`, as large as the proofs about the array want it (section
5), and 64 in the other runs of MultiRun; both are larger than every legal value and
make a wrapped counter recognisable. In `session` RETRIES1 and RETRIES2 are those of
the code, 20 and 4; the cores are so small that calc_pos fails from some seeds, and
the seeds from 1 to 60 contain placements at once, after retries, after
backtracking, and by `calc_pos_backup`. IntRange 128 stands for 2^32: a negative
argument becomes a core of 127 cells or a seed of 127. In `redcode` 200000 is the
smallest core whose instructions are printed 11 characters wide, and an `int` of 20
bits is one it fits into. The values that setters get contain the smallest `int`,
which has no absolute value, and one that does not fit; opcodes, modifiers and modes
up to the last opcode, and for each of the three some that are too large; as fields
of the large core they have one digit, two or more, of either sign. The foreign
states hold the largest number an object may have and the one after it, and a B
number of `-99999`.

Fairness. The temporal properties of the loops are checked under weak fairness
of the whole next-state relation, that of Session under weak fairness of `Work`:
that is what a C function does that waits for nothing, it takes its next step
until it returns. Nothing is assumed about which step, nor about what a Python
program calls next.

Properties worth a second look:

* `Implements` (RunLoop88, RunLoopRing, MultiRun, Mars88, Mars94): the
  refinement. It implies the order of processes in each queue, that an SPL
  queues the next instruction before the new process, alternation also across
  rounds, the exact instruction counter, and the verdict. The mapping cuts the
  two FIFO queues out of the array at `head`, every second slot or around the
  ring. In Mars94 it is stated for warriors without P-space instructions, which
  have no case in the switch and make a process vanish.
* `NoStaleFetch`: a turn fetches what the same warrior queued in the same round.
* `FairTurns` and `RingOfLiving` (MultiRun): nobody overtakes anybody in the
  list, although it is unlinked while it is walked. `QueuesDisjoint` depends on
  it: the queues would collide if one warrior were two turns behind.
* `AllRelocatable`: execution commutes with every rotation of the core.
* `FastAsSlow94`, `BenchAsOpt94`, `As88`, `DivThenMod94`, `TestsOpposite94`,
  `MovThenCmp88`: code that was written by hand more than once agrees with
  itself, on cores in which operands coincide and increments hit the running
  instruction. `As88` relates the two machines for whole instructions: new core,
  what becomes of the process, and address.
* `AllPositions`: after `p_run` each position has been fought at exactly once
  with either warrior moving first, although round, position and mover are
  computed separately, and differently in the Optimizing module.
* `RulesAgree`: what an object of '88 prints can be read if and only if `run_88`
  has a case for it, `DAT` with two operands of an empty cell and a B number that
  was cut off entirely apart.
* `RoundTrip`: what an object prints is read back as an equal object exactly where
  the text is whole; where it is not, it says what is lost: never the opcode,
  modifier, modes or A number, always the last digit of the B number.

## 4. What does not hold

Shown by runs:

* `mars_lost`. JMZ with modes `<`, `@` that does not jump goes to `no_queue1`
  instead of `queue1` (BenchMARS88.c:1279 and the same block of all copies). The
  process is in no queue any more but still counted; later the warrior fetches a
  slot it has not written, which holds a process of an earlier round or NULL.
  Exec88 models it as the outcome `lost`. Everything that needs processes to be
  kept is checked and proved for programs without that instruction, or with
  `lost` excluded from `Outcomes`. No other instruction is to blame:
  `OthersHandleProcess` proves the violated property for all programs without it,
  and `FightsNeverOverrun` that even with it no fight leaves the array.
* `multi_turns`. When a warrior dies in `mw_run_88` the turn that killed it is
  taken off `cycle` twice: once in `adj`, once by the loop condition. The
  survivors are tied a turn early for each death, and if one cycle is left the
  unsigned counter wraps and the round has no limit any more. The documentation
  of `maxcycles` is "Max. number of cycles before a tie is declared."
  `NoOverrun` of MultiRun is therefore stated for rounds that have not wrapped.
  With two warriors the second one's death ends the round, and `multi_pair`
  shows that nothing is wrong then. `ExtraTurnsByWrap` proves that the wrap is the
  only way to extra turns, for any number of warriors.
* `session_shuffle`. `calc_pos_backup` swaps with an element up to
  `numwarriors - 2` places behind the end of its array (BenchPositioning.c:136).
  `NoOverlap` is stated for shuffles that stay inside; `ShufflePermutes` proves
  that those only change who is where, and that with two warriors all do.

Met while modelling, and part of the models:

* The two machines disagree on JMZ, JMN and DJN with `<` as A mode, A field 0 and
  `#` as B mode: the jump decrements its own B field and `run_88` tests it as it
  is by then, `run_94nop` as it was before. `As88` excepts these.
* Negative arguments come out of `PyArg_ParseTupleAndKeywords` as numbers near
  2^32, so that the checks for `< 1` pass (Benchmarkingmodule.c:218); `Long` says
  so.
* `get_warriors` frees the wrong entry in the loops of lines 164 and 172 of
  Benchmarkingmodule.c, and at the same places of Optimizingmodule.c: warriors
  loaded before the one that failed are lost. A core is lost when no object can
  be allocated for it. `Cleaned` excepts both by name (`fault`).
* `mw_run_94nop` always returns NULL, and its callers use the result (`Crash`).
* `rng(0)` is 0 although its comment promises a value of at least 1. `Answers`
  shows that calls end nevertheless.
* The comment on the seed in `mw_run_88` (BenchMARS88.c:14368), that the second
  warrior is at position seed in the first round, is true of `run_88` only.
* The doc string of `p_run` (Benchmarkingmodule.c:455) says
  `2 * (CORESIZE - MINDISTANCE + 1)` rounds; there are
  `2 * (coresize - 2 * mindistance + 1)`, and `AllPositions` shows that these are
  the right ones.
* In cores of 200000 cells and more the format of `repr` needs 33 characters and a
  NUL, and the buffer has room for 33 (Redcodemodule.c:407 and 427, 989 and 1010):
  the last digit of the B number is not printed. Test/Instruction88.py has such a
  text as the expected one (lines 111 to 121: `-10987` for `-109877`); it is never
  read back as an equal object, and if the number has one digit it is not read at
  all. Test/Redcode.py reads back texts of cores of 8000 cells. `RoundTrip` and
  `RulesAgree` state this.
* `fromString` does not check the B mode of '88 against its range before packing
  it, so that a '94 mode reaches into the A mode; a foreign pickle may carry a
  modifier without a name, and if its opcode is then set to the last one, the
  object gets the number 9152, which it pickles and then refuses to restore
  (`RoundTrip` excepts this one by name); `abs` on a `long` sees its lower half
  only; two objects of different core sizes can be equal.

## 5. What is proved

Every property of a passing run is a theorem, for all values of the constants,
except those listed under *Only model-checked* below. The proofs about a
component are in the module of its name with `_proofs`; those about RunLoop88 are
in Mars88_proofs, in front of those that use them, and those about Fight in
RunLoopRing_proofs, which applies them to the ring. `Lemmas` has what several of
them need about sequences, `div` and `mod`, sums over finite sets, and tuples that
fall.

Assumptions are the named ones of the modules (`RunAssumption` and so on: sizes
are positive, as the constructors and methods check; programs are made of
instructions; `ProcessAssumption` and `ProcessAssumption94` say the latter of the
instructions Processes starts with; `RedcodeAssumption` says that a `long` holds
two `int`s and that twice a core size is an `int`, `TextsAssumption` that texts are
made of the names there are) and those in the statement of a theorem:

* `NoLoss`: no outcome `lost`. For RunLoop88 that is true of all programs without
  the JMZ of section 4, for RunLoopRing of those without P-space.
* `ValidOnly`: neither `lost` nor `invalid`, for the loop of `run_88` alone.
* `ValidPrograms`: the warriors of Mars88 bring codes that have a case.
  `HarmlessPrograms`: none of them is the JMZ of section 4. `NothingDropped`: either
  that, or the outcome `lost` does not exist. The constants of the run `mars88`
  satisfy `ValidPrograms` and `HarmlessPrograms` with all outcomes allowed, so that
  its properties are exactly instances of the theorems.
* `LongWords`: a word counts more than twice the slots of the array for every
  warrior. The array holds pointers of eight bytes in an address space of 2^48, so
  64 bits are enough for 2^18 warriors. Without it a budget that has wrapped could
  come down again to where `NoOverrun` looks for it.
* `PairOnly`: two warriors, no outcome `lost`, and a word that can count the
  instructions of all rounds.

`FightAssumption` is restated as a hypothesis where Fight is reached by INSTANCE.

| Theorem | Module | Says |
|---|---|---|
| `FightIsFair` | RunLoopRing_proofs | Fight: a warrior on turn has a process, none has too many, one survives, turns are fair |
| `CountsCorrect` | Mars88_proofs | types of RunLoop88, and `tail = slot of the next fetch + 2 * numprocesses` for both roles |
| `RunGetsNearer` | Mars88_proofs | each turn brings the end of `run_88` nearer, whatever the instructions do, in whole fights, too |
| `ArrayLargeEnough` | Mars88_proofs | no turn of a round leaves the array, for all sizes, dropped processes or not |
| `NothingStale` | Mars88_proofs | no turn fetches a slot of an earlier round |
| `LoopImplementsFight` | Mars88_proofs | RunLoop88 implements Fight |
| `CoreStaysValid` | Mars88_proofs | fields and codes stay valid in every fight, the default case is never reached |
| `FightsNeverOverrun` | Mars88_proofs | whole fights of valid programs never leave the array of processes, dropped or not |
| `FightsKeepQueues` | Mars88_proofs | in whole fights of harmless programs tails and counters agree and no fetch is stale |
| `MarsImplementsFight` | Mars88_proofs | whole fights of harmless programs, instructions included, implement Fight |
| `OthersHandleProcess` | Mars88_proofs | in fights of harmless programs each turn handles its process |
| `RoundsStartFresh` | Mars88_proofs | a round starts with both warriors complete, an otherwise empty core, and the right two processes |
| `QueuesNeverOverlap` | RunLoopRing_proofs | no queue overwrites the other on the ring, dropped processes or not |
| `QueuesKept` | RunLoopRing_proofs | types, tails and contents of both queues |
| `RingImplementsFight` | RunLoopRing_proofs | RunLoopRing implements Fight, for both openings |
| `RingIsFair` | RunLoopRing_proofs | what `FightIsFair` says holds of the ring |
| `RunGetsNearer` | RunLoopRing_proofs | each turn brings the end of `run_94nop` nearer, whatever the instructions do |
| `TypeCorrect` | MultiRun_proofs | types of MultiRun, for any number of warriors, as in the next eight |
| `RingIsLiving` | MultiRun_proofs | the linked ring holds exactly the living, in order, in both directions |
| `TurnsAreFair` | MultiRun_proofs | no living warrior is more than one turn ahead of another |
| `QueuesAreDisjoint` | MultiRun_proofs | two living warriors never share a slot |
| `ArrayLargeEnough` | MultiRun_proofs | until the budget wraps no turn leaves the array |
| `ExtraTurnsByWrap` | MultiRun_proofs | until the budget wraps no warrior has more than `maxcycles` turns |
| `RunGetsNearer` | MultiRun_proofs | each turn brings the end of `mw_run_88` nearer, also through a wrap |
| `EveryTurnCounts` | MultiRun_proofs | each turn counts as one instruction, modulo the word |
| `ResultsAgree` | MultiRun_proofs | rows and columns of the result matrix add up |
| `PairImplementsFight` | MultiRun_proofs | `mw_run_88` with two warriors implements Fight |
| `ArrayLargeEnough` | Mars94_proofs | fights of `run_94nop` never leave the array, dropped processes or not |
| `CoreStaysValid` | Mars94_proofs | fields stay in the core, and proper warriors stay proper |
| `CountsCorrect` | Mars94_proofs | proper warriors: counters, and no stale fetch |
| `RoundsStartFresh` | Mars94_proofs | as in Mars88 |
| `MarsImplementsFight` | Mars94_proofs | fights of proper warriors implement Fight |
| `CoresStayValid` | Processes_proofs | an instruction of either standard leaves a valid core |
| `CodesOnlyComeFromMov` | Processes_proofs | in `run_88` a code changes only when MOV copies another |
| `CopiesCompareEqual` | Processes_proofs | CMP finds equal what MOV with the same operands copied |
| `ProgramsAreRelocatable` | Processes_proofs | execution commutes with every rotation of the core, in both machines and both files |
| `FrequentCasesAreRight` | Processes_proofs | each hand-written special case does what the general code does |
| `FilesAgree` | Processes_proofs | the 64 blocks of one file evaluate operands like the two switches of the other |
| `DivisionsAgree` | Processes_proofs | DIV and MOD decide alike; quotient and remainder fit together |
| `TestsDecideOpposite` | Processes_proofs | SEQ and SNE, JMZ and JMN decide the opposite |
| `ProgramsAgree` | Processes_proofs | `run_94nop` does with a program of '88 what `run_88` does, `disagreed` apart |
| `ArgumentsPlausible` | Session_proofs | the functions that run fights get arguments they can work with |
| `WarriorsNeverOverlap` | Session_proofs | the warriors of a round do not overlap, for all cores, numbers of warriors and seeds |
| `NothingLeft` | Session_proofs | between calls nothing is allocated but the core, the named faults apart |
| `EveryPositionFought` | Session_proofs | `p_run` fights at each position once with either warrior first |
| `ShufflePermutes` | Session_proofs | a shuffle inside its array permutes; with two warriors it is always inside |
| `CallsGetNearer` | Session_proofs | each step of a call brings its end nearer, retries and backtracks included |
| `ObjectsRoundTrip` | Redcode_proofs | objects can be pickled and restored; their text is read back as an equal object in cores of less than 200000 cells, and in larger ones without the last digit of B, or not at all |
| `ReadersAgree` | Redcode_proofs | what an object of '88 prints can be read if and only if `run_88` has a case for it, unless the only digit of its B number was cut off |
| `SettersIndependent` | Redcode_proofs | a setter changes its own attribute only |

The arguments.

*RunLoop88*: the inductive invariant ties each tail to the head by the process
counter, and the head to the cycles left; the size of the array follows, since a
tail is at most `head + 1 + 2 * maxprocesses` and the head at most
`2 * maxcycles` when a round ends. `NoOverrun` alone is not inductive: it says
nothing of how far a tail is ahead. With equality of tail and counter replaced by
"at most" (`Sound`) the bound needs no assumption on instructions: a process that is
lost leaves its tail behind where the counter would have it.

*RunLoopRing*: disjointness is not inductive either, as it forgets how the two
queues lie to each other. The invariant says that the head of warrior 2 is
`maxprocesses + 1` slots behind that of warrior 1, give or take the one turn by
which one of them is ahead, and that each queue has at most `maxprocesses`
slots; so neither reaches the other. This needs no `NoLoss` (`Sound`); that the
counters describe the contents of the queues does.

*Refinement*: in all layouts a turn shifts the sequence that the mapping cuts out
of the array and appends to it; `Lemmas` states this for functions and
sequences, and the invariants say that the slots the lemma needs are the ones the
code writes.

*Mars88*: `EvaluatedClosed`, `OperandsClosed`, `WrittenClosed` show that each step
of an instruction maps good cells to good cells; the rest of the invariant only says
that a fetch finds an address. `FightFollowsLoop` then shows that every step of a
fight is a step of RunLoop88, which needs that a valid instruction has one of the
outcomes of the loop and queues an address; so every theorem about the loop holds
for whole fights. For those that need processes to be kept it is not enough that no
program *starts* with the dropping JMZ: the code changes while it runs.
`EvaluatedKeepsCodes` and `CodesAreCopied` show that a code in the core is always
one that some program brought or that of an empty cell (`HarmlessInv`), and
`FightIsValid` that the fight is then one of the loop without `lost` and `invalid`.
For `RoundsStartFresh` the core of a round is followed cell by cell: it is cleared
and written twice, at places that the assumption on positions keeps apart.

*MultiRun*: that the ring holds the living is not inductive without saying where
each link leads. `Linked` says that `next` and `prev` lead to the nearest living
warrior, measured by the distance around the table (`Gap`, modulo the number of
warriors), which stays true when one is unlinked. The rest rests on the ring:
since a death does not change the order, there is always a warrior `s` from whom
on the living have had a turn of the current lap or not yet (`InLap`); hence
`FairTurns`, and as queues start one slot further apart than they are long,
`QueuesDisjoint`. Both hold also if processes are lost. The budget is at most
what the living may still have (`Share` of `MaxCycles`), each share of which
bounds a head, or after a wrap at least what the whole array has room for
(`FarAbove`); `LongWords` says that a budget that has wrapped gets there.
For the results, a verdict adds one to the row of every warrior, and the
survivors do so in the column that says how many they are. Sums are folds, which
the library does not reason about; `Lemmas` shows by induction over a set of
numbers how a sum changes with its terms. For `ExtraTurnsByWrap` the dead count
too, whose turns `InLap` says nothing of: they stay at the number they died with.
With two warriors, the mapping of `PairImplementsFight` finds the dead one's queue
empty and the round over before the counters can wrap.

*Mars94*: the first part shows that an instruction maps good cores to good ones
for any set `S` of opcodes: with all of them it says that fields stay inside
the core, with those the switch has a case for that no process is dropped. One
invariant serves both kinds of fights: in all of them a tail is *at most* as far
from its head as the counter says, which bounds the array, and in those of
proper warriors exactly as far, which is what the refinement needs.

*Processes*: the invariant (`Goes`) is only that cores and processes are good;
everything else is a statement about one instruction in a good core. The way to
it is the same each time: operands are evaluated alike on both sides - in the
other file, in a moved core, under another opcode, by the other standard - or
the difference is named, and then the switch follows case by case. For the
frequent cases this means that what they leave out is what the general code
would find (the operand that is the instruction itself, the increment that hits
it). For `As88` the two encodings of a cell must not be confused: a lemma shows
that cells of '88 that differ also differ after translation, so that CMP and
SEQ.I decide alike. In a core of one cell DJN decides differently, but then both
of its addresses are the same cell. `PreA` and `PostA` stand for the
modes `{` and `}` in the proofs, since the SMT backend cannot read these names.

*Session*: none of its properties is inductive. `SessionInv` follows the values
from the check that bounds them to the function that uses them: the MARS keeps
what its constructor checked (`MarsSound`), a call what its method checked
(`CallSound`), and a fight both (`FightSound`). Its part `Placing` says what
holds in each loop of BenchPositioning.c: the warriors before `pos` are apart
while `calc_pos` runs, backtracking included; the first offsets are sorted while
they are inserted; spreading sorted offsets by `mindistance` sets them apart; a
swap inside the array keeps them so. `LeastOf`, from the well-foundedness of the
naturals, finds the place the insertion sort needs. For `NothingLeft` the
invariant names which blocks exist at which point of a call, for `AllPositions`
(`RoundsFought`) which pairs of position and first mover the rounds so far have
had.

*Redcode*: an object is one number, and the invariant says that it is a packed
opcode, modifier and modes (`Parts`, `Made` and their like for '88), that fields
are below the core size, and that only a foreign state brings a modifier without a
name. The groups of bits are written with `div` and `mod`. For the round trip the
prover follows each token through printing and reading (`RoundTrip` is about the
text as well as the pickle); for `RulesAgree` the rules of `fromString` and the case
labels of Exec88 are compared opcode by opcode. In wide cores the number that is read
(`ReadB`) is not the one that was there: `CutIs` and `CutIsRead` put it between that
number and zero, where it is less than half of the core from zero like the number
itself, so that it is shown as itself again and differs from it (`BIsRead`).

*Ends*: that a step brings an end nearer is the half of termination that the prover
can reach. `Distance` of each module is a tuple of natural numbers that falls at the
first place where it changes: rounds left and cycles left for the ring and for
`run_88`; rounds left, living warriors, and the budget for `mw_run_88`, where a
budget that wraps has a living warrior less; for a call of Session the part it is
in, warriors or rounds left, the loop of the positioning, backtracks, retries, and
warriors left in that loop. `NearerIsWellFounded` (Lemmas) shows that no such tuple
falls for ever. So no behaviour has infinitely many such steps; that a next step
exists until the end, and is taken, is ENABLED and fairness and is left to TLC.

Only model-checked: `Returns` and `Answers`, which need fairness and ENABLED; the
part of them that is proved is named above. For the loop of `run_88` itself no run
checks `Returns`: that every turn brings its end nearer (`RunGetsNearer` of
Mars88_proofs) is all that is shown of it. `Permuted`, `NoExtraTurns` and
`ProcessHandled` do not hold; what is proved is how far they do (section 4).

## 6. What is not modelled

* The parser and expression calculator (`corewar/__init__.py`), which rewrite
  text sequentially, and the scripts, templates and benchmarks, which generate
  code and measure it. The generated loops have the layout of RunLoopRing.
* The statistics of the Optimizing module (`count`, `insnfreq`): no other state
  depends on them. Line 146 of OptMARS94nop.c indexes an array of 8192 counts
  with the whole instruction word; opcodes from 16 on, which the Optimizing
  module loads unchecked, lie behind it. No property covers this.
  Nor does one catch the leak in `get_warriors` (section 4): `Cleaned` is about all
  other ways out of a call.
* Python reference counts, attribute getters, the building of result lists.
  Of allocation failures the models have those that change what is freed later;
  the list of warriors itself, whose `calloc` `get_warriors` does not check
  (Benchmarkingmodule.c:155), is always allocated in them.
* White space, comments and numerals in `fromString`: Redcode starts from tokens.
* The bytes of memory behind an array: MultiRun stops there, Positioning reads
  arbitrary values.

What would be worth proving next: `NoOverrun` of MultiRun for rounds in which the
budget has wrapped, with the number of turns the wrap allows; that `Implements`
carries the positions of Session into Mars88, whose `Position` is any place
the check of the seed permits (`WarriorsNeverOverlap` says that Session's are).
