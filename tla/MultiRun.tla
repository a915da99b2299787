----------------------------- MODULE MultiRun -----------------------------
(***************************************************************************)
(* The round loop of mw_run_88 (BenchMARS88.c): a fight of any number of   *)
(* warriors, of which only the living ones take turns.                     *)
(*                                                                         *)
(* All queues are linear pieces of one array.  Warrior i starts at slot    *)
(* i * (maxprocesses + 1) and walks upwards, over the slots the warriors   *)
(* behind it started at; nothing wraps and nothing is checked.  The living *)
(* warriors form a doubly linked ring, and a dead one is unlinked.         *)
(*                                                                         *)
(* cycle counts the turns left to all warriors.  When a warrior dies its   *)
(* share is taken off.  cycle and insn_counter are unsigned words.         *)
(***************************************************************************)
EXTENDS Integers, FiniteSetsExt

CONSTANTS
  NumWarriors,   \* numwarriors
  CoreSize,      \* coresize
  MaxProcesses,  \* maxprocesses
  MaxCycles,     \* maxcycles
  NumRounds,     \* numrounds
  Outcomes,      \* outcomes the executed instructions may have
  WordSize,      \* ULONG_MAX + 1
  NULL           \* content of a slot that was never written

\* MARS_88_mw_run wants two warriors; the other bounds are MARS_88_new's.
ASSUME MultiAssumption ==
  /\ NumWarriors \in Nat \ {0, 1}
  /\ CoreSize \in Nat \ {0}
  /\ MaxProcesses \in Nat \ {0}
  /\ MaxCycles \in Nat \ {0}
  /\ NumRounds \in Nat \ {0}
  /\ Outcomes \subseteq {"continue", "split", "die", "lost"}
  /\ WordSize \in Nat /\ WordSize > NumWarriors * MaxCycles

ASSUME NullAssumption == NULL \notin 0 .. CoreSize - 1

VARIABLES
  pqueue,        \* the array of process pointers
  head,          \* pq_infos[i].head
  tail,          \* pq_infos[i].tail
  numprocesses,  \* pq_infos[i].numprocesses
  next, prev,    \* pq_infos[i].next, pq_infos[i].prev
  pqinfo,        \* warrior on turn
  numalive,      \* warriors still living
  cycle,         \* turns left in this round
  insn_counter,  \* instructions executed, the rest of this round included
  results,       \* results[i][k]: rounds i won with k others, [N]: lost
  round          \* current round, NumRounds at the end

vars == <<pqueue, head, tail, numprocesses, next, prev, pqinfo, numalive,
          cycle, insn_counter, results, round>>

Address  == 0 .. CoreSize - 1
Warrior  == 0 .. NumWarriors - 1
Word     == 0 .. WordSize - 1
\* Mutant: room for the turns only.
CapacityShort == NumWarriors * MaxCycles

Capacity == NumWarriors * (MaxCycles + MaxProcesses)

Slot     == 0 .. Capacity - 1

\* Mutant: no slot between full queues.
HomeTight(i) == i * MaxProcesses

Home(i)     == i * (MaxProcesses + 1)
IpIncMod(a) == IF a + 1 = CoreSize THEN 0 ELSE a + 1

\* The condition of the do loop, behind a turn.
running == cycle > 0 /\ numalive > 1

----------------------------------------------------------------------------

\* Mutant: warrior 0 starts every round.
SetUpFirst(r) ==
  /\ head' = [i \in Warrior |-> Home(i)]
  /\ tail' = [i \in Warrior |-> Home(i) + 1]
  /\ numprocesses' = [i \in Warrior |-> 1]
  /\ next' = [i \in Warrior |-> (i + 1) % NumWarriors]
  /\ prev' = [i \in Warrior |-> (i + NumWarriors - 1) % NumWarriors]
  /\ pqinfo' = 0
  /\ numalive' = NumWarriors
  /\ cycle' = NumWarriors * MaxCycles

\* Load all warriors, link them, and start round r.
SetUp(r) ==
  /\ head' = [i \in Warrior |-> Home(i)]
  /\ tail' = [i \in Warrior |-> Home(i) + 1]
  /\ numprocesses' = [i \in Warrior |-> 1]
  /\ next' = [i \in Warrior |-> (i + 1) % NumWarriors]
  /\ prev' = [i \in Warrior |-> (i + NumWarriors - 1) % NumWarriors]
  /\ pqinfo' = r % NumWarriors
  /\ numalive' = NumWarriors
  /\ cycle' = NumWarriors * MaxCycles

Load(queue, start) ==
  [s \in Slot |-> IF \E i \in Warrior : s = Home(i)
                    THEN start[s \div (MaxProcesses + 1)] ELSE queue[s]]

Init ==
  /\ \E start \in [Warrior -> Address] :
       pqueue = Load([s \in Slot |-> NULL], start)
  /\ head = [i \in Warrior |-> Home(i)]
  /\ tail = [i \in Warrior |-> Home(i) + 1]
  /\ numprocesses = [i \in Warrior |-> 1]
  /\ next = [i \in Warrior |-> (i + 1) % NumWarriors]
  /\ prev = [i \in Warrior |-> (i + NumWarriors - 1) % NumWarriors]
  /\ pqinfo = 0
  /\ numalive = NumWarriors
  /\ cycle = NumWarriors * MaxCycles
  /\ insn_counter = NumWarriors * MaxCycles
  /\ results = [i \in Warrior |-> [k \in 0 .. NumWarriors |-> 0]]
  /\ round = 0

\* The process warrior i runs next.
ip(i) == pqueue[head[i]]

\* Warrior i fetches.  A NULL pointer ends the program, and so may a slot
\* behind the array: the model stops there.
Fetch(i) ==
  /\ running
  /\ i = pqinfo
  /\ head[i] \in Slot /\ ip(i) # NULL
  /\ head' = [head EXCEPT ![i] = @ + 1]
  /\ UNCHANGED <<results, round>>

\* The end of a turn behind which all living warriors go on.
Alive ==
  /\ pqinfo' = next[pqinfo]
  /\ cycle' = (cycle - 1) % WordSize
  /\ UNCHANGED <<next, prev, numalive, insn_counter>>

\* PQ_BNI_APPEND: once, and twice.
Append1(i, x) ==
  /\ pqueue' = [pqueue EXCEPT ![tail[i]] = x]
  /\ tail' = [tail EXCEPT ![i] = @ + 1]

Append2(i, x, y) ==
  /\ pqueue' = [pqueue EXCEPT ![tail[i]] = x, ![tail[i] + 1] = y]
  /\ tail' = [tail EXCEPT ![i] = @ + 2]

\* The instruction queues one address: the next one, a later one, or the
\* target of a jump.  So does the default case.
Continue(i, x) ==
  /\ "continue" \in Outcomes
  /\ Fetch(i)
  /\ tail[i] \in Slot
  /\ Append1(i, x)
  /\ Alive
  /\ UNCHANGED numprocesses

\* SPL queues the next instruction, then the new process if possible.
Split(i, x) ==
  /\ "split" \in Outcomes
  /\ Fetch(i)
  /\ tail[i] \in Slot
  /\ IF numprocesses[i] < MaxProcesses
       THEN /\ tail[i] + 1 \in Slot
            /\ numprocesses' = [numprocesses EXCEPT ![i] = @ + 1]
            /\ Append2(i, IpIncMod(ip(i)), x)
       ELSE /\ Append1(i, IpIncMod(ip(i)))
            /\ UNCHANGED numprocesses
  /\ Alive

\* DAT.  The last process of a warrior takes it out of the ring, and its
\* share of the remaining turns off both counters; the turn that killed it
\* is part of the share and is counted by the loop once more.
adj == 1 + (cycle - 1) \div numalive

\* Mutants: the warrior is unlinked in one direction only, the one behind it
\* loses its turn, the instruction counter keeps the share of the dead, or
\* the dead one is still counted as living.
DieBy(i, unlinked, behind, taken, dead) ==
  /\ "die" \in Outcomes
  /\ Fetch(i)
  /\ numprocesses' = [numprocesses EXCEPT ![i] = @ - 1]
  /\ IF numprocesses[i] = 1
       THEN /\ next' = [next EXCEPT ![prev[i]] = next[i]]
            /\ prev' = unlinked
            /\ insn_counter' = (insn_counter - taken) % WordSize
            /\ cycle' = (cycle - adj - 1) % WordSize
            /\ numalive' = numalive - dead
            /\ pqinfo' = behind
       ELSE Alive
  /\ UNCHANGED <<pqueue, tail>>

DieHalfLinked(i) == DieBy(i, prev, next[i], adj, 1)
DieSkips(i) ==
  DieBy(i, [prev EXCEPT ![next[i]] = prev[i]], next[next[i]], adj, 1)
DieUncounted(i) == DieBy(i, [prev EXCEPT ![next[i]] = prev[i]], next[i], 0, 1)
DieAlive(i) == DieBy(i, [prev EXCEPT ![next[i]] = prev[i]], next[i], adj, 0)

Die(i) ==
  /\ "die" \in Outcomes
  /\ Fetch(i)
  /\ numprocesses' = [numprocesses EXCEPT ![i] = @ - 1]
  /\ IF numprocesses[i] = 1
       THEN /\ next' = [next EXCEPT ![prev[i]] = next[i]]
            /\ prev' = [prev EXCEPT ![next[i]] = prev[i]]
            /\ insn_counter' = (insn_counter - adj) % WordSize
            /\ cycle' = (cycle - adj - 1) % WordSize
            /\ numalive' = numalive - 1
            /\ pqinfo' = next[i]
       ELSE Alive
  /\ UNCHANGED <<pqueue, tail>>

\* JMZ <, @ drops the process if it does not jump.
Lose(i) ==
  /\ "lost" \in Outcomes
  /\ Fetch(i)
  /\ Alive
  /\ UNCHANGED <<pqueue, tail, numprocesses>>

Turn(i) ==
  \/ \E x \in Address : Continue(i, x) \/ Split(i, x)
  \/ Die(i)
  \/ Lose(i)

\* Mutant: counts the warrior itself among the survivors it shares with.
RankWithSelf(i) == IF numprocesses[i] = 0 THEN NumWarriors ELSE numalive

\* Where a warrior's result of the round is counted.
Rank(i) == IF numprocesses[i] = 0 THEN NumWarriors ELSE numalive - 1

\* The code behind the do loop, and the head of the for loop.
RoundDone ==
  /\ ~running
  /\ round < NumRounds
  /\ round' = round + 1
  /\ results' = [i \in Warrior |-> [results[i] EXCEPT ![Rank(i)] = @ + 1]]
  /\ IF round + 1 < NumRounds
       THEN /\ SetUp(round + 1)
            /\ \E start \in [Warrior -> Address] : pqueue' = Load(pqueue, start)
            /\ insn_counter' =
                 (insn_counter - cycle + NumWarriors * MaxCycles) % WordSize
       ELSE /\ insn_counter' = (insn_counter - cycle) % WordSize
            /\ UNCHANGED <<pqueue, head, tail, numprocesses, next, prev, pqinfo,
                           numalive, cycle>>

Next == RoundDone \/ \E i \in Warrior : Turn(i)

Spec == Init /\ [][Next]_vars

\* The function is a plain loop: it takes its next step until it returns.
FairSpec == Spec /\ WF_vars(Next)

----------------------------------------------------------------------------
(* Properties *)

living == {i \in Warrior : numprocesses[i] > 0}

\* The turns a warrior had in this round.
turns(i) == head[i] - Home(i)

\* The cycle budget that is left wrapped around zero: a warrior died in the
\* last turn of the round and at least two survived.
wrapped == cycle > NumWarriors * MaxCycles

TypeOK ==
  /\ pqueue \in [Slot -> Address \cup {NULL}]
  /\ head \in [Warrior -> Nat]
  /\ tail \in [Warrior -> Nat]
  /\ numprocesses \in [Warrior -> 0 .. MaxProcesses]
  /\ next \in [Warrior -> Warrior] /\ prev \in [Warrior -> Warrior]
  /\ pqinfo \in Warrior
  /\ numalive \in 1 .. NumWarriors
  /\ cycle \in Word /\ insn_counter \in Word
  /\ results \in [Warrior -> [0 .. NumWarriors -> Nat]]
  /\ round \in 0 .. NumRounds

\* The next living warrior behind i.
Successor(i) ==
  CHOOSE j \in living :
    \E d \in 1 .. NumWarriors :
      /\ j = (i + d) % NumWarriors
      /\ \A e \in 1 .. d - 1 : (i + e) % NumWarriors \notin living

\* The ring links exactly the living warriors, in their order and in both
\* directions, and a living one is on turn: unlinking never leaves a dead
\* warrior in the ring nor takes a living one out.
RingOfLiving ==
  /\ numalive = Cardinality(living)
  /\ pqinfo \in living
  /\ \A i \in living : /\ next[i] = Successor(i)
                       /\ prev[next[i]] = i

\* The slots a warrior's queue occupies.
Live(i) == head[i] .. head[i] + numprocesses[i] - 1

\* No two warriors that still have processes share a slot of the array,
\* though each queue moves over the slots the next ones started at.
QueuesDisjoint ==
  \A i, j \in living : i # j => Live(i) \cap Live(j) = {}

\* No living warrior is ever more than a turn ahead of another one.
FairTurns ==
  \A i, j \in living : turns(i) - turns(j) \in -1 .. 1

\* Unless the budget wrapped, all turns of a round fit into the array, with
\* the appends of the next turn.
NoOverrun ==
  running /\ ~wrapped =>
    /\ head[pqinfo] < Capacity
    /\ tail[pqinfo] < Capacity
    /\ numprocesses[pqinfo] < MaxProcesses => tail[pqinfo] + 1 < Capacity

\* The rows of results agree with each other: a round that k + 1 warriors
\* survived is counted by k + 1 of them, and every round once per warrior.
ResultsAddUp ==
  /\ \A k \in Warrior :
       MapThenSumSet(LAMBDA i : results[i][k], Warrior) % (k + 1) = 0
  /\ \A i \in Warrior :
       MapThenSumSet(LAMBDA k : results[i][k], 0 .. NumWarriors) = round

\* Whatever is taken off the budget for the dead is taken off the counter:
\* each turn counts as one executed instruction.
executed == IF round = NumRounds THEN insn_counter
                                 ELSE (insn_counter - cycle) % WordSize

CountsTurns ==
  [][executed' = IF round' = round THEN (executed + 1) % WordSize
                                   ELSE executed]_vars

\* "Max. number of cycles before a tie is declared." (Benchmarkingmodule.c,
\* of maxcycles): no warrior has more turns in a round.
NoExtraTurns == \A i \in Warrior : turns(i) <= MaxCycles

\* Two warriors fight as in Fight: warrior w of Fight is number w - 1.
F == INSTANCE Fight WITH
  Opening  <- 1,
  queue    <- [w \in {1, 2} |-> [k \in 1 .. numprocesses[w - 1] |->
                                   pqueue[head[w - 1] + k - 1]]],
  mover    <- pqinfo + 1,
  left     <- IF running THEN cycle ELSE 0,
  executed <- executed,
  score    <- [r \in {"win", "loss", "tie"} |->
                 results[0][IF r = "win" THEN 0 ELSE IF r = "loss" THEN 2
                                                ELSE 1]]

Implements == F!Spec

\* Every call returns.
Returns == <>(round = NumRounds)
=============================================================================
