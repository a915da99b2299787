------------------------------- MODULE Mars94 -------------------------------
(***************************************************************************)
(* A whole fight of run_94nop (BenchMARS94nop.c): its round loop executes  *)
(* the instructions of Exec94 in the core both warriors share.             *)
(*                                                                         *)
(* The queues are laid out as in run_88: interleaved in one array that is  *)
(* not cleared between rounds, the first mover of the round in the even    *)
(* slots, with a single head.  But the loop body exists only once; it      *)
(* finds the tail and the process counter through pqinfo, which switches   *)
(* between two structs that belong to the warriors, not to their roles.    *)
(***************************************************************************)
EXTENDS Integers, Sequences

CONSTANTS
  CoreSize,      \* coresize
  MaxProcesses,  \* maxprocesses
  MaxCycles,     \* maxcycles
  NumRounds,     \* numrounds
  MinDistance,   \* mindistance
  Programs,      \* the warriors a fight may be between
  NULL           \* content of a slot that was never written

VARIABLES
  warriors,      \* warriors[0] and warriors[1], here 1 and 2
  core,          \* core
  pqueue,        \* the array of process pointers
  head,          \* the only head
  tail,          \* tail[w] of pq_info1 and pq_info2
  numprocesses,  \* numprocesses[w]
  pqinfo,        \* warrior on turn
  cycle,         \* turns left in this round
  insn_counter,  \* instructions executed, the rest of this round included
  results,       \* wins, losses, ties of warrior 1, insn_counter
  round          \* current round, NumRounds at the end

vars == <<warriors, core, pqueue, head, tail, numprocesses, pqinfo, cycle,
          insn_counter, results, round>>

E == INSTANCE Exec94

Address == 0 .. CoreSize - 1
Warrior == {1, 2}
Other(w) == 3 - w

\* MARS_94nop_new and MARS_94nop_run refuse anything else, and get_warrior
\* loads nothing else.
ASSUME RunAssumption ==
  /\ {CoreSize, MaxProcesses, MaxCycles, NumRounds, MinDistance}
       \subseteq Nat \ {0}
  /\ 2 * MinDistance <= CoreSize
  /\ NULL \notin Address
  /\ \A p \in Programs : /\ Len(p.insns) \in 1 .. MinDistance
                         /\ \A k \in 1 .. Len(p.insns) : p.insns[k] \in E!Insn
                         /\ p.start \in 0 .. Len(p.insns) - 1

\* Mutant: room for the processes of one warrior only.
CapacityShort == 2 * MaxCycles + MaxProcesses

Capacity == 2 * (MaxCycles + MaxProcesses)

\* The warrior that moves first in round r, and the slot a warrior starts at.
First(r)   == IF r % 2 = 0 THEN 1 ELSE 2
Lane(w, r) == IF w = First(r) THEN 0 ELSE 1

\* Mutant: space is one too large.
PositionWide == MinDistance .. CoreSize - MinDistance + 1

\* mindistance + seed % space, whatever the seed is in this round.
Position == MinDistance .. CoreSize - MinDistance

\* memset, and the memcpy of both warriors.
Loaded(p, pos2) ==
  [x \in Address |->
     IF x - pos2 \in 0 .. Len(p[2].insns) - 1 THEN p[2].insns[x - pos2 + 1]
     ELSE IF x < Len(p[1].insns) THEN p[1].insns[x + 1] ELSE E!Blank]

\* The address of the first process of w.
StartOf(w, pos2) == warriors[w].start + IF w = 1 THEN 0 ELSE pos2

----------------------------------------------------------------------------

Init ==
  /\ warriors \in [Warrior -> Programs]
  /\ \E pos2 \in Position :
       /\ core = Loaded(warriors, pos2)
       /\ pqueue = [i \in 0 .. Capacity - 1 |->
                      IF i = 0 THEN StartOf(1, pos2)
                      ELSE IF i = 1 THEN StartOf(2, pos2) ELSE NULL]
  /\ head = 0
  /\ tail = [w \in Warrior |-> 2 + Lane(w, 0)]
  /\ numprocesses = [w \in Warrior |-> 1]
  /\ pqinfo = First(0)
  /\ cycle = 2 * MaxCycles
  /\ insn_counter = 2 * MaxCycles
  /\ results = [i \in 0 .. 3 |-> 0]
  /\ round = 0

\* Clear and load the core, and set up both queues.
SetUp(r) ==
  /\ \E pos2 \in Position :
       /\ core' = Loaded(warriors, pos2)
       /\ pqueue' = [pqueue EXCEPT ![Lane(1, r)] = StartOf(1, pos2),
                                   ![Lane(2, r)] = StartOf(2, pos2)]
  /\ head' = 0
  /\ tail' = [w \in Warrior |-> 2 + Lane(w, r)]
  /\ numprocesses' = [w \in Warrior |-> 1]
  /\ pqinfo' = First(r)
  /\ cycle' = 2 * MaxCycles
  /\ insn_counter' = insn_counter + 2 * MaxCycles

\* PQ_BI_NEXT.  A NULL pointer ends the program.
ip == pqueue[head]

Fetch ==
  /\ cycle > 0
  /\ ip # NULL
  /\ head' = head + 1
  /\ pqinfo' = Other(pqinfo)
  /\ UNCHANGED <<warriors, results, round>>

\* PQ_BI_APPEND, once and twice.
Append1(w, x) ==
  /\ pqueue' = [pqueue EXCEPT ![tail[w]] = x]
  /\ tail' = [tail EXCEPT ![w] = @ + 2]

Append2(w, x, y) ==
  /\ pqueue' = [pqueue EXCEPT ![tail[w]] = x, ![tail[w] + 2] = y]
  /\ tail' = [tail EXCEPT ![w] = @ + 4]

Continue(w, x) ==
  /\ Append1(w, x)
  /\ cycle' = cycle - 1
  /\ UNCHANGED <<numprocesses, insn_counter>>

\* Mutant: the new process is counted but never queued.
SplitDrops(w, x) ==
  /\ numprocesses' = [numprocesses EXCEPT
                        ![w] = IF @ < MaxProcesses THEN @ + 1 ELSE @]
  /\ Append1(w, E!Inc(ip))
  /\ cycle' = cycle - 1
  /\ UNCHANGED insn_counter

Split(w, x) ==
  /\ IF numprocesses[w] < MaxProcesses
       THEN /\ numprocesses' = [numprocesses EXCEPT ![w] = @ + 1]
            /\ Append2(w, E!Inc(ip), x)
       ELSE /\ Append1(w, E!Inc(ip))
            /\ UNCHANGED numprocesses
  /\ cycle' = cycle - 1
  /\ UNCHANGED insn_counter

\* Mutant: the round goes on without the warrior that died.
DieGoesOn(w) ==
  /\ numprocesses[w] > 0
  /\ numprocesses' = [numprocesses EXCEPT ![w] = @ - 1]
  /\ cycle' = cycle - 1
  /\ UNCHANGED <<pqueue, tail, insn_counter>>

Die(w) ==
  /\ numprocesses' = [numprocesses EXCEPT ![w] = @ - 1]
  /\ IF numprocesses[w] = 1
       THEN /\ insn_counter' = insn_counter - (cycle - 1)
            /\ cycle' = 0
       ELSE /\ UNCHANGED insn_counter
            /\ cycle' = cycle - 1
  /\ UNCHANGED <<pqueue, tail>>

\* The default case of the switch queues nothing.
Lose ==
  /\ cycle' = cycle - 1
  /\ UNCHANGED <<pqueue, tail, numprocesses, insn_counter>>

\* One pass through the loop body.
Turn(w) ==
  /\ pqinfo = w
  /\ Fetch
  /\ LET result == E!Bench(core, ip)
     IN  /\ core' = result.core
         /\ CASE result.does = "continue" -> Continue(w, result.next)
              [] result.does = "split"    -> Split(w, result.next)
              [] result.does = "die"      -> Die(w)
              [] result.does = "lost"     -> Lose

\* Index into results of the round that just ended.
Verdict == IF numprocesses[1] = 0 THEN 1
           ELSE IF numprocesses[2] = 0 THEN 0 ELSE 2

\* The code behind the do loop, and the head of the for loop.
RoundDone ==
  /\ cycle = 0
  /\ round < NumRounds
  /\ round' = round + 1
  /\ IF round + 1 < NumRounds
       THEN /\ results' = [results EXCEPT ![Verdict] = @ + 1]
            /\ SetUp(round + 1)
       ELSE /\ results' = [results EXCEPT ![Verdict] = @ + 1,
                                         ![3] = insn_counter]
            /\ UNCHANGED <<core, pqueue, head, tail, numprocesses, pqinfo,
                           cycle, insn_counter>>
  /\ UNCHANGED warriors

Next == RoundDone \/ \E w \in Warrior : Turn(w)

Spec == Init /\ [][Next]_vars

----------------------------------------------------------------------------
(* Properties *)

\* The warriors bring only instructions the switch has cases for.
proper == \A w \in Warrior : \A k \in 1 .. Len(warriors[w].insns) :
            E!op(warriors[w].insns[k]) \in E!Executed

\* Every read and write of a turn stays inside the array, also when the
\* other warrior owns a process that was dropped.
NoOverrun ==
  cycle > 0 =>
    /\ head < Capacity
    /\ tail[pqinfo] < Capacity
    /\ numprocesses[pqinfo] < MaxProcesses => tail[pqinfo] + 2 < Capacity

\* Whatever the warriors do to each other, all fields stay inside the core,
\* and without instructions of P-space in the warriors none ever appears:
\* the default case of the switch is not reached.
CoreValid ==
  /\ core \in E!Core
  /\ proper => \A x \in Address : E!op(core[x]) \in E!Executed

\* Every round starts with both warriors complete and nothing else in the
\* core, each with its process at its start address.
FreshCore ==
  cycle = 2 * MaxCycles =>
    \E pos2 \in Address :
      LET base(w) == IF w = 1 THEN 0 ELSE pos2
          image(w) == base(w) .. base(w) + Len(warriors[w].insns) - 1
      IN  /\ image(1) \cap image(2) = {} /\ image(2) \subseteq Address
          /\ \A w \in Warrior :
               /\ \A x \in image(w) :
                    core[x] = warriors[w].insns[x - base(w) + 1]
               /\ pqueue[IF pqinfo = w THEN 0 ELSE 1]
                    = base(w) + warriors[w].start
          /\ \A x \in Address \ (image(1) \cup image(2)) : core[x] = E!Blank

\* The slot a warrior's next turn reads: head, or the one behind it.
NextSlot(w) == IF pqinfo = w THEN head ELSE head + 1

\* Unless a process was dropped, each queue holds as many processes as its
\* warrior is said to have, and a turn fetches a process its own warrior
\* queued in this round: no slot of an earlier one.
QueuesCounted ==
  proper =>
    /\ \A w \in Warrior : tail[w] = NextSlot(w) + 2 * numprocesses[w]
    /\ cycle > 0 => head < tail[pqinfo] /\ ip \in Address

queues == [w \in Warrior |->
             [i \in 1 .. numprocesses[w] |-> pqueue[NextSlot(w) + 2 * (i - 1)]]]
score  == [r \in {"win", "loss", "tie"} |->
             results[IF r = "win" THEN 0 ELSE IF r = "loss" THEN 1 ELSE 2]]

F == INSTANCE Fight WITH
  Opening  <- 1,
  queue    <- queues,
  mover    <- pqinfo,
  left     <- cycle,
  executed <- insn_counter - cycle

\* A fight of proper warriors is the abstract one: two FIFO queues, strict
\* alternation, the early end of a round, an exact instruction counter and
\* the right winner.
Implements ==
  /\ proper => F!Init
  /\ [][proper => F!Next]_(F!vars)
=============================================================================
