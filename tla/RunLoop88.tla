----------------------------- MODULE RunLoop88 -----------------------------
(***************************************************************************)
(* The round loop of run_88 and p_run_88 (BenchMARS88.c).                  *)
(*                                                                         *)
(* Both process queues live interleaved in one array that is big enough    *)
(* for a whole round, so nothing ever wraps: the warrior that moves first  *)
(* owns the even slots, the other one the odd slots; a single head walks   *)
(* over all slots, and each of the two tails moves by two.  The array is   *)
(* allocated once and not cleared between rounds, so slots behind the      *)
(* tails hold processes of earlier rounds.                                 *)
(*                                                                         *)
(* The loop body is unrolled four times.  Copies 1 and 3 serve tail1 and   *)
(* numprocesses1, copies 2 and 4 serve tail2 and numprocesses2.  In odd    *)
(* rounds tail1 belongs to the second warrior.                             *)
(*                                                                         *)
(* The instruction at ip is abstracted to its outcome: what the switch     *)
(* does to the queue.  Mars88 composes this loop with the instructions.    *)
(***************************************************************************)
EXTENDS Integers, Sequences

CONSTANTS
  CoreSize,      \* coresize
  MaxProcesses,  \* maxprocesses
  MaxCycles,     \* maxcycles
  NumRounds,     \* numrounds
  Outcomes,      \* outcomes the executed instructions may have
  NULL           \* content of a slot that was never written

\* MARS_88_new and MARS_88_run refuse anything smaller than one.
ASSUME RunAssumption ==
  /\ CoreSize \in Nat \ {0}
  /\ MaxProcesses \in Nat \ {0}
  /\ MaxCycles \in Nat \ {0}
  /\ NumRounds \in Nat \ {0}
  /\ Outcomes \subseteq {"continue", "split", "die", "lost", "invalid"}

ASSUME NullAssumption == NULL \notin 0 .. CoreSize - 1

VARIABLES
  pqueue,        \* the array of process pointers
  head,          \* the only head
  tail,          \* tail[1], tail[2]: tail1 and tail2
  numprocesses,  \* numprocesses[1], numprocesses[2]
  copy,          \* copy of the loop body that runs next
  cycle,         \* turns left in this round
  insn_counter,  \* instructions executed, the rest of this round included
  results,       \* wins, losses, ties of warrior 1, insn_counter, error
  round          \* current round, NumRounds at the end

vars == <<pqueue, head, tail, numprocesses, copy, cycle, insn_counter,
          results, round>>

Address  == 0 .. CoreSize - 1
Role     == {1, 2}

\* Mutant: room for the processes of one warrior only.
CapacityShort == 2 * MaxCycles + MaxProcesses

Capacity == 2 * (MaxCycles + MaxProcesses)

Slot == 0 .. Capacity - 1

\* IPINCMOD: the address behind a.
IpIncMod(a) == IF a + 1 = CoreSize THEN 0 ELSE a + 1

\* The warrior that tail1 and numprocesses1 stand for, and its opponent's.
WarriorOf(role, r) == IF r % 2 = 0 THEN role ELSE 3 - role

\* The tail a copy of the loop body appends to.
RoleOf(c) == IF c \in {1, 3} THEN 1 ELSE 2

----------------------------------------------------------------------------

\* Load both warriors and give each its first process.  start[w] is the
\* address of the first instruction of warrior w.
SetUp(r, start) ==
  /\ pqueue' = [pqueue EXCEPT ![0] = start[WarriorOf(1, r)],
                              ![1] = start[WarriorOf(2, r)]]
  /\ tail' = [role \in Role |-> role + 1]
  /\ numprocesses' = [role \in Role |-> 1]
  /\ head' = 0
  /\ copy' = 1
  /\ cycle' = 2 * MaxCycles
  /\ insn_counter' = insn_counter + 2 * MaxCycles

Init ==
  /\ \E start \in [Role -> Address] :
       pqueue = [i \in Slot |-> IF i < 2 THEN start[i + 1] ELSE NULL]
  /\ tail = [role \in Role |-> role + 1]
  /\ numprocesses = [role \in Role |-> 1]
  /\ head = 0
  /\ copy = 1
  /\ cycle = 2 * MaxCycles
  /\ insn_counter = 2 * MaxCycles
  /\ results = [i \in 0 .. 4 |-> 0]
  /\ round = 0

\* PQ_BI_NEXT and the switch to the next copy of the loop body.  A NULL
\* pointer ends the program.
ip == pqueue[head]

Fetch ==
  /\ cycle > 0
  /\ ip # NULL
  /\ head' = head + 1
  /\ copy' = IF copy = 4 THEN 1 ELSE copy + 1
  /\ UNCHANGED round

\* PQ_BI_APPEND: once, and twice.
Append1(role, x) ==
  /\ pqueue' = [pqueue EXCEPT ![tail[role]] = x]
  /\ tail' = [tail EXCEPT ![role] = @ + 2]

Append2(role, x, y) ==
  /\ pqueue' = [pqueue EXCEPT ![tail[role]] = x, ![tail[role] + 2] = y]
  /\ tail' = [tail EXCEPT ![role] = @ + 4]

\* The instruction queues one address: the next one, the one after it, or
\* the target of a jump.
Continue(role, x) ==
  /\ "continue" \in Outcomes
  /\ Fetch
  /\ Append1(role, x)
  /\ cycle' = cycle - 1
  /\ UNCHANGED <<numprocesses, insn_counter, results>>

\* SPL queues the next instruction, then the new process if possible.
Split(role, x) ==
  /\ "split" \in Outcomes
  /\ Fetch
  /\ IF numprocesses[role] < MaxProcesses
       THEN /\ numprocesses' = [numprocesses EXCEPT ![role] = @ + 1]
            /\ Append2(role, IpIncMod(ip), x)
       ELSE /\ Append1(role, IpIncMod(ip))
            /\ UNCHANGED numprocesses
  /\ cycle' = cycle - 1
  /\ UNCHANGED <<insn_counter, results>>

\* Mutant: the round goes on without the warrior that died.
DieGoesOn(role) ==
  /\ "die" \in Outcomes
  /\ Fetch
  /\ numprocesses[role] > 0
  /\ numprocesses' = [numprocesses EXCEPT ![role] = @ - 1]
  /\ cycle' = cycle - 1
  /\ UNCHANGED <<pqueue, tail, insn_counter, results>>

\* DAT: the process dies.  With the last process of the warrior the round
\* is over, and the turns that will not be executed are taken back.
Die(role) ==
  /\ "die" \in Outcomes
  /\ Fetch
  /\ numprocesses' = [numprocesses EXCEPT ![role] = @ - 1]
  /\ IF numprocesses[role] = 1
       THEN /\ insn_counter' = insn_counter - (cycle - 1)
            /\ cycle' = 0
       ELSE /\ UNCHANGED insn_counter
            /\ cycle' = cycle - 1
  /\ UNCHANGED <<pqueue, tail, results>>

\* A jump to no_queue that queued nothing and let no process die: JMZ with
\* modes predecrement, indirect when its B value is not zero.
Lose ==
  /\ "lost" \in Outcomes
  /\ Fetch
  /\ cycle' = cycle - 1
  /\ UNCHANGED <<pqueue, tail, numprocesses, insn_counter, results>>

\* The default case notes the error, ends the round after this turn, and
\* falls through to the code that queues the next instruction.
Invalid(role) ==
  /\ "invalid" \in Outcomes
  /\ Fetch
  /\ Append1(role, IpIncMod(ip))
  /\ results' = [results EXCEPT ![4] = 1]
  /\ cycle' = 0
  /\ UNCHANGED <<numprocesses, insn_counter>>

\* One pass through a copy of the loop body.
Turn(c) ==
  /\ copy = c
  /\ \/ \E x \in Address : Continue(RoleOf(c), x) \/ Split(RoleOf(c), x)
     \/ Die(RoleOf(c))
     \/ Lose
     \/ Invalid(RoleOf(c))

\* Mutant: the roles are not swapped back in odd rounds.
VerdictOfRoles == IF numprocesses[1] = 0 THEN 1
                  ELSE IF numprocesses[2] = 0 THEN 0 ELSE 2

\* Index into results of the round that just ended: in even rounds the
\* process counters belong to warrior 1 and 2, in odd rounds to 2 and 1.
Verdict ==
  IF round % 2 = 0
    THEN IF numprocesses[1] = 0 THEN 1
         ELSE IF numprocesses[2] = 0 THEN 0 ELSE 2
    ELSE IF numprocesses[1] = 0 THEN 0
         ELSE IF numprocesses[2] = 0 THEN 1 ELSE 2

\* round_done, and the head of the for loop.
RoundDone ==
  /\ cycle = 0
  /\ round < NumRounds
  /\ round' = round + 1
  /\ IF round + 1 < NumRounds
       THEN /\ results' = [results EXCEPT ![Verdict] = @ + 1]
            /\ \E start \in [Role -> Address] : SetUp(round + 1, start)
       ELSE /\ results' = [results EXCEPT ![Verdict] = @ + 1,
                                         ![3] = insn_counter]
            /\ UNCHANGED <<pqueue, head, tail, numprocesses, copy, cycle,
                           insn_counter>>

Next == RoundDone \/ \E c \in 1 .. 4 : Turn(c)

Spec == Init /\ [][Next]_vars

----------------------------------------------------------------------------
(* Properties *)

\* The slot the next turn of a role reads: head, or the one behind it.
NextSlot(role) == IF RoleOf(copy) = role THEN head ELSE head + 1

TypeOK ==
  /\ pqueue \in [Slot -> Address \cup {NULL}]
  /\ head \in 0 .. 2 * MaxCycles
  /\ tail \in [Role -> Nat]
  /\ numprocesses \in [Role -> 0 .. MaxProcesses]
  /\ copy \in 1 .. 4
  /\ cycle \in 0 .. 2 * MaxCycles
  /\ insn_counter \in Nat
  /\ results \in [0 .. 4 -> Nat]
  /\ round \in 0 .. NumRounds

\* Every read and write of a turn stays inside the array of
\* 2 * (maxcycles + maxprocesses) pointers: the head, the first append, and
\* the second append of an SPL that may still start a process.  No append
\* in BenchProcessQueue.h checks this.
NoOverrun ==
  cycle > 0 =>
    LET role == RoleOf(copy)
    IN  /\ head < Capacity
        /\ tail[role] < Capacity
        /\ numprocesses[role] < MaxProcesses => tail[role] + 2 < Capacity

\* The process a turn fetches was queued by the same warrior in this round:
\* its slot lies between the head and the tail of that warrior.  Slots that
\* were never written, or only in an earlier round, are not fetched.
NoStaleFetch ==
  cycle > 0 => /\ head < tail[RoleOf(copy)]
               /\ ip \in Address

\* Each queue holds as many processes as the warrior is said to have, a
\* warrior on turn has one, and not both warriors are dead.
QueuesCounted ==
  /\ \A role \in Role : tail[role] = NextSlot(role) + 2 * numprocesses[role]
  /\ cycle > 0 => \A role \in Role : numprocesses[role] > 0
  /\ \E role \in Role : numprocesses[role] > 0

\* The round the state belongs to: after the last one nothing is set up.
lastRound == IF round = NumRounds THEN round - 1 ELSE round

Queue(role) ==
  [i \in 1 .. numprocesses[role] |-> pqueue[NextSlot(role) + 2 * (i - 1)]]

\* The FIFO queues, the mover and the score that the array stands for.
queues == [w \in Role |-> Queue(WarriorOf(w, lastRound))]
mover  == WarriorOf(RoleOf(copy), lastRound)
score  == [r \in {"win", "loss", "tie"} |->
             results[IF r = "win" THEN 0 ELSE IF r = "loss" THEN 1 ELSE 2]]

F == INSTANCE Fight WITH
  Opening  <- 1,
  queue    <- queues,
  left     <- cycle,
  executed <- insn_counter - cycle

\* The interleaved array, its single head and the role swap of odd rounds
\* implement two separate FIFO queues, strict alternation, the early end of
\* a round, an exact instruction counter and the right winner.
Implements == F!Spec
=============================================================================
