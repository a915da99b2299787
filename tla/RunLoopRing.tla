---------------------------- MODULE RunLoopRing ----------------------------
(***************************************************************************)
(* The round loop of run_94nop and p_run_94nop in OptMARS94nop.c, which is *)
(* also the loop of the optimizer's templates.                             *)
(*                                                                         *)
(* Both queues share one ring of 2 * maxprocesses + 2 pointers.  Warrior 1 *)
(* starts at slot 0, warrior 2 half a ring further; each queue has its own *)
(* head and tail, and both wrap at the end of the whole ring, so that in   *)
(* the course of a round the queues chase each other around it.  Nothing   *)
(* checks that a tail stays behind the other warrior's head.               *)
(*                                                                         *)
(* The loop switches to the next warrior before it fetches, so the warrior *)
(* that moves first is the opponent of the one pqinfo is set to.           *)
(***************************************************************************)
EXTENDS Integers, Sequences

CONSTANTS
  CoreSize,      \* coresize
  MaxProcesses,  \* maxprocesses
  MaxCycles,     \* maxcycles
  NumRounds,     \* numrounds
  Opening,       \* first mover of even rounds: 1 in run, 2 in p_run
  Outcomes,      \* outcomes the executed instructions may have
  NULL           \* content of a slot that was never written

ASSUME RingAssumption ==
  /\ CoreSize \in Nat \ {0}
  /\ MaxProcesses \in Nat \ {0}
  /\ MaxCycles \in Nat \ {0}
  /\ NumRounds \in Nat \ {0}
  /\ Opening \in {1, 2}
  /\ Outcomes \subseteq {"continue", "split", "die", "lost"}

ASSUME NullAssumption == NULL \notin 0 .. CoreSize - 1

VARIABLES
  pqueue,        \* the ring
  head,          \* head[w]: slot of the process warrior w runs next
  tail,          \* tail[w]: slot its next process goes to
  numprocesses,  \* numprocesses[w]
  pqinfo,        \* warrior that moved last
  cycle,         \* turns left in this round
  insn_counter,  \* instructions executed, the rest of this round included
  results,       \* wins, losses, ties of warrior 1, insn_counter
  round          \* current round, NumRounds at the end

vars == <<pqueue, head, tail, numprocesses, pqinfo, cycle, insn_counter,
          results, round>>

Address  == 0 .. CoreSize - 1
Warrior  == {1, 2}
\* Mutant: no slot between full queues.
RingSizeTight == 2 * MaxProcesses

RingSize == 2 * MaxProcesses + 2
Slot     == 0 .. RingSize - 1

IpIncMod(a) == IF a + 1 = CoreSize THEN 0 ELSE a + 1

\* The list of two warriors: pqinfo->next.
Other(w) == 3 - w

\* A head or tail one slot further: at pqueue_end it becomes pqueue.
Wrap(i) == IF i + 1 = RingSize THEN 0 ELSE i + 1

\* Mutant: the same warrior moves first in every round.
FirstAlways(r) == Opening

\* The warrior that moves first in round r.
First(r) == IF r % 2 = 0 THEN Opening ELSE Other(Opening)

\* Slot of the first process of a warrior.
Home(w) == IF w = 1 THEN 0 ELSE MaxProcesses + 1

----------------------------------------------------------------------------

Init ==
  /\ \E start \in [Warrior -> Address] :
       pqueue = [i \in Slot |-> IF i = Home(1) THEN start[1]
                                ELSE IF i = Home(2) THEN start[2] ELSE NULL]
  /\ head = [w \in Warrior |-> Home(w)]
  /\ tail = [w \in Warrior |-> Home(w) + 1]
  /\ numprocesses = [w \in Warrior |-> 1]
  /\ pqinfo = Other(First(0))
  /\ cycle = 2 * MaxCycles
  /\ insn_counter = 2 * MaxCycles
  /\ results = [i \in 0 .. 3 |-> 0]
  /\ round = 0

\* Load both warriors and set up their queues for round r.
SetUp(r) ==
  /\ \E start \in [Warrior -> Address] :
       pqueue' = [pqueue EXCEPT ![Home(1)] = start[1], ![Home(2)] = start[2]]
  /\ head' = [w \in Warrior |-> Home(w)]
  /\ tail' = [w \in Warrior |-> Home(w) + 1]
  /\ numprocesses' = [w \in Warrior |-> 1]
  /\ pqinfo' = Other(First(r))
  /\ cycle' = 2 * MaxCycles
  /\ insn_counter' = insn_counter + 2 * MaxCycles

\* The next warrior, w, fetches.  A NULL pointer ends the program.
ip(w) == pqueue[head[w]]

Fetch(w) ==
  /\ cycle > 0
  /\ w = Other(pqinfo)
  /\ ip(w) # NULL
  /\ pqinfo' = w
  /\ head' = [head EXCEPT ![w] = Wrap(@)]
  /\ UNCHANGED <<results, round>>

\* PQUEUE_APPEND: once, and twice.
Append1(w, x) ==
  /\ pqueue' = [pqueue EXCEPT ![tail[w]] = x]
  /\ tail' = [tail EXCEPT ![w] = Wrap(@)]

\* Mutant: the tail moves on by one slot only.
Append2Short(w, x, y) ==
  /\ pqueue' = [pqueue EXCEPT ![tail[w]] = x, ![Wrap(tail[w])] = y]
  /\ tail' = [tail EXCEPT ![w] = Wrap(@)]

Append2(w, x, y) ==
  /\ pqueue' = [pqueue EXCEPT ![tail[w]] = x, ![Wrap(tail[w])] = y]
  /\ tail' = [tail EXCEPT ![w] = Wrap(Wrap(@))]

\* The instruction queues one address: the next one, a later one, or the
\* target of a jump.
Continue(w, x) ==
  /\ "continue" \in Outcomes
  /\ Fetch(w)
  /\ Append1(w, x)
  /\ cycle' = cycle - 1
  /\ UNCHANGED <<numprocesses, insn_counter>>

\* SPL queues the next instruction, then the new process if possible.
Split(w, x) ==
  /\ "split" \in Outcomes
  /\ Fetch(w)
  /\ IF numprocesses[w] < MaxProcesses
       THEN /\ numprocesses' = [numprocesses EXCEPT ![w] = @ + 1]
            /\ Append2(w, IpIncMod(ip(w)), x)
       ELSE /\ Append1(w, IpIncMod(ip(w)))
            /\ UNCHANGED numprocesses
  /\ cycle' = cycle - 1
  /\ UNCHANGED insn_counter

\* Mutant: the round goes on without the warrior that died.
DieGoesOn(w) ==
  /\ "die" \in Outcomes
  /\ Fetch(w)
  /\ numprocesses[w] > 0
  /\ numprocesses' = [numprocesses EXCEPT ![w] = @ - 1]
  /\ cycle' = cycle - 1
  /\ UNCHANGED <<pqueue, tail, insn_counter>>

\* DAT, or a division by zero: the process dies.  With the last process of
\* the warrior the round is over and the unused turns are taken back.
Die(w) ==
  /\ "die" \in Outcomes
  /\ Fetch(w)
  /\ numprocesses' = [numprocesses EXCEPT ![w] = @ - 1]
  /\ IF numprocesses[w] = 1
       THEN /\ insn_counter' = insn_counter - (cycle - 1)
            /\ cycle' = 0
       ELSE /\ UNCHANGED insn_counter
            /\ cycle' = cycle - 1
  /\ UNCHANGED <<pqueue, tail>>

\* The default case prints a message and queues nothing.
Lose(w) ==
  /\ "lost" \in Outcomes
  /\ Fetch(w)
  /\ cycle' = cycle - 1
  /\ UNCHANGED <<pqueue, tail, numprocesses, insn_counter>>

Turn(w) ==
  \/ \E x \in Address : Continue(w, x) \/ Split(w, x)
  \/ Die(w)
  \/ Lose(w)

\* Index into results of the round that just ended.
Verdict == IF numprocesses[1] = 0 THEN 1
           ELSE IF numprocesses[2] = 0 THEN 0 ELSE 2

\* The code behind the do loop, and the head of the for loop.
RoundDone ==
  /\ cycle = 0
  /\ round < NumRounds
  /\ round' = round + 1
  /\ IF round + 1 < NumRounds
       THEN /\ results' = [results EXCEPT ![Verdict] = @ + 1]
            /\ SetUp(round + 1)
       ELSE /\ results' = [results EXCEPT ![Verdict] = @ + 1,
                                         ![3] = insn_counter]
            /\ UNCHANGED <<pqueue, head, tail, numprocesses, pqinfo, cycle,
                           insn_counter>>

Next == RoundDone \/ \E w \in Warrior : Turn(w)

Spec == Init /\ [][Next]_vars

\* The function is a plain loop: it takes its next step until it returns.
FairSpec == Spec /\ WF_vars(Next)

----------------------------------------------------------------------------
(* Properties *)

\* The slot k places behind slot i on the ring, for k < RingSize.
Behind(i, k) == IF i + k < RingSize THEN i + k ELSE i + k - RingSize

\* The slots that hold the processes of warrior w.
Live(w) == {Behind(head[w], k) : k \in 0 .. numprocesses[w] - 1}

TypeOK ==
  /\ pqueue \in [Slot -> Address \cup {NULL}]
  /\ head \in [Warrior -> Slot]
  /\ tail \in [Warrior -> Slot]
  /\ numprocesses \in [Warrior -> 0 .. MaxProcesses]
  /\ pqinfo \in Warrior
  /\ cycle \in 0 .. 2 * MaxCycles
  /\ insn_counter \in Nat
  /\ results \in [0 .. 3 -> Nat]
  /\ round \in 0 .. NumRounds

\* The two queues never share a slot of the ring, however far they have
\* moved around it and however many processes the warriors have: no append
\* of one warrior overwrites a process of the other.
QueuesDisjoint == Live(1) \cap Live(2) = {}

\* Each queue ends where its tail is, all its slots hold addresses, and a
\* warrior on turn has a process to run.
QueuesWhole ==
  /\ \A w \in Warrior : /\ tail[w] = Behind(head[w], numprocesses[w])
                        /\ \A i \in Live(w) : pqueue[i] \in Address
  /\ cycle > 0 => \A w \in Warrior : numprocesses[w] > 0

queueOf(w) == [k \in 1 .. numprocesses[w] |-> pqueue[Behind(head[w], k - 1)]]

\* The abstract state the ring stands for.
queues == [w \in Warrior |-> queueOf(w)]
mover  == Other(pqinfo)
score  == [r \in {"win", "loss", "tie"} |->
             results[IF r = "win" THEN 0 ELSE IF r = "loss" THEN 1 ELSE 2]]

F == INSTANCE Fight WITH
  queue    <- queues,
  left     <- cycle,
  executed <- insn_counter - cycle

\* The shared ring implements two separate FIFO queues, and the loop the
\* alternation, the counting and the verdicts of Fight.
Implements == F!Spec

\* Every call returns.
Returns == <>(round = NumRounds)
=============================================================================
