------------------------------- MODULE Fight -------------------------------
(***************************************************************************)
(* What every two-warrior run function promises: a sequence of rounds, in  *)
(* each of which the two warriors move in strict alternation, each warrior *)
(* owns a FIFO queue of at most MaxProcesses processes, a process leaves   *)
(* the queue only by dying, and a round ends when a warrior has no process *)
(* left or when each warrior has had MaxCycles turns.                      *)
(*                                                                         *)
(* The promise is the one BenchMARS88.c, BenchMARS94nop.c and              *)
(* OptMARS94nop.c keep with three different layouts of one array of        *)
(* process pointers; the modules RunLoop88 and RunLoopRing implement it.   *)
(*                                                                         *)
(* The instruction a process executes is abstracted to its effect on the   *)
(* queue: continue at some address, split, or die.                         *)
(***************************************************************************)
EXTENDS Integers, Sequences

CONSTANTS
  CoreSize,      \* number of instructions in the core
  MaxProcesses,  \* max. number of processes of a warrior
  MaxCycles,     \* number of turns each warrior has in a round
  NumRounds,     \* number of rounds of the fight
  Opening        \* the warrior that moves first in rounds 0, 2, 4, ...

\* The constants a fight may have.  A hypothesis and not an ASSUME: the
\* modules that implement Fight instantiate it with theirs.
FightAssumption ==
  /\ CoreSize \in Nat \ {0}
  /\ MaxProcesses \in Nat \ {0}
  /\ MaxCycles \in Nat \ {0}
  /\ NumRounds \in Nat \ {0}
  /\ Opening \in {1, 2}

VARIABLES
  queue,     \* queue[w]: the processes of warrior w, next to run first
  mover,     \* warrior whose turn it is
  left,      \* turns left in this round
  executed,  \* instructions executed so far, in all rounds
  round,     \* rounds finished so far
  score      \* rounds won, lost and tied by warrior 1

vars == <<queue, mover, left, executed, round, score>>

Address == 0 .. CoreSize - 1
Warrior == {1, 2}
Result  == {"win", "loss", "tie"}

Opponent(w) == 3 - w

\* The warrior that moves first alternates from round to round.
First(r) == IF r % 2 = 0 THEN Opening ELSE Opponent(Opening)

\* Address of the instruction behind a, in a circular core.
Successor(a) == IF a + 1 = CoreSize THEN 0 ELSE a + 1

----------------------------------------------------------------------------

\* One process per warrior, wherever the warriors were loaded.
Start(q) == \E s \in [Warrior -> Address] : q = [w \in Warrior |-> <<s[w]>>]

Init ==
  /\ Start(queue)
  /\ mover = First(0)
  /\ left = 2 * MaxCycles
  /\ executed = 0
  /\ round = 0
  /\ score = [r \in Result |-> 0]

\* Warrior w is on turn and this turn is counted.
Turn(w) ==
  /\ left > 0
  /\ mover = w
  /\ mover' = Opponent(w)
  /\ executed' = executed + 1
  /\ UNCHANGED <<round, score>>

\* The process at the head goes on at address x.
Continue(w) == \E x \in Address :
  /\ Turn(w)
  /\ queue' = [queue EXCEPT ![w] = Append(Tail(@), x)]
  /\ left' = left - 1

\* The process goes on behind its SPL; a new one starts at x if the warrior
\* may have one more.
Split(w) == \E x \in Address :
  /\ Turn(w)
  /\ LET rest == Append(Tail(queue[w]), Successor(Head(queue[w])))
     IN  queue' = [queue EXCEPT ![w] =
                     IF Len(queue[w]) < MaxProcesses THEN Append(rest, x)
                                                     ELSE rest]
  /\ left' = left - 1

\* The process dies; with the last one the round is over.
Die(w) ==
  /\ Turn(w)
  /\ queue' = [queue EXCEPT ![w] = Tail(@)]
  /\ left' = IF Len(queue[w]) = 1 THEN 0 ELSE left - 1

Verdict == IF Len(queue[1]) = 0 THEN "loss"
           ELSE IF Len(queue[2]) = 0 THEN "win" ELSE "tie"

\* Count the result and, unless this was the last round, start the next one.
EndRound ==
  /\ left = 0
  /\ round < NumRounds
  /\ score' = [score EXCEPT ![Verdict] = @ + 1]
  /\ round' = round + 1
  /\ UNCHANGED executed
  /\ IF round' < NumRounds
       THEN /\ Start(queue')
            /\ mover' = First(round')
            /\ left' = 2 * MaxCycles
       ELSE UNCHANGED <<queue, mover, left>>

Next ==
  \/ \E w \in Warrior : Continue(w) \/ Split(w) \/ Die(w)
  \/ EndRound

Spec == Init /\ [][Next]_vars

----------------------------------------------------------------------------
(* Properties *)

TypeOK ==
  /\ queue \in [Warrior -> Seq(Address)]
  /\ mover \in Warrior
  /\ left \in 0 .. 2 * MaxCycles
  /\ executed \in Nat
  /\ round \in 0 .. NumRounds
  /\ score \in [Result -> Nat]

\* While turns are left both warriors live, so that a fetch always finds a
\* process; a warrior never has more than MaxProcesses of them; and the two
\* warriors never both die, so that every round has one verdict.
LivingFight ==
  /\ \A w \in Warrior : Len(queue[w]) <= MaxProcesses
  /\ left > 0 => \A w \in Warrior : queue[w] # <<>>
  /\ \E w \in Warrior : queue[w] # <<>>

\* Nobody gets an extra turn: with an even number of turns left it is the
\* first mover of the round who is on turn, with an odd number the other.
FairTurns ==
  left > 0 => (mover = First(round) <=> left % 2 = 0)

=============================================================================
