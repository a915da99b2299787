---------------------------- MODULE Positioning ----------------------------
(***************************************************************************)
(* How mw_run_88 finds a place for each warrior before each round:         *)
(* calc_pos tries random positions, with a bounded number of retries and   *)
(* backtracks, and when it gives up calc_pos_backup sorts random offsets,  *)
(* spreads them, and shuffles the result (BenchPositioning.c).             *)
(*                                                                         *)
(* The generator of random numbers is the one of the code, so a behaviour  *)
(* is determined by the arguments and the seed.  The arguments do not      *)
(* change while mw_run_88 runs.  One pass through a loop body is one step. *)
(***************************************************************************)
EXTENDS Integers, FiniteSets

CONSTANTS
  Retries1,  \* RETRIES1, attempts for one position
  Retries2,  \* RETRIES2, number of backtracks
  Behind     \* what may be read behind the end of positions

VARIABLES
  numwarriors, coresize, mindistance,  \* arguments of calc_pos
  seed,      \* *seed
  positions, \* positions[0 .. numwarriors - 1]
  pos,       \* warrior a position is looked for, i in calc_pos_backup
  retries1, retries2,
  phase,     \* loop that is running, "done" while the round is fought
  inside     \* no element behind the end of positions was used

arguments == <<numwarriors, coresize, mindistance>>
pvars == <<arguments, seed, positions, pos, retries1, retries2, phase, inside>>

ASSUME RetriesAssumption ==
  /\ Retries1 \in Nat /\ Retries2 \in Nat
  /\ Behind # {} /\ Behind \subseteq Nat

Index  == 0 .. numwarriors - 1
Others == 1 .. numwarriors - 1

\* 16807 * seed modulo 2^31 - 1, without a product that is too large.
Rng(s) ==
  LET tmp == 16807 * (s % 127773) - 2836 * (s \div 127773)
  IN  IF tmp < 0 THEN tmp + 2147483647 ELSE tmp

\* Two warriors of mindistance instructions do not overlap.
Apart(x, y) == x - y >= mindistance \/ y - x >= mindistance

Space == coresize - 2 * mindistance + 1

\* Free space when mindistance is taken off for each warrior.
SpaceBackup == coresize - numwarriors * mindistance + 1

----------------------------------------------------------------------------
(* calc_pos *)

\* Entry of calc_pos, with the positions of the round before.
Begin ==
  /\ pos' = 1
  /\ retries1' = Retries1
  /\ retries2' = Retries2
  /\ phase' = "calc"

\* Draw a position for warrior pos.  The warriors it overlaps with, but the
\* first, are clashes.
Candidate == mindistance + (Rng(seed) % Space)
Clashes   == {i \in 1 .. pos - 1 : ~Apart(Candidate, positions[i])}

Draw ==
  /\ phase = "calc"
  /\ seed' = Rng(seed)
  /\ positions' = [positions EXCEPT ![pos] = Candidate]
  /\ UNCHANGED <<arguments, inside>>

Place ==
  /\ Draw
  /\ Clashes = {}
  /\ pos' = pos + 1
  /\ phase' = IF pos + 1 < numwarriors THEN "calc" ELSE "done"
  /\ UNCHANGED <<retries1, retries2>>

Retry ==
  /\ Draw
  /\ Clashes # {} /\ retries2 > 0 /\ retries1 > 0
  /\ retries1' = retries1 - 1
  /\ UNCHANGED <<pos, retries2, phase>>

\* Mutant: backtracking is for free.
BacktrackFree ==
  /\ Draw
  /\ Clashes # {} /\ retries2 > 0 /\ retries1 = 0
  /\ \E i \in Clashes : (\A k \in Clashes : i <= k) /\ pos' = i
  /\ retries1' = Retries1
  /\ UNCHANGED <<retries2, phase>>

\* Go back to the first warrior that is in the way.
Backtrack ==
  /\ Draw
  /\ Clashes # {} /\ retries2 > 0 /\ retries1 = 0
  /\ \E i \in Clashes : (\A k \in Clashes : i <= k) /\ pos' = i
  /\ retries2' = retries2 - 1
  /\ retries1' = Retries1
  /\ UNCHANGED phase

\* Return 1: the caller falls back to calc_pos_backup.
GiveUp ==
  /\ Draw
  /\ Clashes # {} /\ retries2 = 0
  /\ pos' = 1
  /\ phase' = "choose"
  /\ UNCHANGED <<retries1, retries2>>

----------------------------------------------------------------------------
(* calc_pos_backup *)

\* The next pass of a loop over all warriors but the first, or the loop to
\* follow.
Advance(following) ==
  IF pos + 1 < numwarriors
    THEN pos' = pos + 1 /\ UNCHANGED phase
    ELSE pos' = 1 /\ phase' = following

\* Mutant: not sorted.
Appended(x) == [positions EXCEPT ![pos] = x]

\* Insert x behind the last of the pos - 1 numbers that is smaller.
Inserted(x) ==
  LET smaller == {j \in 1 .. pos - 1 : positions[j] < x}
      slot == CHOOSE k \in 1 .. pos :
                /\ k - 1 \in smaller \cup {0}
                /\ \A j \in smaller : j < k
  IN  [j \in Index |-> IF j = slot THEN x
                       ELSE IF j \in slot + 1 .. pos THEN positions[j - 1]
                       ELSE positions[j]]

Choose ==
  /\ phase = "choose"
  /\ seed' = Rng(seed)
  /\ positions' = Inserted(Rng(seed) % SpaceBackup)
  /\ Advance("spread")
  /\ UNCHANGED <<arguments, retries1, retries2, inside>>

\* Separate the numbers by mindistance instructions.
Spread ==
  /\ phase = "spread"
  /\ positions' = [i \in Index |-> positions[i] + i * mindistance]
  /\ phase' = "permute"
  /\ UNCHANGED <<arguments, seed, pos, retries1, retries2, inside>>

\* Swap with a "random" element, which may lie behind the end of the array:
\* then a foreign value becomes the position of this warrior.
Permute ==
  /\ phase = "permute"
  /\ seed' = Rng(seed)
  /\ LET j == (Rng(seed) % (numwarriors - 1)) + pos
     IN  IF j < numwarriors
           THEN /\ positions' = [positions EXCEPT ![j] = positions[pos],
                                                  ![pos] = positions[j]]
                /\ UNCHANGED inside
           ELSE /\ \E x \in Behind : positions' = [positions EXCEPT ![pos] = x]
                /\ inside' = FALSE
  /\ Advance("done")
  /\ UNCHANGED <<arguments, retries1, retries2>>

Position == \/ Place \/ Retry \/ Backtrack \/ GiveUp
            \/ Choose \/ Spread \/ Permute

----------------------------------------------------------------------------
(* Properties *)

\* No two warriors overlap, none reaches over the end of the core, and the
\* first is at address 0.
Positioned ==
  /\ positions[0] = 0
  /\ \A i \in Others : positions[i] \in mindistance .. coresize - mindistance
  /\ \A i \in Others, j \in Others : i # j => Apart(positions[i], positions[j])

\* However often calc_pos had to retry and to backtrack, and also when it
\* gave up and the numbers of calc_pos_backup are spread and shuffled, the
\* warriors that fight a round do not overlap, unless the permutation has
\* used an element behind the array.
NoOverlap == phase \in {"permute", "done"} /\ inside => Positioned

\* "Generate a "random" permutation of the positions." (BenchPositioning.c
\* line 133): the shuffle only changes who is where.
Permuted ==
  [][phase = "permute" => {positions'[i] : i \in Others}
                             = {positions[i] : i \in Others}]_pvars
=============================================================================
