------------------------------- MODULE Mars88 -------------------------------
(***************************************************************************)
(* A whole fight of run_88 (BenchMARS88.c): the round loop of RunLoop88    *)
(* executes the instructions of Exec88 in the core both warriors share.    *)
(*                                                                         *)
(* The core is cleared and loaded at the start of each round, warrior 1 at *)
(* address 0, warrior 2 at an address that depends on the seed; any of the *)
(* addresses the computation can produce is possible here.                 *)
(***************************************************************************)
EXTENDS RunLoop88

CONSTANTS
  MinDistance,   \* mindistance
  Programs       \* the warriors a fight may be between

VARIABLES
  warriors,      \* warriors[0] and warriors[1], here 1 and 2
  core           \* core

mvars == <<vars, warriors, core>>

E == INSTANCE Exec88

\* get_warrior: 1 <= length <= maxlength <= mindistance, and the start is
\* one of the instructions.
ASSUME ProgramAssumption ==
  /\ MinDistance \in Nat \ {0} /\ 2 * MinDistance <= CoreSize
  /\ \A p \in Programs : /\ Len(p.insns) \in 1 .. MinDistance
                         /\ \A k \in 1 .. Len(p.insns) : p.insns[k] \in E!Insn
                         /\ p.start \in 0 .. Len(p.insns) - 1

----------------------------------------------------------------------------

\* Mutant: space is one too large.
PositionWide == MinDistance .. CoreSize - MinDistance + 1

\* mindistance + seed % space.
Position == MinDistance .. CoreSize - MinDistance

\* memset, and the memcpy of both warriors.
Loaded(p, pos2) ==
  [x \in Address |->
     IF x - pos2 \in 0 .. Len(p[2].insns) - 1 THEN p[2].insns[x - pos2 + 1]
     ELSE IF x < Len(p[1].insns) THEN p[1].insns[x + 1] ELSE E!Blank]

\* The first processes of both warriors, in the slots of their roles.
Started(queue, r, pos2) ==
  <<queue[0], queue[1]>> =
    LET first == [w \in Role |-> warriors[w].start + IF w = 1 THEN 0 ELSE pos2]
    IN  <<first[WarriorOf(1, r)], first[WarriorOf(2, r)]>>

MarsInit ==
  /\ warriors \in [Role -> Programs]
  /\ \E pos2 \in Position : /\ core = Loaded(warriors, pos2)
                            /\ Init
                            /\ Started(pqueue, 0, pos2)

\* The instruction at ip changes the core, and then the queue of its
\* warrior according to its outcome.
Execute(c) ==
  /\ cycle > 0
  /\ copy = c
  /\ ip # NULL
  /\ core' = E!CoreAfter(core, ip)
  /\ LET role == RoleOf(c)
         next == E!Queued(core, ip)
     IN  CASE E!Outcome(core, ip) = "continue" -> Continue(role, next)
           [] E!Outcome(core, ip) = "split"    -> Split(role, next)
           [] E!Outcome(core, ip) = "die"      -> Die(role)
           [] E!Outcome(core, ip) = "lost"     -> Lose
           [] E!Outcome(core, ip) = "invalid"  -> Invalid(role)
  /\ UNCHANGED warriors

NextRound ==
  /\ RoundDone
  /\ IF round' < NumRounds
       THEN \E pos2 \in Position : /\ core' = Loaded(warriors, pos2)
                                   /\ Started(pqueue', round', pos2)
       ELSE UNCHANGED core
  /\ UNCHANGED warriors

MarsNext == NextRound \/ \E c \in 1 .. 4 : Execute(c)

MarsSpec == MarsInit /\ [][MarsNext]_mvars

\* The function is a plain loop: it takes its next step until it returns.
MarsFairSpec == MarsSpec /\ WF_mvars(MarsNext)

----------------------------------------------------------------------------
(* Properties *)

\* Whatever the warriors do to each other, the core stays one of valid
\* instructions with fields inside the core, and the default case of the
\* switch is never reached.
CoreValid ==
  /\ core \in E!Core
  /\ \A x \in Address : core[x].insn \in E!ValidCode
  /\ results[4] = 0

\* Every round starts with both warriors complete and nothing else in the
\* core: they do not overlap, none reaches over the end of the core, and no
\* instruction is left of the round before.
FreshCore ==
  cycle = 2 * MaxCycles =>
    \E pos2 \in Address :
      LET cells(w) == [k \in 1 .. Len(warriors[w].insns) |->
                         k - 1 + IF w = 1 THEN 0 ELSE pos2]
          image(w) == {cells(w)[k] : k \in 1 .. Len(warriors[w].insns)}
      IN  /\ image(2) \subseteq Address
          /\ \A w \in Role : /\ \A k \in 1 .. Len(warriors[w].insns) :
                                  core[cells(w)[k]] = warriors[w].insns[k]
                             /\ pqueue[IF w = WarriorOf(1, round) THEN 0 ELSE 1]
                                  = cells(w)[warriors[w].start + 1]
          /\ \A x \in Address \ (image(1) \cup image(2)) : core[x] = E!Blank

\* "Do nothing. Process queue1 is handled by instruction." (no_queue1): an
\* instruction that jumps there has queued the process, or has taken it off
\* the number of processes.
ProcessHandled ==
  [][cycle > 0 =>
       LET role == RoleOf(copy)
       IN  \/ tail'[role] > tail[role]
           \/ numprocesses'[role] = numprocesses[role] - 1]_mvars
=============================================================================
