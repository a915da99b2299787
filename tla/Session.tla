------------------------------ MODULE Session ------------------------------
(***************************************************************************)
(* A Python program that uses the types MARS_88 and MARS_94nop of          *)
(* Corewar.Benchmarking and MARS_94nop of Corewar.Optimizing: it creates a *)
(* MARS, calls run, p_run and mw_run, and drops it.  The methods check     *)
(* their arguments, load the warriors, hand them to the functions that run *)
(* the fight, and give back what they allocated.                           *)
(*                                                                         *)
(* The three types differ in small ways only; Kind tells them apart.  The  *)
(* rounds themselves are fought by RunLoop88, Mars94, RunLoopRing and      *)
(* MultiRun; here a fought round is one step.  Where the warriors of a     *)
(* round are is the state of Positioning.                                  *)
(***************************************************************************)
EXTENDS Positioning, Sequences

CONSTANTS
  Sizes,     \* arguments a MARS may be created with
  Calls,     \* calls the program may make
  IntRange   \* 2^32

VARIABLES
  mars,      \* the MARS, or NoMars
  pc,        \* what the call in progress does, "idle" without one
  call,      \* its arguments
  loaded,    \* number of warriors in wlist
  round,     \* round that is fought
  numrounds, \* rounds to be fought
  blocks,    \* allocated memory
  fault,     \* what failed since memory was last known to be in order
  fought     \* rounds of p_run: number of fights per position and order

svars == <<mars, pc, call, loaded, round, numrounds, blocks, fault, fought>>
allvars == <<pvars, svars>>

Kind   == {"88", "94", "opt"}
Method == {"run", "p_run", "mw_run"}
NoMars == [kind |-> "none"]
NoCall == [method |-> "none"]

\* A warrior of a call stands for its length, 0 for an object that
\* get_warrior refuses: an attribute is missing or not what it should be,
\* or the start is not one of the instructions.
ASSUME SessionAssumption ==
  /\ IntRange \in Nat \ {0} /\ (IntRange - 1) \div 4 < 1073741824
  /\ \A s \in Sizes : \A x \in {s.coresize, s.maxprocesses, s.maxcycles,
                                 s.mindistance, s.maxlength} :
       x \in -IntRange .. IntRange - 1
  /\ \A c \in Calls : /\ c.method \in Method /\ c.warriors \in Seq(Nat)
                      /\ {c.rounds, c.seed} \subseteq -IntRange .. IntRange - 1

\* PyArg_ParseTupleAndKeywords stores an int in the lower half of a long
\* whose upper half is zero: a negative argument comes out positive.
Long(x) == IF x < 0 THEN x + IntRange ELSE x

\* What a MARS owns.
Owned(m) == IF m = NoMars THEN {}
            ELSE IF m.kind = "opt" THEN {<<"core">>, <<"info">>}
            ELSE {<<"core">>}

\* What one warrior after the other adds to wlist, and what a function that
\* runs fights allocates.
Insns(n)   == {<<"insns", i>> : i \in 1 .. n}
Results    == {<<"results">>}
Temporary  == {<<"pqueue">>} \cup
              IF call.method = "mw_run" THEN {<<"pq_infos">>, <<"positions">>}
              ELSE {}

\* Outside of a call nothing is left of its arguments and local variables.
Locals == <<pvars, call, loaded, round, numrounds, fought>>

Leave ==
  /\ numwarriors' = 0 /\ coresize' = 0 /\ mindistance' = 0
  /\ seed' = 0
  /\ positions' = [i \in {0} |-> 0]
  /\ pos' = 1 /\ retries1' = 0 /\ retries2' = 0
  /\ phase' = "none"
  /\ inside' = TRUE
  /\ call' = NoCall
  /\ loaded' = 0 /\ round' = 0 /\ numrounds' = 0
  /\ fought' = <<>>

----------------------------------------------------------------------------
(* MARS_88_new, MARS_94nop_new and their dealloc *)

SizesChecked(s) ==
  /\ \A x \in {s.coresize, s.maxprocesses, s.maxcycles, s.mindistance,
               s.maxlength} : Long(x) >= 1
  /\ Long(s.maxlength) <= Long(s.mindistance)
  /\ Long(s.coresize) >= 2 * Long(s.mindistance)

\* With a core but without an object the core is lost.
New(kind, s) ==
  /\ pc = "idle" /\ mars = NoMars
  /\ SizesChecked(s)
  /\ LET m == [kind |-> kind, coresize |-> Long(s.coresize),
               maxprocesses |-> Long(s.maxprocesses),
               maxcycles |-> Long(s.maxcycles),
               mindistance |-> Long(s.mindistance),
               maxlength |-> Long(s.maxlength)]
     IN  /\ blocks' = blocks \cup Owned(m)
         /\ \/ mars' = m /\ UNCHANGED fault
            \/ fault' = "object" /\ UNCHANGED mars
  /\ UNCHANGED <<Locals, pc>>

Dealloc ==
  /\ pc = "idle" /\ mars # NoMars
  /\ blocks' = blocks \ Owned(mars)
  /\ mars' = NoMars
  /\ UNCHANGED <<Locals, pc, fault>>

----------------------------------------------------------------------------
(* run, p_run and mw_run *)

\* Mutant: mw_run relies on the check for two warriors.
RoomForTwo(c) ==
  /\ IF c.method = "mw_run" THEN Len(c.warriors) >= 2 ELSE Len(c.warriors) = 2
  /\ c.method # "p_run" => /\ Long(c.rounds) >= 1
                           /\ Long(c.seed) >= mars.mindistance

\* p_run has neither rounds nor seed.
ArgumentsChecked(c) ==
  /\ IF c.method = "mw_run"
       THEN /\ Len(c.warriors) >= 2
            /\ mars.coresize >= Len(c.warriors) * mars.mindistance
       ELSE Len(c.warriors) = 2
  /\ c.method # "p_run" => /\ Long(c.rounds) >= 1
                           /\ Long(c.seed) >= mars.mindistance

\* Check the arguments and allocate wlist.  Whatever an earlier call has
\* not freed is out of reach from here on.
Call(c) ==
  /\ pc = "idle" /\ mars # NoMars
  /\ ArgumentsChecked(c)
  /\ call' = c
  /\ pc' = "load"
  /\ loaded' = 0
  /\ blocks' = Owned(mars) \cup {<<"wlist">>}
  /\ fault' = "none"
  /\ numwarriors' = Len(c.warriors)
  /\ coresize' = mars.coresize
  /\ mindistance' = mars.mindistance
  /\ UNCHANGED <<seed, positions, pos, retries1, retries2, phase, inside,
                 mars, round, numrounds, fought>>

\* get_warrior, once it has found the warrior good.
LoadWarrior ==
  /\ pc = "load" /\ loaded < numwarriors
  /\ call.warriors[loaded + 1] \in 1 .. mars.maxlength
  /\ loaded' = loaded + 1
  /\ blocks' = blocks \cup {<<"insns", loaded + 1>>}
  /\ UNCHANGED <<pvars, mars, pc, call, round, numrounds, fault, fought>>

\* The warrior is refused, or there is no memory for its instructions.  The
\* loop that should free the warriors before frees the one that failed.
LoadFails ==
  /\ pc = "load" /\ loaded < numwarriors
  /\ blocks' = blocks \ {<<"wlist">>, <<"insns", loaded + 1>>}
  /\ fault' = IF loaded > 0 THEN "load" ELSE fault
  /\ pc' = "idle"
  /\ Leave
  /\ UNCHANGED mars

\* The mw_run_94nop of both modules returns NULL, and so does each of the
\* functions without memory.  Their callers use the result all the same.
Crash ==
  /\ pc = "load" /\ loaded = numwarriors
  /\ pc' = "crash"
  /\ UNCHANGED <<pvars, mars, call, loaded, round, numrounds, blocks, fault,
                 fought>>

\* Where the warriors are in round r of run and p_run.
PlaceTwo(x) == /\ positions' = [i \in 0 .. 1 |-> IF i = 0 THEN 0 ELSE x]
               /\ phase' = "done"
               /\ UNCHANGED <<pos, retries1, retries2, inside>>

\* Mutant: each order of the warriors gets every other position.
SetUpHalf(r, s, old) ==
  CASE call.method = "run"    -> /\ PlaceTwo(mindistance + (s % Space))
                                 /\ seed' = Rng(s)
    [] call.method = "p_run"  -> PlaceTwo(mindistance + (r % Space)) /\ seed' = s
    [] call.method = "mw_run" -> /\ Begin
                                 /\ seed' = s
                                 /\ positions' = old
                                 /\ UNCHANGED inside

\* Head of the loop over the rounds.
SetUp(r, s, old) ==
  CASE call.method = "run"    -> /\ PlaceTwo(mindistance + (s % Space))
                                 /\ seed' = Rng(s)
    [] call.method = "p_run"  -> PlaceTwo(mindistance + (r \div 2)) /\ seed' = s
    [] call.method = "mw_run" -> /\ Begin
                                 /\ seed' = s
                                 /\ positions' = old
                                 /\ UNCHANGED inside

\* Entry of run_88, run_94nop, p_run_88, p_run_94nop and mw_run_88.
Start ==
  /\ pc = "load" /\ loaded = numwarriors
  /\ call.method = "mw_run" => mars.kind = "88"
  /\ pc' = "fight"
  /\ blocks' = blocks \cup Results \cup Temporary
  /\ round' = 0
  /\ numrounds' = IF call.method = "p_run" THEN 2 * Space ELSE Long(call.rounds)
  /\ SetUp(0, IF call.method = "p_run" THEN 0 ELSE Long(call.seed) - mindistance,
           [i \in Index |-> 0])
  /\ fought' = [fight \in (mindistance .. coresize - mindistance) \X (1 .. 2) |-> 0]
  /\ UNCHANGED <<arguments, mars, call, loaded, fault>>

\* calc_pos and calc_pos_backup.
PositionWarriors == pc = "fight" /\ Position /\ UNCHANGED svars

\* The warrior that has the first move.
Mover == LET first == IF round % 2 = 0 THEN 1 ELSE 2
         IN  IF mars.kind = "opt" /\ call.method = "p_run" THEN 3 - first
             ELSE first

\* A round is fought, and the next one set up.
FightRound ==
  /\ pc = "fight" /\ phase = "done"
  /\ round' = round + 1
  /\ fought' = IF call.method = "p_run"
                 THEN [fought EXCEPT ![<<positions[1], Mover>>] = @ + 1]
                 ELSE fought
  /\ IF round + 1 < numrounds
       THEN SetUp(round + 1, seed, positions) /\ UNCHANGED <<pc, blocks>>
       ELSE /\ blocks' = blocks \ Temporary
            /\ pc' = "answer"
            /\ UNCHANGED <<seed, positions, pos, retries1, retries2, phase,
                           inside>>
  /\ UNCHANGED <<arguments, mars, call, loaded, numrounds, fault>>

\* Mutant: the way out with an exception forgets the warriors.
AnswerPartly ==
  /\ pc = "answer"
  /\ pc' = "idle"
  /\ \/ blocks' = blocks \ (Results \cup {<<"wlist">>} \cup Insns(loaded))
     \/ blocks' = blocks \ Results
  /\ Leave
  /\ UNCHANGED <<mars, fault>>

\* Build the list of results, or raise an exception, and clean up.
Answer ==
  /\ pc = "answer"
  /\ pc' = "idle"
  /\ blocks' = blocks \ (Results \cup {<<"wlist">>} \cup Insns(loaded))
  /\ Leave
  /\ UNCHANGED <<mars, fault>>

----------------------------------------------------------------------------

Init ==
  /\ numwarriors = 0 /\ coresize = 0 /\ mindistance = 0
  /\ seed = 0
  /\ positions = [i \in {0} |-> 0]
  /\ pos = 1 /\ retries1 = 0 /\ retries2 = 0
  /\ phase = "none"
  /\ inside = TRUE
  /\ call = NoCall
  /\ loaded = 0 /\ round = 0 /\ numrounds = 0
  /\ fought = <<>>
  /\ mars = NoMars
  /\ pc = "idle"
  /\ blocks = {}
  /\ fault = "none"

\* What the extension modules do once they are called.
Work == \/ LoadWarrior \/ LoadFails \/ Crash \/ Start \/ PositionWarriors
        \/ FightRound \/ Answer

Next == \/ \E kind \in Kind, s \in Sizes : New(kind, s)
        \/ Dealloc
        \/ \E c \in Calls : Call(c)
        \/ Work

\* Nothing but memory and the computing of a round stands between a call
\* and its end; what the program calls next is its own business.
Spec == Init /\ [][Next]_allvars /\ WF_allvars(Work)

----------------------------------------------------------------------------
(* Properties *)

\* "Parameters are NOT checked for plausibility!" (run_88, p_run_88 and the
\* others): whatever the program passed, the functions that run fights get
\* only arguments they can work with; the random spaces are not empty, the
\* seed does not wrap below zero, and no warrior is longer than its place.
Plausible ==
  pc = "fight" =>
    /\ Space >= 1
    /\ call.method = "mw_run" => SpaceBackup >= 1
    /\ numwarriors >= 2 /\ numwarriors = Len(call.warriors)
    /\ numrounds >= 1 /\ mars.maxprocesses >= 1 /\ mars.maxcycles >= 1
    /\ seed >= 0
    /\ \A i \in 1 .. numwarriors : call.warriors[i] \in 1 .. mindistance

\* p_run fights at every position the second warrior can have, once with
\* either warrior moving first, and at no other.
AllPositions ==
  pc = "answer" /\ call.method = "p_run" =>
    \A x \in mindistance .. coresize - mindistance, w \in 1 .. 2 :
      fought[<<x, w>>] = 1

\* Between two calls no memory is allocated but that of the MARS, unless a
\* warrior behind the first could not be loaded or no object could be made.
Cleaned == pc = "idle" /\ fault = "none" => blocks = Owned(mars)

\* Every call ends, however often positions have to be drawn again.
Answers == pc = "load" ~> pc \in {"idle", "crash"}
=============================================================================
