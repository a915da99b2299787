----------------------------- MODULE Processes -----------------------------
(***************************************************************************)
(* The two machines side by side: a process runs by the standard of '88 in *)
(* the core of run_88 (Process88), or by the draft of '94 in the core of   *)
(* run_94nop (Process94).                                                  *)
(***************************************************************************)
EXTENDS Process88

CONSTANTS
  Under94,     \* as Under and Backdrop, for the draft of '94
  Backdrop94

VARIABLE standard

pvars == <<vars, standard>>

D == INSTANCE Process94 WITH Under <- Under94, Backdrop <- Backdrop94

\* As ProcessAssumption, for the draft of '94.
ASSUME ProcessAssumption94 ==
  \A insn \in Under94 \cup Backdrop94 : insn \in D!Insn

ProcessesInit ==
  \/ standard = 88 /\ Init
  \/ standard = 94 /\ D!Init

ProcessesNext ==
  \/ standard = 88 /\ Turn /\ UNCHANGED standard
  \/ standard = 94 /\ D!Turn /\ UNCHANGED standard

ProcessesSpec == ProcessesInit /\ [][ProcessesNext]_pvars

----------------------------------------------------------------------------
(* Properties *)

\* Fields and pointers stay in the core, in both machines, and in that of
\* '88 every code stays one the switch has a case for, so that its default
\* case, which ends the round, is not reached from valid programs.
CoresOK == IF standard = 88 THEN CoreOK ELSE D!CoreOK

\* Programs are relocatable in both machines: nothing wraps too early or
\* too late, and no absolute address gets into a field.
AllRelocatable == IF standard = 88 THEN Relocatable ELSE D!Relocatable

\* Properties of the case blocks of BenchMARS88.c, see Process88.
MovThenCmp88 == standard = 88 => MovThenCmp

\* Over a whole run no code comes out of nothing, see Process88.
CodesOnlyCopied88 == [][standard = 88 => CodesCopied]_pvars

\* Properties of BenchMARS94nop.c and OptMARS94nop.c, see Process94.
FastAsSlow94    == standard = 94 => D!FastAsSlow
BenchAsOpt94    == standard = 94 => D!BenchAsOpt
DivThenMod94    == standard = 94 => D!DivThenMod
TestsOpposite94 == standard = 94 => D!TestsOpposite

----------------------------------------------------------------------------

\* The instruction of the draft that does what one of '88 does.
Modifier94(code) ==
  CASE code[1] = "DAT"                             -> "F"
    [] code[1] \in {"MOV", "CMP"}                  -> IF code[2] = "#" THEN "AB" ELSE "I"
    [] code[1] \in {"ADD", "SUB"}                  -> IF code[2] = "#" THEN "AB" ELSE "F"
    [] code[1] = "SLT"                             -> IF code[2] = "#" THEN "AB" ELSE "B"
    [] OTHER                                       -> "B"

Code94(code) ==
  <<IF code[1] = "CMP" THEN "SEQ" ELSE code[1], Modifier94(code),
    code[2], code[3]>>

Core94(c) == [x \in Address |-> [c[x] EXCEPT !.insn = Code94(@)]]

\* The two instructions the machines disagree about: the JMZ that drops its
\* process, and a jump that decrements its own B field and then tests it.
\* run_88 tests it as it is by then, run_94nop as it was before.
disagreed ==
  LET insn == core[ip]
  IN  \/ insn.insn = <<"JMZ", "<", "@">> /\ ~Jumps(core, ip)
      \/ /\ op(insn) \in {"JMZ", "JMN", "DJN"}
         /\ am(insn) = "<" /\ insn.a = 0 /\ bm(insn) = "#"

\* Apart from these, a program of '88 does the same in both machines, when
\* it has the modifiers that fromString gives it.
As88 ==
  standard = 88 /\ ip # -1 /\ ~disagreed =>
    LET result == D!Bench(Core94(core), ip)
    IN  /\ result.core = Core94(CoreAfter(core, ip))
        /\ result.does = Outcome(core, ip)
        /\ result.does \in {"continue", "split"} =>
             result.next = Queued(core, ip)
=============================================================================
