------------------------------ MODULE Exec88 ------------------------------
(***************************************************************************)
(* One instruction of the ICWS '88 machine, as the switch of BenchMARS88.c *)
(* executes it.                                                            *)
(*                                                                         *)
(* The switch has a case for each opcode with each pair of addressing      *)
(* modes, and all of them are the same four steps: evaluate the A operand, *)
(* evaluate the B operand, change the core, queue something.  What differs *)
(* from case to case is how much of an operand is evaluated, and when a    *)
(* field is read, because a predecrement of one operand may change the     *)
(* other operand, or the instruction itself.                               *)
(***************************************************************************)
EXTENDS Integers

CONSTANT CoreSize

ASSUME CoreAssumption == CoreSize \in Nat \ {0}

Address == 0 .. CoreSize - 1

\* DIRECT, IMMEDIATE, INDIRECT, PREDECREMENT
Mode   == {"$", "#", "@", "<"}
Opcode == {"DAT", "MOV", "ADD", "SUB", "JMP", "JMZ", "JMN", "DJN", "CMP",
           "SPL", "SLT"}

\* insn_t.  The field insn is the triple of opcode and modes.
Code == Opcode \X Mode \X Mode
Insn == [insn : Code, a : Address, b : Address]
Core == [Address -> Insn]

op(i) == i.insn[1]
am(i) == i.insn[2]
bm(i) == i.insn[3]

\* What memset leaves in every cell.
Blank == [insn |-> <<"DAT", "$", "$">>, a |-> 0, b |-> 0]

\* The codes the switch has a case for.
Arithmetic == {"MOV", "ADD", "SUB", "CMP", "SLT"}
Jump       == {"JMP", "JMZ", "JMN", "DJN", "SPL"}

ValidCode ==
  Arithmetic \X Mode \X {"$", "@", "<"}
    \cup Jump \X {"$", "@", "<"} \X Mode
    \cup {"DAT"} \X {"#"} \X {"#", "<"}
    \cup {"DAT"} \X {"<"} \X {"#", "<"}
    \cup {Blank.insn}

----------------------------------------------------------------------------
(* BenchMacros.h *)

\* ASSIGNADDR, ADDADDR and ADDMOD; SUBMOD; DECMOD; IPINCMOD.
Plus(x, y)  == IF x + y >= CoreSize THEN x + y - CoreSize ELSE x + y
Minus(x, y) == IF x < y THEN x - y + CoreSize ELSE x - y
\* Mutant: wraps to one address behind the core.
DecWide(x) == IF x = 0 THEN CoreSize ELSE x - 1

Dec(x)      == IF x = 0 THEN CoreSize - 1 ELSE x - 1
IpIncMod(x) == IF x + 1 = CoreSize THEN 0 ELSE x + 1

----------------------------------------------------------------------------

\* The core behind the evaluation of an operand: a predecrement changes the
\* B field of the cell the operand's field refers to.
Evaluated(core, ip, mode, field) ==
  IF mode = "<" THEN [core EXCEPT ![Plus(ip, field)].b = Dec(@)] ELSE core

\* Mutant: an indirect pointer counts from the start of the core.
DenotedAbsolute(core, ip, mode, field) ==
  LET addr == Plus(ip, field)
  IN  IF mode = "#" THEN ip
      ELSE IF mode = "$" THEN addr ELSE core[addr].b

\* The cell an operand denotes, in the core behind its evaluation.  An
\* immediate operand denotes the instruction itself.
Denoted(core, ip, mode, field) ==
  LET addr == Plus(ip, field)
  IN  IF mode = "#" THEN ip
      ELSE IF mode = "$" THEN addr ELSE Plus(addr, core[addr].b)

\* Both operands in turn.  B is evaluated with the field the instruction had
\* before A was (rb_b), and the values of A are read before B is evaluated
\* (ra_b).
coreA(core, ip) == Evaluated(core, ip, am(core[ip]), core[ip].a)
aAddr(core, ip) == Denoted(coreA(core, ip), ip, am(core[ip]), core[ip].a)
ra(core, ip)    == coreA(core, ip)[aAddr(core, ip)]
coreB(core, ip) == Evaluated(coreA(core, ip), ip, bm(core[ip]), core[ip].b)
bAddr(core, ip) == Denoted(coreB(core, ip), ip, bm(core[ip]), core[ip].b)
rb(core, ip)    == coreB(core, ip)[bAddr(core, ip)]

\* An immediate A operand of the arithmetic instructions stands for the A
\* field, which meets the B field of the other operand.
immediate(core, ip) == am(core[ip]) = "#"

Combined(o, x, y) == CASE o = "MOV" -> y
                       [] o = "ADD" -> Plus(x, y)
                       [] o = "SUB" -> Minus(x, y)
                       [] o = "DJN" -> Dec(x)

\* Mutant: ADD and SUB copy the code, too.
WrittenWhole(core, ip) ==
  LET insn == core[ip]
      o    == op(insn)
      a    == ra(core, ip)
      b    == rb(core, ip)
  IN  IF immediate(core, ip) \/ o = "DJN"
        THEN [b EXCEPT !.b = Combined(o, @, insn.a)]
        ELSE [insn |-> a.insn,
              a    |-> Combined(o, b.a, a.a),
              b    |-> Combined(o, b.b, a.b)]

\* The new content of the cell bAddr.
Written(core, ip) ==
  LET insn == core[ip]
      o    == op(insn)
      a    == ra(core, ip)
      b    == rb(core, ip)
  IN  IF immediate(core, ip) \/ o = "DJN"
        THEN [b EXCEPT !.b = Combined(o, @, insn.a)]
        ELSE [insn |-> IF o = "MOV" THEN a.insn ELSE b.insn,
              a    |-> Combined(o, b.a, a.a),
              b    |-> Combined(o, b.b, a.b)]

\* The core behind the instruction.  DAT, JMP and SPL evaluate B only as far
\* as the predecrement goes, and an invalid instruction is not evaluated.
CoreAfter(core, ip) ==
  IF core[ip].insn \notin ValidCode THEN core
  ELSE IF op(core[ip]) \in {"MOV", "ADD", "SUB", "DJN"}
    THEN [coreB(core, ip) EXCEPT ![bAddr(core, ip)] = Written(core, ip)]
    ELSE coreB(core, ip)

\* Mutant: DJN tests the value before the decrement.
JumpsBeforeDec(core, ip) ==
  LET value == rb(core, ip).b
  IN  CASE op(core[ip]) = "JMZ" -> value = 0
        [] op(core[ip]) = "JMN" -> value # 0
        [] op(core[ip]) = "DJN" -> value # 0
        [] OTHER                -> TRUE

\* Whether a conditional jump jumps, and whether CMP and SLT skip.
Jumps(core, ip) ==
  LET value == rb(core, ip).b
  IN  CASE op(core[ip]) = "JMZ" -> value = 0
        [] op(core[ip]) = "JMN" -> value # 0
        [] op(core[ip]) = "DJN" -> Dec(value) # 0
        [] OTHER                -> TRUE

\* Mutant: CMP with an immediate operand compares the A fields.
SkipsOnA(core, ip) ==
  LET insn == core[ip]
      a    == ra(core, ip)
      b    == rb(core, ip)
  IN  CASE op(insn) = "CMP" -> IF immediate(core, ip) THEN insn.a = b.a
                                                      ELSE a = b
        [] op(insn) = "SLT" -> IF immediate(core, ip) THEN insn.a < b.b
                                                      ELSE a.b < b.b
        [] OTHER            -> FALSE

Skips(core, ip) ==
  LET insn == core[ip]
      a    == ra(core, ip)
      b    == rb(core, ip)
  IN  CASE op(insn) = "CMP" -> IF immediate(core, ip) THEN insn.a = b.b
                                                      ELSE a = b
        [] op(insn) = "SLT" -> IF immediate(core, ip) THEN insn.a < b.b
                                                      ELSE a.b < b.b
        [] OTHER            -> FALSE

\* Mutant: every JMZ and DJN that does not jump goes to no_queue.
OutcomeDrops(core, ip) ==
  LET insn == core[ip]
  IN  IF insn.insn \notin ValidCode THEN "invalid"
      ELSE CASE op(insn) = "DAT" -> "die"
             [] op(insn) = "SPL" -> "split"
             [] op(insn) \in {"JMZ", "DJN"} /\ ~Jumps(core, ip) -> "lost"
             [] OTHER            -> "continue"

\* What the instruction does to the queue, see RunLoop88.  A jump that does
\* not jump goes on, except that JMZ <, @ goes to no_queue.
Outcome(core, ip) ==
  LET insn == core[ip]
  IN  IF insn.insn \notin ValidCode THEN "invalid"
      ELSE CASE op(insn) = "DAT" -> "die"
             [] op(insn) = "SPL" -> "split"
             [] insn.insn = <<"JMZ", "<", "@">> /\ ~Jumps(core, ip) -> "lost"
             [] OTHER            -> "continue"

\* The address a "continue" queues, or the second one of a "split".
Queued(core, ip) ==
  IF op(core[ip]) \in Jump /\ Jumps(core, ip) THEN aAddr(core, ip)
  ELSE IF Skips(core, ip) THEN IpIncMod(IpIncMod(ip)) ELSE IpIncMod(ip)
=============================================================================
