-------------------------- MODULE Processes_proofs --------------------------
(***************************************************************************)
(* Proofs about what the instructions of both machines do, for every core  *)
(* size, every content of the core and every process in it.                *)
(*                                                                         *)
(* That fields, addresses and codes stay good is the invariant of a run,   *)
(* Goes.  All the other properties are about a single instruction in a     *)
(* good core: either its operands are evaluated alike on both sides (in    *)
(* the other file, in a moved core, with another opcode, by the other      *)
(* standard), or the difference is named; then the switch on its opcode    *)
(* follows case by case.  The prover for arithmetic cannot read two of the *)
(* names of the modes, which are hidden behind PreA and PostA.             *)
(***************************************************************************)
EXTENDS Processes, Lemmas

----------------------------------------------------------------------------
(* Addresses, and cores that are moved *)

\* The macros of BenchMacros.h stay inside the core, and count modulo its size.
LEMMA Macros ==
  ASSUME NEW x \in Address, NEW y \in Address
  PROVE  /\ Plus(x, y) \in Address /\ Minus(x, y) \in Address
         /\ Dec(x) \in Address /\ IpIncMod(x) \in Address
         /\ Minus(Plus(x, y), y) = x /\ Plus(Minus(x, y), y) = x
  BY CoreAssumption DEF Address, Plus, Minus, Dec, IpIncMod

\* What is d cells behind both sides of an equation may be left out.
LEMMA Shifted ==
  ASSUME NEW x \in Address, NEW y \in Address, NEW d \in Address
  PROVE  /\ Plus(Plus(x, d), y) = Plus(Plus(x, y), d)
         /\ IpIncMod(Plus(x, d)) = Plus(IpIncMod(x), d)
         /\ Plus(x, d) = Plus(y, d) <=> x = y
  BY CoreAssumption DEF Address, Plus, IpIncMod

\* A moved core has the cells of the core, d cells further.
LEMMA MovedCells ==
  ASSUME NEW S, NEW c \in [Address -> S], NEW d \in Address
  PROVE  /\ Moved(c, d) \in [Address -> S]
         /\ \A x \in Address : Moved(c, d)[Plus(x, d)] = c[x]
<1>1. \A x \in Address : Minus(x, d) \in Address
  BY Macros
<1>2. \A x \in Address : Plus(x, d) \in Address /\ Minus(Plus(x, d), d) = x
  BY Macros
<1> QED
  BY <1>1, <1>2 DEF Moved

\* A core of which one cell is replaced.
Replaced(c, x, v) == [c EXCEPT ![x] = v]

\* A cell may be replaced before the core is moved, or behind.
LEMMA MovedChange ==
  ASSUME NEW S, NEW c \in [Address -> S], NEW d \in Address,
         NEW x \in Address, NEW v
  PROVE  Moved(Replaced(c, x, v), d) = Replaced(Moved(c, d), Plus(x, d), v)
<1> DEFINE there == Moved(c, d)
           new   == [c EXCEPT ![x] = v]
<1>1. ASSUME NEW y \in Address
      PROVE  new[Minus(y, d)] = IF y = Plus(x, d) THEN v ELSE there[y]
  <2>1. Minus(y, d) \in Address /\ Plus(Minus(y, d), d) = y /\ Minus(Plus(x, d), d) = x
    BY Macros
  <2>2. Minus(y, d) = x <=> y = Plus(x, d)
    BY <2>1
  <2> QED
    BY <2>1, <2>2 DEF Moved
<1>2. there = [y \in Address |-> there[y]]
  BY DEF Moved
<1> HIDE DEF there
<1>3. [y \in Address |-> new[Minus(y, d)]] = [there EXCEPT ![Plus(x, d)] = v]
  BY <1>1, <1>2
<1> QED
  BY <1>3 DEF Moved, there, Replaced

----------------------------------------------------------------------------
(* The instructions of '88: they stay inside the core *)

\* A cell, and a core, the switch can execute.
GoodInsn == {insn \in Insn : insn.insn \in ValidCode}
GoodCore == [Address -> GoodInsn]

\* A cell whose fields are changed to other addresses stays a good cell.
LEMMA FieldsChanged ==
  ASSUME NEW insn \in GoodInsn, NEW x \in Address, NEW y \in Address,
         NEW from \in GoodInsn
  PROVE  /\ [insn EXCEPT !.b = x] \in GoodInsn
         /\ [insn |-> from.insn, a |-> x, b |-> y] \in GoodInsn
  BY DEF GoodInsn, Insn, Address

\* The fields of an instruction are addresses.
LEMMA Fields ==
  ASSUME NEW insn \in GoodInsn
  PROVE  insn.a \in Address /\ insn.b \in Address
  BY DEF GoodInsn, Insn, Address

\* Evaluating an operand keeps the core good, and the operand denotes a cell.
LEMMA EvaluatedClosed ==
  ASSUME NEW c \in GoodCore, NEW i \in Address, NEW mode, NEW field \in Address
  PROVE  /\ Evaluated(c, i, mode, field) \in GoodCore
         /\ Denoted(c, i, mode, field) \in Address
<1> DEFINE cell == Plus(i, field)
<1>1. cell \in Address
  BY Macros
<1>2. c[cell] \in GoodInsn /\ c[cell].b \in Address
  BY <1>1, Fields DEF GoodCore
<1>3. Dec(c[cell].b) \in Address /\ Plus(cell, c[cell].b) \in Address
  BY <1>1, <1>2, Macros
<1>4. [c[cell] EXCEPT !.b = Dec(c[cell].b)] \in GoodInsn
  BY <1>2, <1>3, FieldsChanged
<1>5. Evaluated(c, i, mode, field) \in GoodCore
  BY <1>1, <1>4 DEF Evaluated, GoodCore
<1>6. Denoted(c, i, mode, field) \in Address
  BY <1>1, <1>3 DEF Denoted
<1> QED
  BY <1>5, <1>6

\* Both operands in turn.
LEMMA OperandsClosed ==
  ASSUME NEW c \in GoodCore, NEW i \in Address
  PROVE  /\ aAddr(c, i) \in Address /\ ra(c, i) \in GoodInsn
         /\ coreB(c, i) \in GoodCore
         /\ bAddr(c, i) \in Address /\ rb(c, i) \in GoodInsn
<1>1. c[i].a \in Address /\ c[i].b \in Address
  BY Fields DEF GoodCore
<1>2. coreA(c, i) \in GoodCore
  BY <1>1, EvaluatedClosed DEF coreA
<1>3. aAddr(c, i) \in Address
  BY <1>1, <1>2, EvaluatedClosed DEF aAddr
<1>4. coreB(c, i) \in GoodCore
  BY <1>1, <1>2, EvaluatedClosed DEF coreB
<1>5. bAddr(c, i) \in Address
  BY <1>1, <1>4, EvaluatedClosed DEF bAddr
<1>6. ra(c, i) \in GoodInsn /\ rb(c, i) \in GoodInsn
  BY <1>2, <1>3, <1>4, <1>5 DEF ra, rb, GoodCore
<1> QED
  BY <1>3, <1>4, <1>5, <1>6

\* What is written is a good cell.
LEMMA WrittenClosed ==
  ASSUME NEW c \in GoodCore, NEW i \in Address,
         op(c[i]) \in {"MOV", "ADD", "SUB", "DJN"}
  PROVE  Written(c, i) \in GoodInsn
<1> DEFINE o == op(c[i])
           a == ra(c, i)
           b == rb(c, i)
<1>1. a \in GoodInsn /\ b \in GoodInsn
  BY OperandsClosed
<1>2. /\ a.a \in Address /\ a.b \in Address /\ b.a \in Address
      /\ b.b \in Address /\ c[i].a \in Address
  BY <1>1, Fields DEF GoodCore
<1>3. \A x, y \in Address : Combined(o, x, y) \in Address
  BY Macros DEF Combined
<1>4. CASE immediate(c, i) \/ o = "DJN"
  <2>1. Written(c, i) = [b EXCEPT !.b = Combined(o, b.b, c[i].a)]
    BY <1>4 DEF Written
  <2>2. Combined(o, b.b, c[i].a) \in Address
    BY <1>2, <1>3
  <2> QED
    BY <1>1, <1>2, <2>1, <2>2, FieldsChanged
<1>5. CASE ~(immediate(c, i) \/ o = "DJN")
  <2> DEFINE x == Combined(o, b.a, a.a)
             y == Combined(o, b.b, a.b)
             from == IF o = "MOV" THEN a ELSE b
  <2>1. x \in Address /\ y \in Address /\ from \in GoodInsn
    BY <1>1, <1>2, <1>3
  <2>2. Written(c, i) = [insn |-> from.insn, a |-> x, b |-> y]
    BY <1>5 DEF Written
  <2> HIDE DEF x, y, from
  <2> QED
    BY <2>1, <2>2, FieldsChanged
<1> QED
  BY <1>4, <1>5

\* An instruction maps a good core to a good core and queues addresses.
LEMMA InstructionClosed ==
  ASSUME NEW c \in GoodCore, NEW i \in Address
  PROVE  /\ CoreAfter(c, i) \in GoodCore
         /\ Queued(c, i) \in Address
         /\ Outcome(c, i) # "invalid"
<1>1. CoreAfter(c, i) \in GoodCore
  <2>1. CASE op(c[i]) \in {"MOV", "ADD", "SUB", "DJN"}
    <3>1. Written(c, i) \in GoodInsn
      BY <2>1, WrittenClosed
    <3>2. bAddr(c, i) \in Address /\ coreB(c, i) \in GoodCore
      BY OperandsClosed
    <3>3. [coreB(c, i) EXCEPT ![bAddr(c, i)] = Written(c, i)] \in GoodCore
      BY <3>1, <3>2 DEF GoodCore
    <3> QED
      BY <2>1, <3>3 DEF CoreAfter
  <2>2. CASE op(c[i]) \notin {"MOV", "ADD", "SUB", "DJN"}
    BY <2>2, OperandsClosed DEF CoreAfter
  <2> QED
    BY <2>1, <2>2
<1>2. Queued(c, i) \in Address
  <2>1. aAddr(c, i) \in Address
    BY OperandsClosed
  <2>2. IpIncMod(i) \in Address /\ IpIncMod(IpIncMod(i)) \in Address
    BY Macros
  <2> QED
    BY <2>1, <2>2 DEF Queued
<1>3. Outcome(c, i) # "invalid"
  BY DEF Outcome, GoodCore, GoodInsn
<1> QED
  BY <1>1, <1>2, <1>3

\* Processes are what a run of either machine goes on with.
Goes88 == standard = 88 => core \in GoodCore /\ ip \in Address \cup {-1}

\* The first half of the invariant: a turn of '88 keeps a good core.
LEMMA InitGoes88 == ProcessesInit => Goes88
<1> SUFFICES ASSUME standard = 88, Init PROVE core \in GoodCore /\ ip \in Address \cup {-1}
  BY DEF ProcessesInit, Goes88
<1>1. PICK first \in Under, rest \in [Address \ {0} -> Backdrop] :
        core = [x \in Address |-> IF x = 0 THEN first ELSE rest[x]]
  BY DEF Init
<1>2. \A insn \in Under \cup Backdrop : insn \in GoodInsn
  BY ProcessAssumption DEF GoodInsn
<1>3. core \in GoodCore
  BY <1>1, <1>2 DEF GoodCore
<1>4. 0 \in Address
  BY CoreAssumption DEF Address
<1> QED
  BY <1>3, <1>4 DEF Init

\* A turn of run_88 keeps the core good.
LEMMA TurnGoes88 ==
  ASSUME Goes88, standard = 88, Turn
  PROVE  /\ core \in GoodCore /\ ip \in Address
         /\ core' = CoreAfter(core, ip)
         /\ core' \in GoodCore /\ ip' \in Address \cup {-1}
<1>1. core \in GoodCore /\ ip \in Address
  BY DEF Goes88, Turn
<1>2. CoreAfter(core, ip) \in GoodCore /\ Queued(core, ip) \in Address
      /\ IpIncMod(ip) \in Address
  BY <1>1, InstructionClosed, Macros
<1> QED
  BY <1>1, <1>2 DEF Turn

----------------------------------------------------------------------------
(* The instructions of '88: codes are only copied *)

\* Operands change fields, never codes.
LEMMA OperandsKeepCodes ==
  ASSUME NEW c \in GoodCore, NEW i \in Address
  PROVE  \A x \in Address : /\ coreA(c, i)[x].insn = c[x].insn
                            /\ coreB(c, i)[x].insn = c[x].insn
<1>1. ASSUME NEW k \in GoodCore, NEW mode, NEW field \in Address, NEW x \in Address
      PROVE  Evaluated(k, i, mode, field)[x].insn = k[x].insn
  <2>1. Plus(i, field) \in Address /\ k[x] \in Insn
    BY Macros DEF GoodCore, GoodInsn
  <2> QED
    BY <2>1 DEF Evaluated, GoodCore, GoodInsn, Insn
<1>2. c[i].a \in Address /\ c[i].b \in Address
  BY Fields DEF GoodCore
<1>3. coreA(c, i) \in GoodCore
  BY <1>2, EvaluatedClosed DEF coreA
<1> QED
  BY <1>1, <1>2, <1>3 DEF coreA, coreB

\* Nothing but MOV changes a code, and MOV only that of the cell it writes.
LEMMA CodesKept ==
  ASSUME NEW c \in GoodCore, NEW i \in Address, NEW x \in Address,
         CoreAfter(c, i)[x].insn # c[x].insn
  PROVE  /\ op(c[i]) = "MOV" /\ x = bAddr(c, i)
         /\ CoreAfter(c, i)[x].insn = c[aAddr(c, i)].insn
<1> DEFINE a == ra(c, i)
           b == rb(c, i)
<1>1. /\ bAddr(c, i) \in Address /\ aAddr(c, i) \in Address
      /\ coreB(c, i) \in GoodCore /\ b \in GoodInsn
  BY OperandsClosed
<1>2. a.insn = c[aAddr(c, i)].insn /\ b.insn = c[bAddr(c, i)].insn
  BY <1>1, OperandsKeepCodes DEF ra, rb
<1>3. \A y \in Address : coreB(c, i)[y].insn = c[y].insn
  BY OperandsKeepCodes
<1>4. op(c[i]) \in {"MOV", "ADD", "SUB", "DJN"}
      /\ CoreAfter(c, i) = [coreB(c, i) EXCEPT ![bAddr(c, i)] = Written(c, i)]
  BY <1>3 DEF CoreAfter
<1>5. x = bAddr(c, i) /\ CoreAfter(c, i)[x] = Written(c, i)
  BY <1>1, <1>3, <1>4 DEF GoodCore
<1>6. CASE immediate(c, i) \/ op(c[i]) = "DJN"
  <2>1. Written(c, i).insn = b.insn
    BY <1>1, <1>6 DEF Written, GoodInsn, Insn
  <2> QED
    BY <1>2, <1>5, <2>1
<1>7. CASE ~(immediate(c, i) \/ op(c[i]) = "DJN")
  <2>1. Written(c, i).insn = IF op(c[i]) = "MOV" THEN a.insn ELSE b.insn
    BY <1>7 DEF Written
  <2> QED
    BY <1>2, <1>5, <2>1
<1> QED
  BY <1>6, <1>7

\* Over a whole run of run_88 no code comes out of nothing: arithmetic works
\* on fields only, and MOV copies a code from one cell to one other.
THEOREM CodesOnlyComeFromMov == ProcessesSpec => CodesOnlyCopied88
<1>1. Goes88 /\ [ProcessesNext]_pvars => Goes88'
  BY TurnGoes88 DEF ProcessesNext, pvars, vars, Goes88
<1>2. Goes88 /\ [ProcessesNext]_pvars => [standard = 88 => CodesCopied]_pvars
  <2> SUFFICES ASSUME Goes88, standard = 88, Turn, NEW x \in Address,
                      core'[x].insn # core[x].insn
               PROVE  /\ op(core[ip]) = "MOV"
                      /\ \E y \in Address : core'[x].insn = core[y].insn
                      /\ \A y \in Address \ {x} : core'[y].insn = core[y].insn
    BY DEF ProcessesNext, CodesCopied
  <2>1. core \in GoodCore /\ ip \in Address /\ core' = CoreAfter(core, ip)
    BY TurnGoes88
  <2>2. aAddr(core, ip) \in Address
    BY <2>1, OperandsClosed
  <2> QED
    BY <2>1, <2>2, CodesKept
<1> QED
  BY <1>1, <1>2, InitGoes88, PTL DEF ProcessesSpec, CodesOnlyCopied88

----------------------------------------------------------------------------
(* The instructions of '88: programs are relocatable *)

\* An operand in the moved core is the operand, moved.
LEMMA MovedEvaluated ==
  ASSUME NEW c \in GoodCore, NEW i \in Address, NEW mode, NEW field \in Address,
         NEW d \in Address
  PROVE  /\ Evaluated(Moved(c, d), Plus(i, d), mode, field)
              = Moved(Evaluated(c, i, mode, field), d)
         /\ Denoted(Moved(c, d), Plus(i, d), mode, field)
              = Plus(Denoted(c, i, mode, field), d)
<1> DEFINE there == Moved(c, d)
           x     == Plus(i, field)
<1>1. x \in Address /\ Plus(Plus(i, d), field) = Plus(x, d)
  BY Macros, Shifted
<1>2. c \in [Address -> GoodInsn] /\ c[x].b \in Address
  BY <1>1, Fields DEF GoodCore
<1>3. there[Plus(x, d)] = c[x]
  BY <1>1, <1>2, MovedCells
<1>4. Evaluated(there, Plus(i, d), mode, field) = Moved(Evaluated(c, i, mode, field), d)
  <2> DEFINE v == [c[x] EXCEPT !.b = Dec(c[x].b)]
  <2> HIDE DEF x, v
  <2>1. Moved(Replaced(c, x, v), d) = Replaced(Moved(c, d), Plus(x, d), v)
    <3>1. c \in [Address -> GoodInsn] /\ x \in Address
      BY <1>1, <1>2
    <3> QED
      BY <3>1, MovedChange
  <2>2. Evaluated(c, i, mode, field) = IF mode = "<" THEN [c EXCEPT ![x] = v] ELSE c
    BY DEF Evaluated, x, v
  <2>3. Evaluated(there, Plus(i, d), mode, field)
          = IF mode = "<" THEN [there EXCEPT ![Plus(x, d)] = v] ELSE there
    BY <1>1, <1>3 DEF Evaluated, v
  <2> QED
    BY <2>1, <2>2, <2>3 DEF Replaced
<1>5. Denoted(there, Plus(i, d), mode, field) = Plus(Denoted(c, i, mode, field), d)
  <2>1. Plus(Plus(x, d), c[x].b) = Plus(Plus(x, c[x].b), d)
    BY <1>1, <1>2, Shifted
  <2> HIDE DEF x, there
  <2> QED
    BY <1>1, <1>3, <2>1 DEF Denoted, x
<1> QED
  BY <1>4, <1>5

\* So are both operands in turn,
LEMMA MovedOperands ==
  ASSUME NEW c \in GoodCore, NEW i \in Address, NEW d \in Address
  PROVE  LET there == Moved(c, d)
             at    == Plus(i, d)
         IN  /\ there \in GoodCore /\ at \in Address /\ there[at] = c[i]
             /\ aAddr(there, at) = Plus(aAddr(c, i), d)
             /\ ra(there, at) = ra(c, i)
             /\ coreB(there, at) = Moved(coreB(c, i), d)
             /\ bAddr(there, at) = Plus(bAddr(c, i), d)
             /\ rb(there, at) = rb(c, i)
<1> DEFINE there == Moved(c, d)
           at    == Plus(i, d)
<1>1. there \in GoodCore /\ at \in Address /\ there[at] = c[i]
  BY Macros, MovedCells DEF GoodCore
<1>2. c[i].a \in Address /\ c[i].b \in Address
  BY Fields DEF GoodCore
<1>3. coreA(c, i) \in GoodCore
  BY <1>2, EvaluatedClosed DEF coreA
<1>4. /\ aAddr(c, i) \in Address /\ coreB(c, i) \in GoodCore
      /\ bAddr(c, i) \in Address
  BY OperandsClosed
<1>5. coreA(there, at) = Moved(coreA(c, i), d)
  BY <1>1, <1>2, MovedEvaluated DEF coreA
<1>6. aAddr(there, at) = Plus(aAddr(c, i), d)
  BY <1>1, <1>2, <1>3, <1>5, MovedEvaluated DEF aAddr
<1>7. ra(there, at) = ra(c, i)
  <2>1. \A x \in Address : Moved(coreA(c, i), d)[Plus(x, d)] = coreA(c, i)[x]
    BY <1>3, MovedCells DEF GoodCore
  <2> QED
    BY <1>4, <1>5, <1>6, <2>1 DEF ra
<1>8. coreB(there, at) = Moved(coreB(c, i), d)
  BY <1>1, <1>2, <1>3, <1>5, MovedEvaluated DEF coreB
<1>9. bAddr(there, at) = Plus(bAddr(c, i), d)
  BY <1>1, <1>2, <1>4, <1>8, MovedEvaluated DEF bAddr
<1>10. rb(there, at) = rb(c, i)
  <2>1. \A x \in Address : Moved(coreB(c, i), d)[Plus(x, d)] = coreB(c, i)[x]
    BY <1>4, MovedCells DEF GoodCore
  <2> QED
    BY <1>4, <1>8, <1>9, <2>1 DEF rb
<1> QED
  BY <1>1, <1>6, <1>7, <1>8, <1>9, <1>10

\* and the whole instruction.
LEMMA MovedInstruction ==
  ASSUME NEW c \in GoodCore, NEW i \in Address, NEW d \in Address
  PROVE  LET there == Moved(c, d)
             at    == Plus(i, d)
         IN  /\ CoreAfter(there, at) = Moved(CoreAfter(c, i), d)
             /\ Outcome(there, at) = Outcome(c, i)
             /\ Queued(there, at) = Plus(Queued(c, i), d)
<1> DEFINE there == Moved(c, d)
           at    == Plus(i, d)
<1>1. /\ there[at] = c[i]
      /\ aAddr(there, at) = Plus(aAddr(c, i), d) /\ ra(there, at) = ra(c, i)
      /\ coreB(there, at) = Moved(coreB(c, i), d)
      /\ bAddr(there, at) = Plus(bAddr(c, i), d) /\ rb(there, at) = rb(c, i)
  BY MovedOperands
<1>2. coreB(c, i) \in [Address -> GoodInsn] /\ bAddr(c, i) \in Address
  BY OperandsClosed DEF GoodCore
<1> HIDE DEF there, at
<1>3. /\ Written(there, at) = Written(c, i)
      /\ Jumps(there, at) = Jumps(c, i)
      /\ Skips(there, at) = Skips(c, i)
  BY <1>1 DEF Written, Jumps, Skips, immediate
<1>4. CoreAfter(there, at) = Moved(CoreAfter(c, i), d)
  <2> DEFINE before == coreB(c, i)
             x      == bAddr(c, i)
             v      == Written(c, i)
  <2>1. before \in [Address -> GoodInsn] /\ x \in Address
    BY <1>2
  <2> HIDE DEF before, x, v
  <2>2. Moved(Replaced(before, x, v), d) = Replaced(Moved(before, d), Plus(x, d), v)
    BY <2>1, MovedChange
  <2> QED
    BY <1>1, <1>3, <2>2 DEF CoreAfter, Replaced, there, before, x, v
<1>5. Outcome(there, at) = Outcome(c, i)
  BY <1>1, <1>3 DEF Outcome
<1>6. Queued(there, at) = Plus(Queued(c, i), d)
  <2>1. /\ IpIncMod(at) = Plus(IpIncMod(i), d)
        /\ IpIncMod(IpIncMod(at)) = Plus(IpIncMod(IpIncMod(i)), d)
    BY Macros, Shifted DEF at
  <2> QED
    BY <1>1, <1>3, <2>1 DEF Queued
<1> QED
  BY <1>4, <1>5, <1>6 DEF there, at

----------------------------------------------------------------------------
(* The instructions of '88: CMP finds equal what MOV has copied *)

\* An instruction whose operands refer to cells that did not change has the
\* operands it had.
LEMMA SameOperands ==
  ASSUME NEW c \in GoodCore, NEW k, NEW i \in Address,
         am(c[i]) # "<", bm(c[i]) # "<",
         am(k[i]) = am(c[i]), bm(k[i]) = bm(c[i]),
         k[i].a = c[i].a, k[i].b = c[i].b,
         k[Plus(i, c[i].a)].b = c[Plus(i, c[i].a)].b,
         k[Plus(i, c[i].b)].b = c[Plus(i, c[i].b)].b
  PROVE  /\ coreB(k, i) = k /\ coreA(k, i) = k
         /\ aAddr(k, i) = aAddr(c, i) /\ bAddr(k, i) = bAddr(c, i)
<1>1. /\ coreA(k, i) = k /\ coreB(k, i) = k
      /\ coreA(c, i) = c /\ coreB(c, i) = c
  BY DEF coreA, coreB, Evaluated
<1>2. aAddr(k, i) = aAddr(c, i)
  BY <1>1 DEF aAddr, Denoted
<1>3. bAddr(k, i) = bAddr(c, i)
  BY <1>1 DEF bAddr, Denoted
<1> QED
  BY <1>1, <1>2, <1>3

\* A CMP with the operands of a MOV that was just executed skips.
LEMMA CopyComparesEqual ==
  ASSUME core \in GoodCore, ip \in Address, op(core[ip]) = "MOV", detached,
         immediate(core, ip) \/ aAddr(core, ip) # ip
  PROVE  Queued(With("CMP", CoreAfter(core, ip)), ip) = IpIncMod(IpIncMod(ip))
<1> DEFINE x     == bAddr(core, ip)
           y     == aAddr(core, ip)
           after == CoreAfter(core, ip)
           k     == With("CMP", after)
           v     == Written(core, ip)
<1>1. /\ x \in Address /\ y \in Address /\ core[ip] \in Insn
      /\ core[ip].a \in Address /\ core[ip].b \in Address
      /\ am(core[ip]) # "<" /\ bm(core[ip]) # "<"
      /\ x # ip /\ x # y /\ x # Plus(ip, core[ip].a) /\ x # Plus(ip, core[ip].b)
  BY OperandsClosed, Fields DEF GoodCore, GoodInsn, detached
<1>2. coreA(core, ip) = core /\ coreB(core, ip) = core
  BY <1>1 DEF coreA, coreB, Evaluated
<1>3. after = [core EXCEPT ![x] = v]
  BY <1>2 DEF CoreAfter, GoodCore, GoodInsn
<1>4. /\ core \in [Address -> Insn]
      /\ after[ip] = core[ip] /\ after[x] = v
      /\ \A z \in Address : z # x => after[z] = core[z]
      /\ after = [z \in Address |-> after[z]]
  BY <1>1, <1>3 DEF GoodCore, GoodInsn
<1> HIDE DEF x, y, after, v
<1> DEFINE w == <<"CMP", am(core[ip]), bm(core[ip])>>
<1>5. k = [after EXCEPT ![ip] = [after[ip] EXCEPT !.insn = w]]
  BY <1>4 DEF With
<1>6. /\ k[ip] = [core[ip] EXCEPT !.insn = w]
      /\ \A z \in Address : z # ip => k[z] = after[z]
  BY <1>4, <1>5
<1> HIDE DEF k, w
<1>7. /\ k[ip].insn = w /\ k[ip].a = core[ip].a /\ k[ip].b = core[ip].b
      /\ op(k[ip]) = "CMP" /\ am(k[ip]) = am(core[ip]) /\ bm(k[ip]) = bm(core[ip])
  BY <1>1, <1>6 DEF Insn, w, op, am, bm
<1>8. \A z \in Address : z # x => k[z].b = core[z].b
  BY <1>4, <1>6, <1>7
<1>9. /\ coreA(k, ip) = k /\ coreB(k, ip) = k
      /\ aAddr(k, ip) = y /\ bAddr(k, ip) = x
  <2>1. Plus(ip, core[ip].a) \in Address /\ Plus(ip, core[ip].b) \in Address
    BY <1>1, Macros
  <2>2. /\ k[Plus(ip, core[ip].a)].b = core[Plus(ip, core[ip].a)].b
        /\ k[Plus(ip, core[ip].b)].b = core[Plus(ip, core[ip].b)].b
    BY <1>1, <1>8, <2>1
  <2> QED
    BY <1>1, <1>7, <2>2, SameOperands DEF x, y
<1>10. ra(k, ip) = k[y] /\ rb(k, ip) = v
  BY <1>1, <1>4, <1>6, <1>9 DEF ra, rb
<1>11. Skips(k, ip)
  <2>1. CASE immediate(core, ip)
    <3>1. v = [rb(core, ip) EXCEPT !.b = core[ip].a]
      BY <2>1 DEF v, Written, Combined
    <3>2. rb(core, ip) = core[x]
      BY <1>2 DEF rb, x
    <3>3. v.b = core[ip].a
      BY <1>1, <1>4, <3>1, <3>2 DEF Insn
    <3>4. immediate(k, ip)
      BY <1>7, <2>1 DEF immediate
    <3> QED
      BY <1>7, <1>10, <3>3, <3>4 DEF Skips
  <2>2. CASE ~immediate(core, ip)
    <3>1. ra(core, ip) = core[y] /\ core[y] \in Insn
      BY <1>1, <1>2, <1>4 DEF ra, y
    <3>2. v = [insn |-> core[y].insn, a |-> core[y].a, b |-> core[y].b]
      BY <2>2, <3>1 DEF v, Written, Combined
    <3>3. v = core[y]
      BY <3>1, <3>2 DEF Insn
    <3>4. k[y] = core[y]
      BY <1>1, <1>4, <1>6, <2>2 DEF y
    <3>5. ~immediate(k, ip)
      BY <1>7, <2>2 DEF immediate
    <3> QED
      BY <1>7, <1>10, <3>3, <3>4, <3>5 DEF Skips
  <2> QED
    BY <2>1, <2>2
<1> QED
  BY <1>7, <1>11 DEF Queued, Jump, k, after

\* The case blocks of MOV and CMP agree on what the operands are and on what
\* is copied or compared.
THEOREM CopiesCompareEqual == ProcessesSpec => []MovThenCmp88
<1>1. Goes88 /\ [ProcessesNext]_pvars => Goes88'
  BY TurnGoes88 DEF ProcessesNext, pvars, vars, Goes88
<1>2. Goes88 => MovThenCmp88
  BY CopyComparesEqual DEF Goes88, MovThenCmp88, MovThenCmp
<1> QED
  BY <1>1, <1>2, InitGoes88, PTL DEF ProcessesSpec

----------------------------------------------------------------------------
(* The instructions of '94: they stay inside the core *)

\* A cell, a core of such cells, and an operand evaluated in such a core.
Cell94     == [insn : D!Code, a : Address, b : Address]
GoodCore94 == [Address -> Cell94]

Field == {"a", "b"}

Operand94 == [core : GoodCore94, addr : Address, a : Address, b : Address]

\* What may become of an instruction.
GoodResult(r) ==
  /\ r.core \in GoodCore94
  /\ r.does \in {"continue", "split"} => r.next \in Address

\* The instances are about the same core, and count in the same way.
LEMMA SameMacros ==
  /\ D!Core = GoodCore94 /\ D!Address = Address
  /\ \A x, y : D!Plus(x, y) = Plus(x, y) /\ D!Minus(x, y) = Minus(x, y)
  /\ \A x : D!Dec(x) = Dec(x) /\ D!Inc(x) = IpIncMod(x)
<1>1. D!Address = Address
  BY DEF D!Address, Address
<1>2. D!Core = GoodCore94
  BY <1>1 DEF D!Core, D!Insn, GoodCore94, Cell94
<1>3. \A x, y : D!Plus(x, y) = Plus(x, y) /\ D!Minus(x, y) = Minus(x, y)
  BY DEF D!Plus, Plus, D!Minus, Minus
<1>4. \A x : D!Dec(x) = Dec(x) /\ D!Inc(x) = IpIncMod(x)
  BY DEF D!Dec, Dec, D!Inc, IpIncMod
<1> QED
  BY <1>1, <1>2, <1>3, <1>4

\* The macros of BenchMacros.h stay inside the core.
LEMMA MacrosClosed94 ==
  ASSUME NEW x \in Address, NEW y \in Address
  PROVE  /\ D!Plus(x, y) \in Address
         /\ D!Minus(x, y) \in Address
         /\ D!Dec(x) \in Address
         /\ D!Inc(x) \in Address
  BY CoreAssumption DEF Address, D!Plus, D!Minus, D!Dec, D!Inc

\* A cell stays good when a field or the code is replaced.
LEMMA CellFields ==
  ASSUME NEW r \in Cell94, NEW f \in Field, NEW v \in Address
  PROVE  /\ r[f] \in Address
         /\ [r EXCEPT ![f] = v] \in Cell94
         /\ \A s \in Cell94 : [r EXCEPT !.insn = s.insn] \in Cell94
  BY DEF Cell94, Field

\* A core stays good when a cell is replaced.
LEMMA CoreFields ==
  ASSUME NEW c \in GoodCore94, NEW x \in Address
  PROVE  /\ c[x] \in Cell94 /\ c[x].a \in Address /\ c[x].b \in Address
         /\ \A f \in Field : c[x][f] \in Address
         /\ \A r \in Cell94 : [c EXCEPT ![x] = r] \in GoodCore94
<1>1. c[x] \in Cell94
  BY DEF GoodCore94
<1>2. \A f \in Field : c[x][f] \in Address
  BY <1>1, CellFields
<1>3. \A r \in Cell94 : [c EXCEPT ![x] = r] \in GoodCore94
  BY DEF GoodCore94
<1> QED
  BY <1>1, <1>2, <1>3 DEF Field

\* A core stays good when a field of a cell is replaced.
LEMMA FieldChanged ==
  ASSUME NEW c \in GoodCore94, NEW x \in Address, NEW f \in Field,
         NEW v \in Address
  PROVE  [c EXCEPT ![x][f] = v] \in GoodCore94
<1>1. [c[x] EXCEPT ![f] = v] \in Cell94
  BY CoreFields, CellFields
<1>2. [c EXCEPT ![x] = [c[x] EXCEPT ![f] = v]] \in GoodCore94
  BY <1>1, CoreFields
<1> QED
  BY <1>2

\* An operand through a pointer denotes a cell of the core.
LEMMA ThroughClosed ==
  ASSUME NEW c \in GoodCore94, NEW i \in Address, NEW mode,
         NEW field \in Address
  PROVE  D!Through(c, i, mode, field) \in Operand94
<1> DEFINE ptr  == D!Plus(i, field)
           f    == D!Via(mode)
           pre  == IF mode \in {"<", "{"} THEN [c EXCEPT ![ptr][f] = D!Dec(@)] ELSE c
           addr == IF mode = "$" THEN ptr ELSE D!Plus(ptr, pre[ptr][f])
           post == IF mode \in {">", "}"} THEN [pre EXCEPT ![ptr][f] = D!Inc(@)]
                                          ELSE pre
<1>1. ptr \in Address
  BY MacrosClosed94
<1>2. f \in Field
  BY DEF D!Via, Field
<1> HIDE DEF ptr, f
<1>3. pre \in GoodCore94
  <2>1. D!Dec(c[ptr][f]) \in Address
    BY <1>1, <1>2, CoreFields, MacrosClosed94
  <2>2. [c EXCEPT ![ptr][f] = D!Dec(c[ptr][f])] \in GoodCore94
    BY <1>1, <1>2, <2>1, FieldChanged
  <2> QED
    BY <2>2
<1> HIDE DEF pre
<1>4. addr \in Address
  <2>1. D!Plus(ptr, pre[ptr][f]) \in Address
    BY <1>1, <1>2, <1>3, CoreFields, MacrosClosed94
  <2> QED
    BY <1>1, <2>1
<1> HIDE DEF addr
<1>5. post \in GoodCore94
  <2>1. D!Inc(pre[ptr][f]) \in Address
    BY <1>1, <1>2, <1>3, CoreFields, MacrosClosed94
  <2>2. [pre EXCEPT ![ptr][f] = D!Inc(pre[ptr][f])] \in GoodCore94
    BY <1>1, <1>2, <1>3, <2>1, FieldChanged
  <2> QED
    BY <1>3, <2>2
<1> HIDE DEF post
<1>6. pre[addr].a \in Address /\ pre[addr].b \in Address
  BY <1>3, <1>4, CoreFields
<1>7. D!Through(c, i, mode, field) =
        [core |-> post, addr |-> addr, a |-> pre[addr].a, b |-> pre[addr].b]
  BY DEF D!Through, ptr, f, pre, addr, post
<1> QED
  BY <1>4, <1>5, <1>6, <1>7 DEF Operand94

\* So does an immediate one,
LEMMA ImmediateClosed ==
  ASSUME NEW c \in GoodCore94, NEW i \in Address
  PROVE  D!Immediate(c, i) \in Operand94
  BY CoreFields DEF D!Immediate, Operand94

----------------------------------------------------------------------------
(* The instructions of '94: the switch on opcode and modifier *)

\* The core and the address an instruction hands over make a good result.
LEMMA ResultsGood ==
  ASSUME NEW c \in GoodCore94, NEW x \in Address
  PROVE  /\ GoodResult(D!Continues(c, x))
         /\ GoodResult(D!Splits(c, x))
         /\ GoodResult(D!Dies(c))
  BY DEF GoodResult, D!Continues, D!Splits, D!Dies

\* What was read for an operand.
LEMMA OperandFields ==
  ASSUME NEW A \in Operand94
  PROVE  /\ A.core \in GoodCore94 /\ A.addr \in Address
         /\ \A f \in Field : A[f] \in Address
  BY DEF Operand94, Field

\* A modifier selects fields, and pairs them with fields.
LEMMA MeetsFields ==
  ASSUME NEW m \in D!Modifier
  PROVE  /\ DOMAIN D!Meets(m) \subseteq Field
         /\ \A x \in DOMAIN D!Meets(m) : D!Meets(m)[x] \in Field
<1>1. CASE m = "A"
  BY <1>1 DEF D!Meets, Field
<1>2. CASE m = "B"
  BY <1>2 DEF D!Meets, Field
<1>3. CASE m = "AB"
  BY <1>3 DEF D!Meets, Field
<1>4. CASE m = "BA"
  BY <1>4 DEF D!Meets, Field
<1>5. CASE m = "X"
  BY <1>5 DEF D!Meets, Field
<1>6. CASE m \in {"F", "I"}
  BY <1>6 DEF D!Meets, Field
<1> QED
  BY <1>1, <1>2, <1>3, <1>4, <1>5, <1>6 DEF D!Modifier

\* Only addresses are written, and only to fields.
LEMMA WroteClosed ==
  ASSUME NEW B \in Operand94, NEW F \in SUBSET Field, NEW values,
         DOMAIN values = F, \A x \in F : values[x] \in Address
  PROVE  D!Wrote(B, values) \in GoodCore94
<1> DEFINE old  == B.core[B.addr]
           cell == [x \in {"insn", "a", "b"} |->
                      IF x \in DOMAIN values THEN values[x] ELSE old[x]]
<1>1. old \in Cell94 /\ B.core \in GoodCore94 /\ B.addr \in Address
  BY OperandFields, CoreFields
<1>2. cell \in Cell94
  BY <1>1 DEF Cell94, Field
<1>3. D!Wrote(B, values) = [B.core EXCEPT ![B.addr] = cell]
  BY DEF D!Wrote
<1> HIDE DEF cell
<1> QED
  BY <1>1, <1>2, <1>3, CoreFields

\* MOV writes fields, and with modifier I the code, of another cell.
LEMMA MovClosed ==
  ASSUME NEW A \in Operand94, NEW B \in Operand94,
         NEW m \in D!Modifier, NEW i \in Address
  PROVE  GoodResult(D!Mov(A, B, m, i))
<1> DEFINE values == [x \in DOMAIN D!Meets(m) |-> A[D!Meets(m)[x]]]
           moved  == D!Wrote(B, values)
<1>1. moved \in GoodCore94
  <2>1. /\ DOMAIN values \subseteq Field
        /\ \A x \in DOMAIN values : values[x] \in Address
    BY MeetsFields, OperandFields
  <2> HIDE DEF values
  <2> QED
    BY <2>1, WroteClosed
<1>2. B.addr \in Address /\ B.core[A.addr] \in Cell94
  BY OperandFields, CoreFields
<1> HIDE DEF moved
<1>3. [moved EXCEPT ![B.addr].insn = B.core[A.addr].insn] \in GoodCore94
  <2> DEFINE cell == [moved[B.addr] EXCEPT !.insn = B.core[A.addr].insn]
  <2>1. cell \in Cell94
    BY <1>1, <1>2, CoreFields, CellFields DEF Field
  <2>2. [moved EXCEPT ![B.addr] = cell] \in GoodCore94
    BY <1>1, <1>2, <2>1, CoreFields
  <2> QED
    BY <2>2
<1>4. D!Inc(i) \in Address
  BY MacrosClosed94
<1> QED
  BY <1>1, <1>3, <1>4, ResultsGood DEF D!Mov, moved

\* ADD, SUB and MUL combine two fields to one.
LEMMA CombinedClosed ==
  ASSUME NEW A \in Operand94, NEW B \in Operand94,
         NEW m \in D!Modifier, NEW i \in Address
  PROVE  /\ GoodResult(D!Add(A, B, m, i))
         /\ GoodResult(D!Sub(A, B, m, i))
         /\ GoodResult(D!Mul(A, B, m, i))
<1> DEFINE F == DOMAIN D!Meets(m)
<1>1. F \subseteq Field /\ \A x \in F : D!Meets(m)[x] \in Field
  BY MeetsFields
<1>2. \A x \in F : B[x] \in Address /\ A[D!Meets(m)[x]] \in Address
  BY <1>1, OperandFields
<1>3. D!Inc(i) \in Address
  BY MacrosClosed94
<1>4. GoodResult(D!Add(A, B, m, i))
  <2> DEFINE values == [x \in F |-> D!Plus(B[x], A[D!Meets(m)[x]])]
  <2>1. DOMAIN values = F /\ \A x \in F : values[x] \in Address
    BY <1>2, MacrosClosed94
  <2>2. D!Add(A, B, m, i) = D!Continues(D!Wrote(B, values), D!Inc(i))
    BY DEF D!Add
  <2> HIDE DEF values, F
  <2> QED
    BY <1>1, <1>3, <2>1, <2>2, WroteClosed, ResultsGood
<1>5. GoodResult(D!Sub(A, B, m, i))
  <2> DEFINE values == [x \in F |-> D!Minus(B[x], A[D!Meets(m)[x]])]
  <2>1. DOMAIN values = F /\ \A x \in F : values[x] \in Address
    BY <1>2, MacrosClosed94
  <2>2. D!Sub(A, B, m, i) = D!Continues(D!Wrote(B, values), D!Inc(i))
    BY DEF D!Sub
  <2> HIDE DEF values, F
  <2> QED
    BY <1>1, <1>3, <2>1, <2>2, WroteClosed, ResultsGood
<1>6. GoodResult(D!Mul(A, B, m, i))
  <2> DEFINE values == [x \in F |-> (B[x] * A[D!Meets(m)[x]]) % CoreSize]
  <2>1. ASSUME NEW y \in Address, NEW z \in Address
        PROVE  (y * z) % CoreSize \in Address
    <3>1. y * z \in Int /\ CoreSize \in Nat \ {0}
      BY CoreAssumption DEF Address
    <3> QED
      BY <3>1, Quotient DEF Address
  <2>2. DOMAIN values = F /\ \A x \in F : values[x] \in Address
    BY <1>2, <2>1
  <2>3. D!Mul(A, B, m, i) = D!Continues(D!Wrote(B, values), D!Inc(i))
    BY DEF D!Mul
  <2> HIDE DEF values, F
  <2> QED
    BY <1>1, <1>3, <2>2, <2>3, WroteClosed, ResultsGood
<1> QED
  BY <1>4, <1>5, <1>6

\* DIV and MOD write quotients and remainders of the divisors that are not
\* zero, and the process goes on or dies.
LEMMA DividedClosed ==
  ASSUME NEW A \in Operand94, NEW B \in Operand94,
         NEW m \in D!Modifier, NEW i \in Address
  PROVE  /\ GoodResult(D!Div(A, B, m, i))
         /\ GoodResult(D!Modulo(A, B, m, i))
<1> DEFINE F == D!Sound(A, m)
<1>1. F \subseteq Field /\ \A x \in F : D!Meets(m)[x] \in Field
  BY MeetsFields DEF D!Sound
<1>2. \A x \in F : /\ B[x] \in Address /\ A[D!Meets(m)[x]] \in Address
                   /\ A[D!Meets(m)[x]] # 0
  BY <1>1, OperandFields DEF D!Sound
<1>3. ASSUME NEW y \in Address, NEW z \in Address, z # 0
      PROVE  y \div z \in Address /\ y % z \in Address
  <2>1. CoreSize \in Nat /\ y \in 0 .. CoreSize - 1 /\ z \in 1 .. CoreSize - 1
    BY <1>3, CoreAssumption DEF Address
  <2> QED
    BY <2>1, QuotientSmall DEF Address
<1>4. ASSUME NEW after \in GoodCore94
      PROVE  GoodResult(D!Quotients(A, m, after, i))
  BY MacrosClosed94, ResultsGood DEF D!Quotients
<1>5. GoodResult(D!Div(A, B, m, i))
  <2> DEFINE values == [x \in F |-> B[x] \div A[D!Meets(m)[x]]]
  <2>1. DOMAIN values = F /\ \A x \in F : values[x] \in Address
    BY <1>2, <1>3
  <2>2. D!Div(A, B, m, i) = D!Quotients(A, m, D!Wrote(B, values), i)
    BY DEF D!Div
  <2> HIDE DEF values, F
  <2> QED
    BY <1>1, <1>4, <2>1, <2>2, WroteClosed
<1>6. GoodResult(D!Modulo(A, B, m, i))
  <2> DEFINE values == [x \in F |-> B[x] % A[D!Meets(m)[x]]]
  <2>1. DOMAIN values = F /\ \A x \in F : values[x] \in Address
    BY <1>2, <1>3
  <2>2. D!Modulo(A, B, m, i) = D!Quotients(A, m, D!Wrote(B, values), i)
    BY DEF D!Modulo
  <2> HIDE DEF values, F
  <2> QED
    BY <1>1, <1>4, <2>1, <2>2, WroteClosed
<1> QED
  BY <1>5, <1>6

\* The jumps and the skips change nothing but, with DJN, the fields of B.
LEMMA JumpsClosed ==
  ASSUME NEW A \in Operand94, NEW B \in Operand94,
         NEW m \in D!Modifier, NEW i \in Address
  PROVE  /\ \A condition : GoodResult(D!JumpIf(condition, A, B, i))
         /\ \A condition : GoodResult(D!SkipIf(condition, B, i))
         /\ GoodResult(D!Djn(A, B, m, i))
<1>1. /\ A.addr \in Address /\ B.addr \in Address /\ B.core \in GoodCore94
      /\ D!Inc(i) \in Address /\ D!Inc(D!Inc(i)) \in Address
  BY OperandFields, MacrosClosed94
<1>2. \A condition : GoodResult(D!JumpIf(condition, A, B, i))
  BY <1>1, ResultsGood DEF D!JumpIf
<1>3. \A condition : GoodResult(D!SkipIf(condition, B, i))
  BY <1>1, ResultsGood DEF D!SkipIf
<1>4. GoodResult(D!Djn(A, B, m, i))
  <2> DEFINE F    == D!Tested(m)
             less == [x \in F |-> D!Dec(B.core[B.addr][x])]
             jump == \E x \in F : B[x] # 1
             written == D!Wrote(B, less)
  <2>1. F \subseteq Field
    BY MeetsFields DEF D!Tested
  <2>2. DOMAIN less = F /\ \A x \in F : less[x] \in Address
    BY <1>1, <2>1, CoreFields, MacrosClosed94
  <2> HIDE DEF less, F
  <2>3. written \in GoodCore94
    BY <2>1, <2>2, WroteClosed
  <2> HIDE DEF written
  <2>4. D!Djn(A, B, m, i)
          = D!Continues(written, IF jump THEN A.addr ELSE D!Inc(i))
    BY DEF D!Djn, D!JumpIf, Operand94, less, F, written
  <2> HIDE DEF jump
  <2> QED
    BY <1>1, <2>3, <2>4, ResultsGood
<1> QED
  BY <1>2, <1>3, <1>4

\* The whole switch.
LEMMA SwitchClosed ==
  ASSUME NEW A \in Operand94, NEW B \in Operand94,
         NEW insn \in Cell94, NEW i \in Address
  PROVE  GoodResult(D!Switch(A, B, insn, i))
<1> DEFINE o == D!op(insn)
           m == D!mod(insn)
<1>1. m \in D!Modifier /\ o \in D!Opcode
  BY DEF Cell94, D!Code, D!op, D!mod
<1>2. /\ A.addr \in Address /\ B.core \in GoodCore94
      /\ D!Inc(i) \in Address
  BY OperandFields, MacrosClosed94
<1> HIDE DEF m
<1>3. CASE o \in {"MOV", "ADD", "SUB", "MUL", "DIV", "MOD"}
  <2>1. /\ GoodResult(D!Mov(A, B, m, i)) /\ GoodResult(D!Add(A, B, m, i))
        /\ GoodResult(D!Sub(A, B, m, i)) /\ GoodResult(D!Mul(A, B, m, i))
        /\ GoodResult(D!Div(A, B, m, i))
        /\ GoodResult(D!Modulo(A, B, m, i))
    BY <1>1, MovClosed, CombinedClosed, DividedClosed
  <2> QED
    BY <1>3, <2>1 DEF D!Switch, m
<1>4. CASE o \in {"JMZ", "JMN", "DJN"}
  <2>1. /\ GoodResult(D!Jmz(A, B, m, i)) /\ GoodResult(D!Jmn(A, B, m, i))
        /\ GoodResult(D!Djn(A, B, m, i))
    BY <1>1, JumpsClosed DEF D!Jmz, D!Jmn
  <2> QED
    BY <1>4, <2>1 DEF D!Switch, m
<1>5. CASE o \in {"SEQ", "SNE", "SLT"}
  <2>1. /\ GoodResult(D!SkipIf(D!Equal(A, B, m), B, i))
        /\ GoodResult(D!SkipIf(~D!Equal(A, B, m), B, i))
        /\ GoodResult(D!Slt(A, B, m, i))
    BY <1>1, JumpsClosed DEF D!Slt
  <2> QED
    BY <1>5, <2>1 DEF D!Switch, m
<1>6. CASE o \in {"DAT", "SPL", "JMP", "NOP"}
  <2>1. /\ GoodResult(D!Dies(B.core))
        /\ GoodResult(D!Splits(B.core, A.addr))
        /\ GoodResult(D!Continues(B.core, A.addr))
        /\ GoodResult(D!Continues(B.core, D!Inc(i)))
    BY <1>2, ResultsGood
  <2> QED
    BY <1>6, <2>1 DEF D!Switch
<1>7. CASE o \in {"LDP", "STP"}
  <2>1. D!Switch(A, B, insn, i) = D!Vanishes(B.core)
    BY <1>7 DEF D!Switch
  <2> QED
    BY <1>2, <2>1 DEF GoodResult, D!Vanishes
<1> QED
  BY <1>1, <1>3, <1>4, <1>5, <1>6, <1>7 DEF D!Opcode, D!Executed

\* Both operands, evaluated in turn.
LEMMA OptOperandsClosed ==
  ASSUME NEW c \in GoodCore94, NEW i \in Address
  PROVE  D!OptA(c, i) \in Operand94 /\ D!OptB(c, i) \in Operand94
<1> DEFINE A == D!OptA(c, i)
<1>1. c[i].a \in Address /\ c[i].b \in Address
  BY CoreFields
<1>2. /\ D!Immediate(c, i) \in Operand94
      /\ \A mode : D!Through(c, i, mode, c[i].a) \in Operand94
  BY <1>1, ImmediateClosed, ThroughClosed
<1>3. A \in Operand94
  BY <1>2 DEF D!OptA
<1>4. A.core \in GoodCore94
  BY <1>3 DEF Operand94
<1> HIDE DEF A
<1>5. \A mode : D!Through(A.core, i, mode, c[i].b) \in Operand94
  BY <1>1, <1>4, ThroughClosed
<1>6. [D!Immediate(c, i) EXCEPT !.core = A.core] \in Operand94
  BY <1>2, <1>4 DEF Operand94
<1> QED
  BY <1>3, <1>5, <1>6 DEF D!OptB, A

\* Any instruction.
LEMMA SlowClosed ==
  ASSUME NEW c \in GoodCore94, NEW i \in Address
  PROVE  GoodResult(D!OptSlow(c, i))
<1>1. c[i] \in Cell94
  BY CoreFields
<1> QED
  BY <1>1, OptOperandsClosed, SwitchClosed DEF D!OptSlow

----------------------------------------------------------------------------
(* The instructions of '94: the 64 cases of BenchMARS94nop.c for pairs of  *)
(* modes and the two switches of OptMARS94nop.c                            *)

\* A_PREDECREMENT and A_POSTINCREMENT.
PreA  == "{"
PostA == "}"

\* The modes, without the two names no prover can read.
LEMMA ModeNames ==
  /\ D!Mode = {"$", "#", "@", "<", ">", "*", PreA, PostA}
  /\ PreA # PostA
  /\ \A mode \in {"$", "#", "@", "<", ">", "*"} : mode # PreA /\ mode # PostA
  BY Zenon DEF D!Mode, PreA, PostA

\* An operand at addr, whose values were read in the core before.
Read(now, before, addr) ==
  [core |-> now, addr |-> addr, a |-> before[addr].a, b |-> before[addr].b]

\* What evaluates the seven modes that are not immediate.
LEMMA ThroughIs ==
  ASSUME NEW c, NEW i, NEW field
  PROVE  LET x == D!Plus(i, field)
         IN  /\ D!Through(c, i, "$", field) = Read(c, c, x)
             /\ D!Through(c, i, "@", field) = Read(c, c, D!at(c, x, "b"))
             /\ D!Through(c, i, "*", field) = Read(c, c, D!at(c, x, "a"))
             /\ D!Through(c, i, "<", field)
                  = Read(D!Drop(c, x, "b"), D!Drop(c, x, "b"),
                         D!at(D!Drop(c, x, "b"), x, "b"))
             /\ D!Through(c, i, PreA, field)
                  = Read(D!Drop(c, x, "a"), D!Drop(c, x, "a"),
                         D!at(D!Drop(c, x, "a"), x, "a"))
             /\ D!Through(c, i, ">", field)
                  = Read(D!Bump(c, x, "b"), c, D!at(c, x, "b"))
             /\ D!Through(c, i, PostA, field)
                  = Read(D!Bump(c, x, "a"), c, D!at(c, x, "a"))
<1> DEFINE x == D!Plus(i, field)
<1>1. D!Through(c, i, "$", field) = Read(c, c, x)
  BY DEF D!Through, D!Via, Read
<1>2. D!Through(c, i, "@", field) = Read(c, c, D!at(c, x, "b"))
  BY DEF D!Through, D!Via, D!at, Read
<1>3. D!Through(c, i, "*", field) = Read(c, c, D!at(c, x, "a"))
  BY DEF D!Through, D!Via, D!at, Read
<1>4. D!Through(c, i, "<", field)
        = Read(D!Drop(c, x, "b"), D!Drop(c, x, "b"), D!at(D!Drop(c, x, "b"), x, "b"))
  BY DEF D!Through, D!Via, D!at, D!Drop, Read
<1>5. D!Through(c, i, PreA, field)
        = Read(D!Drop(c, x, "a"), D!Drop(c, x, "a"), D!at(D!Drop(c, x, "a"), x, "a"))
  BY Zenon DEF PreA, D!Through, D!Via, D!at, D!Drop, Read
<1>6. D!Through(c, i, ">", field) = Read(D!Bump(c, x, "b"), c, D!at(c, x, "b"))
  BY DEF D!Through, D!Via, D!at, D!Bump, Read
<1>7. D!Through(c, i, PostA, field) = Read(D!Bump(c, x, "a"), c, D!at(c, x, "a"))
  BY Zenon DEF PostA, D!Through, D!Via, D!at, D!Bump, Read
<1> QED
  BY <1>1, <1>2, <1>3, <1>4, <1>5, <1>6, <1>7

\* A pointer that is incremented or decremented stays an address, and
\* changes nothing but its own field of its own cell.
LEMMA PointerChanged ==
  ASSUME NEW c \in GoodCore94, NEW x \in Address
  PROVE  /\ \A f \in Field : /\ D!Bump(c, x, f) \in GoodCore94
                             /\ D!Drop(c, x, f) \in GoodCore94
                             /\ D!at(c, x, f) \in Address
         /\ \A y \in Address :
              /\ D!Bump(c, x, "a")[y].b = c[y].b /\ D!Bump(c, x, "b")[y].a = c[y].a
              /\ D!Drop(c, x, "a")[y].b = c[y].b /\ D!Drop(c, x, "b")[y].a = c[y].a
              /\ \A f \in Field : /\ D!Bump(c, x, f)[y].insn = c[y].insn
                                  /\ D!Drop(c, x, f)[y].insn = c[y].insn
<1>1. ASSUME NEW f \in Field
      PROVE  /\ D!Bump(c, x, f) \in GoodCore94
             /\ D!Drop(c, x, f) \in GoodCore94
             /\ D!at(c, x, f) \in Address
  <2>1. c[x][f] \in Address
    BY CoreFields
  <2>2. D!Inc(c[x][f]) \in Address /\ D!Dec(c[x][f]) \in Address
        /\ D!Plus(x, c[x][f]) \in Address
    BY <2>1, MacrosClosed94
  <2> QED
    BY <2>2, FieldChanged DEF D!Bump, D!Drop, D!at
<1>2. ASSUME NEW y \in Address
      PROVE  /\ D!Bump(c, x, "a")[y].b = c[y].b /\ D!Bump(c, x, "b")[y].a = c[y].a
             /\ D!Drop(c, x, "a")[y].b = c[y].b /\ D!Drop(c, x, "b")[y].a = c[y].a
             /\ \A f \in Field : /\ D!Bump(c, x, f)[y].insn = c[y].insn
                                 /\ D!Drop(c, x, f)[y].insn = c[y].insn
  BY DEF D!Bump, D!Drop, GoodCore94, Cell94, Field
<1> QED
  BY <1>1, <1>2

\* No mode of an operand changes more than one of the two fields of a cell.
LEMMA ThroughChanges ==
  ASSUME NEW c \in GoodCore94, NEW i \in Address, NEW field \in Address,
         NEW y \in Address
  PROVE  /\ \A mode \in {"$", "@", "*"} : D!Through(c, i, mode, field).core = c
         /\ \A mode \in {"<", ">"} : D!Through(c, i, mode, field).core[y].a = c[y].a
         /\ \A mode \in {PreA, PostA} : D!Through(c, i, mode, field).core[y].b = c[y].b
<1> DEFINE x == D!Plus(i, field)
<1>1. x \in Address
  BY MacrosClosed94
<1> HIDE DEF x
<1>2. \A mode \in {"$", "@", "*"} : D!Through(c, i, mode, field).core = c
  <2>1. /\ D!Through(c, i, "$", field).core = c
        /\ D!Through(c, i, "@", field).core = c
        /\ D!Through(c, i, "*", field).core = c
    BY ThroughIs DEF Read
  <2> QED
    BY <2>1
<1>3. \A mode \in {"<", ">"} : D!Through(c, i, mode, field).core[y].a = c[y].a
  <2>1. /\ D!Through(c, i, "<", field).core = D!Drop(c, x, "b")
        /\ D!Through(c, i, ">", field).core = D!Bump(c, x, "b")
    BY ThroughIs DEF Read, x
  <2> QED
    BY <1>1, <2>1, PointerChanged
<1>4. \A mode \in {PreA, PostA} : D!Through(c, i, mode, field).core[y].b = c[y].b
  <2>1. /\ D!Through(c, i, PreA, field).core = D!Drop(c, x, "a")
        /\ D!Through(c, i, PostA, field).core = D!Bump(c, x, "a")
    BY ThroughIs DEF Read, x
  <2> QED
    BY <1>1, <2>1, PointerChanged
<1> QED
  BY <1>2, <1>3, <1>4

\* Both files evaluate the operands of every instruction alike.
LEMMA SameOperands94 ==
  ASSUME NEW c \in GoodCore94, NEW i \in Address
  PROVE  D!BenchOperands(c, i) = <<D!OptA(c, i), D!OptB(c, i)>>
<1> DEFINE m == D!am(c[i])
           n == D!bm(c[i])
           T == D!Through(c, i, m, c[i].a)
<1>1. m \in D!Mode /\ c[i].a \in Address /\ c[i].b \in Address
  <2>1. c[i] \in Cell94
    BY CoreFields
  <2>2. m \in D!Mode
    BY <2>1 DEF Cell94, D!Code, D!am
  <2> QED
    BY <2>2, CoreFields
<1> HIDE DEF m, n
<1>2. CASE m = "#"
  <2>1. D!BenchOperands(c, i) = <<D!Immediate(c, i), D!Live(D!Immediate(c, i), i, n)>>
    BY <1>2 DEF D!BenchOperands, D!ImmediateA, m, n
  <2>2. D!OptA(c, i) = D!Immediate(c, i) /\ D!Immediate(c, i).core = c
    BY <1>2 DEF D!OptA, D!Immediate, m
  <2>3. D!Live(D!Immediate(c, i), i, n) = D!OptB(c, i)
    BY <2>2 DEF D!Live, D!OptB, D!Immediate, n
  <2> QED
    BY <2>1, <2>2, <2>3
<1>3. CASE m # "#"
  <2>1. D!OptA(c, i) = T
    BY <1>3 DEF D!OptA, m
  <2>2. /\ m \in {"$", "@", "*"} => T.core = c
        /\ m \in {"<", ">"} => T.core[i].a = c[i].a
        /\ m \in {PreA, PostA} => T.core[i].b = c[i].b
    BY <1>1, ThroughChanges
  <2>3. D!OptB(c, i) = IF n = "#" THEN [D!Immediate(c, i) EXCEPT !.core = T.core]
                                  ELSE D!Through(T.core, i, n, c[i].b)
    BY <2>1 DEF D!OptB, n
  <2>4. CASE m \in {"$", "@", "*"}
    <3>1. D!BenchOperands(c, i) = <<T, D!Live(T, i, n)>>
      BY <2>4 DEF D!BenchOperands, D!DirectA, D!BIndirectA, D!AIndirectA, m, n
    <3>2. D!Live(T, i, n) = D!OptB(c, i)
      BY <2>2, <2>3, <2>4 DEF D!Live, D!Immediate
    <3> QED
      BY <2>1, <3>1, <3>2
  <2>5. CASE m \in {"<", ">"}
    <3>1. D!BenchOperands(c, i)
            = <<T, IF n = "#" THEN [D!Immediate(T.core, i) EXCEPT !.b = c[i].b]
                              ELSE D!Through(T.core, i, n, c[i].b)>>
      BY <2>5 DEF D!BenchOperands, D!BPredecrementA, D!BPostincrementA, m, n
    <3>2. [D!Immediate(T.core, i) EXCEPT !.b = c[i].b]
            = [D!Immediate(c, i) EXCEPT !.core = T.core]
      BY <2>2, <2>5 DEF D!Immediate
    <3> QED
      BY <2>1, <2>3, <3>1, <3>2
  <2>6. CASE m \in {PreA, PostA}
    <3>1. D!BenchOperands(c, i)
            = <<T, IF n = "#" THEN [D!Immediate(T.core, i) EXCEPT !.a = c[i].a]
                              ELSE D!Live(T, i, n)>>
      BY <2>6 DEF D!BenchOperands, D!APredecrementA, D!APostincrementA, m, n,
         PreA, PostA
    <3>2. [D!Immediate(T.core, i) EXCEPT !.a = c[i].a]
            = [D!Immediate(c, i) EXCEPT !.core = T.core]
      BY <2>2, <2>6 DEF D!Immediate
    <3>3. n # "#" => D!Live(T, i, n) = D!Through(T.core, i, n, c[i].b)
      BY <2>2, <2>6 DEF D!Live
    <3> QED
      BY <2>1, <2>3, <3>1, <3>2, <3>3
  <2> QED
    BY <1>1, <1>3, <2>4, <2>5, <2>6, ModeNames
<1> QED
  BY <1>2, <1>3

\* With the same operands the switch does the same.
LEMMA SlowAlike ==
  ASSUME NEW c \in GoodCore94, NEW i \in Address
  PROVE  D!BenchSlow(c, i) = D!OptSlow(c, i)
  BY SameOperands94 DEF D!BenchSlow, D!OptSlow

----------------------------------------------------------------------------
(* The instructions of '94: the most frequent ones *)

\* The operand A by its mode.
LEMMA OptAIs ==
  ASSUME NEW c, NEW i
  PROVE  LET a == D!at(c, i, "a")
             m == D!am(c[i])
             A == D!OptA(c, i)
         IN  /\ m = "#" => A = Read(c, c, i)
             /\ m = "$" => A = Read(c, c, a)
             /\ m = "@" => A = Read(c, c, D!at(c, a, "b"))
             /\ m = "*" => A = Read(c, c, D!at(c, a, "a"))
             /\ m = "<" => A = Read(D!Drop(c, a, "b"), D!Drop(c, a, "b"),
                                    D!at(D!Drop(c, a, "b"), a, "b"))
             /\ m = PreA => A = Read(D!Drop(c, a, "a"), D!Drop(c, a, "a"),
                                     D!at(D!Drop(c, a, "a"), a, "a"))
             /\ m = ">" => A = Read(D!Bump(c, a, "b"), c, D!at(c, a, "b"))
             /\ m = PostA => A = Read(D!Bump(c, a, "a"), c, D!at(c, a, "a"))
<1>1. D!am(c[i]) = "#" => D!OptA(c, i) = Read(c, c, i)
  BY DEF D!OptA, D!Immediate, Read
<1>2. D!am(c[i]) # "#" => D!OptA(c, i) = D!Through(c, i, D!am(c[i]), c[i].a)
  BY DEF D!OptA
<1>3. D!at(c, i, "a") = D!Plus(i, c[i].a)
  BY DEF D!at
<1> QED
  BY <1>1, <1>2, <1>3, ThroughIs, ModeNames

\* The operand B by its mode, in the core the evaluation of A has left.
LEMMA OptBIs ==
  ASSUME NEW c, NEW i
  PROVE  LET d == D!OptA(c, i).core
             b == D!at(c, i, "b")
             m == D!bm(c[i])
             B == D!OptB(c, i)
         IN  /\ m = "#" => B = Read(d, c, i)
             /\ m = "$" => B = Read(d, d, b)
             /\ m = "@" => B = Read(d, d, D!at(d, b, "b"))
             /\ m = "*" => B = Read(d, d, D!at(d, b, "a"))
             /\ m = "<" => B = Read(D!Drop(d, b, "b"), D!Drop(d, b, "b"),
                                    D!at(D!Drop(d, b, "b"), b, "b"))
             /\ m = PreA => B = Read(D!Drop(d, b, "a"), D!Drop(d, b, "a"),
                                     D!at(D!Drop(d, b, "a"), b, "a"))
             /\ m = ">" => B = Read(D!Bump(d, b, "b"), d, D!at(d, b, "b"))
             /\ m = PostA => B = Read(D!Bump(d, b, "a"), d, D!at(d, b, "a"))
<1> DEFINE d == D!OptA(c, i).core
<1>1. D!bm(c[i]) = "#" => D!OptB(c, i) = Read(d, c, i)
  BY DEF D!OptB, D!Immediate, Read
<1>2. D!bm(c[i]) # "#" => D!OptB(c, i) = D!Through(d, i, D!bm(c[i]), c[i].b)
  BY DEF D!OptB
<1>3. D!at(c, i, "b") = D!Plus(i, c[i].b)
  BY DEF D!at
<1> HIDE DEF d
<1>4. /\ D!bm(c[i]) = "#" => D!OptB(c, i) = Read(d, c, i)
      /\ LET b == D!at(c, i, "b")
             m == D!bm(c[i])
             B == D!OptB(c, i)
         IN  /\ m = "$" => B = Read(d, d, b)
             /\ m = "@" => B = Read(d, d, D!at(d, b, "b"))
             /\ m = "*" => B = Read(d, d, D!at(d, b, "a"))
             /\ m = "<" => B = Read(D!Drop(d, b, "b"), D!Drop(d, b, "b"),
                                    D!at(D!Drop(d, b, "b"), b, "b"))
             /\ m = PreA => B = Read(D!Drop(d, b, "a"), D!Drop(d, b, "a"),
                                     D!at(D!Drop(d, b, "a"), b, "a"))
             /\ m = ">" => B = Read(D!Bump(d, b, "b"), d, D!at(d, b, "b"))
             /\ m = PostA => B = Read(D!Bump(d, b, "a"), d, D!at(d, b, "a"))
  BY <1>1, <1>2, <1>3, ThroughIs, ModeNames
<1> QED
  BY <1>4 DEF d

\* MOV.I: the cell at x gets the fields a and b, and the code at from.
MovI(now, from, a, b, x, i) ==
  D!Continues([now EXCEPT ![x] = [insn |-> now[from].insn, a |-> a, b |-> b]],
              D!Inc(i))

\* MOV.I in the two general steps.
LEMMA SlowMov ==
  ASSUME NEW c \in GoodCore94, NEW i \in Address,
         D!op(c[i]) = "MOV", D!mod(c[i]) = "I"
  PROVE  LET A == D!OptA(c, i)
             B == D!OptB(c, i)
         IN  D!OptSlow(c, i) = MovI(B.core, A.addr, A.a, A.b, B.addr, i)
<1> DEFINE A == D!OptA(c, i)
           B == D!OptB(c, i)
           values == [x \in DOMAIN D!Meets("I") |-> A[D!Meets("I")[x]]]
           moved  == D!Wrote(B, values)
           cell   == [x \in {"insn", "a", "b"} |->
                        IF x \in DOMAIN values THEN values[x]
                                               ELSE B.core[B.addr][x]]
<1>1. D!OptSlow(c, i) = D!Mov(A, B, "I", i)
  BY DEF D!OptSlow, D!Switch
<1>2. A \in Operand94 /\ B \in Operand94
  BY OptOperandsClosed
<1> HIDE DEF A, B
<1>3. B.core \in GoodCore94 /\ B.addr \in Address
  BY <1>2 DEF Operand94
<1>4. DOMAIN values = {"a", "b"} /\ values["a"] = A.a /\ values["b"] = A.b
  BY DEF D!Meets
<1>5. moved = [B.core EXCEPT ![B.addr] = cell]
  BY DEF D!Wrote
<1> HIDE DEF values
<1>6. [cell EXCEPT !.insn = B.core[A.addr].insn]
        = [insn |-> B.core[A.addr].insn, a |-> A.a, b |-> A.b]
  <2>1. B.core[B.addr] \in Cell94 /\ A.a \in Address /\ A.b \in Address
    BY <1>2, CoreFields DEF Operand94
  <2>2. cell \in Cell94 /\ cell.a = A.a /\ cell.b = A.b
    BY <1>4, <2>1 DEF Cell94
  <2> HIDE DEF cell
  <2> QED
    BY <2>2 DEF Cell94
<1> HIDE DEF cell
<1>7. [moved EXCEPT ![B.addr].insn = B.core[A.addr].insn]
        = [B.core EXCEPT ![B.addr] = [cell EXCEPT !.insn = B.core[A.addr].insn]]
  BY <1>3, <1>5 DEF GoodCore94
<1> QED
  BY <1>1, <1>6, <1>7 DEF D!Mov, MovI, A, B, moved, values

\* MOV.I in the frequent cases.
LEMMA CopiesAre ==
  ASSUME NEW before \in GoodCore94, NEW now \in GoodCore94, NEW from \in Address,
         NEW x, NEW i
  PROVE  /\ D!Copies(now, from, x, i)
              = MovI(now, from, now[from].a, now[from].b, x, i)
         /\ D!CopiesA(before, now, from, x, i)
              = MovI(now, from, before[from].a, now[from].b, x, i)
         /\ D!CopiesB(before, now, from, x, i)
              = MovI(now, from, now[from].a, before[from].b, x, i)
<1>1. now[from] \in Cell94
  BY CoreFields
<1>2. now[from] = [insn |-> now[from].insn, a |-> now[from].a, b |-> now[from].b]
  BY <1>1 DEF Cell94
<1>3. [now[from] EXCEPT !.a = before[from].a]
        = [insn |-> now[from].insn, a |-> before[from].a, b |-> now[from].b]
  BY <1>1 DEF Cell94
<1>4. [now[from] EXCEPT !.b = before[from].b]
        = [insn |-> now[from].insn, a |-> now[from].a, b |-> before[from].b]
  BY <1>1 DEF Cell94
<1> QED
  BY <1>2, <1>3, <1>4 DEF D!Copies, D!CopiesA, D!CopiesB, MovI

\* DJN with modifier B or F.
LEMMA SlowDjn ==
  ASSUME NEW c \in GoodCore94, NEW i \in Address, D!op(c[i]) = "DJN",
         D!mod(c[i]) \in {"B", "F"},
         NEW now, NEW before, NEW x, D!OptB(c, i) = Read(now, before, x)
  PROVE  D!OptSlow(c, i)
           = D!DjnFields(before, now, IF D!mod(c[i]) = "B" THEN {"b"} ELSE D!Both,
                         x, D!OptA(c, i).addr, i)
<1> DEFINE A == D!OptA(c, i)
           B == D!OptB(c, i)
           m == D!mod(c[i])
           fields == IF m = "B" THEN {"b"} ELSE D!Both
           less   == [f \in D!Tested(m) |-> D!Dec(B.core[B.addr][f])]
           cell   == [f \in {"insn", "a", "b"} |->
                        IF f \in fields THEN D!Dec(now[x][f]) ELSE now[x][f]]
<1>1. D!OptSlow(c, i) = D!Djn(A, B, m, i)
  BY DEF D!OptSlow, D!Switch
<1>2. B.core = now /\ B.addr = x /\ B.a = before[x].a /\ B.b = before[x].b
  BY DEF Read
<1>3. D!Tested(m) = fields
  BY DEF D!Tested, D!Meets, D!Both
<1> HIDE DEF A, B, m
<1>4. D!Wrote(B, less) = [now EXCEPT ![x] = cell]
  BY <1>2, <1>3 DEF D!Wrote
<1>5. (\E f \in D!Tested(m) : B[f] # 1) <=> ~(\A f \in fields : before[x][f] = 1)
  BY <1>2, <1>3 DEF D!Both
<1>6. [B EXCEPT !.core = D!Wrote(B, less)].core = D!Wrote(B, less)
  BY DEF Read, B
<1>7. D!Djn(A, B, m, i)
        = D!Continues(D!Wrote(B, less),
                      IF \A f \in fields : before[x][f] = 1 THEN D!Inc(i) ELSE A.addr)
  BY <1>5, <1>6 DEF D!Djn, D!JumpIf
<1>8. D!DjnFields(before, now, fields, x, A.addr, i)
        = D!Continues([now EXCEPT ![x] = cell],
                      IF \A f \in fields : before[x][f] = 1 THEN D!Inc(i) ELSE A.addr)
  BY DEF D!DjnFields
<1> QED
  BY <1>1, <1>4, <1>7, <1>8 DEF A, m

\* The instructions without an own operator.
LEMMA SlowOthers ==
  ASSUME NEW c, NEW i
  PROVE  LET o == D!op(c[i])
             A == D!OptA(c, i)
             B == D!OptB(c, i)
         IN  /\ o = "SPL" => D!OptSlow(c, i) = D!Splits(B.core, A.addr)
             /\ o = "JMP" => D!OptSlow(c, i) = D!Continues(B.core, A.addr)
             /\ o = "DAT" => D!OptSlow(c, i) = D!Dies(B.core)
  BY DEF D!OptSlow, D!Switch

\* The code of an instruction, taken apart.
LEMMA CodeIs ==
  ASSUME NEW insn, NEW o, NEW m, NEW x, NEW y, insn.insn = <<o, m, x, y>>
  PROVE  D!op(insn) = o /\ D!mod(insn) = m /\ D!am(insn) = x /\ D!bm(insn) = y
  BY DEF D!op, D!mod, D!am, D!bm

\* The frequent forms of SPL, JMP and DAT evaluate what has an effect.
LEMMA FastOthers ==
  ASSUME NEW c, NEW i
  PROVE  LET code == c[i].insn
             a    == D!at(c, i, "a")
             b    == D!at(c, i, "b")
         IN
           /\ code = <<"SPL", "B", "#", "$">> =>
                D!OptSlow(c, i) = D!Splits(c, i)
           /\ code = <<"SPL", "B", "#", "#">> =>
                D!OptSlow(c, i) = D!Splits(c, i)
           /\ code = <<"SPL", "B", "#", "<">> =>
                D!OptSlow(c, i) = D!Splits(D!Drop(c, b, "b"), i)
           /\ code = <<"SPL", "B", "#", ">">> =>
                D!OptSlow(c, i) = D!Splits(D!Bump(c, b, "b"), i)
           /\ code = <<"SPL", "B", "#", PreA>> =>
                D!OptSlow(c, i) = D!Splits(D!Drop(c, b, "a"), i)
           /\ code = <<"SPL", "B", "$", "$">> =>
                D!OptSlow(c, i) = D!Splits(c, a)
           /\ code = <<"SPL", "B", "@", "<">> =>
                D!OptSlow(c, i) = D!Splits(D!Drop(c, b, "b"), D!at(c, a, "b"))
           /\ code = <<"JMP", "B", "$", "$">> =>
                D!OptSlow(c, i) = D!Continues(c, a)
           /\ code = <<"JMP", "B", "$", "<">> =>
                D!OptSlow(c, i) = D!Continues(D!Drop(c, b, "b"), a)
           /\ code = <<"DAT", "F", "$", "$">> =>
                D!OptSlow(c, i) = D!Dies(c)
           /\ code = <<"DAT", "F", "<", "$">> =>
                D!OptSlow(c, i) = D!Dies(D!Drop(c, a, "b"))
           /\ code = <<"DAT", "F", ">", "$">> =>
                D!OptSlow(c, i) = D!Dies(D!Bump(c, a, "b"))
           /\ code = <<"DAT", "F", ">", ">">> =>
                D!OptSlow(c, i) = D!Dies(D!Bump(D!Bump(c, a, "b"), b, "b"))
<1> DEFINE code == c[i].insn
           a    == D!at(c, i, "a")
           b    == D!at(c, i, "b")
           A    == D!OptA(c, i)
           B    == D!OptB(c, i)
<1>1. /\ D!am(c[i]) = "#" => A.core = c /\ A.addr = i
      /\ D!am(c[i]) = "$" => A.core = c /\ A.addr = a
      /\ D!am(c[i]) = "@" => A.core = c /\ A.addr = D!at(c, a, "b")
      /\ D!am(c[i]) = "<" => A.core = D!Drop(c, a, "b")
      /\ D!am(c[i]) = ">" => A.core = D!Bump(c, a, "b")
  BY OptAIs DEF Read
<1>2. /\ D!bm(c[i]) \in {"#", "$"} => B.core = A.core
      /\ D!bm(c[i]) = "<" => B.core = D!Drop(A.core, b, "b")
      /\ D!bm(c[i]) = ">" => B.core = D!Bump(A.core, b, "b")
      /\ D!bm(c[i]) = PreA => B.core = D!Drop(A.core, b, "a")
  BY OptBIs DEF Read
<1>3. /\ D!op(c[i]) = "SPL" => D!OptSlow(c, i) = D!Splits(B.core, A.addr)
      /\ D!op(c[i]) = "JMP" => D!OptSlow(c, i) = D!Continues(B.core, A.addr)
      /\ D!op(c[i]) = "DAT" => D!OptSlow(c, i) = D!Dies(B.core)
  BY SlowOthers
<1> HIDE DEF code, a, b, A, B
<1>4. ASSUME code = <<"SPL", "B", "#", "$">>
      PROVE D!OptSlow(c, i) = D!Splits(c, i)
  BY <1>1, <1>2, <1>3, <1>4, CodeIs DEF code
<1>5. ASSUME code = <<"SPL", "B", "#", "#">>
      PROVE D!OptSlow(c, i) = D!Splits(c, i)
  BY <1>1, <1>2, <1>3, <1>5, CodeIs DEF code
<1>6. ASSUME code = <<"SPL", "B", "#", "<">>
      PROVE D!OptSlow(c, i) = D!Splits(D!Drop(c, b, "b"), i)
  BY <1>1, <1>2, <1>3, <1>6, CodeIs DEF code
<1>7. ASSUME code = <<"SPL", "B", "#", ">">>
      PROVE D!OptSlow(c, i) = D!Splits(D!Bump(c, b, "b"), i)
  BY <1>1, <1>2, <1>3, <1>7, CodeIs DEF code
<1>8. ASSUME code = <<"SPL", "B", "#", PreA>>
      PROVE D!OptSlow(c, i) = D!Splits(D!Drop(c, b, "a"), i)
  BY <1>1, <1>2, <1>3, <1>8, CodeIs DEF code
<1>9. ASSUME code = <<"SPL", "B", "$", "$">>
      PROVE D!OptSlow(c, i) = D!Splits(c, a)
  BY <1>1, <1>2, <1>3, <1>9, CodeIs DEF code
<1>10. ASSUME code = <<"SPL", "B", "@", "<">>
       PROVE D!OptSlow(c, i) = D!Splits(D!Drop(c, b, "b"), D!at(c, a, "b"))
  BY <1>1, <1>2, <1>3, <1>10, CodeIs DEF code
<1>11. ASSUME code = <<"JMP", "B", "$", "$">>
       PROVE D!OptSlow(c, i) = D!Continues(c, a)
  BY <1>1, <1>2, <1>3, <1>11, CodeIs DEF code
<1>12. ASSUME code = <<"JMP", "B", "$", "<">>
       PROVE D!OptSlow(c, i) = D!Continues(D!Drop(c, b, "b"), a)
  BY <1>1, <1>2, <1>3, <1>12, CodeIs DEF code
<1>13. ASSUME code = <<"DAT", "F", "$", "$">> PROVE D!OptSlow(c, i) = D!Dies(c)
  BY <1>1, <1>2, <1>3, <1>13, CodeIs DEF code
<1>14. ASSUME code = <<"DAT", "F", "<", "$">>
       PROVE D!OptSlow(c, i) = D!Dies(D!Drop(c, a, "b"))
  BY <1>1, <1>2, <1>3, <1>14, CodeIs DEF code
<1>15. ASSUME code = <<"DAT", "F", ">", "$">>
       PROVE D!OptSlow(c, i) = D!Dies(D!Bump(c, a, "b"))
  BY <1>1, <1>2, <1>3, <1>15, CodeIs DEF code
<1>16. ASSUME code = <<"DAT", "F", ">", ">">>
       PROVE D!OptSlow(c, i) = D!Dies(D!Bump(D!Bump(c, a, "b"), b, "b"))
  BY <1>1, <1>2, <1>3, <1>16, CodeIs DEF code
<1> QED
  BY <1>4, <1>5, <1>6, <1>7, <1>8, <1>9, <1>10, <1>11, <1>12, <1>13, <1>14,
     <1>15, <1>16 DEF code, a, b

\* So do the frequent forms of DJN,
LEMMA FastDjn ==
  ASSUME NEW c \in GoodCore94, NEW i \in Address
  PROVE  LET code == c[i].insn
             a    == D!at(c, i, "a")
             b    == D!at(c, i, "b")
         IN
           /\ code = <<"DJN", "B", "$", "#">> =>
                D!OptSlow(c, i)
                  = D!DjnFields(c, c, {"b"}, i, a, i)
           /\ code = <<"DJN", "B", "$", PreA>> =>
                D!OptSlow(c, i)
                  = D!DjnFields(D!Drop(c, b, "a"), D!Drop(c, b, "a"), {"b"},
                                D!at(D!Drop(c, b, "a"), b, "a"), a, i)
           /\ code = <<"DJN", "F", "$", PreA>> =>
                D!OptSlow(c, i)
                  = D!DjnFields(D!Drop(c, b, "a"), D!Drop(c, b, "a"), D!Both,
                                D!at(D!Drop(c, b, "a"), b, "a"), a, i)
           /\ code = <<"DJN", "F", "$", PostA>> =>
                D!OptSlow(c, i)
                  = D!DjnFields(c, D!Bump(c, b, "a"), D!Both, D!at(c, b, "a"), a, i)
           /\ code = <<"DJN", "F", "$", "<">> =>
                D!OptSlow(c, i)
                  = D!DjnFields(D!Drop(c, b, "b"), D!Drop(c, b, "b"), D!Both,
                                D!at(D!Drop(c, b, "b"), b, "b"), a, i)
           /\ code = <<"DJN", "F", "$", ">">> =>
                D!OptSlow(c, i)
                  = D!DjnFields(c, D!Bump(c, b, "b"), D!Both, D!at(c, b, "b"), a, i)
<1> DEFINE code == c[i].insn
           a    == D!at(c, i, "a")
           b    == D!at(c, i, "b")
           A    == D!OptA(c, i)
           B    == D!OptB(c, i)
<1>1. D!am(c[i]) = "$" => A.core = c /\ A.addr = a
  BY OptAIs DEF Read
<1>2. A.core = c =>
        /\ D!bm(c[i]) = "#" => B = Read(c, c, i)
        /\ D!bm(c[i]) = "<" => B = Read(D!Drop(c, b, "b"), D!Drop(c, b, "b"),
                                        D!at(D!Drop(c, b, "b"), b, "b"))
        /\ D!bm(c[i]) = PreA => B = Read(D!Drop(c, b, "a"), D!Drop(c, b, "a"),
                                         D!at(D!Drop(c, b, "a"), b, "a"))
        /\ D!bm(c[i]) = ">" => B = Read(D!Bump(c, b, "b"), c, D!at(c, b, "b"))
        /\ D!bm(c[i]) = PostA => B = Read(D!Bump(c, b, "a"), c, D!at(c, b, "a"))
  BY OptBIs
<1>3. ASSUME D!op(c[i]) = "DJN", D!mod(c[i]) \in {"B", "F"},
             NEW now, NEW before, NEW x, B = Read(now, before, x)
      PROVE  D!OptSlow(c, i)
               = D!DjnFields(before, now,
                             IF D!mod(c[i]) = "B" THEN {"b"} ELSE D!Both,
                             x, A.addr, i)
  BY <1>3, SlowDjn
<1> HIDE DEF code, a, b, A, B
<1>4. ASSUME code = <<"DJN", "B", "$", "#">>
      PROVE  D!OptSlow(c, i) = D!DjnFields(c, c, {"b"},
                                           i, a, i)
  <2>1. B = Read(c, c,
                 i)
    BY <1>1, <1>2, <1>4, CodeIs DEF code
  <2>2. D!op(c[i]) = "DJN" /\ D!mod(c[i]) = "B" /\ A.addr = a
    BY <1>1, <1>4, CodeIs DEF code
  <2> QED
    BY <1>3, <2>1, <2>2
<1>5. ASSUME code = <<"DJN", "B", "$", PreA>>
      PROVE  D!OptSlow(c, i) = D!DjnFields(D!Drop(c, b, "a"), D!Drop(c, b, "a"), {"b"},
                                           D!at(D!Drop(c, b, "a"), b, "a"), a, i)
  <2>1. B = Read(D!Drop(c, b, "a"), D!Drop(c, b, "a"),
                 D!at(D!Drop(c, b, "a"), b, "a"))
    BY <1>1, <1>2, <1>5, CodeIs DEF code
  <2>2. D!op(c[i]) = "DJN" /\ D!mod(c[i]) = "B" /\ A.addr = a
    BY <1>1, <1>5, CodeIs DEF code
  <2> QED
    BY <1>3, <2>1, <2>2
<1>6. ASSUME code = <<"DJN", "F", "$", PreA>>
      PROVE  D!OptSlow(c, i) = D!DjnFields(D!Drop(c, b, "a"), D!Drop(c, b, "a"), D!Both,
                                           D!at(D!Drop(c, b, "a"), b, "a"), a, i)
  <2>1. B = Read(D!Drop(c, b, "a"), D!Drop(c, b, "a"),
                 D!at(D!Drop(c, b, "a"), b, "a"))
    BY <1>1, <1>2, <1>6, CodeIs DEF code
  <2>2. D!op(c[i]) = "DJN" /\ D!mod(c[i]) = "F" /\ A.addr = a
    BY <1>1, <1>6, CodeIs DEF code
  <2> QED
    BY <1>3, <2>1, <2>2
<1>7. ASSUME code = <<"DJN", "F", "$", PostA>>
      PROVE  D!OptSlow(c, i) = D!DjnFields(c, D!Bump(c, b, "a"), D!Both,
                                           D!at(c, b, "a"), a, i)
  <2>1. B = Read(D!Bump(c, b, "a"), c,
                 D!at(c, b, "a"))
    BY <1>1, <1>2, <1>7, CodeIs DEF code
  <2>2. D!op(c[i]) = "DJN" /\ D!mod(c[i]) = "F" /\ A.addr = a
    BY <1>1, <1>7, CodeIs DEF code
  <2> QED
    BY <1>3, <2>1, <2>2
<1>8. ASSUME code = <<"DJN", "F", "$", "<">>
      PROVE  D!OptSlow(c, i) = D!DjnFields(D!Drop(c, b, "b"), D!Drop(c, b, "b"), D!Both,
                                           D!at(D!Drop(c, b, "b"), b, "b"), a, i)
  <2>1. B = Read(D!Drop(c, b, "b"), D!Drop(c, b, "b"),
                 D!at(D!Drop(c, b, "b"), b, "b"))
    BY <1>1, <1>2, <1>8, CodeIs DEF code
  <2>2. D!op(c[i]) = "DJN" /\ D!mod(c[i]) = "F" /\ A.addr = a
    BY <1>1, <1>8, CodeIs DEF code
  <2> QED
    BY <1>3, <2>1, <2>2
<1>9. ASSUME code = <<"DJN", "F", "$", ">">>
      PROVE  D!OptSlow(c, i) = D!DjnFields(c, D!Bump(c, b, "b"), D!Both,
                                           D!at(c, b, "b"), a, i)
  <2>1. B = Read(D!Bump(c, b, "b"), c,
                 D!at(c, b, "b"))
    BY <1>1, <1>2, <1>9, CodeIs DEF code
  <2>2. D!op(c[i]) = "DJN" /\ D!mod(c[i]) = "F" /\ A.addr = a
    BY <1>1, <1>9, CodeIs DEF code
  <2> QED
    BY <1>3, <2>1, <2>2
<1> QED
  BY <1>4, <1>5, <1>6, <1>7, <1>8, <1>9 DEF code, a, b

\* the frequent forms of MOV.I that leave the core alone until A is read,
LEMMA FastMov ==
  ASSUME NEW c \in GoodCore94, NEW i \in Address
  PROVE  LET code == c[i].insn
             a    == D!at(c, i, "a")
             b    == D!at(c, i, "b")
         IN
           /\ code = <<"MOV", "I", "#", "$">> =>
                D!OptSlow(c, i)
                  = D!Copies(c, i, b, i)
           /\ code = <<"MOV", "I", "#", "*">> =>
                D!OptSlow(c, i)
                  = D!Copies(c, i, D!at(c, b, "a"), i)
           /\ code = <<"MOV", "I", "$", "@">> =>
                D!OptSlow(c, i)
                  = D!Copies(c, a, D!at(c, b, "b"), i)
           /\ code = <<"MOV", "I", "#", "<">> =>
                D!OptSlow(c, i)
                  = D!CopiesB(c, D!Drop(c, b, "b"), i, D!at(D!Drop(c, b, "b"), b, "b"), i)
           /\ code = <<"MOV", "I", "$", "<">> =>
                D!OptSlow(c, i)
                  = D!CopiesB(c, D!Drop(c, b, "b"), a, D!at(D!Drop(c, b, "b"), b, "b"), i)
           /\ code = <<"MOV", "I", "$", ">">> =>
                D!OptSlow(c, i)
                  = D!CopiesB(c, D!Bump(c, b, "b"), a, D!at(c, b, "b"), i)
           /\ code = <<"MOV", "I", "@", ">">> =>
                D!OptSlow(c, i)
                  = D!CopiesB(c, D!Bump(c, b, "b"), D!at(c, a, "b"), D!at(c, b, "b"), i)
           /\ code = <<"MOV", "I", "*", ">">> =>
                D!OptSlow(c, i)
                  = D!CopiesB(c, D!Bump(c, b, "b"), D!at(c, a, "a"), D!at(c, b, "b"), i)
           /\ code = <<"MOV", "I", "#", PreA>> =>
                D!OptSlow(c, i)
                  = D!CopiesA(c, D!Drop(c, b, "a"), i, D!at(D!Drop(c, b, "a"), b, "a"), i)
           /\ code = <<"MOV", "I", "#", PostA>> =>
                D!OptSlow(c, i)
                  = D!CopiesA(c, D!Bump(c, b, "a"), i, D!at(c, b, "a"), i)
           /\ code = <<"MOV", "I", "$", PostA>> =>
                D!OptSlow(c, i)
                  = D!CopiesA(c, D!Bump(c, b, "a"), a, D!at(c, b, "a"), i)
<1> DEFINE code == c[i].insn
           a    == D!at(c, i, "a")
           b    == D!at(c, i, "b")
           A    == D!OptA(c, i)
           B    == D!OptB(c, i)
<1>1. a \in Address /\ b \in Address
  BY PointerChanged DEF Field
<1>2. /\ D!am(c[i]) = "#" => A = Read(c, c, i)
      /\ D!am(c[i]) = "$" => A = Read(c, c, a)
      /\ D!am(c[i]) = "@" => A = Read(c, c, D!at(c, a, "b"))
      /\ D!am(c[i]) = "*" => A = Read(c, c, D!at(c, a, "a"))
  BY OptAIs
<1>3. A.core = c =>
        /\ D!bm(c[i]) = "$" => B = Read(c, c, b)
        /\ D!bm(c[i]) = "@" => B = Read(c, c, D!at(c, b, "b"))
        /\ D!bm(c[i]) = "*" => B = Read(c, c, D!at(c, b, "a"))
        /\ D!bm(c[i]) = "<" => B = Read(D!Drop(c, b, "b"), D!Drop(c, b, "b"),
                                        D!at(D!Drop(c, b, "b"), b, "b"))
        /\ D!bm(c[i]) = PreA => B = Read(D!Drop(c, b, "a"), D!Drop(c, b, "a"),
                                         D!at(D!Drop(c, b, "a"), b, "a"))
        /\ D!bm(c[i]) = ">" => B = Read(D!Bump(c, b, "b"), c, D!at(c, b, "b"))
        /\ D!bm(c[i]) = PostA => B = Read(D!Bump(c, b, "a"), c, D!at(c, b, "a"))
  BY OptBIs
<1> HIDE DEF code, a, b, A, B
\* A is read in the core as it was, B is behind it.
<1>4. ASSUME NEW from \in Address, NEW now, NEW before, NEW x,
             D!op(c[i]) = "MOV", D!mod(c[i]) = "I",
             A = Read(c, c, from), B = Read(now, before, x)
      PROVE  D!OptSlow(c, i) = MovI(now, from, c[from].a, c[from].b, x, i)
  <2>1. A.addr = from /\ A.a = c[from].a /\ A.b = c[from].b
        /\ B.core = now /\ B.addr = x
    BY <1>4 DEF Read
  <2> QED
    BY <1>4, <2>1, SlowMov DEF A, B
<1>5. ASSUME NEW from \in Address, NEW x
      PROVE  /\ D!Copies(c, from, x, i) = MovI(c, from, c[from].a, c[from].b, x, i)
             /\ \A now \in {D!Drop(c, b, "b"), D!Bump(c, b, "b")} :
                  D!CopiesB(c, now, from, x, i)
                    = MovI(now, from, c[from].a, c[from].b, x, i)
             /\ \A now \in {D!Drop(c, b, "a"), D!Bump(c, b, "a")} :
                  D!CopiesA(c, now, from, x, i)
                    = MovI(now, from, c[from].a, c[from].b, x, i)
  <2>1. D!Copies(c, from, x, i) = MovI(c, from, c[from].a, c[from].b, x, i)
    BY CopiesAre
  <2>2. ASSUME NEW now \in {D!Drop(c, b, "b"), D!Bump(c, b, "b")}
        PROVE  D!CopiesB(c, now, from, x, i)
                 = MovI(now, from, c[from].a, c[from].b, x, i)
    <3>1. now \in GoodCore94 /\ now[from].a = c[from].a
      BY <1>1, PointerChanged DEF Field
    <3> QED
      BY <3>1, CopiesAre
  <2>3. ASSUME NEW now \in {D!Drop(c, b, "a"), D!Bump(c, b, "a")}
        PROVE  D!CopiesA(c, now, from, x, i)
                 = MovI(now, from, c[from].a, c[from].b, x, i)
    <3>1. now \in GoodCore94 /\ now[from].b = c[from].b
      BY <1>1, PointerChanged DEF Field
    <3> QED
      BY <3>1, CopiesAre
  <2> QED
    BY <2>1, <2>2, <2>3
<1>6. D!at(c, a, "a") \in Address /\ D!at(c, a, "b") \in Address
  BY <1>1, PointerChanged DEF Field
<1>7. ASSUME code = <<"MOV", "I", "#", "$">>
      PROVE  D!OptSlow(c, i)
               = D!Copies(c, i, b, i)
  <2>1. D!op(c[i]) = "MOV" /\ D!mod(c[i]) = "I"
        /\ D!am(c[i]) = "#" /\ D!bm(c[i]) = "$"
    BY <1>7, CodeIs DEF code
  <2>2. A = Read(c, c, i) /\ A.core = c
    BY <1>2, <2>1 DEF Read
  <2>3. B = Read(c, c, b)
    BY <1>3, <2>1, <2>2
  <2> QED
    BY <1>4, <1>5, <1>6, <2>1, <2>2, <2>3, <1>1
<1>8. ASSUME code = <<"MOV", "I", "#", "*">>
      PROVE  D!OptSlow(c, i)
               = D!Copies(c, i, D!at(c, b, "a"), i)
  <2>1. D!op(c[i]) = "MOV" /\ D!mod(c[i]) = "I"
        /\ D!am(c[i]) = "#" /\ D!bm(c[i]) = "*"
    BY <1>8, CodeIs DEF code
  <2>2. A = Read(c, c, i) /\ A.core = c
    BY <1>2, <2>1 DEF Read
  <2>3. B = Read(c, c, D!at(c, b, "a"))
    BY <1>3, <2>1, <2>2
  <2> QED
    BY <1>4, <1>5, <1>6, <2>1, <2>2, <2>3, <1>1
<1>9. ASSUME code = <<"MOV", "I", "$", "@">>
      PROVE  D!OptSlow(c, i)
               = D!Copies(c, a, D!at(c, b, "b"), i)
  <2>1. D!op(c[i]) = "MOV" /\ D!mod(c[i]) = "I"
        /\ D!am(c[i]) = "$" /\ D!bm(c[i]) = "@"
    BY <1>9, CodeIs DEF code
  <2>2. A = Read(c, c, a) /\ A.core = c
    BY <1>2, <2>1 DEF Read
  <2>3. B = Read(c, c, D!at(c, b, "b"))
    BY <1>3, <2>1, <2>2
  <2> QED
    BY <1>4, <1>5, <1>6, <2>1, <2>2, <2>3, <1>1
<1>10. ASSUME code = <<"MOV", "I", "#", "<">>
      PROVE  D!OptSlow(c, i)
               = D!CopiesB(c, D!Drop(c, b, "b"), i, D!at(D!Drop(c, b, "b"), b, "b"), i)
  <2>1. D!op(c[i]) = "MOV" /\ D!mod(c[i]) = "I"
        /\ D!am(c[i]) = "#" /\ D!bm(c[i]) = "<"
    BY <1>10, CodeIs DEF code
  <2>2. A = Read(c, c, i) /\ A.core = c
    BY <1>2, <2>1 DEF Read
  <2>3. B = Read(D!Drop(c, b, "b"), D!Drop(c, b, "b"), D!at(D!Drop(c, b, "b"), b, "b"))
    BY <1>3, <2>1, <2>2
  <2> QED
    BY <1>4, <1>5, <1>6, <2>1, <2>2, <2>3, <1>1
<1>11. ASSUME code = <<"MOV", "I", "$", "<">>
      PROVE  D!OptSlow(c, i)
               = D!CopiesB(c, D!Drop(c, b, "b"), a, D!at(D!Drop(c, b, "b"), b, "b"), i)
  <2>1. D!op(c[i]) = "MOV" /\ D!mod(c[i]) = "I"
        /\ D!am(c[i]) = "$" /\ D!bm(c[i]) = "<"
    BY <1>11, CodeIs DEF code
  <2>2. A = Read(c, c, a) /\ A.core = c
    BY <1>2, <2>1 DEF Read
  <2>3. B = Read(D!Drop(c, b, "b"), D!Drop(c, b, "b"), D!at(D!Drop(c, b, "b"), b, "b"))
    BY <1>3, <2>1, <2>2
  <2> QED
    BY <1>4, <1>5, <1>6, <2>1, <2>2, <2>3, <1>1
<1>12. ASSUME code = <<"MOV", "I", "$", ">">>
      PROVE  D!OptSlow(c, i)
               = D!CopiesB(c, D!Bump(c, b, "b"), a, D!at(c, b, "b"), i)
  <2>1. D!op(c[i]) = "MOV" /\ D!mod(c[i]) = "I"
        /\ D!am(c[i]) = "$" /\ D!bm(c[i]) = ">"
    BY <1>12, CodeIs DEF code
  <2>2. A = Read(c, c, a) /\ A.core = c
    BY <1>2, <2>1 DEF Read
  <2>3. B = Read(D!Bump(c, b, "b"), c, D!at(c, b, "b"))
    BY <1>3, <2>1, <2>2
  <2> QED
    BY <1>4, <1>5, <1>6, <2>1, <2>2, <2>3, <1>1
<1>13. ASSUME code = <<"MOV", "I", "@", ">">>
      PROVE  D!OptSlow(c, i)
               = D!CopiesB(c, D!Bump(c, b, "b"), D!at(c, a, "b"), D!at(c, b, "b"), i)
  <2>1. D!op(c[i]) = "MOV" /\ D!mod(c[i]) = "I"
        /\ D!am(c[i]) = "@" /\ D!bm(c[i]) = ">"
    BY <1>13, CodeIs DEF code
  <2>2. A = Read(c, c, D!at(c, a, "b")) /\ A.core = c
    BY <1>2, <2>1 DEF Read
  <2>3. B = Read(D!Bump(c, b, "b"), c, D!at(c, b, "b"))
    BY <1>3, <2>1, <2>2
  <2> QED
    BY <1>4, <1>5, <1>6, <2>1, <2>2, <2>3, <1>1
<1>14. ASSUME code = <<"MOV", "I", "*", ">">>
      PROVE  D!OptSlow(c, i)
               = D!CopiesB(c, D!Bump(c, b, "b"), D!at(c, a, "a"), D!at(c, b, "b"), i)
  <2>1. D!op(c[i]) = "MOV" /\ D!mod(c[i]) = "I"
        /\ D!am(c[i]) = "*" /\ D!bm(c[i]) = ">"
    BY <1>14, CodeIs DEF code
  <2>2. A = Read(c, c, D!at(c, a, "a")) /\ A.core = c
    BY <1>2, <2>1 DEF Read
  <2>3. B = Read(D!Bump(c, b, "b"), c, D!at(c, b, "b"))
    BY <1>3, <2>1, <2>2
  <2> QED
    BY <1>4, <1>5, <1>6, <2>1, <2>2, <2>3, <1>1
<1>15. ASSUME code = <<"MOV", "I", "#", PreA>>
      PROVE  D!OptSlow(c, i)
               = D!CopiesA(c, D!Drop(c, b, "a"), i, D!at(D!Drop(c, b, "a"), b, "a"), i)
  <2>1. D!op(c[i]) = "MOV" /\ D!mod(c[i]) = "I"
        /\ D!am(c[i]) = "#" /\ D!bm(c[i]) = PreA
    BY <1>15, CodeIs DEF code
  <2>2. A = Read(c, c, i) /\ A.core = c
    BY <1>2, <2>1 DEF Read
  <2>3. B = Read(D!Drop(c, b, "a"), D!Drop(c, b, "a"), D!at(D!Drop(c, b, "a"), b, "a"))
    BY <1>3, <2>1, <2>2
  <2> QED
    BY <1>4, <1>5, <1>6, <2>1, <2>2, <2>3, <1>1
<1>16. ASSUME code = <<"MOV", "I", "#", PostA>>
      PROVE  D!OptSlow(c, i)
               = D!CopiesA(c, D!Bump(c, b, "a"), i, D!at(c, b, "a"), i)
  <2>1. D!op(c[i]) = "MOV" /\ D!mod(c[i]) = "I"
        /\ D!am(c[i]) = "#" /\ D!bm(c[i]) = PostA
    BY <1>16, CodeIs DEF code
  <2>2. A = Read(c, c, i) /\ A.core = c
    BY <1>2, <2>1 DEF Read
  <2>3. B = Read(D!Bump(c, b, "a"), c, D!at(c, b, "a"))
    BY <1>3, <2>1, <2>2
  <2> QED
    BY <1>4, <1>5, <1>6, <2>1, <2>2, <2>3, <1>1
<1>17. ASSUME code = <<"MOV", "I", "$", PostA>>
      PROVE  D!OptSlow(c, i)
               = D!CopiesA(c, D!Bump(c, b, "a"), a, D!at(c, b, "a"), i)
  <2>1. D!op(c[i]) = "MOV" /\ D!mod(c[i]) = "I"
        /\ D!am(c[i]) = "$" /\ D!bm(c[i]) = PostA
    BY <1>17, CodeIs DEF code
  <2>2. A = Read(c, c, a) /\ A.core = c
    BY <1>2, <2>1 DEF Read
  <2>3. B = Read(D!Bump(c, b, "a"), c, D!at(c, b, "a"))
    BY <1>3, <2>1, <2>2
  <2> QED
    BY <1>4, <1>5, <1>6, <2>1, <2>2, <2>3, <1>1
<1> QED
  BY <1>7, <1>8, <1>9, <1>10, <1>11, <1>12, <1>13, <1>14, <1>15, <1>16, <1>17
     DEF code, a, b

\* those that change a pointer of A, too,
LEMMA FastMovA ==
  ASSUME NEW c \in GoodCore94, NEW i \in Address
  PROVE  LET code == c[i].insn
             a    == D!at(c, i, "a")
             b    == D!at(c, i, "b")
             up   == D!Bump(c, a, "a")
             down == D!Drop(c, a, "a")
         IN  /\ code = <<"MOV", "I", PostA, ">">> =>
                  D!OptSlow(c, i)
                    = LET e    == D!Bump(up, b, "b")
                          from == D!at(c, a, "a")
                      IN  D!Continues([e EXCEPT ![D!at(up, b, "b")] =
                             [c[from] EXCEPT !.insn = e[from].insn]], D!Inc(i))
             /\ code = <<"MOV", "I", PreA, "<">> =>
                  D!OptSlow(c, i)
                    = LET g == D!Drop(down, b, "b")
                      IN  D!CopiesB(down, g, D!at(down, a, "a"), D!at(g, b, "b"), i)
<1> DEFINE code == c[i].insn
           a    == D!at(c, i, "a")
           b    == D!at(c, i, "b")
           up   == D!Bump(c, a, "a")
           down == D!Drop(c, a, "a")
           e    == D!Bump(up, b, "b")
           g    == D!Drop(down, b, "b")
           from == D!at(c, a, "a")
           x    == D!at(down, a, "a")
           A    == D!OptA(c, i)
           B    == D!OptB(c, i)
<1>1. a \in Address /\ b \in Address
  BY PointerChanged DEF Field
<1>2. /\ D!am(c[i]) = PostA => A = Read(up, c, from)
      /\ D!am(c[i]) = PreA => A = Read(down, down, x)
  BY OptAIs
<1>3. /\ A.core = up /\ D!bm(c[i]) = ">" => B = Read(e, up, D!at(up, b, "b"))
      /\ A.core = down /\ D!bm(c[i]) = "<" => B = Read(g, g, D!at(g, b, "b"))
  BY OptBIs
<1> HIDE DEF code, a, b, up, down, A, B
<1>4. up \in GoodCore94 /\ down \in GoodCore94 /\ from \in Address
  BY <1>1, PointerChanged DEF Field, up, down
<1>5. e \in GoodCore94 /\ g \in GoodCore94 /\ x \in Address
  BY <1>1, <1>4, PointerChanged DEF Field
<1> HIDE DEF e, g, from, x
<1>6. ASSUME code = <<"MOV", "I", PostA, ">">>
      PROVE  D!OptSlow(c, i)
               = D!Continues([e EXCEPT ![D!at(up, b, "b")] =
                    [c[from] EXCEPT !.insn = e[from].insn]], D!Inc(i))
  <2>1. D!op(c[i]) = "MOV" /\ D!mod(c[i]) = "I"
        /\ D!am(c[i]) = PostA /\ D!bm(c[i]) = ">"
    BY <1>6, CodeIs DEF code
  <2>2. A = Read(up, c, from) /\ A.core = up
    BY <1>2, <2>1 DEF Read
  <2>3. B = Read(e, up, D!at(up, b, "b"))
    BY <1>3, <2>1, <2>2
  <2>4. D!OptSlow(c, i) = MovI(e, from, c[from].a, c[from].b, D!at(up, b, "b"), i)
    BY <2>1, <2>2, <2>3, SlowMov DEF Read, A, B
  <2>5. [c[from] EXCEPT !.insn = e[from].insn]
          = [insn |-> e[from].insn, a |-> c[from].a, b |-> c[from].b]
    BY <1>4 DEF GoodCore94, Cell94
  <2> QED
    BY <2>4, <2>5 DEF MovI
<1>7. ASSUME code = <<"MOV", "I", PreA, "<">>
      PROVE  D!OptSlow(c, i) = D!CopiesB(down, g, x, D!at(g, b, "b"), i)
  <2>1. D!op(c[i]) = "MOV" /\ D!mod(c[i]) = "I"
        /\ D!am(c[i]) = PreA /\ D!bm(c[i]) = "<"
    BY <1>7, CodeIs DEF code
  <2>2. A = Read(down, down, x) /\ A.core = down
    BY <1>2, <2>1 DEF Read
  <2>3. B = Read(g, g, D!at(g, b, "b"))
    BY <1>3, <2>1, <2>2
  <2>4. D!OptSlow(c, i)
          = MovI(g, x, down[x].a, down[x].b, D!at(g, b, "b"), i)
    BY <2>1, <2>2, <2>3, SlowMov DEF Read, A, B
  <2>5. g[x].a = down[x].a
    BY <1>1, <1>4, <1>5, PointerChanged DEF g
  <2> QED
    BY <1>4, <1>5, <2>4, <2>5, CopiesAre
<1> QED
  BY <1>6, <1>7 DEF code, a, b, up, down, e, g, from, x

\* and ADD.F $, $.
LEMMA FastAdd ==
  ASSUME NEW c \in GoodCore94, NEW i \in Address,
         c[i].insn = <<"ADD", "F", "$", "$">>
  PROVE  LET a == D!at(c, i, "a")
             b == D!at(c, i, "b")
             d == [c EXCEPT ![b].a = D!Plus(@, c[a].a)]
         IN  D!OptSlow(c, i)
               = D!Continues([d EXCEPT ![b].b = D!Plus(@, d[a].b)], D!Inc(i))
<1> DEFINE a == D!at(c, i, "a")
           b == D!at(c, i, "b")
           d == [c EXCEPT ![b].a = D!Plus(@, c[a].a)]
           A == D!OptA(c, i)
           B == D!OptB(c, i)
           u == D!Plus(c[b].a, c[a].a)
           v == D!Plus(c[b].b, c[a].b)
           values == [x \in DOMAIN D!Meets("F") |-> D!Plus(B[x], A[D!Meets("F")[x]])]
           cell == [x \in {"insn", "a", "b"} |->
                      IF x \in DOMAIN values THEN values[x] ELSE B.core[B.addr][x]]
<1>1. a \in Address /\ b \in Address
  BY PointerChanged DEF Field
<1>2. D!op(c[i]) = "ADD" /\ D!mod(c[i]) = "F" /\ D!am(c[i]) = "$" /\ D!bm(c[i]) = "$"
  BY CodeIs
<1>3. A = Read(c, c, a)
  BY <1>2, OptAIs
<1>4. B = Read(c, c, b)
  BY <1>2, <1>3, OptBIs DEF Read
<1>5. D!OptSlow(c, i) = D!Add(A, B, "F", i)
  BY <1>2 DEF D!OptSlow, D!Switch
<1>6. D!Add(A, B, "F", i) = D!Continues([B.core EXCEPT ![B.addr] = cell], D!Inc(i))
  BY DEF D!Add, D!Wrote
<1> HIDE DEF a, b, A, B
<1>7. /\ A.a = c[a].a /\ A.b = c[a].b
      /\ B.core = c /\ B.addr = b /\ B.a = c[b].a /\ B.b = c[b].b
  BY <1>3, <1>4 DEF Read
<1>8. DOMAIN values = {"a", "b"} /\ values["a"] = u /\ values["b"] = v
  BY <1>7 DEF D!Meets
<1> HIDE DEF values
<1>9. c[a] \in Cell94 /\ c[b] \in Cell94 /\ u \in Address /\ v \in Address
  <2>1. c[a] \in Cell94 /\ c[b] \in Cell94
    BY <1>1, CoreFields
  <2> QED
    BY <2>1, MacrosClosed94 DEF Cell94
<1> HIDE DEF u, v
<1>10. cell \in Cell94 /\ cell.insn = c[b].insn /\ cell.a = u /\ cell.b = v
  BY <1>7, <1>8, <1>9 DEF Cell94
<1> HIDE DEF cell
<1>11. cell = [[c[b] EXCEPT !.a = u] EXCEPT !.b = v]
  BY <1>9, <1>10 DEF Cell94
<1>12. d \in GoodCore94 /\ d[a].b = c[a].b /\ d[b].b = c[b].b
       /\ d = [c EXCEPT ![b] = [c[b] EXCEPT !.a = u]]
  BY <1>1, <1>9 DEF d, u, GoodCore94, Cell94
<1>13. [d EXCEPT ![b].b = D!Plus(@, d[a].b)] = [c EXCEPT ![b] = cell]
  <2>1. D!Plus(d[b].b, d[a].b) = v
    BY <1>12 DEF v
  <2> HIDE DEF d
  <2>2. [d EXCEPT ![b].b = D!Plus(@, d[a].b)] = [d EXCEPT ![b] = [d[b] EXCEPT !.b = v]]
    BY <2>1
  <2>3. d[b] = [c[b] EXCEPT !.a = u]
    BY <1>1, <1>12 DEF GoodCore94
  <2>4. [d EXCEPT ![b] = [d[b] EXCEPT !.b = v]] = [c EXCEPT ![b] = [d[b] EXCEPT !.b = v]]
    BY <1>1, <1>12 DEF GoodCore94
  <2> QED
    BY <1>11, <2>2, <2>3, <2>4
<1> QED
  BY <1>5, <1>6, <1>7, <1>13 DEF a, b

\* The cases of BenchMARS94nop.c, the last ones first.
LEMMA BenchFast5Slow ==
  ASSUME NEW c \in GoodCore94, NEW i \in Address
  PROVE  D!BenchFast5(c, i) = D!OptSlow(c, i)
  BY FastOthers, FastDjn, FastMov, FastAdd, SlowAlike, ZenonT(60)
     DEF D!BenchFast5, PreA, PostA

\* The cases before them,
LEMMA BenchFast4Slow ==
  ASSUME NEW c \in GoodCore94, NEW i \in Address
  PROVE  D!BenchFast4(c, i) = D!OptSlow(c, i)
  BY FastOthers, FastDjn, BenchFast5Slow, ZenonT(60)
     DEF D!BenchFast4, PreA, PostA

\* the third part,
LEMMA BenchFast3Slow ==
  ASSUME NEW c \in GoodCore94, NEW i \in Address
  PROVE  D!BenchFast3(c, i) = D!OptSlow(c, i)
  BY FastOthers, FastDjn, FastMov, FastMovA, BenchFast4Slow, ZenonT(60)
     DEF D!BenchFast3, PreA, PostA

\* the second part,
LEMMA BenchFast2Slow ==
  ASSUME NEW c \in GoodCore94, NEW i \in Address
  PROVE  D!BenchFast2(c, i) = D!OptSlow(c, i)
  BY FastOthers, FastDjn, FastMov, BenchFast3Slow, ZenonT(60)
     DEF D!BenchFast2, PreA, PostA

\* and the first cases of the switch.
LEMMA BenchFast1Slow ==
  ASSUME NEW c \in GoodCore94, NEW i \in Address
  PROVE  D!BenchFast1(c, i) = D!OptSlow(c, i)
  BY FastOthers, FastMov, BenchFast2Slow, ZenonT(60)
     DEF D!BenchFast1, PreA, PostA

\* The cases of OptMARS94nop.c.
LEMMA OptFast4Slow ==
  ASSUME NEW c \in GoodCore94, NEW i \in Address
  PROVE  D!OptFast4(c, i) = D!OptSlow(c, i)
  BY FastDjn, FastMov, FastMovA, ZenonT(60)
     DEF D!OptFast4, PreA, PostA

\* The cases before them,
LEMMA OptFast3Slow ==
  ASSUME NEW c \in GoodCore94, NEW i \in Address
  PROVE  D!OptFast3(c, i) = D!OptSlow(c, i)
  BY FastOthers, FastDjn, FastMov, OptFast4Slow, ZenonT(60)
     DEF D!OptFast3, PreA, PostA

\* the second part,
LEMMA OptFast2Slow ==
  ASSUME NEW c \in GoodCore94, NEW i \in Address
  PROVE  D!OptFast2(c, i) = D!OptSlow(c, i)
  BY FastOthers, FastMov, OptFast3Slow, ZenonT(60)
     DEF D!OptFast2, PreA, PostA

\* and the first cases of the switch.
LEMMA OptFast1Slow ==
  ASSUME NEW c \in GoodCore94, NEW i \in Address
  PROVE  D!OptFast1(c, i) = D!OptSlow(c, i)
  BY FastOthers, FastDjn, FastMov, OptFast2Slow, ZenonT(60)
     DEF D!OptFast1, PreA, PostA

\* What both functions of both files do with an instruction.
LEMMA AllAlike ==
  ASSUME NEW c \in GoodCore94, NEW i \in Address
  PROVE  /\ D!Bench(c, i) = D!OptSlow(c, i) /\ D!Opt(c, i) = D!OptSlow(c, i)
         /\ D!BenchSlow(c, i) = D!OptSlow(c, i)
  BY BenchFast1Slow, OptFast1Slow, SlowAlike DEF D!Bench, D!Opt

----------------------------------------------------------------------------
(* The instructions of '94 in a run *)

\* The process of '94 stays in a core of good cells.
Goes94 == standard = 94 => core \in GoodCore94 /\ ip \in Address \cup {-1}

\* A run of run_94nop starts in a core of good cells,
LEMMA InitGoes94 == ProcessesInit => Goes94
<1> SUFFICES ASSUME D!Init, standard = 94
             PROVE  core \in GoodCore94 /\ ip \in Address \cup {-1}
  BY DEF ProcessesInit, Goes94
<1>1. PICK first \in Under94, rest \in [Address \ {0} -> Backdrop94] :
        core = [x \in Address |-> IF x = 0 THEN first ELSE rest[x]]
  BY SameMacros DEF D!Init
<1>2. \A insn \in Under94 \cup Backdrop94 : insn \in Cell94
  BY ProcessAssumption94, SameMacros DEF D!Insn, Cell94
<1>3. core \in GoodCore94
  BY <1>1, <1>2 DEF GoodCore94
<1>4. ip \in Address
  BY CoreAssumption DEF D!Init, Address
<1> QED
  BY <1>3, <1>4

\* and a turn keeps them good.
LEMMA TurnGoes94 ==
  ASSUME Goes94, standard = 94, D!Turn, UNCHANGED standard
  PROVE  Goes94'
<1> DEFINE r == D!Bench(core, ip)
<1>1. core \in GoodCore94 /\ ip \in Address
  BY DEF Goes94, D!Turn
<1>2. GoodResult(r)
  BY <1>1, AllAlike, SlowClosed
<1>3. D!Inc(ip) \in Address
  BY <1>1, MacrosClosed94
<1> HIDE DEF r
<1>4. /\ core' = r.core
      /\ ip' = CASE r.does = "continue" -> r.next
                 [] r.does = "split"    -> D!Inc(ip)
                 [] OTHER               -> -1
  BY DEF D!Turn, r
<1> QED
  BY <1>2, <1>3, <1>4 DEF Goes94, GoodResult

\* The invariant of both machines.
Goes == standard \in {88, 94} /\ Goes88 /\ Goes94

\* The invariant of both machines holds always.
LEMMA GoesAlways == ProcessesSpec => []Goes
<1>1. ProcessesInit => standard \in {88, 94}
  BY DEF ProcessesInit
<1>2. Goes /\ [ProcessesNext]_pvars => Goes'
  <2>1. Goes88 /\ [ProcessesNext]_pvars => Goes88'
    BY TurnGoes88 DEF ProcessesNext, pvars, vars, Goes88
  <2>2. Goes94 /\ [ProcessesNext]_pvars => Goes94'
    BY TurnGoes94 DEF ProcessesNext, pvars, vars, Goes94
  <2>3. standard \in {88, 94} /\ [ProcessesNext]_pvars => standard' \in {88, 94}
    BY DEF ProcessesNext, pvars
  <2> QED
    BY <2>1, <2>2, <2>3 DEF Goes
<1> QED
  BY <1>1, <1>2, InitGoes88, InitGoes94, PTL DEF ProcessesSpec, Goes

\* The fields and the pointers of both machines stay in the core, and no code
\* of '88 reaches the default case of the switch.
THEOREM CoresStayValid == ProcessesSpec => []CoresOK
<1>1. Goes => CoresOK
  <2>1. core \in GoodCore => core \in Core /\ \A x \in Address : core[x].insn \in ValidCode
    BY DEF GoodCore, GoodInsn, Core
  <2>2. core \in GoodCore94 /\ ip \in Address \cup {-1} => D!CoreOK
    BY SameMacros DEF D!CoreOK
  <2> QED
    BY <2>1, <2>2 DEF CoresOK, CoreOK, Goes, Goes88, Goes94
<1> QED
  BY <1>1, GoesAlways, PTL

\* The hand-optimized cases of the most frequent instructions, in both files,
\* do what the general steps would do.
THEOREM FrequentCasesAreRight == ProcessesSpec => []FastAsSlow94
<1>1. Goes => FastAsSlow94
  BY AllAlike DEF Goes, Goes94, FastAsSlow94, D!FastAsSlow
<1> QED
  BY <1>1, GoesAlways, PTL

\* The 64 cases for pairs of modes and the two switches evaluate alike.
THEOREM FilesAgree == ProcessesSpec => []BenchAsOpt94
<1>1. Goes => BenchAsOpt94
  BY AllAlike DEF Goes, Goes94, BenchAsOpt94, D!BenchAsOpt
<1> QED
  BY <1>1, GoesAlways, PTL

----------------------------------------------------------------------------
(* The instructions of '94: programs are relocatable *)

\* Both machines are moved in the same way.
LEMMA SameMoved == \A c, d : D!Moved(c, d) = Moved(c, d)
  BY SameMacros DEF D!Moved, Moved

\* An operand, moved.
MovedOperand(A, d) ==
  [core |-> Moved(A.core, d), addr |-> Plus(A.addr, d), a |-> A.a, b |-> A.b]

\* Moved cells are good, and are those of the core.
LEMMA MovedCells94 ==
  ASSUME NEW c \in GoodCore94, NEW d \in Address
  PROVE  /\ Moved(c, d) \in GoodCore94
         /\ \A x \in Address : Moved(c, d)[Plus(x, d)] = c[x]
  BY MovedCells DEF GoodCore94

\* A pointer points to the same cell, moved, and changes in the same way.
LEMMA MovedPointer ==
  ASSUME NEW c \in GoodCore94, NEW x \in Address, NEW f \in Field, NEW d \in Address
  PROVE  /\ D!Bump(Moved(c, d), Plus(x, d), f) = Moved(D!Bump(c, x, f), d)
         /\ D!Drop(Moved(c, d), Plus(x, d), f) = Moved(D!Drop(c, x, f), d)
         /\ D!at(Moved(c, d), Plus(x, d), f) = Plus(D!at(c, x, f), d)
<1> DEFINE there == Moved(c, d)
           y     == Plus(x, d)
           up    == [c[x] EXCEPT ![f] = D!Inc(c[x][f])]
           down  == [c[x] EXCEPT ![f] = D!Dec(c[x][f])]
<1>1. there[y] = c[x] /\ c \in [Address -> Cell94]
  BY MovedCells94 DEF GoodCore94
<1>2. /\ Moved(Replaced(c, x, up), d) = Replaced(Moved(c, d), Plus(x, d), up)
      /\ Moved(Replaced(c, x, down), d) = Replaced(Moved(c, d), Plus(x, d), down)
  <2> HIDE DEF up, down
  <2> QED
    BY <1>1, MovedChange
<1>3. D!Bump(c, x, f) = Replaced(c, x, up) /\ D!Drop(c, x, f) = Replaced(c, x, down)
  BY DEF D!Bump, D!Drop, Replaced
<1>4. D!at(there, y, f) = Plus(D!at(c, x, f), d)
  <2>1. c[x][f] \in Address
    BY CoreFields
  <2>2. D!at(there, y, f) = Plus(y, c[x][f]) /\ D!at(c, x, f) = Plus(x, c[x][f])
    BY <1>1, SameMacros DEF D!at
  <2> QED
    BY <2>1, <2>2, Shifted
<1> HIDE DEF there, y
<1>5. D!Bump(there, y, f) = Replaced(there, y, up)
      /\ D!Drop(there, y, f) = Replaced(there, y, down)
  BY <1>1 DEF D!Bump, D!Drop, Replaced
<1> QED
  BY <1>2, <1>3, <1>4, <1>5 DEF there, y

\* What is read in the moved core is the same.
LEMMA MovedRead ==
  ASSUME NEW now, NEW before \in GoodCore94, NEW x \in Address, NEW d \in Address
  PROVE  Read(Moved(now, d), Moved(before, d), Plus(x, d))
           = MovedOperand(Read(now, before, x), d)
<1>1. Moved(before, d)[Plus(x, d)] = before[x]
  BY MovedCells94
<1> QED
  BY <1>1 DEF Read, MovedOperand

\* An operand in the moved core is the operand, moved.
LEMMA MovedThrough ==
  ASSUME NEW c \in GoodCore94, NEW i \in Address, NEW field \in Address,
         NEW d \in Address, NEW mode \in D!Mode, mode # "#"
  PROVE  D!Through(Moved(c, d), Plus(i, d), mode, field)
           = MovedOperand(D!Through(c, i, mode, field), d)
<1> DEFINE there == Moved(c, d)
           x     == Plus(i, field)
           y     == Plus(Plus(i, d), field)
<1>1. x \in Address /\ y = Plus(x, d) /\ D!Plus(i, field) = x
      /\ D!Plus(Plus(i, d), field) = y
  BY Macros, Shifted, SameMacros
<1> HIDE DEF x, y
<1>2. "a" \in Field /\ "b" \in Field
  BY DEF Field
<1>3. CASE mode = "$"
  BY <1>1, <1>3, ThroughIs, MovedRead
<1>4. CASE mode = "@"
  <2>1. D!at(c, x, "b") \in Address
        /\ D!at(there, y, "b") = Plus(D!at(c, x, "b"), d)
    BY <1>1, <1>2, MovedPointer, PointerChanged
  <2> QED
    BY <1>1, <1>4, <2>1, ThroughIs, MovedRead
<1>5. CASE mode = "*"
  <2>1. D!at(c, x, "a") \in Address
        /\ D!at(there, y, "a") = Plus(D!at(c, x, "a"), d)
    BY <1>1, <1>2, MovedPointer, PointerChanged
  <2> QED
    BY <1>1, <1>5, <2>1, ThroughIs, MovedRead
<1>6. ASSUME NEW f \in Field
      PROVE  LET e == D!Drop(c, x, f)
             IN  Read(D!Drop(there, y, f), D!Drop(there, y, f),
                      D!at(D!Drop(there, y, f), y, f))
                   = MovedOperand(Read(e, e, D!at(e, x, f)), d)
  <2> DEFINE e == D!Drop(c, x, f)
  <2>1. e \in GoodCore94 /\ D!Drop(there, y, f) = Moved(e, d)
    BY <1>1, MovedPointer, PointerChanged
  <2> HIDE DEF e
  <2>2. D!at(e, x, f) \in Address /\ D!at(Moved(e, d), y, f) = Plus(D!at(e, x, f), d)
    BY <1>1, <2>1, MovedPointer, PointerChanged
  <2>3. Read(Moved(e, d), Moved(e, d), Plus(D!at(e, x, f), d))
          = MovedOperand(Read(e, e, D!at(e, x, f)), d)
    BY <2>1, <2>2, MovedRead
  <2> QED
    BY <2>1, <2>2, <2>3 DEF e
<1>7. ASSUME NEW f \in Field
      PROVE  Read(D!Bump(there, y, f), there, D!at(there, y, f))
               = MovedOperand(Read(D!Bump(c, x, f), c, D!at(c, x, f)), d)
  <2>1. D!at(c, x, f) \in Address /\ D!at(there, y, f) = Plus(D!at(c, x, f), d)
        /\ D!Bump(there, y, f) = Moved(D!Bump(c, x, f), d)
    BY <1>1, MovedPointer, PointerChanged
  <2> QED
    BY <2>1, MovedRead
<1> HIDE DEF there
<1>8. CASE mode = "<"
  BY <1>1, <1>2, <1>6, <1>8, ThroughIs DEF there
<1>9. CASE mode = PreA
  BY <1>1, <1>2, <1>6, <1>9, ThroughIs DEF there
<1>10. CASE mode = ">"
  BY <1>1, <1>2, <1>7, <1>10, ThroughIs DEF there
<1>11. CASE mode = PostA
  BY <1>1, <1>2, <1>7, <1>11, ThroughIs DEF there
<1> QED
  BY <1>3, <1>4, <1>5, <1>8, <1>9, <1>10, <1>11, ModeNames

\* Both operands, in turn.
LEMMA MovedOperands94 ==
  ASSUME NEW c \in GoodCore94, NEW i \in Address, NEW d \in Address
  PROVE  /\ D!OptA(Moved(c, d), Plus(i, d)) = MovedOperand(D!OptA(c, i), d)
         /\ D!OptB(Moved(c, d), Plus(i, d)) = MovedOperand(D!OptB(c, i), d)
<1> DEFINE there == Moved(c, d)
           at    == Plus(i, d)
           A     == D!OptA(c, i)
           m     == D!am(c[i])
           n     == D!bm(c[i])
<1>1. there[at] = c[i]
  BY MovedCells94
<1>2. /\ m \in D!Mode /\ n \in D!Mode /\ c[i].a \in Address /\ c[i].b \in Address
  BY CoreFields DEF Cell94, D!Code, D!am, D!bm
<1>3. A \in Operand94 /\ A.core \in GoodCore94
  BY OptOperandsClosed DEF Operand94
<1>4. D!Immediate(there, at) = MovedOperand(D!Immediate(c, i), d)
  BY <1>1 DEF D!Immediate, MovedOperand
<1> HIDE DEF there, at, m, n
<1>5. D!OptA(there, at) = MovedOperand(A, d)
  <2>1. CASE m = "#"
    BY <1>1, <1>4, <2>1 DEF D!OptA, m
  <2>2. CASE m # "#"
    <3>1. D!Through(there, at, m, c[i].a) = MovedOperand(D!Through(c, i, m, c[i].a), d)
      BY <1>2, <2>2, MovedThrough DEF there, at
    <3> QED
      BY <1>1, <2>2, <3>1 DEF D!OptA, m
  <2> QED
    BY <2>1, <2>2
<1> HIDE DEF A
<1>6. D!OptA(there, at).core = Moved(A.core, d)
  BY <1>3, <1>5 DEF MovedOperand, Operand94
<1>7. D!OptB(there, at) = MovedOperand(D!OptB(c, i), d)
  <2>1. CASE n = "#"
    <3>1. [D!Immediate(there, at) EXCEPT !.core = Moved(A.core, d)]
            = MovedOperand([D!Immediate(c, i) EXCEPT !.core = A.core], d)
      BY <1>4 DEF D!Immediate, MovedOperand
    <3> QED
      BY <1>1, <1>6, <2>1, <3>1 DEF D!OptB, n, A
  <2>2. CASE n # "#"
    <3>1. D!Through(Moved(A.core, d), at, n, c[i].b)
            = MovedOperand(D!Through(A.core, i, n, c[i].b), d)
      BY <1>2, <1>3, <2>2, MovedThrough DEF at
    <3> QED
      BY <1>1, <1>6, <2>2, <3>1 DEF D!OptB, n, A
  <2> QED
    BY <2>1, <2>2
<1> QED
  BY <1>5, <1>7 DEF there, at, A

\* A result of which core and address are replaced.
Altered(r, y, z) == [r EXCEPT !.core = y, !.next = z]

\* A result with another core and another address.
LEMMA ResultExcept ==
  ASSUME NEW c, NEW does, NEW x, NEW y, NEW z
  PROVE  Altered([core |-> c, does |-> does, next |-> x], y, z)
           = [core |-> y, does |-> does, next |-> z]
<1> DEFINE r == [core |-> c, does |-> does, next |-> x]
<1>1. [r EXCEPT !.core = y] = [core |-> y, does |-> does, next |-> x]
  OBVIOUS
<1>2. [[core |-> y, does |-> does, next |-> x] EXCEPT !.next = z]
        = [core |-> y, does |-> does, next |-> z]
  OBVIOUS
<1> HIDE DEF r
<1>3. [r EXCEPT !.core = y, !.next = z] = [[r EXCEPT !.core = y] EXCEPT !.next = z]
  OBVIOUS
<1> QED
  BY <1>1, <1>2, <1>3 DEF r, Altered

\* What an instruction hands over, moved.
LEMMA MovedResults ==
  ASSUME NEW c, NEW x \in Address, NEW d \in Address
  PROVE  /\ D!Continues(Moved(c, d), Plus(x, d)) = D!MovedResult(D!Continues(c, x), d)
         /\ D!Splits(Moved(c, d), Plus(x, d)) = D!MovedResult(D!Splits(c, x), d)
         /\ D!Dies(Moved(c, d)) = D!MovedResult(D!Dies(c), d)
         /\ D!Vanishes(Moved(c, d)) = D!MovedResult(D!Vanishes(c), d)
<1>1. x # -1 /\ D!Moved(c, d) = Moved(c, d) /\ D!Plus(x, d) = Plus(x, d)
  BY SameMacros, SameMoved DEF Address
<1>2. ASSUME NEW does
      PROVE  D!MovedResult([core |-> c, does |-> does, next |-> x], d)
               = [core |-> Moved(c, d), does |-> does, next |-> Plus(x, d)]
  <2> DEFINE r == [core |-> c, does |-> does, next |-> x]
  <2>1. r.core = c /\ r.next = x
    OBVIOUS
  <2>2. Altered(r, Moved(c, d), Plus(x, d))
          = [core |-> Moved(c, d), does |-> does, next |-> Plus(x, d)]
    BY ResultExcept
  <2> HIDE DEF r
  <2>3. D!MovedResult(r, d) = Altered(r, Moved(c, d), Plus(x, d))
    BY <1>1, <2>1 DEF D!MovedResult, Altered
  <2> QED
    BY <2>2, <2>3 DEF r
<1>3. ASSUME NEW does
      PROVE  D!MovedResult([core |-> c, does |-> does, next |-> -1], d)
               = [core |-> Moved(c, d), does |-> does, next |-> -1]
  <2> DEFINE r == [core |-> c, does |-> does, next |-> -1]
  <2>1. r.core = c /\ r.next = -1
    OBVIOUS
  <2>2. Altered(r, Moved(c, d), -1)
          = [core |-> Moved(c, d), does |-> does, next |-> -1]
    BY ResultExcept
  <2> HIDE DEF r
  <2>3. D!MovedResult(r, d) = Altered(r, Moved(c, d), -1)
    BY <1>1, <2>1 DEF D!MovedResult, Altered
  <2> QED
    BY <2>2, <2>3 DEF r
<1> QED
  BY <1>2, <1>3 DEF D!Continues, D!Splits, D!Dies, D!Vanishes

\* A cell is written in the same way.
LEMMA MovedWrote ==
  ASSUME NEW B \in Operand94, NEW values, NEW d \in Address
  PROVE  D!Wrote(MovedOperand(B, d), values) = Moved(D!Wrote(B, values), d)
<1> DEFINE cell == [x \in {"insn", "a", "b"} |->
                      IF x \in DOMAIN values THEN values[x] ELSE B.core[B.addr][x]]
           M == MovedOperand(B, d)
<1>1. B.core \in [Address -> Cell94] /\ B.core \in GoodCore94 /\ B.addr \in Address
  BY DEF Operand94, GoodCore94
<1>2. M.core = Moved(B.core, d) /\ M.addr = Plus(B.addr, d)
  BY DEF MovedOperand
<1>3. M.core[M.addr] = B.core[B.addr]
  BY <1>1, <1>2, MovedCells94
<1> HIDE DEF M
<1>4. D!Wrote(M, values) = Replaced(M.core, M.addr, cell)
  BY <1>3 DEF D!Wrote, Replaced
<1>5. D!Wrote(B, values) = Replaced(B.core, B.addr, cell)
  BY DEF D!Wrote, Replaced
<1> HIDE DEF cell
<1>6. Moved(Replaced(B.core, B.addr, cell), d)
        = Replaced(Moved(B.core, d), Plus(B.addr, d), cell)
  BY <1>1, MovedChange
<1> QED
  BY <1>2, <1>4, <1>5, <1>6 DEF M

\* The operands of the moved instruction have the values of the operands, and
\* denote the same cells.
LEMMA MovedValues ==
  ASSUME NEW A \in Operand94, NEW B \in Operand94, NEW m \in D!Modifier,
         NEW d \in Address
  PROVE  LET MA == MovedOperand(A, d)
             MB == MovedOperand(B, d)
         IN  /\ \A f \in Field : MA[f] = A[f] /\ MB[f] = B[f]
             /\ \A x \in DOMAIN D!Meets(m) :
                  MB[x] = B[x] /\ MA[D!Meets(m)[x]] = A[D!Meets(m)[x]]
             /\ MB.core = Moved(B.core, d)
             /\ MA.addr = Plus(A.addr, d) /\ MB.addr = Plus(B.addr, d)
             /\ MB.core[MA.addr] = B.core[A.addr]
             /\ MB.core[MB.addr] = B.core[B.addr]
<1> DEFINE MA == MovedOperand(A, d)
           MB == MovedOperand(B, d)
<1>1. /\ \A f \in Field : MA[f] = A[f] /\ MB[f] = B[f]
      /\ MB.core = Moved(B.core, d)
      /\ MA.addr = Plus(A.addr, d) /\ MB.addr = Plus(B.addr, d)
  BY DEF MovedOperand, Field
<1>2. B.core \in GoodCore94 /\ A.addr \in Address /\ B.addr \in Address
  BY DEF Operand94
<1> HIDE DEF MA, MB
<1>3. MB.core[MA.addr] = B.core[A.addr] /\ MB.core[MB.addr] = B.core[B.addr]
  BY <1>1, <1>2, MovedCells94
<1> QED
  BY <1>1, <1>3, MeetsFields DEF MA, MB

\* MOV in a moved core.
LEMMA MovedMov ==
  ASSUME NEW A \in Operand94, NEW B \in Operand94, NEW m \in D!Modifier,
         NEW i \in Address, NEW d \in Address
  PROVE  D!Mov(MovedOperand(A, d), MovedOperand(B, d), m, Plus(i, d))
           = D!MovedResult(D!Mov(A, B, m, i), d)
<1> DEFINE MA == MovedOperand(A, d)
           MB == MovedOperand(B, d)
           values == [x \in DOMAIN D!Meets(m) |-> A[D!Meets(m)[x]]]
           moved  == D!Wrote(B, values)
           code   == B.core[A.addr].insn
           cell   == [moved[B.addr] EXCEPT !.insn = code]
<1>1. D!Inc(Plus(i, d)) = Plus(D!Inc(i), d) /\ D!Inc(i) \in Address
  BY Shifted, SameMacros, MacrosClosed94
<1>2. MB.core[MA.addr].insn = code /\ MB.addr = Plus(B.addr, d) /\ B.addr \in Address
  BY MovedValues DEF Operand94
<1>3. [x \in DOMAIN D!Meets(m) |-> MA[D!Meets(m)[x]]] = values
  BY MovedValues
<1>4. D!Wrote(MB, values) = Moved(moved, d)
  BY MovedWrote
<1>5. moved \in GoodCore94
  BY MeetsFields, OperandFields, WroteClosed
<1> HIDE DEF MA, MB, moved, code
<1>6. Moved(moved, d)[MB.addr] = moved[B.addr] /\ moved \in [Address -> Cell94]
  BY <1>2, <1>5, MovedCells94 DEF GoodCore94
<1>7. [Moved(moved, d) EXCEPT ![MB.addr].insn = code]
        = Replaced(Moved(moved, d), MB.addr, cell)
  BY <1>6 DEF Replaced
<1>8. [moved EXCEPT ![B.addr].insn = code] = Replaced(moved, B.addr, cell)
  BY DEF Replaced
<1> HIDE DEF cell
<1>9. Replaced(Moved(moved, d), MB.addr, cell) = Moved(Replaced(moved, B.addr, cell), d)
  BY <1>2, <1>6, MovedChange
<1>10. D!Mov(A, B, m, i)
         = D!Continues(IF m # "I" THEN moved ELSE Replaced(moved, B.addr, cell), D!Inc(i))
  BY <1>8 DEF D!Mov, moved, code
<1>11. D!Mov(MA, MB, m, Plus(i, d))
         = D!Continues(IF m # "I" THEN Moved(moved, d)
                       ELSE Moved(Replaced(moved, B.addr, cell), d), Plus(D!Inc(i), d))
  BY <1>1, <1>2, <1>3, <1>4, <1>7, <1>9 DEF D!Mov
<1>12. CASE m # "I"
  BY <1>1, <1>10, <1>11, <1>12, MovedResults DEF MA, MB
<1>13. CASE m = "I"
  BY <1>1, <1>10, <1>11, <1>13, MovedResults DEF MA, MB
<1> QED
  BY <1>12, <1>13

\* ADD, SUB, MUL, DIV and MOD write what they compute from the values.
LEMMA MovedArithmetic ==
  ASSUME NEW A \in Operand94, NEW B \in Operand94, NEW m \in D!Modifier,
         NEW i \in Address, NEW d \in Address
  PROVE  LET MA == MovedOperand(A, d)
             MB == MovedOperand(B, d)
             at == Plus(i, d)
         IN  /\ D!Add(MA, MB, m, at) = D!MovedResult(D!Add(A, B, m, i), d)
             /\ D!Sub(MA, MB, m, at) = D!MovedResult(D!Sub(A, B, m, i), d)
             /\ D!Mul(MA, MB, m, at) = D!MovedResult(D!Mul(A, B, m, i), d)
             /\ D!Div(MA, MB, m, at) = D!MovedResult(D!Div(A, B, m, i), d)
             /\ D!Modulo(MA, MB, m, at) = D!MovedResult(D!Modulo(A, B, m, i), d)
<1> DEFINE MA == MovedOperand(A, d)
           MB == MovedOperand(B, d)
           at == Plus(i, d)
<1>1. D!Inc(at) = Plus(D!Inc(i), d) /\ D!Inc(i) \in Address
  BY Shifted, SameMacros, MacrosClosed94
<1>2. \A x \in DOMAIN D!Meets(m) :
        MB[x] = B[x] /\ MA[D!Meets(m)[x]] = A[D!Meets(m)[x]]
  BY MovedValues
<1>3. \A values : D!Wrote(MB, values) = Moved(D!Wrote(B, values), d)
  BY MovedWrote
<1>4. D!Sound(MA, m) = D!Sound(A, m)
  BY <1>2 DEF D!Sound
<1> HIDE DEF MA, MB, at
<1>5. D!Add(MA, MB, m, at) = D!MovedResult(D!Add(A, B, m, i), d)
  <2> DEFINE values == [x \in DOMAIN D!Meets(m) |-> D!Plus(B[x], A[D!Meets(m)[x]])]
  <2>1. [x \in DOMAIN D!Meets(m) |-> D!Plus(MB[x], MA[D!Meets(m)[x]])] = values
    BY <1>2
  <2> HIDE DEF values
  <2>2. D!Add(MA, MB, m, at)
          = D!Continues(Moved(D!Wrote(B, values), d), Plus(D!Inc(i), d))
    BY <1>1, <1>3, <2>1 DEF D!Add
  <2> QED
    BY <1>1, <2>2, MovedResults DEF D!Add, values
<1>6. D!Sub(MA, MB, m, at) = D!MovedResult(D!Sub(A, B, m, i), d)
  <2> DEFINE values == [x \in DOMAIN D!Meets(m) |-> D!Minus(B[x], A[D!Meets(m)[x]])]
  <2>1. [x \in DOMAIN D!Meets(m) |-> D!Minus(MB[x], MA[D!Meets(m)[x]])] = values
    BY <1>2
  <2> HIDE DEF values
  <2>2. D!Sub(MA, MB, m, at)
          = D!Continues(Moved(D!Wrote(B, values), d), Plus(D!Inc(i), d))
    BY <1>1, <1>3, <2>1 DEF D!Sub
  <2> QED
    BY <1>1, <2>2, MovedResults DEF D!Sub, values
<1>7. D!Mul(MA, MB, m, at) = D!MovedResult(D!Mul(A, B, m, i), d)
  <2> DEFINE values == [x \in DOMAIN D!Meets(m) |->
                          (B[x] * A[D!Meets(m)[x]]) % CoreSize]
  <2>1. [x \in DOMAIN D!Meets(m) |-> (MB[x] * MA[D!Meets(m)[x]]) % CoreSize] = values
    BY <1>2
  <2> HIDE DEF values
  <2>2. D!Mul(MA, MB, m, at)
          = D!Continues(Moved(D!Wrote(B, values), d), Plus(D!Inc(i), d))
    BY <1>1, <1>3, <2>1 DEF D!Mul
  <2> QED
    BY <1>1, <2>2, MovedResults DEF D!Mul, values
<1>8. ASSUME NEW after
      PROVE  D!Quotients(MA, m, Moved(after, d), at)
               = D!MovedResult(D!Quotients(A, m, after, i), d)
  BY <1>1, <1>4, MovedResults DEF D!Quotients
<1>9. D!Div(MA, MB, m, at) = D!MovedResult(D!Div(A, B, m, i), d)
  <2> DEFINE values == [x \in D!Sound(A, m) |-> B[x] \div A[D!Meets(m)[x]]]
  <2>1. [x \in D!Sound(MA, m) |-> MB[x] \div MA[D!Meets(m)[x]]] = values
    BY <1>2, <1>4 DEF D!Sound
  <2> HIDE DEF values
  <2>2. D!Div(MA, MB, m, at) = D!Quotients(MA, m, Moved(D!Wrote(B, values), d), at)
    BY <1>3, <2>1 DEF D!Div
  <2> QED
    BY <1>8, <2>2 DEF D!Div, values
<1>10. D!Modulo(MA, MB, m, at) = D!MovedResult(D!Modulo(A, B, m, i), d)
  <2> DEFINE values == [x \in D!Sound(A, m) |-> B[x] % A[D!Meets(m)[x]]]
  <2>1. [x \in D!Sound(MA, m) |-> MB[x] % MA[D!Meets(m)[x]]] = values
    BY <1>2, <1>4 DEF D!Sound
  <2> HIDE DEF values
  <2>2. D!Modulo(MA, MB, m, at) = D!Quotients(MA, m, Moved(D!Wrote(B, values), d), at)
    BY <1>3, <2>1 DEF D!Modulo
  <2> QED
    BY <1>8, <2>2 DEF D!Modulo, values
<1> QED
  BY <1>5, <1>6, <1>7, <1>9, <1>10 DEF MA, MB, at

\* The jumps and skips take the same decisions.
LEMMA MovedJumps ==
  ASSUME NEW A \in Operand94, NEW B \in Operand94, NEW m \in D!Modifier,
         NEW i \in Address, NEW d \in Address
  PROVE  LET MA == MovedOperand(A, d)
             MB == MovedOperand(B, d)
             at == Plus(i, d)
         IN  /\ D!Jmz(MA, MB, m, at) = D!MovedResult(D!Jmz(A, B, m, i), d)
             /\ D!Jmn(MA, MB, m, at) = D!MovedResult(D!Jmn(A, B, m, i), d)
             /\ D!Djn(MA, MB, m, at) = D!MovedResult(D!Djn(A, B, m, i), d)
             /\ D!Slt(MA, MB, m, at) = D!MovedResult(D!Slt(A, B, m, i), d)
             /\ D!SkipIf(D!Equal(MA, MB, m), MB, at)
                  = D!MovedResult(D!SkipIf(D!Equal(A, B, m), B, i), d)
             /\ D!SkipIf(~D!Equal(MA, MB, m), MB, at)
                  = D!MovedResult(D!SkipIf(~D!Equal(A, B, m), B, i), d)
<1> DEFINE MA == MovedOperand(A, d)
           MB == MovedOperand(B, d)
           at == Plus(i, d)
<1>1. /\ D!Inc(at) = Plus(D!Inc(i), d) /\ D!Inc(i) \in Address
      /\ D!Inc(D!Inc(at)) = Plus(D!Inc(D!Inc(i)), d) /\ D!Inc(D!Inc(i)) \in Address
      /\ A.addr \in Address
  <2>1. \A x \in Address : D!Inc(x) \in Address /\ D!Inc(Plus(x, d)) = Plus(D!Inc(x), d)
    BY Shifted, SameMacros, MacrosClosed94
  <2>2. D!Inc(i) \in Address /\ D!Inc(at) = Plus(D!Inc(i), d)
    BY <2>1
  <2> QED
    BY <2>1, <2>2 DEF Operand94
<1>2. /\ \A x \in D!Tested(m) : MB[x] = B[x] /\ MA[D!Meets(m)[x]] = A[D!Meets(m)[x]]
      /\ MB.core = Moved(B.core, d)
      /\ MA.addr = Plus(A.addr, d)
      /\ MB.core[MA.addr] = B.core[A.addr]
      /\ MB.core[MB.addr] = B.core[B.addr]
  BY MovedValues DEF D!Tested
<1>3. \A values : D!Wrote(MB, values) = Moved(D!Wrote(B, values), d)
  BY MovedWrote
<1>4. \A core94 : [MB EXCEPT !.core = core94].core = core94
                  /\ [B EXCEPT !.core = core94].core = core94
  BY DEF MovedOperand, Operand94
<1> HIDE DEF MA, MB, at
<1>5. \A condition \in BOOLEAN :
        /\ D!JumpIf(condition, MA, MB, at)
             = D!MovedResult(D!JumpIf(condition, A, B, i), d)
        /\ D!SkipIf(condition, MB, at) = D!MovedResult(D!SkipIf(condition, B, i), d)
  BY <1>1, <1>2, MovedResults DEF D!JumpIf, D!SkipIf
<1>6. /\ (\A x \in D!Tested(m) : MB[x] = 0) <=> (\A x \in D!Tested(m) : B[x] = 0)
      /\ (\E x \in D!Tested(m) : MB[x] # 0) <=> (\E x \in D!Tested(m) : B[x] # 0)
      /\ (\E x \in D!Tested(m) : MB[x] # 1) <=> (\E x \in D!Tested(m) : B[x] # 1)
      /\ (\A x \in D!Tested(m) : MA[D!Meets(m)[x]] < MB[x])
           <=> (\A x \in D!Tested(m) : A[D!Meets(m)[x]] < B[x])
      /\ D!Equal(MA, MB, m) <=> D!Equal(A, B, m)
  BY <1>2 DEF D!Equal
<1>7. D!Djn(MA, MB, m, at) = D!MovedResult(D!Djn(A, B, m, i), d)
  <2> DEFINE less == [x \in D!Tested(m) |-> D!Dec(B.core[B.addr][x])]
             jump == \E x \in D!Tested(m) : B[x] # 1
  <2>1. [x \in D!Tested(m) |-> D!Dec(MB.core[MB.addr][x])] = less
    BY <1>2
  <2> HIDE DEF less
  <2>2. D!Djn(A, B, m, i)
          = D!Continues(D!Wrote(B, less), IF jump THEN A.addr ELSE D!Inc(i))
    BY <1>4 DEF D!Djn, D!JumpIf, less
  <2>3. D!Djn(MA, MB, m, at)
          = D!Continues(Moved(D!Wrote(B, less), d),
                        IF jump THEN Plus(A.addr, d) ELSE Plus(D!Inc(i), d))
    BY <1>1, <1>2, <1>3, <1>4, <1>6, <2>1 DEF D!Djn, D!JumpIf
  <2> HIDE DEF jump
  <2> QED
    BY <1>1, <2>2, <2>3, MovedResults
<1>8. /\ D!Jmz(MA, MB, m, at) = D!MovedResult(D!Jmz(A, B, m, i), d)
      /\ D!Jmn(MA, MB, m, at) = D!MovedResult(D!Jmn(A, B, m, i), d)
      /\ D!Slt(MA, MB, m, at) = D!MovedResult(D!Slt(A, B, m, i), d)
  BY <1>5, <1>6 DEF D!Jmz, D!Jmn, D!Slt
<1>9. /\ D!SkipIf(D!Equal(MA, MB, m), MB, at)
           = D!MovedResult(D!SkipIf(D!Equal(A, B, m), B, i), d)
      /\ D!SkipIf(~D!Equal(MA, MB, m), MB, at)
           = D!MovedResult(D!SkipIf(~D!Equal(A, B, m), B, i), d)
  BY <1>5, <1>6 DEF D!Equal
<1> QED
  BY <1>7, <1>8, <1>9 DEF MA, MB, at

\* The switch by opcode.
LEMMA SwitchIs ==
  ASSUME NEW A, NEW B, NEW insn, NEW i
  PROVE  LET o == D!op(insn)
             m == D!mod(insn)
             result == D!Switch(A, B, insn, i)
         IN  /\ o = "MOV" => result = D!Mov(A, B, m, i)
             /\ o = "DAT" => result = D!Dies(B.core)
             /\ o = "SPL" => result = D!Splits(B.core, A.addr)
             /\ o = "DJN" => result = D!Djn(A, B, m, i)
             /\ o = "SUB" => result = D!Sub(A, B, m, i)
             /\ o = "JMZ" => result = D!Jmz(A, B, m, i)
             /\ o = "ADD" => result = D!Add(A, B, m, i)
             /\ o = "JMN" => result = D!Jmn(A, B, m, i)
             /\ o = "SNE" => result = D!SkipIf(~D!Equal(A, B, m), B, i)
             /\ o = "JMP" => result = D!Continues(B.core, A.addr)
             /\ o = "SEQ" => result = D!SkipIf(D!Equal(A, B, m), B, i)
             /\ o = "SLT" => result = D!Slt(A, B, m, i)
             /\ o = "MUL" => result = D!Mul(A, B, m, i)
             /\ o = "DIV" => result = D!Div(A, B, m, i)
             /\ o = "NOP" => result = D!Continues(B.core, D!Inc(i))
             /\ o = "MOD" => result = D!Modulo(A, B, m, i)
             /\ o \in {"LDP", "STP"} => result = D!Vanishes(B.core)
  BY DEF D!Switch

\* The whole switch.
LEMMA MovedSwitch ==
  ASSUME NEW A \in Operand94, NEW B \in Operand94, NEW insn \in Cell94,
         NEW i \in Address, NEW d \in Address
  PROVE  D!Switch(MovedOperand(A, d), MovedOperand(B, d), insn, Plus(i, d))
           = D!MovedResult(D!Switch(A, B, insn, i), d)
<1> DEFINE MA == MovedOperand(A, d)
           MB == MovedOperand(B, d)
           at == Plus(i, d)
           o  == D!op(insn)
           m  == D!mod(insn)
<1>1. m \in D!Modifier /\ o \in D!Opcode
  BY DEF Cell94, D!Code, D!op, D!mod
<1>2. /\ A.addr \in Address /\ D!Inc(i) \in Address
      /\ D!Inc(at) = Plus(D!Inc(i), d)
      /\ MA.addr = Plus(A.addr, d) /\ MB.core = Moved(B.core, d)
  BY Shifted, SameMacros, MacrosClosed94 DEF Operand94, MovedOperand
<1>3. CASE o = "MOV"
  BY <1>1, <1>3, MovedMov, SwitchIs
<1>4. CASE o = "ADD"
  BY <1>1, <1>4, MovedArithmetic, SwitchIs
<1>5. CASE o = "SUB"
  BY <1>1, <1>5, MovedArithmetic, SwitchIs
<1>6. CASE o = "MUL"
  BY <1>1, <1>6, MovedArithmetic, SwitchIs
<1>7. CASE o = "DIV"
  BY <1>1, <1>7, MovedArithmetic, SwitchIs
<1>8. CASE o = "MOD"
  BY <1>1, <1>8, MovedArithmetic, SwitchIs
<1>9. CASE o = "JMZ"
  BY <1>1, <1>9, MovedJumps, SwitchIs
<1>10. CASE o = "JMN"
  BY <1>1, <1>10, MovedJumps, SwitchIs
<1>11. CASE o = "DJN"
  BY <1>1, <1>11, MovedJumps, SwitchIs
<1>12. CASE o = "SLT"
  BY <1>1, <1>12, MovedJumps, SwitchIs
<1>13. CASE o = "SEQ"
  BY <1>1, <1>13, MovedJumps, SwitchIs
<1>14. CASE o = "SNE"
  BY <1>1, <1>14, MovedJumps, SwitchIs
<1>15. CASE o \in {"DAT", "SPL", "JMP", "NOP", "LDP", "STP"}
  <2>1. /\ D!Dies(MB.core) = D!MovedResult(D!Dies(B.core), d)
        /\ D!Splits(MB.core, MA.addr) = D!MovedResult(D!Splits(B.core, A.addr), d)
        /\ D!Continues(MB.core, MA.addr) = D!MovedResult(D!Continues(B.core, A.addr), d)
        /\ D!Continues(MB.core, D!Inc(at)) = D!MovedResult(D!Continues(B.core, D!Inc(i)), d)
        /\ D!Vanishes(MB.core) = D!MovedResult(D!Vanishes(B.core), d)
    <3> HIDE DEF MA, MB, at
    <3> QED
      BY <1>2, MovedResults
  <2> HIDE DEF MA, MB, at
  <2>2. /\ o = "DAT" => D!Switch(MA, MB, insn, at) = D!Dies(MB.core)
        /\ o = "SPL" => D!Switch(MA, MB, insn, at) = D!Splits(MB.core, MA.addr)
        /\ o = "JMP" => D!Switch(MA, MB, insn, at) = D!Continues(MB.core, MA.addr)
        /\ o = "NOP" => D!Switch(MA, MB, insn, at) = D!Continues(MB.core, D!Inc(at))
        /\ o \in {"LDP", "STP"} => D!Switch(MA, MB, insn, at) = D!Vanishes(MB.core)
    BY SwitchIs
  <2>3. /\ o = "DAT" => D!Switch(A, B, insn, i) = D!Dies(B.core)
        /\ o = "SPL" => D!Switch(A, B, insn, i) = D!Splits(B.core, A.addr)
        /\ o = "JMP" => D!Switch(A, B, insn, i) = D!Continues(B.core, A.addr)
        /\ o = "NOP" => D!Switch(A, B, insn, i) = D!Continues(B.core, D!Inc(i))
        /\ o \in {"LDP", "STP"} => D!Switch(A, B, insn, i) = D!Vanishes(B.core)
    BY SwitchIs
  <2> HIDE DEF o
  <2>4. D!Switch(MA, MB, insn, at) = D!MovedResult(D!Switch(A, B, insn, i), d)
    BY <1>15, <2>1, <2>2, <2>3
  <2> QED
    BY <2>4 DEF MA, MB, at
<1> QED
  BY <1>1, <1>3, <1>4, <1>5, <1>6, <1>7, <1>8, <1>9, <1>10, <1>11, <1>12, <1>13,
     <1>14, <1>15
     DEF D!Opcode, D!Executed

\* Instructions run in the same way wherever a program is loaded.
THEOREM ProgramsAreRelocatable == ProcessesSpec => []AllRelocatable
<1>1. ASSUME standard = 88, Goes88 PROVE Relocatable
  <2>1. ip # -1 => core \in GoodCore /\ ip \in Address
    BY <1>1 DEF Goes88
  <2>2. \A d \in Address \ {0} : d \in Address
    OBVIOUS
  <2> QED
    BY <2>1, <2>2, MovedInstruction DEF Relocatable
<1>2. ASSUME standard # 88, standard \in {88, 94}, Goes94 PROVE D!Relocatable
  <2> SUFFICES ASSUME ip # -1, NEW d \in Address \ {0}
               PROVE  D!Bench(D!Moved(core, d), D!Plus(ip, d))
                        = D!MovedResult(D!Bench(core, ip), d)
    BY SameMacros DEF D!Relocatable
  <2>1. core \in GoodCore94 /\ ip \in Address /\ d \in Address
    BY <1>2 DEF Goes94
  <2>2. /\ D!Moved(core, d) = Moved(core, d) /\ D!Plus(ip, d) = Plus(ip, d)
        /\ Moved(core, d) \in GoodCore94 /\ Plus(ip, d) \in Address
        /\ Moved(core, d)[Plus(ip, d)] = core[ip]
    BY <2>1, SameMacros, SameMoved, MovedCells94, Macros
  <2>3. core[ip] \in Cell94 /\ D!OptA(core, ip) \in Operand94
        /\ D!OptB(core, ip) \in Operand94
    BY <2>1, CoreFields, OptOperandsClosed
  <2>4. D!OptSlow(Moved(core, d), Plus(ip, d)) = D!MovedResult(D!OptSlow(core, ip), d)
    BY <2>1, <2>2, <2>3, MovedOperands94, MovedSwitch DEF D!OptSlow
  <2> QED
    BY <2>1, <2>2, <2>4, AllAlike
<1>3. Goes => AllRelocatable
  BY <1>1, <1>2 DEF AllRelocatable, Goes
<1> QED
  BY <1>3, GoesAlways, PTL

----------------------------------------------------------------------------
(* The instructions of '94: two opcodes with the same operands *)

\* A cell, a core, and an operand, in which the instruction at i has opcode o.
Coded(r, o)     == [insn |-> <<o, r.insn[2], r.insn[3], r.insn[4]>>,
                    a |-> r.a, b |-> r.b]
Recode(o, c, i) == Replaced(c, i, Coded(c[i], o))

RecodedOperand(o, A, i) ==
  [core |-> Recode(o, A.core, i), addr |-> A.addr, a |-> A.a, b |-> A.b]

\* This is how Process94 replaces an opcode.
LEMMA RecodeIs ==
  ASSUME NEW c \in GoodCore94, ip \in Address, NEW o
  PROVE  D!Recoded(o, c) = Recode(o, c, ip)
<1> DEFINE r == c[ip]
           w == r.insn
<1>1. r \in Cell94
  BY CoreFields
<1>2. w \in D!Opcode \X D!Modifier \X D!Mode \X D!Mode
  BY <1>1 DEF Cell94, D!Code
<1> HIDE DEF w
<1>3. [w EXCEPT ![1] = o] = <<o, w[2], w[3], w[4]>>
  BY <1>2
<1> HIDE DEF r
<1>4. [r EXCEPT !.insn = [w EXCEPT ![1] = o]]
        = [insn |-> [w EXCEPT ![1] = o], a |-> r.a, b |-> r.b]
  BY <1>1 DEF Cell94
<1>5. D!Recoded(o, c) = [c EXCEPT ![ip] = [r EXCEPT !.insn = [w EXCEPT ![1] = o]]]
  BY DEF D!Recoded, r, w
<1> QED
  BY <1>3, <1>4, <1>5 DEF Recode, Replaced, Coded, r, w

\* Nothing but the opcode changes.
LEMMA RecodedCells ==
  ASSUME NEW c \in GoodCore94, NEW i \in Address, NEW o \in D!Opcode
  PROVE  /\ Recode(o, c, i) \in GoodCore94
         /\ Recode(o, c, i)[i] = Coded(c[i], o)
         /\ \A x \in Address : x # i => Recode(o, c, i)[x] = c[x]
         /\ \A x \in Address : /\ Recode(o, c, i)[x].a = c[x].a
                               /\ Recode(o, c, i)[x].b = c[x].b
         /\ D!op(Coded(c[i], o)) = o /\ D!mod(Coded(c[i], o)) = D!mod(c[i])
         /\ D!am(Coded(c[i], o)) = D!am(c[i]) /\ D!bm(Coded(c[i], o)) = D!bm(c[i])
<1>1. c[i] \in Cell94
  BY CoreFields
<1>2. Coded(c[i], o) \in Cell94
  BY <1>1 DEF Coded, Cell94, D!Code
<1>3. /\ Recode(o, c, i) \in GoodCore94
      /\ Recode(o, c, i)[i] = Coded(c[i], o)
      /\ \A x \in Address : x # i => Recode(o, c, i)[x] = c[x]
  BY <1>2 DEF Recode, Replaced, GoodCore94
<1>4. Coded(c[i], o).a = c[i].a /\ Coded(c[i], o).b = c[i].b
  BY DEF Coded
<1>5. /\ D!op(Coded(c[i], o)) = o /\ D!mod(Coded(c[i], o)) = D!mod(c[i])
      /\ D!am(Coded(c[i], o)) = D!am(c[i]) /\ D!bm(Coded(c[i], o)) = D!bm(c[i])
  BY DEF Coded, D!op, D!mod, D!am, D!bm
<1> QED
  BY <1>3, <1>4, <1>5

\* Cells that differ in their fields can be recoded before or behind.
LEMMA RecodedChange ==
  ASSUME NEW c \in GoodCore94, NEW i \in Address, NEW o \in D!Opcode,
         NEW x \in Address, NEW r, NEW s,
         x = i => s = Coded(r, o), x # i => s = r
  PROVE  Replaced(Recode(o, c, i), x, s) = Recode(o, Replaced(c, x, r), i)
<1>1. CASE x = i
  BY <1>1 DEF Replaced, Recode, GoodCore94
<1>2. CASE x # i
  BY <1>2 DEF Replaced, Recode, GoodCore94
<1> QED
  BY <1>1, <1>2

\* A pointer changes in the same way,
LEMMA RecodedPointer ==
  ASSUME NEW c \in GoodCore94, NEW i \in Address, NEW o \in D!Opcode,
         NEW x \in Address, NEW f \in Field
  PROVE  /\ D!Bump(Recode(o, c, i), x, f) = Recode(o, D!Bump(c, x, f), i)
         /\ D!Drop(Recode(o, c, i), x, f) = Recode(o, D!Drop(c, x, f), i)
         /\ D!at(Recode(o, c, i), x, f) = D!at(c, x, f)
<1> DEFINE k == Recode(o, c, i)
<1>1. k \in GoodCore94 /\ k[x][f] = c[x][f] /\ k[x] \in Cell94 /\ c[x] \in Cell94
  BY RecodedCells, CoreFields DEF Field
<1>2. (x = i => k[x] = Coded(c[x], o)) /\ (x # i => k[x] = c[x])
  BY RecodedCells
<1> HIDE DEF k
<1>3. ASSUME NEW v
      PROVE  Replaced(k, x, [k[x] EXCEPT ![f] = v])
               = Recode(o, Replaced(c, x, [c[x] EXCEPT ![f] = v]), i)
  <2> DEFINE r == [c[x] EXCEPT ![f] = v]
             s == [k[x] EXCEPT ![f] = v]
  <2>1. x = i => s = Coded(r, o)
    <3>1. CASE f = "a"
      BY <1>1, <1>2, <3>1 DEF Coded, Cell94
    <3>2. CASE f = "b"
      BY <1>1, <1>2, <3>2 DEF Coded, Cell94
    <3> QED
      BY <3>1, <3>2 DEF Field
  <2>2. x # i => s = r
    BY <1>2
  <2> HIDE DEF r, s
  <2>3. Replaced(Recode(o, c, i), x, s) = Recode(o, Replaced(c, x, r), i)
    BY <2>1, <2>2, RecodedChange
  <2> QED
    BY <2>3 DEF k, r, s
<1>4. /\ D!Bump(k, x, f) = Replaced(k, x, [k[x] EXCEPT ![f] = D!Inc(c[x][f])])
      /\ D!Bump(c, x, f) = Replaced(c, x, [c[x] EXCEPT ![f] = D!Inc(c[x][f])])
      /\ D!Drop(k, x, f) = Replaced(k, x, [k[x] EXCEPT ![f] = D!Dec(c[x][f])])
      /\ D!Drop(c, x, f) = Replaced(c, x, [c[x] EXCEPT ![f] = D!Dec(c[x][f])])
      /\ D!at(k, x, f) = D!at(c, x, f)
  BY <1>1 DEF D!Bump, D!Drop, D!at, Replaced
<1> QED
  BY <1>3, <1>4 DEF k

\* and the same is read,
LEMMA RecodedRead ==
  ASSUME NEW now, NEW before \in GoodCore94, NEW i \in Address,
         NEW o \in D!Opcode, NEW x \in Address
  PROVE  Read(Recode(o, now, i), Recode(o, before, i), x)
           = RecodedOperand(o, Read(now, before, x), i)
<1>1. /\ Recode(o, before, i)[x].a = before[x].a
      /\ Recode(o, before, i)[x].b = before[x].b
  BY RecodedCells
<1> QED
  BY <1>1 DEF Read, RecodedOperand

\* by every mode,
LEMMA RecodedThrough ==
  ASSUME NEW c \in GoodCore94, NEW i \in Address, NEW o \in D!Opcode,
         NEW field \in Address, NEW mode \in D!Mode, mode # "#"
  PROVE  D!Through(Recode(o, c, i), i, mode, field)
           = RecodedOperand(o, D!Through(c, i, mode, field), i)
<1> DEFINE k == Recode(o, c, i)
           x == D!Plus(i, field)
<1>1. x \in Address
  BY MacrosClosed94
<1>2. "a" \in Field /\ "b" \in Field
  BY DEF Field
<1> HIDE DEF x
<1>3. Read(k, k, x) = RecodedOperand(o, Read(c, c, x), i)
  BY <1>1, RecodedRead
<1>4. ASSUME NEW f \in Field
      PROVE  /\ Read(k, k, D!at(k, x, f)) = RecodedOperand(o, Read(c, c, D!at(c, x, f)), i)
             /\ Read(D!Bump(k, x, f), k, D!at(k, x, f))
                  = RecodedOperand(o, Read(D!Bump(c, x, f), c, D!at(c, x, f)), i)
  <2>1. D!at(c, x, f) \in Address /\ D!at(k, x, f) = D!at(c, x, f)
        /\ D!Bump(k, x, f) = Recode(o, D!Bump(c, x, f), i)
    BY <1>1, RecodedPointer, PointerChanged
  <2> QED
    BY <2>1, RecodedRead
<1>5. ASSUME NEW f \in Field
      PROVE  LET e == D!Drop(c, x, f)
             IN  Read(D!Drop(k, x, f), D!Drop(k, x, f), D!at(D!Drop(k, x, f), x, f))
                   = RecodedOperand(o, Read(e, e, D!at(e, x, f)), i)
  <2> DEFINE e == D!Drop(c, x, f)
  <2>1. e \in GoodCore94 /\ D!Drop(k, x, f) = Recode(o, e, i)
    BY <1>1, RecodedPointer, PointerChanged
  <2> HIDE DEF e
  <2>2. D!at(e, x, f) \in Address /\ D!at(Recode(o, e, i), x, f) = D!at(e, x, f)
    BY <1>1, <2>1, RecodedPointer, PointerChanged
  <2>3. Read(Recode(o, e, i), Recode(o, e, i), D!at(e, x, f))
          = RecodedOperand(o, Read(e, e, D!at(e, x, f)), i)
    BY <2>1, <2>2, RecodedRead
  <2> QED
    BY <2>1, <2>2, <2>3 DEF e
<1> HIDE DEF k
<1>6. CASE mode = "$"
  BY <1>3, <1>6, ThroughIs DEF k, x
<1>7. CASE mode \in {"@", "*"}
  BY <1>2, <1>4, <1>7, ThroughIs DEF k, x
<1>8. CASE mode = "<"
  BY <1>2, <1>5, <1>8, ThroughIs DEF k, x
<1>9. CASE mode = PreA
  BY <1>2, <1>5, <1>9, ThroughIs DEF k, x
<1>10. CASE mode \in {">", PostA}
  BY <1>2, <1>4, <1>10, ThroughIs DEF k, x
<1> QED
  BY <1>6, <1>7, <1>8, <1>9, <1>10, ModeNames

\* for both operands.
LEMMA RecodedOperands ==
  ASSUME NEW c \in GoodCore94, NEW i \in Address, NEW o \in D!Opcode
  PROVE  /\ D!OptA(Recode(o, c, i), i) = RecodedOperand(o, D!OptA(c, i), i)
         /\ D!OptB(Recode(o, c, i), i) = RecodedOperand(o, D!OptB(c, i), i)
<1> DEFINE k == Recode(o, c, i)
           A == D!OptA(c, i)
           m == D!am(c[i])
           n == D!bm(c[i])
<1>1. /\ k[i].a = c[i].a /\ k[i].b = c[i].b
      /\ D!am(k[i]) = m /\ D!bm(k[i]) = n
  BY RecodedCells
<1>2. m \in D!Mode /\ n \in D!Mode /\ c[i].a \in Address /\ c[i].b \in Address
  BY CoreFields DEF Cell94, D!Code, D!am, D!bm
<1>3. A \in Operand94 /\ A.core \in GoodCore94
  BY OptOperandsClosed DEF Operand94
<1> HIDE DEF k, m, n
<1>4. D!Immediate(k, i) = RecodedOperand(o, D!Immediate(c, i), i)
  BY <1>1 DEF D!Immediate, RecodedOperand, k
<1>5. D!OptA(k, i) = RecodedOperand(o, A, i)
  <2>1. CASE m = "#"
    BY <1>1, <1>4, <2>1 DEF D!OptA, m
  <2>2. CASE m # "#"
    <3>1. D!Through(k, i, m, c[i].a) = RecodedOperand(o, D!Through(c, i, m, c[i].a), i)
      BY <1>2, <2>2, RecodedThrough DEF k
    <3> QED
      BY <1>1, <2>2, <3>1 DEF D!OptA, m
  <2> QED
    BY <2>1, <2>2
<1> HIDE DEF A
<1>6. D!OptA(k, i).core = Recode(o, A.core, i)
  BY <1>5 DEF RecodedOperand
<1>7. D!OptB(k, i) = RecodedOperand(o, D!OptB(c, i), i)
  <2>1. CASE n = "#"
    <3>1. [D!Immediate(k, i) EXCEPT !.core = Recode(o, A.core, i)]
            = RecodedOperand(o, [D!Immediate(c, i) EXCEPT !.core = A.core], i)
      BY <1>1 DEF D!Immediate, RecodedOperand
    <3> QED
      BY <1>1, <1>6, <2>1, <3>1 DEF D!OptB, n, A
  <2>2. CASE n # "#"
    <3>1. D!Through(Recode(o, A.core, i), i, n, c[i].b)
            = RecodedOperand(o, D!Through(A.core, i, n, c[i].b), i)
      BY <1>2, <1>3, <2>2, RecodedThrough
    <3> QED
      BY <1>1, <1>6, <2>2, <3>1 DEF D!OptB, n, A
  <2> QED
    BY <2>1, <2>2
<1> QED
  BY <1>5, <1>7 DEF k, A

\* The instruction with the other opcode gets the same values.
LEMMA RecodedValues ==
  ASSUME NEW A \in Operand94, NEW B \in Operand94, NEW m \in D!Modifier,
         NEW i \in Address, NEW o \in D!Opcode
  PROVE  LET RA == RecodedOperand(o, A, i)
             RB == RecodedOperand(o, B, i)
         IN  /\ \A x \in DOMAIN D!Meets(m) :
                  RB[x] = B[x] /\ RA[D!Meets(m)[x]] = A[D!Meets(m)[x]]
             /\ RB.core = Recode(o, B.core, i)
             /\ RA.addr = A.addr /\ RB.addr = B.addr
             /\ RB.core[B.addr].a = B.core[B.addr].a
             /\ RB.core[B.addr].b = B.core[B.addr].b
<1> DEFINE RA == RecodedOperand(o, A, i)
           RB == RecodedOperand(o, B, i)
<1>1. /\ \A f \in Field : RA[f] = A[f] /\ RB[f] = B[f]
      /\ RB.core = Recode(o, B.core, i)
      /\ RA.addr = A.addr /\ RB.addr = B.addr
  BY DEF RecodedOperand, Field
<1>2. B.core \in GoodCore94 /\ B.addr \in Address
  BY DEF Operand94
<1> HIDE DEF RA, RB
<1>3. RB.core[B.addr].a = B.core[B.addr].a /\ RB.core[B.addr].b = B.core[B.addr].b
  BY <1>1, <1>2, RecodedCells
<1> QED
  BY <1>1, <1>3, MeetsFields DEF RA, RB

\* What the general steps do with another opcode.
LEMMA RecodedSlow ==
  ASSUME NEW c \in GoodCore94, NEW i \in Address, NEW o \in D!Opcode
  PROVE  LET k == Recode(o, c, i)
             A == D!OptA(c, i)
             B == D!OptB(c, i)
         IN  /\ k \in GoodCore94 /\ D!op(k[i]) = o /\ D!mod(k[i]) = D!mod(c[i])
             /\ D!OptSlow(k, i)
                  = D!Switch(RecodedOperand(o, A, i), RecodedOperand(o, B, i), k[i], i)
  BY RecodedCells, RecodedOperands DEF D!OptSlow

\* SEQ and SNE compare the same, unless one of two codes is their own.
LEMMA RecodedEqual ==
  ASSUME NEW A \in Operand94, NEW B \in Operand94, NEW m \in D!Modifier,
         NEW i \in Address, NEW o \in D!Opcode,
         m = "I" => (i = A.addr <=> i = B.addr)
  PROVE  D!Equal(RecodedOperand(o, A, i), RecodedOperand(o, B, i), m)
           <=> D!Equal(A, B, m)
<1> DEFINE RA == RecodedOperand(o, A, i)
           RB == RecodedOperand(o, B, i)
<1>1. /\ \A x \in D!Tested(m) :
           RB[x] = B[x] /\ RA[D!Meets(m)[x]] = A[D!Meets(m)[x]]
      /\ RB.core = Recode(o, B.core, i)
      /\ RA.addr = A.addr /\ RB.addr = B.addr
  BY RecodedValues DEF D!Tested
<1>2. B.core \in GoodCore94 /\ A.addr \in Address /\ B.addr \in Address
  BY DEF Operand94
<1> HIDE DEF RA, RB
<1>3. m = "I" => (RB.core[RA.addr].insn = RB.core[RB.addr].insn
                    <=> B.core[A.addr].insn = B.core[B.addr].insn)
  <2>1. CASE A.addr = i /\ B.addr = i
    BY <1>1, <2>1
  <2>2. CASE A.addr # i /\ B.addr # i
    <3>1. \A x \in Address : x # i => Recode(o, B.core, i)[x] = B.core[x]
      BY <1>2, RecodedCells
    <3>2. /\ RB.core[A.addr] = B.core[A.addr]
          /\ RB.core[B.addr] = B.core[B.addr]
      BY <1>1, <1>2, <2>2, <3>1
    <3> QED
      BY <1>1, <3>2
  <2> QED
    BY <2>1, <2>2
<1> QED
  BY <1>1, <1>3 DEF D!Equal, RA, RB

\* Two opcodes that decide the opposite.
LEMMA Opposites ==
  ASSUME NEW c \in GoodCore94, NEW i \in Address,
         D!op(c[i]) \in {"SEQ", "JMZ"},
         ~(D!op(c[i]) = "SEQ" /\ D!mod(c[i]) = "I"
             /\ (i = D!OptA(c, i).addr) # (i = D!OptB(c, i).addr))
  PROVE  LET o     == IF D!op(c[i]) = "SEQ" THEN "SNE" ELSE "JMN"
             one   == D!OptSlow(c, i)
             other == D!OptSlow(Recode(o, c, i), i)
         IN  /\ one.core \in GoodCore94
             /\ other.core = Recode(o, one.core, i)
             /\ {one.next, other.next} =
                  {D!Inc(i), IF D!op(c[i]) = "SEQ" THEN D!Inc(D!Inc(i))
                                                   ELSE D!OptA(c, i).addr}
<1> DEFINE o  == IF D!op(c[i]) = "SEQ" THEN "SNE" ELSE "JMN"
           k  == Recode(o, c, i)
           m  == D!mod(c[i])
           A  == D!OptA(c, i)
           B  == D!OptB(c, i)
           RA == RecodedOperand(o, A, i)
           RB == RecodedOperand(o, B, i)
<1>1. A \in Operand94 /\ B \in Operand94 /\ B.core \in GoodCore94
  BY OptOperandsClosed DEF Operand94
<1>2. m \in D!Modifier /\ o \in D!Opcode
  BY CoreFields DEF Cell94, D!Code, D!mod, D!Opcode, D!Executed
<1>3. /\ D!op(k[i]) = o /\ D!mod(k[i]) = m
      /\ D!OptSlow(k, i) = D!Switch(RA, RB, k[i], i)
      /\ D!OptSlow(c, i) = D!Switch(A, B, c[i], i)
  BY <1>2, RecodedSlow DEF D!OptSlow
<1> HIDE DEF A, B, m, k
<1>4. /\ \A x \in D!Tested(m) : RB[x] = B[x]
      /\ RB.core = Recode(o, B.core, i) /\ RA.addr = A.addr
  BY <1>1, <1>2, RecodedValues DEF D!Tested
<1>5. CASE D!op(c[i]) = "SEQ"
  <2>1. D!Equal(RA, RB, m) <=> D!Equal(A, B, m)
    BY <1>1, <1>2, <1>5, RecodedEqual DEF A, B, m
  <2> HIDE DEF RA, RB
  <2>2. D!OptSlow(c, i) = D!SkipIf(D!Equal(A, B, m), B, i)
    BY <1>3, <1>5, SwitchIs DEF m
  <2>3. D!OptSlow(k, i) = D!SkipIf(~D!Equal(RA, RB, m), RB, i)
    BY <1>3, <1>5, SwitchIs
  <2>4. D!OptSlow(c, i) = D!Continues(B.core, IF D!Equal(A, B, m) THEN D!Inc(D!Inc(i))
                                                               ELSE D!Inc(i))
    BY <2>2 DEF D!SkipIf
  <2>5. D!OptSlow(k, i) = D!Continues(Recode(o, B.core, i),
                            IF D!Equal(A, B, m) THEN D!Inc(i) ELSE D!Inc(D!Inc(i)))
    BY <1>4, <2>1, <2>3 DEF D!SkipIf
  <2> HIDE DEF o
  <2> QED
    BY <1>1, <1>5, <2>4, <2>5 DEF D!Continues, A, B, k, o
<1>6. CASE D!op(c[i]) = "JMZ"
  <2> DEFINE zero == \A x \in D!Tested(m) : B[x] = 0
  <2>1. (\E x \in D!Tested(m) : RB[x] # 0) <=> ~zero
    BY <1>4
  <2> HIDE DEF RA, RB
  <2>2. D!OptSlow(c, i) = D!Continues(B.core, IF zero THEN A.addr ELSE D!Inc(i))
    BY <1>3, <1>6, SwitchIs DEF m, D!Jmz, D!JumpIf
  <2>3. D!OptSlow(k, i) = D!Jmn(RA, RB, m, i)
    BY <1>3, <1>6, SwitchIs
  <2>4. D!OptSlow(k, i) = D!Continues(Recode(o, B.core, i),
                                      IF zero THEN D!Inc(i) ELSE A.addr)
    BY <1>4, <2>1, <2>3 DEF D!Jmn, D!JumpIf
  <2> HIDE DEF zero, o
  <2> QED
    BY <1>1, <1>6, <2>2, <2>4 DEF D!Continues, A, B, k, o
<1> QED
  BY <1>5, <1>6

\* SEQ and SNE, JMZ and JMN decide the opposite.
THEOREM TestsDecideOpposite == ProcessesSpec => []TestsOpposite94
<1>1. ASSUME Goes, standard = 94 PROVE D!TestsOpposite
  <2> DEFINE opposite == [SEQ |-> "SNE", JMZ |-> "JMN"]
             p == D!op(core[ip])
             o == IF p = "SEQ" THEN "SNE" ELSE "JMN"
             one   == D!OptSlow(core, ip)
             other == D!OptSlow(Recode(o, core, ip), ip)
  <2> SUFFICES ASSUME ip # -1, p \in {"SEQ", "JMZ"},
                      ~(p = "SEQ" /\ D!mod(core[ip]) = "I"
                          /\ (ip = D!OptA(core, ip).addr) # (ip = D!OptB(core, ip).addr))
               PROVE  LET first  == D!Bench(core, ip)
                          second == D!Bench(D!Recoded(opposite[p], core), ip)
                      IN  /\ second.core = D!Recoded(opposite[p], first.core)
                          /\ {first.next, second.next} =
                               {D!Inc(ip), IF p = "SEQ" THEN D!Inc(D!Inc(ip))
                                           ELSE D!OptA(core, ip).addr}
    BY DEF D!TestsOpposite
  <2>1. core \in GoodCore94 /\ ip \in Address
    BY <1>1 DEF Goes, Goes94
  <2>2. opposite[p] = o /\ o \in D!Opcode
    BY DEF D!Opcode, D!Executed
  <2>3. /\ one.core \in GoodCore94
        /\ other.core = Recode(o, one.core, ip)
        /\ {one.next, other.next} =
             {D!Inc(ip), IF p = "SEQ" THEN D!Inc(D!Inc(ip))
                                      ELSE D!OptA(core, ip).addr}
    BY <2>1, Opposites
  <2> HIDE DEF o, opposite
  <2>4. D!Recoded(o, core) = Recode(o, core, ip)
        /\ D!Recoded(o, one.core) = Recode(o, one.core, ip)
    BY <2>1, <2>3, RecodeIs
  <2>5. D!Bench(core, ip) = one /\ D!Bench(Recode(o, core, ip), ip) = other
    BY <2>1, <2>2, RecodedCells, AllAlike
  <2> QED
    BY <2>2, <2>3, <2>4, <2>5
<1>2. Goes => TestsOpposite94
  BY <1>1 DEF TestsOpposite94
<1> QED
  BY <1>2, GoesAlways, PTL

\* Quotient and remainder of two addresses give back the first of them.
LEMMA BackAgain ==
  ASSUME NEW x \in Address, NEW y \in Address, y # 0
  PROVE  (x \div y) * y + (x % y) = x /\ (x % y) < y
<1>1. x \in Int /\ y \in Nat \ {0}
  BY DEF Address
<1>2. x = y * (x \div y) + (x % y) /\ (x % y) \in 0 .. y - 1 /\ x \div y \in Int
  BY <1>1, Quotient
<1> QED
  BY <1>1, <1>2

\* The fields behind DIV and MOD.
LEMMA Divided ==
  ASSUME NEW B \in Operand94, NEW F \in SUBSET Field, NEW values,
         DOMAIN values = F
  PROVE  \A x \in Field :
           D!Wrote(B, values)[B.addr][x]
             = IF x \in F THEN values[x] ELSE B.core[B.addr][x]
<1> DEFINE old  == B.core[B.addr]
           cell == [x \in {"insn", "a", "b"} |->
                      IF x \in DOMAIN values THEN values[x] ELSE old[x]]
<1>1. B.core \in GoodCore94 /\ B.addr \in Address
  BY DEF Operand94
<1>2. D!Wrote(B, values) = [B.core EXCEPT ![B.addr] = cell]
  BY DEF D!Wrote
<1> HIDE DEF cell
<1>3. D!Wrote(B, values)[B.addr] = cell
  BY <1>1, <1>2 DEF GoodCore94
<1> QED
  BY <1>3 DEF cell, Field

\* DIV and MOD of the same operands.
LEMMA DivAndMod ==
  ASSUME NEW c \in GoodCore94, NEW i \in Address, D!op(c[i]) = "DIV"
  PROVE  LET A        == D!OptA(c, i)
             B        == D!OptB(c, i)
             quotient == D!OptSlow(c, i)
             rest     == D!OptSlow(Recode("MOD", c, i), i)
             q        == quotient.core[B.addr]
             r        == rest.core[B.addr]
             now      == B.core[B.addr]
         IN  /\ quotient.does = rest.does /\ quotient.next = rest.next
             /\ \A x \in Field :
                  \/ q[x] = now[x] /\ r[x] = now[x]
                  \/ \E y \in Field : q[x] * A[y] + r[x] = B[x] /\ r[x] < A[y]
             /\ quotient.does = "continue" =>
                  \E x, y \in Field : q[x] * A[y] + r[x] = B[x] /\ r[x] < A[y]
<1> DEFINE o  == "MOD"
           k  == Recode(o, c, i)
           m  == D!mod(c[i])
           A  == D!OptA(c, i)
           B  == D!OptB(c, i)
           RA == RecodedOperand(o, A, i)
           RB == RecodedOperand(o, B, i)
           F  == D!Sound(A, m)
           quotients  == [x \in F |-> B[x] \div A[D!Meets(m)[x]]]
           remainders == [x \in F |-> B[x] % A[D!Meets(m)[x]]]
           Q == D!Wrote(B, quotients)
           R == D!Wrote(RB, remainders)
           now == B.core[B.addr]
<1>1. A \in Operand94 /\ B \in Operand94 /\ B.core \in GoodCore94
  BY OptOperandsClosed DEF Operand94
<1>2. m \in D!Modifier /\ o \in D!Opcode
  BY CoreFields DEF Cell94, D!Code, D!mod, D!Opcode, D!Executed
<1>3. /\ D!op(k[i]) = o /\ D!mod(k[i]) = m
      /\ D!OptSlow(k, i) = D!Switch(RA, RB, k[i], i)
      /\ D!OptSlow(c, i) = D!Switch(A, B, c[i], i)
  BY <1>2, RecodedSlow DEF D!OptSlow
<1> HIDE DEF A, B, m, k
<1>4. /\ \A x \in DOMAIN D!Meets(m) :
           RB[x] = B[x] /\ RA[D!Meets(m)[x]] = A[D!Meets(m)[x]]
      /\ RB.core = Recode(o, B.core, i) /\ RA.addr = A.addr /\ RB.addr = B.addr
      /\ RB.core[B.addr].a = now.a /\ RB.core[B.addr].b = now.b
  BY <1>1, <1>2, RecodedValues
<1>5. RB \in Operand94
  <2>1. Recode(o, B.core, i) \in GoodCore94
    BY <1>1, <1>2, RecodedCells
  <2> QED
    BY <1>1, <2>1 DEF RecodedOperand, Operand94
<1>6. D!Sound(RA, m) = F
  BY <1>4 DEF D!Sound
<1>7. /\ F \subseteq Field /\ F \subseteq DOMAIN D!Meets(m)
      /\ \A x \in F : /\ D!Meets(m)[x] \in Field /\ A[D!Meets(m)[x]] # 0
                      /\ A[D!Meets(m)[x]] \in Address /\ B[x] \in Address
  BY <1>1, <1>2, MeetsFields, OperandFields DEF D!Sound
<1> HIDE DEF RA, RB, F
<1>8. [x \in D!Sound(RA, m) |-> RB[x] % RA[D!Meets(m)[x]]] = remainders
  BY <1>4, <1>6, <1>7
<1> HIDE DEF quotients, remainders
<1>9. D!OptSlow(c, i) = D!Quotients(A, m, Q, i)
  <2>1. D!OptSlow(c, i) = D!Div(A, B, m, i)
    BY <1>3, SwitchIs DEF m
  <2> QED
    BY <2>1 DEF D!Div, quotients, F
<1>10. D!OptSlow(k, i) = D!Quotients(RA, m, R, i)
  <2>1. D!OptSlow(k, i) = D!Modulo(RA, RB, m, i)
    BY <1>3, SwitchIs
  <2> QED
    BY <1>8, <2>1 DEF D!Modulo
<1>11. /\ \A x \in F : /\ Q[B.addr][x] = B[x] \div A[D!Meets(m)[x]]
                       /\ R[B.addr][x] = B[x] % A[D!Meets(m)[x]]
       /\ \A x \in Field \ F : Q[B.addr][x] = now[x] /\ R[B.addr][x] = now[x]
  <2>1. \A x \in Field : Q[B.addr][x] = IF x \in F THEN quotients[x] ELSE now[x]
    BY <1>1, <1>7, Divided DEF quotients
  <2>2. \A x \in Field :
          R[B.addr][x] = IF x \in F THEN remainders[x] ELSE RB.core[B.addr][x]
    <3>1. \A x \in Field :
            R[RB.addr][x] = IF x \in F THEN remainders[x] ELSE RB.core[RB.addr][x]
      BY <1>5, <1>7, Divided DEF remainders
    <3> HIDE DEF R
    <3> QED
      BY <1>4, <3>1
  <2>3. \A x \in Field : RB.core[B.addr][x] = now[x]
    BY <1>4 DEF Field
  <2> QED
    BY <1>7, <2>1, <2>2, <2>3 DEF quotients, remainders
<1> HIDE DEF Q, R, now
<1>12. \A x \in F : LET y == D!Meets(m)[x]
                    IN  /\ y \in Field
                        /\ Q[B.addr][x] * A[y] + R[B.addr][x] = B[x]
                        /\ R[B.addr][x] < A[y]
  BY <1>7, <1>11, BackAgain
<1>13. D!Quotients(A, m, Q, i)
         = IF F = DOMAIN D!Meets(m) THEN D!Continues(Q, D!Inc(i)) ELSE D!Dies(Q)
  BY DEF D!Quotients, F
<1>14. D!Quotients(RA, m, R, i)
         = IF F = DOMAIN D!Meets(m) THEN D!Continues(R, D!Inc(i)) ELSE D!Dies(R)
  BY <1>6 DEF D!Quotients
<1>15. DOMAIN D!Meets(m) # {}
  BY <1>2 DEF D!Modifier, D!Meets
<1>16. /\ D!OptSlow(c, i).core = Q /\ D!OptSlow(k, i).core = R
       /\ D!OptSlow(c, i).does = D!OptSlow(k, i).does
       /\ D!OptSlow(c, i).next = D!OptSlow(k, i).next
       /\ D!OptSlow(c, i).does = "continue" => F = DOMAIN D!Meets(m)
  BY <1>9, <1>10, <1>13, <1>14 DEF D!Continues, D!Dies
<1>17. \A x \in Field :
         \/ Q[B.addr][x] = now[x] /\ R[B.addr][x] = now[x]
         \/ \E y \in Field : Q[B.addr][x] * A[y] + R[B.addr][x] = B[x]
                               /\ R[B.addr][x] < A[y]
  BY <1>11, <1>12
<1>18. F = DOMAIN D!Meets(m) =>
         \E x, y \in Field : Q[B.addr][x] * A[y] + R[B.addr][x] = B[x]
                               /\ R[B.addr][x] < A[y]
  BY <1>7, <1>12, <1>15
<1> QED
  BY <1>16, <1>17, <1>18 DEF A, B, k, now

\* DIV and MOD take the same decisions, and quotient and remainder give back
\* the field that was read.
THEOREM DivisionsAgree == ProcessesSpec => []DivThenMod94
<1>1. ASSUME Goes, standard = 94, ip # -1, D!op(core[ip]) = "DIV"
      PROVE  D!DivThenMod
  <2>1. core \in GoodCore94 /\ ip \in Address
    BY <1>1 DEF Goes, Goes94
  <2>2. "MOD" \in D!Opcode
    BY DEF D!Opcode, D!Executed
  <2>3. /\ D!Bench(core, ip) = D!OptSlow(core, ip)
        /\ D!Recoded("MOD", core) = Recode("MOD", core, ip)
        /\ D!Bench(Recode("MOD", core, ip), ip)
             = D!OptSlow(Recode("MOD", core, ip), ip)
    BY <2>1, <2>2, AllAlike, RecodeIs, RecodedCells
  <2> QED
    BY <1>1, <2>1, <2>3, DivAndMod DEF D!DivThenMod, D!Both, Field
<1>2. Goes => DivThenMod94
  BY <1>1 DEF DivThenMod94, D!DivThenMod
<1> QED
  BY <1>2, GoesAlways, PTL
----------------------------------------------------------------------------
(* Programs of '88 in the machine of '94 *)

\* A cell of '88 with the code of the draft.
Cell88(r) == [insn |-> Code94(r.insn), a |-> r.a, b |-> r.b]

\* The operation of the draft that is the one of '88.
Op94(o) == IF o = "CMP" THEN "SEQ" ELSE o

\* A code of '88 has its modes and its operation in the draft.
LEMMA CodesTranslated ==
  ASSUME NEW code \in Code
  PROVE  /\ Code94(code) \in D!Code
         /\ Code94(code)[1] = Op94(code[1])
         /\ Code94(code)[2] = Modifier94(code)
         /\ Code94(code)[3] = code[2]
         /\ Code94(code)[4] = code[3]
<1>1. Modifier94(code) \in D!Modifier
  BY DEF Modifier94, D!Modifier
<1>2. code[1] \in Opcode /\ code[2] \in Mode /\ code[3] \in Mode
  BY DEF Code
<1>3. Op94(code[1]) \in D!Opcode
  BY <1>2 DEF Op94, Opcode, D!Opcode, D!Executed
<1>4. code[2] \in D!Mode /\ code[3] \in D!Mode
  BY <1>2, ModeNames DEF Mode
<1>5. Code94(code) = <<Op94(code[1]), Modifier94(code), code[2], code[3]>>
  BY DEF Code94, Op94
<1> HIDE DEF Code94, Modifier94, Op94
<1> QED
  BY <1>1, <1>3, <1>4, <1>5 DEF D!Code

\* Different codes stay different.
LEMMA CodesTellApart ==
  ASSUME NEW x \in Code, NEW y \in Code, Code94(x) = Code94(y)
  PROVE  x = y
<1>1. Op94(x[1]) = Op94(y[1]) /\ x[2] = y[2] /\ x[3] = y[3]
  BY CodesTranslated
<1>2. x[1] \in Opcode /\ y[1] \in Opcode
  BY DEF Code
<1>3. x[1] = y[1]
  BY <1>1, <1>2 DEF Op94, Opcode
<1> QED
  BY <1>1, <1>3 DEF Code

\* A core of '88 is one of the draft, with the same modes and fields.
LEMMA CoreTranslated ==
  ASSUME NEW c \in GoodCore
  PROVE  /\ Core94(c) \in GoodCore94
         /\ \A x \in Address :
              /\ Core94(c)[x] = Cell88(c[x])
              /\ Core94(c)[x].a = c[x].a /\ Core94(c)[x].b = c[x].b
              /\ Core94(c)[x].insn = Code94(c[x].insn)
              /\ D!op(Core94(c)[x]) = Op94(op(c[x]))
              /\ D!mod(Core94(c)[x]) = Modifier94(c[x].insn)
              /\ D!am(Core94(c)[x]) = am(c[x])
              /\ D!bm(Core94(c)[x]) = bm(c[x])
<1>1. ASSUME NEW x \in Address
      PROVE  /\ [c[x] EXCEPT !.insn = Code94(@)] = Cell88(c[x])
             /\ c[x].insn \in Code /\ c[x].a \in Address /\ c[x].b \in Address
  BY DEF GoodCore, GoodInsn, Insn, Cell88
<1>2. ASSUME NEW x \in Address
      PROVE  Core94(c)[x] = Cell88(c[x])
  BY <1>1 DEF Core94
<1>3. ASSUME NEW x \in Address
      PROVE  Cell88(c[x]) \in Cell94
  BY <1>1, CodesTranslated DEF Cell88, Cell94
<1>4. Core94(c) \in GoodCore94
  BY <1>1, <1>3 DEF Core94, GoodCore94
<1>5. ASSUME NEW x \in Address
      PROVE  /\ D!op(Core94(c)[x]) = Op94(op(c[x]))
             /\ D!mod(Core94(c)[x]) = Modifier94(c[x].insn)
             /\ D!am(Core94(c)[x]) = am(c[x])
             /\ D!bm(Core94(c)[x]) = bm(c[x])
  <2> DEFINE code == c[x].insn
  <2>1. code \in Code /\ Core94(c)[x].insn = Code94(code)
    <3>1. Cell88(c[x]).insn = Code94(c[x].insn)
      BY DEF Cell88
    <3> QED
      BY <1>1, <1>2, <3>1
  <2>2. op(c[x]) = code[1] /\ am(c[x]) = code[2] /\ bm(c[x]) = code[3]
    BY DEF op, am, bm
  <2> HIDE DEF code
  <2>3. /\ D!op(Core94(c)[x]) = Code94(code)[1]
        /\ D!mod(Core94(c)[x]) = Code94(code)[2]
        /\ D!am(Core94(c)[x]) = Code94(code)[3]
        /\ D!bm(Core94(c)[x]) = Code94(code)[4]
    BY <2>1 DEF D!op, D!mod, D!am, D!bm
  <2>4. /\ Code94(code)[1] = Op94(code[1])
        /\ Code94(code)[2] = Modifier94(code)
        /\ Code94(code)[3] = code[2]
        /\ Code94(code)[4] = code[3]
    BY <2>1, CodesTranslated
  <2>5. Modifier94(c[x].insn) = Modifier94(code)
    BY DEF code
  <2> QED
    BY <2>2, <2>3, <2>4, <2>5
<1> QED
  BY <1>2, <1>4, <1>5 DEF Cell88

\* A cell may be replaced before the core is translated, or behind.
LEMMA TranslatedChange ==
  ASSUME NEW c \in GoodCore, NEW x \in Address, NEW r \in GoodInsn
  PROVE  Core94(Replaced(c, x, r)) = Replaced(Core94(c), x, Cell88(r))
<1> DEFINE new == Replaced(c, x, r)
           now == Replaced(Core94(c), x, Cell88(r))
<1>1. new \in GoodCore
  BY DEF Replaced, GoodCore
<1>2. Core94(new) \in GoodCore94 /\ Core94(c) \in GoodCore94
  BY <1>1, CoreTranslated
<1>3. ASSUME NEW y \in Address
      PROVE  Core94(new)[y] = now[y]
  <2>1. Core94(new)[y] = Cell88(new[y]) /\ Core94(c)[y] = Cell88(c[y])
    BY <1>1, CoreTranslated
  <2>2. new[y] = IF y = x THEN r ELSE c[y]
    BY DEF Replaced, GoodCore
  <2>3. now[y] = IF y = x THEN Cell88(r) ELSE Core94(c)[y]
    BY <1>2 DEF Replaced, GoodCore94
  <2> HIDE DEF new, now
  <2> QED
    BY <2>1, <2>2, <2>3
<1>4. Core94(new) = [y \in Address |-> Core94(new)[y]]
      /\ now = [y \in Address |-> now[y]]
  BY <1>2 DEF GoodCore94, Replaced
<1> HIDE DEF new, now
<1>5. Core94(new) = now
  BY <1>3, <1>4
<1> QED
  BY <1>5 DEF new, now

\* So may an operand be evaluated.
LEMMA TranslatedDrop ==
  ASSUME NEW c \in GoodCore, NEW x \in Address
  PROVE  D!Drop(Core94(c), x, "b") = Core94([c EXCEPT ![x].b = Dec(@)])
<1> DEFINE r == [insn |-> c[x].insn, a |-> c[x].a, b |-> Dec(c[x].b)]
<1>1. c[x] \in Insn /\ c[x].insn \in ValidCode /\ Dec(c[x].b) \in Address
  BY Macros DEF GoodCore, GoodInsn, Insn
<1>2. r \in GoodInsn
  BY <1>1 DEF GoodInsn, Insn
<1>3. [c EXCEPT ![x].b = Dec(@)] = Replaced(c, x, r)
  <2>1. [c[x] EXCEPT !.b = Dec(@)] = r
    BY <1>1 DEF Insn
  <2> HIDE DEF r
  <2> QED
    BY <2>1 DEF Replaced
<1>4. /\ Core94(c)[x] \in Cell94 /\ Core94(c)[x] = Cell88(c[x])
  BY CoreTranslated DEF GoodCore94
<1>5. [Core94(c)[x] EXCEPT !["b"] = D!Dec(@)] = Cell88(r)
  <2>1. D!Dec(c[x].b) = Dec(c[x].b)
    BY SameMacros
  <2> QED
    BY <1>4, <2>1 DEF Cell88
<1> HIDE DEF r
<1>6. D!Drop(Core94(c), x, "b") = Replaced(Core94(c), x, Cell88(r))
  BY <1>5 DEF D!Drop, Replaced
<1> QED
  BY <1>2, <1>3, <1>6, TranslatedChange

\* Operands of '88 are those of the draft with the same modes,
LEMMA TranslatedOperand ==
  ASSUME NEW c \in GoodCore, NEW i \in Address, NEW mode \in Mode \ {"#"},
         NEW field \in Address
  PROVE  LET k == Evaluated(c, i, mode, field)
         IN  D!Through(Core94(c), i, mode, field)
               = Read(Core94(k), Core94(k), Denoted(k, i, mode, field))
<1> DEFINE x == Plus(i, field)
           k == Evaluated(c, i, mode, field)
<1>1. x \in Address /\ D!Plus(i, field) = x
  BY Macros, SameMacros
<1>2. k \in GoodCore
  BY EvaluatedClosed
<1>3. ASSUME NEW d \in GoodCore
      PROVE  D!at(Core94(d), x, "b") = Plus(x, d[x].b)
  <2>1. Core94(d)[x].b = d[x].b
    BY <1>1, CoreTranslated
  <2> QED
    BY <2>1, SameMacros DEF D!at
<1>4. mode = "<" => D!Drop(Core94(c), x, "b") = Core94(k)
  BY <1>1, TranslatedDrop DEF Evaluated
<1>5. mode # "<" => k = c
  BY DEF Evaluated
<1>6. Denoted(k, i, mode, field) = IF mode = "$" THEN x ELSE Plus(x, k[x].b)
  BY DEF Denoted
<1> HIDE DEF x, k
<1>7. CASE mode = "$"
  BY <1>1, <1>5, <1>6, <1>7, ThroughIs DEF k
<1>8. CASE mode = "@"
  BY <1>1, <1>2, <1>3, <1>5, <1>6, <1>8, ThroughIs DEF k
<1>9. CASE mode = "<"
  BY <1>1, <1>2, <1>3, <1>4, <1>6, <1>9, ThroughIs DEF k
<1> QED
  BY <1>7, <1>8, <1>9 DEF Mode

\* except that the draft reads an immediate B operand before A changes it.
LEMMA TranslatedOperands ==
  ASSUME NEW c \in GoodCore, NEW i \in Address
  PROVE  LET k == Core94(coreB(c, i))
         IN  /\ D!OptA(Core94(c), i)
                  = Read(Core94(coreA(c, i)), Core94(coreA(c, i)), aAddr(c, i))
             /\ D!OptB(Core94(c), i)
                  = Read(k, IF bm(c[i]) = "#" THEN Core94(c) ELSE k, bAddr(c, i))
<1> DEFINE d == Core94(c)
           a == c[i].a
           b == c[i].b
<1>1. /\ d[i].a = a /\ d[i].b = b
      /\ D!am(d[i]) = am(c[i]) /\ D!bm(d[i]) = bm(c[i])
  BY CoreTranslated
<1>2. a \in Address /\ b \in Address
  BY Fields DEF GoodCore
<1>3. am(c[i]) \in Mode /\ bm(c[i]) \in Mode
  BY DEF GoodCore, GoodInsn, Insn, Code, am, bm
<1>4. coreA(c, i) \in GoodCore
  BY <1>2, EvaluatedClosed DEF coreA
<1> HIDE DEF d, a, b
<1>5. D!OptA(d, i) = Read(Core94(coreA(c, i)), Core94(coreA(c, i)), aAddr(c, i))
  <2>1. CASE am(c[i]) = "#"
    <3>1. coreA(c, i) = c /\ aAddr(c, i) = i
      BY <2>1 DEF coreA, aAddr, Evaluated, Denoted
    <3>2. D!OptA(d, i) = Read(d, d, i)
      BY <1>1, <2>1 DEF D!OptA, D!Immediate, Read
    <3> QED
      BY <3>1, <3>2 DEF d
  <2>2. CASE am(c[i]) # "#"
    <3>1. D!OptA(d, i) = D!Through(d, i, am(c[i]), a)
      BY <1>1, <2>2 DEF D!OptA
    <3> QED
      BY <1>2, <1>3, <2>2, <3>1, TranslatedOperand DEF coreA, aAddr, a, d
  <2> QED
    BY <2>1, <2>2
<1>6. D!OptA(d, i).core = Core94(coreA(c, i))
  BY <1>5 DEF Read
<1>7. D!OptB(d, i) = Read(Core94(coreB(c, i)),
                          IF bm(c[i]) = "#" THEN d ELSE Core94(coreB(c, i)),
                          bAddr(c, i))
  <2>1. CASE bm(c[i]) = "#"
    <3>1. coreB(c, i) = coreA(c, i) /\ bAddr(c, i) = i
      BY <2>1 DEF coreB, bAddr, Evaluated, Denoted
    <3>2. D!OptB(d, i) = Read(D!OptA(d, i).core, d, i)
      BY <1>1, <2>1, OptBIs
    <3> QED
      BY <1>6, <2>1, <3>1, <3>2
  <2>2. CASE bm(c[i]) # "#"
    <3>1. D!OptB(d, i) = D!Through(Core94(coreA(c, i)), i, bm(c[i]), b)
      BY <1>1, <1>6, <2>2 DEF D!OptB
    <3> QED
      BY <1>2, <1>3, <1>4, <2>2, <3>1, TranslatedOperand DEF coreB, bAddr, b
  <2> QED
    BY <2>1, <2>2
<1> QED
  BY <1>5, <1>7 DEF d

\* What the switch of the draft is given.
Given88(c, i, A, B) ==
  /\ A \in Operand94 /\ B \in Operand94
  /\ B.core = Core94(coreB(c, i))
  /\ A.addr = aAddr(c, i) /\ B.addr = bAddr(c, i)
  /\ A.a = ra(c, i).a /\ A.b = ra(c, i).b
  /\ am(c[i]) = "#" => A.a = c[i].a
  /\ bm(c[i]) # "#" => B.a = rb(c, i).a
  /\ bm(c[i]) # "#" \/ am(c[i]) # "<" \/ c[i].a # 0 => B.b = rb(c, i).b
  /\ B.core[A.addr].insn = Code94(ra(c, i).insn)
  /\ B.core[B.addr] = Cell88(rb(c, i))

\* The switch is given what the case blocks of run_88 read.
LEMMA OperandsGiven ==
  ASSUME NEW c \in GoodCore, NEW i \in Address
  PROVE  Given88(c, i, D!OptA(Core94(c), i), D!OptB(Core94(c), i))
<1> DEFINE A  == D!OptA(Core94(c), i)
           B  == D!OptB(Core94(c), i)
           kA == coreA(c, i)
           kB == coreB(c, i)
           x  == aAddr(c, i)
           y  == bAddr(c, i)
<1>1. c[i].a \in Address /\ c[i].b \in Address
  BY Fields DEF GoodCore
<1>2. kA \in GoodCore /\ kB \in GoodCore /\ x \in Address /\ y \in Address
  BY <1>1, EvaluatedClosed, OperandsClosed DEF coreA
<1>3. A \in Operand94 /\ B \in Operand94
  BY CoreTranslated, OptOperandsClosed
<1>4. A = Read(Core94(kA), Core94(kA), x)
      /\ B = Read(Core94(kB), IF bm(c[i]) = "#" THEN Core94(c) ELSE Core94(kB), y)
  BY TranslatedOperands
<1>5. am(c[i]) = "#" => kA = c /\ x = i
  BY DEF coreA, aAddr, Evaluated, Denoted
<1>6. bm(c[i]) = "#" => kB = kA /\ y = i
  BY DEF coreB, bAddr, Evaluated, Denoted
<1>7. am(c[i]) # "<" \/ c[i].a # 0 => kA[i].b = c[i].b
  <2>1. CASE am(c[i]) # "<"
    BY <2>1 DEF coreA, Evaluated
  <2>2. CASE c[i].a # 0
    <3>1. Plus(i, c[i].a) # i /\ Plus(i, c[i].a) \in Address
      BY <1>1, <2>2, CoreAssumption DEF Address, Plus
    <3> QED
      BY <3>1 DEF coreA, Evaluated, GoodCore, GoodInsn, Insn
  <2> QED
    BY <2>1, <2>2
<1>8. ra(c, i) = kA[x] /\ rb(c, i) = kB[y]
  BY DEF ra, rb
<1>9. kB[x].insn = kA[x].insn
  BY <1>2, OperandsKeepCodes
<1> HIDE DEF A, B, kA, kB, x, y
<1>10. /\ Core94(kA)[x].a = kA[x].a /\ Core94(kA)[x].b = kA[x].b
       /\ Core94(kB)[x].insn = Code94(kB[x].insn)
       /\ Core94(kB)[y] = Cell88(kB[y])
       /\ Core94(kB)[y].a = kB[y].a /\ Core94(kB)[y].b = kB[y].b
       /\ Core94(c)[i].a = c[i].a /\ Core94(c)[i].b = c[i].b
  BY <1>2, CoreTranslated
<1>11. /\ B.core = Core94(kB) /\ A.addr = x /\ B.addr = y
       /\ A.a = kA[x].a /\ A.b = kA[x].b
       /\ bm(c[i]) # "#" => B.a = kB[y].a /\ B.b = kB[y].b
       /\ bm(c[i]) = "#" => B.b = c[i].b
  BY <1>4, <1>6, <1>10 DEF Read
<1>12. bm(c[i]) # "#" \/ am(c[i]) # "<" \/ c[i].a # 0 => B.b = kB[y].b
  BY <1>6, <1>7, <1>11
<1>13. Given88(c, i, A, B)
  BY <1>3, <1>5, <1>8, <1>9, <1>10, <1>11, <1>12 DEF Given88, kB, x, y
<1> QED
  BY <1>13 DEF A, B

\* What a result of the draft has to be for an instruction of '88.
Alike88(c, i, result) ==
  /\ result.core = Core94(CoreAfter(c, i))
  /\ result.does = Outcome(c, i)
  /\ result.does \in {"continue", "split"} => result.next = Queued(c, i)

\* An instruction with a valid code: its switch, its modes and its modifier.
LEMMA ValidModes ==
  ASSUME NEW c \in GoodCore, NEW i \in Address
  PROVE  /\ op(c[i]) \in {"DAT"} \cup Arithmetic \cup Jump
         /\ op(c[i]) \in Arithmetic => bm(c[i]) # "#"
         /\ op(c[i]) \in Jump => am(c[i]) # "#"
         /\ c[i].insn \in ValidCode
<1> DEFINE code == c[i].insn
<1>1. code \in ValidCode
  BY DEF GoodCore, GoodInsn
<1>2. code[1] \in {"DAT"} \cup Arithmetic \cup Jump
      /\ (code[1] \in Arithmetic => code[3] # "#")
      /\ (code[1] \in Jump => code[2] # "#")
  BY <1>1 DEF ValidCode, Arithmetic, Jump, Blank
<1> QED
  BY <1>1, <1>2 DEF op, am, bm

\* The modifiers of the operations.
LEMMA Modifiers88 ==
  ASSUME NEW r
  PROVE  LET m == Modifier94(r.insn)
         IN  /\ am(r) = "#" =>
                  (op(r) \in {"MOV", "ADD", "SUB", "CMP", "SLT"} => m = "AB")
             /\ am(r) # "#" =>
                  /\ op(r) \in {"MOV", "CMP"} => m = "I"
                  /\ op(r) \in {"ADD", "SUB"} => m = "F"
                  /\ op(r) = "SLT" => m = "B"
             /\ op(r) \in {"JMZ", "JMN", "DJN"} => m = "B"
  BY DEF Modifier94, op, am

\* An instruction that writes fields or queues an address, as it is in both.
LEMMA Queues88 ==
  ASSUME NEW c \in GoodCore, NEW i \in Address
  PROVE  LET o == op(c[i])
         IN  /\ o \in {"MOV", "ADD", "SUB"} =>
                  Outcome(c, i) = "continue" /\ Queued(c, i) = IpIncMod(i)
             /\ o \in {"MOV", "ADD", "SUB", "DJN"} =>
                  CoreAfter(c, i)
                    = Replaced(coreB(c, i), bAddr(c, i), Written(c, i))
             /\ o \notin {"MOV", "ADD", "SUB", "DJN"} =>
                  CoreAfter(c, i) = coreB(c, i)
<1>1. c[i].insn \in ValidCode
  BY ValidModes
<1>2. op(c[i]) \in {"MOV", "ADD", "SUB"} =>
        Outcome(c, i) = "continue" /\ Queued(c, i) = IpIncMod(i)
  BY <1>1 DEF Outcome, Queued, Skips, Jump, op
<1> QED
  BY <1>1, <1>2 DEF CoreAfter, Replaced

\* A cell with both fields replaced.
Fielded(r, v, w) == [insn |-> r.insn, a |-> v, b |-> w]

\* What both standards write.
LEMMA TranslatedWrote ==
  ASSUME NEW k \in GoodCore, NEW x \in Address, NEW B, NEW values
  PROVE  LET v == values["a"]
             w == values["b"]
             r == k[x]
         IN  B.core = Core94(k) /\ B.addr = x /\ w \in Address =>
               /\ DOMAIN values = {"b"} =>
                    D!Wrote(B, values)
                      = Core94(Replaced(k, x, Fielded(r, r.a, w)))
               /\ DOMAIN values = {"a", "b"} /\ v \in Address =>
                    D!Wrote(B, values)
                      = Core94(Replaced(k, x, Fielded(r, v, w)))
<1> DEFINE old  == Core94(k)[x]
           v    == values["a"]
           w    == values["b"]
           r    == k[x]
           cell == [f \in {"insn", "a", "b"} |->
                      IF f \in DOMAIN values THEN values[f] ELSE old[f]]
<1>1. r \in GoodInsn /\ r.a \in Address
  BY Fields DEF GoodCore
<1>2. old \in Cell94 /\ old.insn = Code94(r.insn) /\ old.a = r.a /\ old.b = r.b
  BY CoreTranslated DEF GoodCore94
<1>3. B.core = Core94(k) /\ B.addr = x =>
        D!Wrote(B, values) = Replaced(Core94(k), x, cell)
  BY DEF D!Wrote, Replaced
<1> HIDE DEF old, r
<1>4. ASSUME NEW y \in Address, NEW z \in Address
      PROVE  Core94(Replaced(k, x, [insn |-> r.insn, a |-> y, b |-> z]))
               = Replaced(Core94(k), x, [insn |-> old.insn, a |-> y, b |-> z])
  <2>1. [insn |-> r.insn, a |-> y, b |-> z] \in GoodInsn
    BY <1>1, FieldsChanged
  <2>2. Cell88([insn |-> r.insn, a |-> y, b |-> z])
          = [insn |-> old.insn, a |-> y, b |-> z]
    BY <1>2, <2>1 DEF Cell88
  <2> QED
    BY <2>1, <2>2, TranslatedChange
<1>5. ASSUME DOMAIN values = {"b"}, w \in Address
      PROVE  cell = [insn |-> old.insn, a |-> r.a, b |-> w]
  <2>1. cell \in Cell94 /\ cell.insn = old.insn /\ cell.a = r.a /\ cell.b = w
    BY <1>2, <1>5 DEF Cell94
  <2> HIDE DEF cell
  <2> QED
    BY <2>1 DEF Cell94
<1>6. ASSUME DOMAIN values = {"a", "b"}, v \in Address, w \in Address
      PROVE  cell = [insn |-> old.insn, a |-> v, b |-> w]
  <2>1. cell \in Cell94 /\ cell.insn = old.insn /\ cell.a = v /\ cell.b = w
    BY <1>2, <1>6 DEF Cell94
  <2> HIDE DEF cell
  <2> QED
    BY <2>1 DEF Cell94
<1> HIDE DEF cell, v, w
<1>7. B.core = Core94(k) /\ B.addr = x /\ w \in Address =>
        /\ DOMAIN values = {"b"} =>
             D!Wrote(B, values)
               = Core94(Replaced(k, x, Fielded(r, r.a, w)))
        /\ DOMAIN values = {"a", "b"} /\ v \in Address =>
             D!Wrote(B, values)
               = Core94(Replaced(k, x, Fielded(r, v, w)))
  BY <1>1, <1>3, <1>4, <1>5, <1>6 DEF Fielded
<1> QED
  BY <1>7 DEF v, w, r

\* What an immediate operand or a DJN writes is one field.
LEMMA WrittenIs ==
  ASSUME NEW c \in GoodCore, NEW i \in Address
  PROVE  LET o == op(c[i])
             a == ra(c, i)
             b == rb(c, i)
         IN  /\ immediate(c, i) \/ o = "DJN" =>
                  Written(c, i) = [insn |-> b.insn, a |-> b.a,
                                   b |-> Combined(o, b.b, c[i].a)]
             /\ ~(immediate(c, i) \/ o = "DJN") =>
                  Written(c, i) = [insn |-> IF o = "MOV" THEN a.insn ELSE b.insn,
                                   a |-> Combined(o, b.a, a.a),
                                   b |-> Combined(o, b.b, a.b)]
<1> DEFINE v == Combined(op(c[i]), rb(c, i).b, c[i].a)
           b == rb(c, i)
<1>1. b \in GoodInsn
  BY OperandsClosed
<1> HIDE DEF v, b
<1>2. [b EXCEPT !.b = v] = [insn |-> b.insn, a |-> b.a, b |-> v]
  BY <1>1 DEF GoodInsn, Insn
<1>3. immediate(c, i) \/ op(c[i]) = "DJN" => Written(c, i) = [b EXCEPT !.b = v]
  BY DEF Written, v, b
<1> QED
  BY <1>2, <1>3 DEF Written, v, b

\* MOV, ADD, SUB and DJN: the draft writes the same field,
LEMMA TranslatedOne ==
  ASSUME NEW c \in GoodCore, NEW i \in Address, NEW A, NEW B, NEW values,
         Given88(c, i, A, B), immediate(c, i) \/ op(c[i]) = "DJN",
         op(c[i]) \in {"MOV", "ADD", "SUB", "DJN"}
  PROVE  LET w == values["b"]
         IN  /\ DOMAIN values = {"b"} /\ w \in Address
             /\ w = Combined(op(c[i]), rb(c, i).b, c[i].a)
             => D!Wrote(B, values) = Core94(CoreAfter(c, i))
<1> DEFINE k == coreB(c, i)
           x == bAddr(c, i)
           v == Combined(op(c[i]), rb(c, i).b, c[i].a)
<1>1. k \in GoodCore /\ x \in Address /\ rb(c, i) = k[x]
  BY OperandsClosed DEF rb
<1>2. B.core = Core94(k) /\ B.addr = x
  BY DEF Given88
<1>3. CoreAfter(c, i) = Replaced(k, x, Written(c, i))
  BY Queues88
<1>4. Written(c, i) = Fielded(rb(c, i), rb(c, i).a, v)
  BY WrittenIs DEF Fielded
<1> HIDE DEF k, x, v
<1>5. DOMAIN values = {"b"} /\ values["b"] \in Address =>
        D!Wrote(B, values)
          = Core94(Replaced(k, x, Fielded(k[x], k[x].a, values["b"])))
  BY <1>1, <1>2, TranslatedWrote
<1>6. DOMAIN values = {"b"} /\ values["b"] \in Address /\ values["b"] = v =>
        D!Wrote(B, values) = Core94(CoreAfter(c, i))
  BY <1>1, <1>3, <1>4, <1>5
<1> QED
  BY <1>6 DEF v

\* or the same two.
LEMMA TranslatedBoth ==
  ASSUME NEW c \in GoodCore, NEW i \in Address, NEW A, NEW B, NEW values,
         Given88(c, i, A, B), ~immediate(c, i), op(c[i]) \in {"ADD", "SUB"}
  PROVE  LET v == values["a"]
             w == values["b"]
         IN  /\ DOMAIN values = {"a", "b"} /\ v \in Address /\ w \in Address
             /\ v = Combined(op(c[i]), rb(c, i).a, ra(c, i).a)
             /\ w = Combined(op(c[i]), rb(c, i).b, ra(c, i).b)
             => D!Wrote(B, values) = Core94(CoreAfter(c, i))
<1> DEFINE k == coreB(c, i)
           x == bAddr(c, i)
           y == Combined(op(c[i]), rb(c, i).a, ra(c, i).a)
           z == Combined(op(c[i]), rb(c, i).b, ra(c, i).b)
<1>1. k \in GoodCore /\ x \in Address /\ rb(c, i) = k[x]
  BY OperandsClosed DEF rb
<1>2. B.core = Core94(k) /\ B.addr = x
  BY DEF Given88
<1>3. CoreAfter(c, i) = Replaced(k, x, Written(c, i))
  BY Queues88
<1>4. Written(c, i) = Fielded(rb(c, i), y, z)
  BY WrittenIs DEF Fielded
<1> HIDE DEF k, x, y, z
<1>5. DOMAIN values = {"a", "b"} /\ values["a"] \in Address /\ values["b"] \in Address =>
        D!Wrote(B, values)
          = Core94(Replaced(k, x, Fielded(k[x], values["a"], values["b"])))
  BY <1>1, <1>2, TranslatedWrote
<1>6. /\ DOMAIN values = {"a", "b"} /\ values["a"] \in Address
      /\ values["b"] \in Address /\ values["a"] = y /\ values["b"] = z
      => D!Wrote(B, values) = Core94(CoreAfter(c, i))
  BY <1>1, <1>3, <1>4, <1>5
<1> QED
  BY <1>6 DEF y, z

\* Which fields the modifiers of '88 pair.
LEMMA Meets88 ==
  /\ DOMAIN D!Meets("AB") = {"b"} /\ D!Meets("AB")["b"] = "a"
  /\ DOMAIN D!Meets("B") = {"b"} /\ D!Meets("B")["b"] = "b"
  /\ \A m \in {"F", "I"} : /\ DOMAIN D!Meets(m) = {"a", "b"}
                           /\ D!Meets(m)["a"] = "a" /\ D!Meets(m)["b"] = "b"
<1>1. D!Meets("AB") = [b |-> "a"]
  BY DEF D!Meets
<1>2. D!Meets("B") = [b |-> "b"]
  BY DEF D!Meets
<1>3. \A m \in {"F", "I"} : D!Meets(m) = [a |-> "a", b |-> "b"]
  BY DEF D!Meets
<1> QED
  BY <1>1, <1>2, <1>3

\* The result of an instruction of '88 in the draft, by its operation.
LEMMA SwitchGiven ==
  ASSUME NEW c \in GoodCore, NEW i \in Address
  PROVE  LET A == D!OptA(Core94(c), i)
             B == D!OptB(Core94(c), i)
             o == op(c[i])
             m == Modifier94(c[i].insn)
             result == D!OptSlow(Core94(c), i)
         IN  /\ o = "DAT" => result = D!Dies(B.core)
             /\ o = "MOV" => result = D!Mov(A, B, m, i)
             /\ o = "ADD" => result = D!Add(A, B, m, i)
             /\ o = "SUB" => result = D!Sub(A, B, m, i)
             /\ o = "JMP" => result = D!Continues(B.core, A.addr)
             /\ o = "SPL" => result = D!Splits(B.core, A.addr)
             /\ o = "JMZ" => result = D!Jmz(A, B, m, i)
             /\ o = "JMN" => result = D!Jmn(A, B, m, i)
             /\ o = "DJN" => result = D!Djn(A, B, m, i)
             /\ o = "CMP" => result = D!SkipIf(D!Equal(A, B, m), B, i)
             /\ o = "SLT" => result = D!Slt(A, B, m, i)
<1> DEFINE A == D!OptA(Core94(c), i)
           B == D!OptB(Core94(c), i)
           r == Core94(c)[i]
<1>1. D!OptSlow(Core94(c), i) = D!Switch(A, B, r, i)
  BY DEF D!OptSlow
<1>2. D!op(r) = Op94(op(c[i])) /\ D!mod(r) = Modifier94(c[i].insn)
  BY CoreTranslated
<1> HIDE DEF A, B, r
<1>3. /\ op(c[i]) = "CMP" => D!op(r) = "SEQ"
      /\ op(c[i]) # "CMP" => D!op(r) = op(c[i])
  BY <1>2 DEF Op94
<1> QED
  BY <1>1, <1>2, <1>3, SwitchIs DEF A, B

\* MOV writes the same cell.
LEMMA MovTranslated ==
  ASSUME NEW c \in GoodCore, NEW i \in Address, op(c[i]) = "MOV"
  PROVE  Alike88(c, i, D!OptSlow(Core94(c), i))
<1> DEFINE A == D!OptA(Core94(c), i)
           B == D!OptB(Core94(c), i)
           result == D!OptSlow(Core94(c), i)
<1>1. Given88(c, i, A, B)
  BY OperandsGiven
<1>2. Outcome(c, i) = "continue" /\ Queued(c, i) = IpIncMod(i)
  BY Queues88
<1>3. D!Inc(i) = IpIncMod(i)
  BY SameMacros
<1>4. CASE am(c[i]) = "#"
  <2> DEFINE values == [x \in DOMAIN D!Meets("AB") |-> A[D!Meets("AB")[x]]]
  <2>1. Modifier94(c[i].insn) = "AB"
    BY <1>4, Modifiers88
  <2>2. result = D!Mov(A, B, "AB", i)
    BY <2>1, SwitchGiven
  <2> HIDE DEF A, B, result
  <2>3. DOMAIN values = {"b"} /\ values["b"] = A.a
    BY Meets88
  <2>4. A.a = c[i].a /\ c[i].a \in Address
    BY <1>1, <1>4, Fields DEF Given88, GoodCore
  <2>5. result = D!Continues(D!Wrote(B, values), D!Inc(i))
    BY <2>2 DEF D!Mov
  <2> HIDE DEF values
  <2>6. immediate(c, i)
    BY <1>4 DEF immediate
  <2>7. values["b"] = Combined(op(c[i]), rb(c, i).b, c[i].a)
    BY <2>3, <2>4 DEF Combined
  <2>8. D!Wrote(B, values) = Core94(CoreAfter(c, i))
    BY <1>1, <2>3, <2>4, <2>6, <2>7, TranslatedOne
  <2> QED
    BY <1>2, <1>3, <2>5, <2>8 DEF Alike88, D!Continues, result
<1>5. CASE am(c[i]) # "#"
  <2> DEFINE a == ra(c, i)
             b == rb(c, i)
             r == [insn |-> a.insn, a |-> a.a, b |-> a.b]
  <2>1. D!op(Core94(c)[i]) = "MOV" /\ D!mod(Core94(c)[i]) = "I"
        /\ Core94(c) \in GoodCore94
    BY <1>5, CoreTranslated, Modifiers88 DEF Op94
  <2>2. result = MovI(B.core, A.addr, A.a, A.b, B.addr, i)
    BY <2>1, SlowMov
  <2> HIDE DEF A, B, result
  <2>3. Written(c, i) = r
    <3>1. Written(c, i) = [insn |-> IF op(c[i]) = "MOV" THEN a.insn ELSE b.insn,
                           a |-> Combined(op(c[i]), b.a, a.a),
                           b |-> Combined(op(c[i]), b.b, a.b)]
      BY <1>5, WrittenIs DEF immediate
    <3>2. Combined(op(c[i]), b.a, a.a) = a.a /\ Combined(op(c[i]), b.b, a.b) = a.b
      BY DEF Combined
    <3> QED
      BY <3>1, <3>2
  <2>4. r \in GoodInsn /\ coreB(c, i) \in GoodCore /\ bAddr(c, i) \in Address
    BY <2>3, WrittenClosed, OperandsClosed
  <2>5. [insn |-> B.core[A.addr].insn, a |-> A.a, b |-> A.b] = Cell88(r)
    BY <1>1 DEF Given88, Cell88
  <2> HIDE DEF r
  <2>6. result = D!Continues(Replaced(Core94(coreB(c, i)), bAddr(c, i), Cell88(r)),
                             D!Inc(i))
    BY <1>1, <2>2, <2>5 DEF MovI, Given88, Replaced
  <2>7. CoreAfter(c, i) = Replaced(coreB(c, i), bAddr(c, i), r)
    BY <2>3, Queues88
  <2>8. result = D!Continues(Core94(CoreAfter(c, i)), IpIncMod(i))
    BY <1>3, <2>4, <2>6, <2>7, TranslatedChange
  <2> QED
    BY <1>2, <2>8 DEF Alike88, D!Continues, result
<1> QED
  BY <1>4, <1>5

\* ADD and SUB write the same fields.
LEMMA ArithmeticTranslated ==
  ASSUME NEW c \in GoodCore, NEW i \in Address, op(c[i]) \in {"ADD", "SUB"}
  PROVE  Alike88(c, i, D!OptSlow(Core94(c), i))
<1> DEFINE A == D!OptA(Core94(c), i)
           B == D!OptB(Core94(c), i)
           o == op(c[i])
           m == Modifier94(c[i].insn)
           result == D!OptSlow(Core94(c), i)
           values == [x \in DOMAIN D!Meets(m) |->
                        Combined(o, B[x], A[D!Meets(m)[x]])]
<1>1. Given88(c, i, A, B)
  BY OperandsGiven
<1>2. Outcome(c, i) = "continue" /\ Queued(c, i) = IpIncMod(i)
  BY Queues88
<1>3. D!Inc(i) = IpIncMod(i)
  BY SameMacros
<1>4. result = D!Continues(D!Wrote(B, values), D!Inc(i))
  <2>1. \A x, y : D!Plus(x, y) = Plus(x, y) /\ D!Minus(x, y) = Minus(x, y)
    BY SameMacros
  <2>2. CASE o = "ADD"
    <3>1. result = D!Add(A, B, m, i)
      BY <2>2, SwitchGiven
    <3> HIDE DEF A, B, result, m
    <3> QED
      BY <2>1, <2>2, <3>1 DEF D!Add, Combined
  <2>3. CASE o = "SUB"
    <3>1. result = D!Sub(A, B, m, i)
      BY <2>3, SwitchGiven
    <3> HIDE DEF A, B, result, m
    <3> QED
      BY <2>1, <2>3, <3>1 DEF D!Sub, Combined
  <2> QED
    BY <2>2, <2>3
<1>5. bm(c[i]) # "#"
  BY ValidModes DEF Arithmetic
<1>6. /\ A.a = ra(c, i).a /\ A.b = ra(c, i).b
      /\ B.a = rb(c, i).a /\ B.b = rb(c, i).b
      /\ A.a \in Address /\ A.b \in Address
      /\ B.a \in Address /\ B.b \in Address
  BY <1>1, <1>5 DEF Given88, Operand94
<1>7. \A x, y \in Address : Combined(o, x, y) \in Address
  BY Macros DEF Combined
<1>8. D!Wrote(B, values) = Core94(CoreAfter(c, i))
  <2>1. CASE am(c[i]) = "#"
    <3>1. m = "AB" /\ immediate(c, i)
      BY <2>1, Modifiers88 DEF immediate
    <3>2. A.a = c[i].a
      BY <1>1, <2>1 DEF Given88
    <3> HIDE DEF A, B, result, m, o
    <3>3. DOMAIN values = {"b"} /\ values["b"] = Combined(o, B.b, A.a)
      BY <3>1, Meets88
    <3> HIDE DEF values
    <3>4. values["b"] \in Address
          /\ values["b"] = Combined(op(c[i]), rb(c, i).b, c[i].a)
      BY <1>6, <1>7, <3>2, <3>3 DEF o
    <3> QED
      BY <1>1, <3>1, <3>3, <3>4, TranslatedOne
  <2>2. CASE am(c[i]) # "#"
    <3>1. m = "F" /\ ~immediate(c, i)
      BY <2>2, Modifiers88 DEF immediate
    <3> HIDE DEF A, B, result, m, o
    <3>3. DOMAIN values = {"a", "b"} /\ values["a"] = Combined(o, B.a, A.a)
          /\ values["b"] = Combined(o, B.b, A.b)
      BY <3>1, Meets88
    <3> HIDE DEF values
    <3>4. /\ values["a"] \in Address /\ values["b"] \in Address
          /\ values["a"] = Combined(op(c[i]), rb(c, i).a, ra(c, i).a)
          /\ values["b"] = Combined(op(c[i]), rb(c, i).b, ra(c, i).b)
      BY <1>6, <1>7, <3>3 DEF o
    <3> QED
      BY <1>1, <3>1, <3>3, <3>4, TranslatedBoth
  <2> QED
    BY <2>1, <2>2
<1> HIDE DEF result, values, A, B
<1>9. Alike88(c, i, result)
  BY <1>2, <1>3, <1>4, <1>8 DEF Alike88, D!Continues
<1> QED
  BY <1>9 DEF result

\* DAT, JMP and SPL need no values.
LEMMA PlainTranslated ==
  ASSUME NEW c \in GoodCore, NEW i \in Address, op(c[i]) \in {"DAT", "JMP", "SPL"}
  PROVE  Alike88(c, i, D!OptSlow(Core94(c), i))
<1> DEFINE A == D!OptA(Core94(c), i)
           B == D!OptB(Core94(c), i)
           result == D!OptSlow(Core94(c), i)
<1>1. B.core = Core94(CoreAfter(c, i)) /\ A.addr = aAddr(c, i)
  BY OperandsGiven, Queues88 DEF Given88
<1>2. /\ op(c[i]) = "DAT" => result = D!Dies(B.core)
      /\ op(c[i]) = "JMP" => result = D!Continues(B.core, A.addr)
      /\ op(c[i]) = "SPL" => result = D!Splits(B.core, A.addr)
  BY SwitchGiven
<1>3. /\ op(c[i]) = "DAT" => Outcome(c, i) = "die"
      /\ op(c[i]) = "JMP" => Outcome(c, i) = "continue"
      /\ op(c[i]) = "SPL" => Outcome(c, i) = "split"
  BY ValidModes DEF Outcome, op
<1>4. op(c[i]) \in {"JMP", "SPL"} => Queued(c, i) = aAddr(c, i)
  BY DEF Queued, Jumps, Jump
<1> HIDE DEF A, B, result
<1>5. Alike88(c, i, result)
  BY <1>1, <1>2, <1>3, <1>4 DEF Alike88, D!Dies, D!Continues, D!Splits
<1> QED
  BY <1>5 DEF result

\* The jumps look at the same value, unless the draft reads an immediate B
\* operand that the A operand changes.
LEMMA JumpsTranslated ==
  ASSUME NEW c \in GoodCore, NEW i \in Address,
         op(c[i]) \in {"JMZ", "JMN", "DJN"},
         ~(am(c[i]) = "<" /\ c[i].a = 0 /\ bm(c[i]) = "#"),
         ~(c[i].insn = <<"JMZ", "<", "@">> /\ ~Jumps(c, i))
  PROVE  Alike88(c, i, D!OptSlow(Core94(c), i))
<1> DEFINE A == D!OptA(Core94(c), i)
           B == D!OptB(Core94(c), i)
           result == D!OptSlow(Core94(c), i)
           value == rb(c, i).b
           next == IF Jumps(c, i) THEN A.addr ELSE D!Inc(i)
<1>1. Given88(c, i, A, B)
  BY OperandsGiven
<1>2. B.b = value /\ value \in Address /\ A.addr = aAddr(c, i)
  BY <1>1, Fields, OperandsClosed DEF Given88
<1>3. Modifier94(c[i].insn) = "B"
  BY Modifiers88
<1>4. Outcome(c, i) = "continue"
  BY ValidModes DEF Outcome, op
<1>5. Queued(c, i) = next
  BY <1>2, SameMacros DEF Queued, Skips, Jump
<1>6. D!Tested("B") = {"b"}
  BY Meets88 DEF D!Tested
<1>7. /\ op(c[i]) = "JMZ" => (Jumps(c, i) <=> value = 0)
      /\ op(c[i]) = "JMN" => (Jumps(c, i) <=> value # 0)
      /\ op(c[i]) = "DJN" /\ CoreSize # 1 => (Jumps(c, i) <=> value # 1)
  <2>1. CoreSize # 1 => (Dec(value) # 0 <=> value # 1)
    BY <1>2, CoreAssumption DEF Dec, Address
  <2> HIDE DEF value
  <2> QED
    BY <2>1 DEF Jumps, value
<1>8. CoreSize = 1 => A.addr = D!Inc(i)
  <2>1. A.addr \in Address /\ D!Inc(i) \in Address
    BY <1>1, MacrosClosed94 DEF Given88, Operand94
  <2> QED
    BY <2>1 DEF Address
<1>9. CASE op(c[i]) \in {"JMZ", "JMN"}
  <2>1. B.core = Core94(CoreAfter(c, i))
    BY <1>1, <1>9, Queues88 DEF Given88
  <2>2. /\ op(c[i]) = "JMZ" => result = D!Jmz(A, B, "B", i)
        /\ op(c[i]) = "JMN" => result = D!Jmn(A, B, "B", i)
    BY <1>3, SwitchGiven
  <2> HIDE DEF A, B, result, value
  <2>3. result = D!Continues(B.core, next)
    BY <1>2, <1>6, <1>7, <1>9, <2>2 DEF D!Jmz, D!Jmn, D!JumpIf
  <2> QED
    BY <1>4, <1>5, <2>1, <2>3 DEF Alike88, D!Continues, result
<1>10. CASE op(c[i]) = "DJN"
  <2> DEFINE less == [x \in D!Tested("B") |-> D!Dec(B.core[B.addr][x])]
  <2>1. result = D!Djn(A, B, "B", i)
    BY <1>3, <1>10, SwitchGiven
  <2>2. B.core[B.addr] = Cell88(rb(c, i)) /\ B \in Operand94
    BY <1>1 DEF Given88
  <2> HIDE DEF A, B, result
  <2>3. DOMAIN less = {"b"} /\ less["b"] = Dec(value)
    <3>1. B.core[B.addr]["b"] = value
      BY <2>2 DEF Cell88
    <3> QED
      BY <1>6, <3>1, SameMacros
  <2>4. Dec(value) \in Address /\ Dec(value) = Combined(op(c[i]), rb(c, i).b, c[i].a)
    BY <1>2, <1>10, Macros DEF Combined
  <2> HIDE DEF less, value
  <2>5. D!Wrote(B, less) = Core94(CoreAfter(c, i))
    BY <1>1, <1>10, <2>3, <2>4, TranslatedOne
  <2>6. [B EXCEPT !.core = D!Wrote(B, less)].core = D!Wrote(B, less)
    BY <2>2 DEF Operand94
  <2>7. result = D!Continues(D!Wrote(B, less), next)
    <3>1. CoreSize # 1 => ((\E x \in D!Tested("B") : B[x] # 1) <=> Jumps(c, i))
      BY <1>2, <1>6, <1>7, <1>10
    <3> QED
      BY <1>8, <2>1, <2>6, <3>1 DEF D!Djn, D!JumpIf, less
  <2> QED
    BY <1>4, <1>5, <2>5, <2>7 DEF Alike88, D!Continues, result
<1> QED
  BY <1>9, <1>10

\* CMP and SLT compare the same values.
LEMMA TestsTranslated ==
  ASSUME NEW c \in GoodCore, NEW i \in Address, op(c[i]) \in {"CMP", "SLT"}
  PROVE  Alike88(c, i, D!OptSlow(Core94(c), i))
<1> DEFINE A == D!OptA(Core94(c), i)
           B == D!OptB(Core94(c), i)
           m == Modifier94(c[i].insn)
           a == ra(c, i)
           b == rb(c, i)
           result == D!OptSlow(Core94(c), i)
           next == IF Skips(c, i) THEN D!Inc(D!Inc(i)) ELSE D!Inc(i)
<1>1. Given88(c, i, A, B)
  BY OperandsGiven
<1>2. bm(c[i]) # "#"
  BY ValidModes DEF Arithmetic
<1>3. /\ A.a = a.a /\ A.b = a.b /\ B.a = b.a /\ B.b = b.b
      /\ am(c[i]) = "#" => A.a = c[i].a
      /\ B.core[A.addr].insn = Code94(a.insn)
      /\ B.core[B.addr].insn = Code94(b.insn)
      /\ B.core = Core94(CoreAfter(c, i))
  BY <1>1, <1>2, Queues88 DEF Given88, Cell88
<1>4. Outcome(c, i) = "continue"
  BY ValidModes DEF Outcome, op
<1>5. Queued(c, i) = next
  BY SameMacros DEF Queued, Jump
<1>6. a \in Insn /\ b \in Insn /\ (a.insn = b.insn <=> Code94(a.insn) = Code94(b.insn))
  <2>1. a \in Insn /\ b \in Insn
    BY OperandsClosed DEF GoodInsn
  <2>2. a.insn \in Code /\ b.insn \in Code
    BY <2>1 DEF Insn
  <2> HIDE DEF a, b
  <2>3. Code94(a.insn) = Code94(b.insn) => a.insn = b.insn
    BY <2>2, CodesTellApart
  <2> QED
    BY <2>1, <2>3
<1>7. /\ am(c[i]) = "#" => m = "AB"
      /\ am(c[i]) # "#" => m = IF op(c[i]) = "CMP" THEN "I" ELSE "B"
  BY Modifiers88
<1>8. CASE op(c[i]) = "CMP"
  <2>1. result = D!SkipIf(D!Equal(A, B, m), B, i)
    BY <1>8, SwitchGiven
  <2>2. Skips(c, i) <=> IF am(c[i]) = "#" THEN c[i].a = b.b ELSE a = b
    BY <1>8 DEF Skips, immediate
  <2> HIDE DEF A, B, result, a, b, m
  <2>3. D!Equal(A, B, m) <=> Skips(c, i)
    <3>1. CASE am(c[i]) = "#"
      BY <1>3, <1>7, <2>2, <3>1, Meets88 DEF D!Equal, D!Tested
    <3>2. CASE am(c[i]) # "#"
      <4>1. m = "I"
        BY <1>7, <1>8, <3>2
      <4>2. D!Equal(A, B, m) <=> a.a = b.a /\ a.b = b.b /\ a.insn = b.insn
        BY <1>3, <1>6, <4>1, Meets88 DEF D!Equal, D!Tested
      <4>3. a = b <=> a.a = b.a /\ a.b = b.b /\ a.insn = b.insn
        BY <1>6 DEF Insn
      <4> QED
        BY <2>2, <3>2, <4>2, <4>3
    <3> QED
      BY <3>1, <3>2
  <2>4. result = D!Continues(B.core, next)
    BY <2>1, <2>3 DEF D!SkipIf
  <2> QED
    BY <1>3, <1>4, <1>5, <2>4 DEF Alike88, D!Continues, result
<1>9. CASE op(c[i]) = "SLT"
  <2>1. result = D!Slt(A, B, m, i)
    BY <1>9, SwitchGiven
  <2>2. Skips(c, i) <=> IF am(c[i]) = "#" THEN c[i].a < b.b ELSE a.b < b.b
    BY <1>9 DEF Skips, immediate
  <2> HIDE DEF A, B, result, a, b, m
  <2>3. (\A x \in D!Tested(m) : A[D!Meets(m)[x]] < B[x]) <=> Skips(c, i)
    <3>1. CASE am(c[i]) = "#"
      BY <1>3, <1>7, <2>2, <3>1, Meets88 DEF D!Tested
    <3>2. CASE am(c[i]) # "#"
      BY <1>3, <1>7, <1>9, <2>2, <3>2, Meets88 DEF D!Tested
    <3> QED
      BY <3>1, <3>2
  <2>4. result = D!Continues(B.core, next)
    BY <2>1, <2>3 DEF D!Slt, D!SkipIf
  <2> QED
    BY <1>3, <1>4, <1>5, <2>4 DEF Alike88, D!Continues, result
<1> QED
  BY <1>8, <1>9

\* A program of '88 does the same in both machines, apart from the two
\* instructions that disagreed names.  In a core of one cell DJN decides
\* differently, because Dec leaves every value zero, but there both of its
\* addresses are the same.
THEOREM ProgramsAgree == ProcessesSpec => []As88
<1>1. Goes => As88
  <2> SUFFICES ASSUME Goes, standard = 88, ip # -1, ~disagreed
               PROVE  Alike88(core, ip, D!Bench(Core94(core), ip))
    BY DEF As88, Alike88
  <2>1. core \in GoodCore /\ ip \in Address
    BY DEF Goes, Goes88
  <2>2. D!Bench(Core94(core), ip) = D!OptSlow(Core94(core), ip)
    BY <2>1, CoreTranslated, AllAlike
  <2>3. /\ ~(core[ip].insn = <<"JMZ", "<", "@">> /\ ~Jumps(core, ip))
        /\ op(core[ip]) \in {"JMZ", "JMN", "DJN"} =>
             ~(am(core[ip]) = "<" /\ core[ip].a = 0 /\ bm(core[ip]) = "#")
    BY DEF disagreed
  <2>4. op(core[ip]) \in {"DAT", "MOV", "ADD", "SUB", "CMP", "SLT", "JMP", "JMZ",
                          "JMN", "DJN", "SPL"}
    BY <2>1, ValidModes DEF Arithmetic, Jump
  <2>5. Alike88(core, ip, D!OptSlow(Core94(core), ip))
    BY <2>1, <2>3, <2>4, PlainTranslated, MovTranslated, ArithmeticTranslated,
       JumpsTranslated, TestsTranslated
  <2> QED
    BY <2>2, <2>5
<1> QED
  BY <1>1, GoesAlways, PTL
=============================================================================
