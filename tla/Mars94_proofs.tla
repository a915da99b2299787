--------------------------- MODULE Mars94_proofs ---------------------------
(***************************************************************************)
(* Fights of run_94nop of BenchMARS94nop.c, for every core size, process   *)
(* limit, cycle limit and number of rounds, and for all warriors.          *)
(*                                                                         *)
(* The first part shows that an instruction maps a core of proper cells to *)
(* such a core and queues an address: the operands, the switch, and every  *)
(* hand-optimized case.  The set S of opcodes is a parameter: with all of  *)
(* them the lemmas say that fields stay inside the core, with those the    *)
(* switch has cases for that the default case is not reached.  The second  *)
(* part is the invariant of a fight, in which a process may be dropped,    *)
(* with the theorems that follow from it.  The third part is the           *)
(* refinement of Fight by warriors without instructions of P-space.        *)
(***************************************************************************)
EXTENDS Mars94, Lemmas

\* A cell whose opcode is in S, a core of such cells, and an evaluated operand
\* in such a core.
GoodCell(S) == [insn : {code \in E!Code : code[1] \in S}, a : Address, b : Address]
GoodCore(S) == [Address -> GoodCell(S)]

Field == {"a", "b"}

Operand(S) == [core : GoodCore(S), addr : Address, a : Address, b : Address]

\* What may become of an instruction.
GoodResult(r, S) ==
  /\ r.core \in GoodCore(S)
  /\ r.does \in {"continue", "split", "die", "lost"}
  /\ r.does \in {"continue", "split"} => r.next \in Address
  /\ S \subseteq E!Executed => r.does # "lost"

\* The macros of BenchMacros.h stay inside the core.
LEMMA MacrosClosed ==
  ASSUME NEW x \in Address, NEW y \in Address
  PROVE  /\ E!Plus(x, y) \in Address
         /\ E!Minus(x, y) \in Address
         /\ E!Dec(x) \in Address
         /\ E!Inc(x) \in Address
<1>1. CoreSize \in Nat \ {0}
  BY RunAssumption
<1>2. x \in 0 .. CoreSize - 1 /\ y \in 0 .. CoreSize - 1
  BY DEF Address
<1>3. E!Plus(x, y) \in 0 .. CoreSize - 1 /\ E!Minus(x, y) \in 0 .. CoreSize - 1
  BY <1>1, <1>2 DEF E!Plus, E!Minus
<1>4. E!Dec(x) \in 0 .. CoreSize - 1 /\ E!Inc(x) \in 0 .. CoreSize - 1
  BY <1>1, <1>2 DEF E!Dec, E!Inc
<1> QED
  BY <1>3, <1>4 DEF Address

\* A cell stays good when a field or the code is replaced.
LEMMA CellFields ==
  ASSUME NEW S, NEW r \in GoodCell(S), NEW f \in Field, NEW v \in Address
  PROVE  /\ r[f] \in Address
         /\ [r EXCEPT ![f] = v] \in GoodCell(S)
         /\ \A s \in GoodCell(S) : [r EXCEPT !.insn = s.insn] \in GoodCell(S)
  BY DEF GoodCell, Field

\* A core stays good when a cell is replaced.
LEMMA CoreFields ==
  ASSUME NEW S, NEW c \in GoodCore(S), NEW x \in Address
  PROVE  /\ c[x] \in GoodCell(S) /\ c[x].a \in Address /\ c[x].b \in Address
         /\ \A f \in Field : c[x][f] \in Address
         /\ \A r \in GoodCell(S) : [c EXCEPT ![x] = r] \in GoodCore(S)
<1>1. c[x] \in GoodCell(S)
  BY DEF GoodCore
<1>2. \A f \in Field : c[x][f] \in Address
  BY <1>1, CellFields
<1>3. \A r \in GoodCell(S) : [c EXCEPT ![x] = r] \in GoodCore(S)
  BY DEF GoodCore
<1> QED
  BY <1>1, <1>2, <1>3 DEF Field

\* A core stays good when a field of a cell is replaced.
LEMMA FieldChanged ==
  ASSUME NEW S, NEW c \in GoodCore(S), NEW x \in Address, NEW f \in Field,
         NEW v \in Address
  PROVE  [c EXCEPT ![x][f] = v] \in GoodCore(S)
<1>1. [c[x] EXCEPT ![f] = v] \in GoodCell(S)
  BY CoreFields, CellFields
<1>2. [c EXCEPT ![x] = [c[x] EXCEPT ![f] = v]] \in GoodCore(S)
  BY <1>1, CoreFields
<1> QED
  BY <1>2

\* Pointers that are incremented or decremented stay addresses.
LEMMA BumpDropClosed ==
  ASSUME NEW S, NEW c \in GoodCore(S), NEW x \in Address, NEW f \in Field
  PROVE  /\ E!Bump(c, x, f) \in GoodCore(S)
         /\ E!Drop(c, x, f) \in GoodCore(S)
         /\ E!at(c, x, f) \in Address
<1>1. c[x][f] \in Address
  BY CoreFields
<1>2. E!Inc(c[x][f]) \in Address /\ E!Dec(c[x][f]) \in Address
      /\ E!Plus(x, c[x][f]) \in Address
  BY <1>1, MacrosClosed
<1> QED
  BY <1>2, FieldChanged DEF E!Bump, E!Drop, E!at

\* An operand through a pointer denotes a cell of the core.
LEMMA ThroughClosed ==
  ASSUME NEW S, NEW c \in GoodCore(S), NEW i \in Address, NEW mode,
         NEW field \in Address
  PROVE  E!Through(c, i, mode, field) \in Operand(S)
<1> DEFINE ptr  == E!Plus(i, field)
           f    == E!Via(mode)
           pre  == IF mode \in {"<", "{"} THEN [c EXCEPT ![ptr][f] = E!Dec(@)] ELSE c
           addr == IF mode = "$" THEN ptr ELSE E!Plus(ptr, pre[ptr][f])
           post == IF mode \in {">", "}"} THEN [pre EXCEPT ![ptr][f] = E!Inc(@)]
                                          ELSE pre
<1>1. ptr \in Address
  BY MacrosClosed
<1>2. f \in Field
  BY DEF E!Via, Field
<1> HIDE DEF ptr, f
<1>3. pre \in GoodCore(S)
  <2>1. E!Dec(c[ptr][f]) \in Address
    BY <1>1, <1>2, CoreFields, MacrosClosed
  <2>2. [c EXCEPT ![ptr][f] = E!Dec(c[ptr][f])] \in GoodCore(S)
    BY <1>1, <1>2, <2>1, FieldChanged
  <2> QED
    BY <2>2
<1> HIDE DEF pre
<1>4. addr \in Address
  <2>1. E!Plus(ptr, pre[ptr][f]) \in Address
    BY <1>1, <1>2, <1>3, CoreFields, MacrosClosed
  <2> QED
    BY <1>1, <2>1
<1> HIDE DEF addr
<1>5. post \in GoodCore(S)
  <2>1. E!Inc(pre[ptr][f]) \in Address
    BY <1>1, <1>2, <1>3, CoreFields, MacrosClosed
  <2>2. [pre EXCEPT ![ptr][f] = E!Inc(pre[ptr][f])] \in GoodCore(S)
    BY <1>1, <1>2, <1>3, <2>1, FieldChanged
  <2> QED
    BY <1>3, <2>2
<1> HIDE DEF post
<1>6. pre[addr].a \in Address /\ pre[addr].b \in Address
  BY <1>3, <1>4, CoreFields
<1>7. E!Through(c, i, mode, field) =
        [core |-> post, addr |-> addr, a |-> pre[addr].a, b |-> pre[addr].b]
  BY DEF E!Through, ptr, f, pre, addr, post
<1> QED
  BY <1>4, <1>5, <1>6, <1>7 DEF Operand

\* So does an immediate one,
LEMMA ImmediateClosed ==
  ASSUME NEW S, NEW c \in GoodCore(S), NEW i \in Address
  PROVE  E!Immediate(c, i) \in Operand(S)
  BY CoreFields DEF E!Immediate, Operand

\* and one evaluated behind another operand.
LEMMA LiveClosed ==
  ASSUME NEW S, NEW A \in Operand(S), NEW i \in Address, NEW mode
  PROVE  E!Live(A, i, mode) \in Operand(S)
<1>1. A.core \in GoodCore(S)
  BY DEF Operand
<1>2. A.core[i].b \in Address
  BY <1>1, CoreFields
<1> QED
  BY <1>1, <1>2, ThroughClosed, ImmediateClosed DEF E!Live

\* Both operands of all 64 pairs of modes.
LEMMA OperandsClosed ==
  ASSUME NEW S, NEW c \in GoodCore(S), NEW i \in Address, E!am(c[i]) \in E!Mode
  PROVE  /\ E!BenchOperands(c, i)[1] \in Operand(S)
         /\ E!BenchOperands(c, i)[2] \in Operand(S)
<1>1. c[i].a \in Address /\ c[i].b \in Address
  BY CoreFields
<1> DEFINE saved(A, b) == IF E!bm(c[i]) = "#"
                            THEN [E!Immediate(A.core, i) EXCEPT !.b = b]
                            ELSE E!Through(A.core, i, E!bm(c[i]), b)
           savedA(A, a) == IF E!bm(c[i]) = "#"
                             THEN [E!Immediate(A.core, i) EXCEPT !.a = a]
                             ELSE E!Live(A, i, E!bm(c[i]))
<1>2. \A A \in Operand(S), x \in Address :
        saved(A, x) \in Operand(S) /\ savedA(A, x) \in Operand(S)
  <2> TAKE A \in Operand(S), x \in Address
  <2>1. A.core \in GoodCore(S)
    BY DEF Operand
  <2>2. E!Immediate(A.core, i) \in Operand(S)
    BY <2>1, ImmediateClosed
  <2>3. /\ [E!Immediate(A.core, i) EXCEPT !.b = x] \in Operand(S)
        /\ [E!Immediate(A.core, i) EXCEPT !.a = x] \in Operand(S)
    BY <2>2 DEF Operand
  <2> QED
    BY <2>1, <2>3, ThroughClosed, LiveClosed
<1>3. \A A \in Operand(S) : E!Live(A, i, E!bm(c[i])) \in Operand(S)
  BY LiveClosed
<1>4. /\ E!Immediate(c, i) \in Operand(S)
      /\ \A mode : E!Through(c, i, mode, c[i].a) \in Operand(S)
  BY <1>1, ImmediateClosed, ThroughClosed
<1>5. CASE E!am(c[i]) \in {"#", "$", "@", "*"}
  <2>1. PICK A \in Operand(S) :
          E!BenchOperands(c, i) = <<A, E!Live(A, i, E!bm(c[i]))>>
    BY <1>4, <1>5 DEF E!BenchOperands, E!ImmediateA, E!DirectA, E!BIndirectA,
                      E!AIndirectA
  <2> QED
    BY <1>3, <2>1
<1>6. CASE E!am(c[i]) \in {"<", ">"}
  <2>1. PICK A \in Operand(S) :
          E!BenchOperands(c, i) = <<A, saved(A, c[i].b)>>
    BY <1>4, <1>6 DEF E!BenchOperands, E!BPredecrementA, E!BPostincrementA
  <2>2. saved(A, c[i].b) \in Operand(S)
    BY <1>1, <1>2
  <2> HIDE DEF saved
  <2> QED
    BY <2>1, <2>2
<1>7. CASE E!am(c[i]) \in {"{", "}"}
  <2>1. PICK A \in Operand(S) :
          E!BenchOperands(c, i) = <<A, savedA(A, c[i].a)>>
    BY <1>4, <1>7 DEF E!BenchOperands, E!APredecrementA, E!APostincrementA
  <2>2. savedA(A, c[i].a) \in Operand(S)
    BY <1>1, <1>2
  <2> HIDE DEF savedA
  <2> QED
    BY <2>1, <2>2
<1> QED
  BY <1>5, <1>6, <1>7 DEF E!Mode

----------------------------------------------------------------------------
(* The switch on opcode and modifier *)

\* The core and the address an instruction hands over make a good result.
LEMMA ResultsGood ==
  ASSUME NEW S, NEW c \in GoodCore(S), NEW x \in Address
  PROVE  /\ GoodResult(E!Continues(c, x), S)
         /\ GoodResult(E!Splits(c, x), S)
         /\ GoodResult(E!Dies(c), S)
  BY DEF GoodResult, E!Continues, E!Splits, E!Dies

\* What was read for an operand.
LEMMA OperandFields ==
  ASSUME NEW S, NEW A \in Operand(S)
  PROVE  /\ A.core \in GoodCore(S) /\ A.addr \in Address
         /\ \A f \in Field : A[f] \in Address
  BY DEF Operand, Field

\* A modifier selects fields, and pairs them with fields.
LEMMA MeetsFields ==
  ASSUME NEW m \in E!Modifier
  PROVE  /\ DOMAIN E!Meets(m) \subseteq Field
         /\ \A x \in DOMAIN E!Meets(m) : E!Meets(m)[x] \in Field
<1>1. CASE m = "A"
  BY <1>1 DEF E!Meets, Field
<1>2. CASE m = "B"
  BY <1>2 DEF E!Meets, Field
<1>3. CASE m = "AB"
  BY <1>3 DEF E!Meets, Field
<1>4. CASE m = "BA"
  BY <1>4 DEF E!Meets, Field
<1>5. CASE m = "X"
  BY <1>5 DEF E!Meets, Field
<1>6. CASE m \in {"F", "I"}
  BY <1>6 DEF E!Meets, Field
<1> QED
  BY <1>1, <1>2, <1>3, <1>4, <1>5, <1>6 DEF E!Modifier

\* Only addresses are written, and only to fields.
LEMMA WroteClosed ==
  ASSUME NEW S, NEW B \in Operand(S), NEW D \in SUBSET Field, NEW values,
         DOMAIN values = D, \A x \in D : values[x] \in Address
  PROVE  E!Wrote(B, values) \in GoodCore(S)
<1> DEFINE old  == B.core[B.addr]
           cell == [x \in {"insn", "a", "b"} |->
                      IF x \in DOMAIN values THEN values[x] ELSE old[x]]
<1>1. old \in GoodCell(S) /\ B.core \in GoodCore(S) /\ B.addr \in Address
  BY OperandFields, CoreFields
<1>2. cell \in GoodCell(S)
  BY <1>1 DEF GoodCell, Field
<1>3. E!Wrote(B, values) = [B.core EXCEPT ![B.addr] = cell]
  BY DEF E!Wrote
<1> HIDE DEF cell
<1> QED
  BY <1>1, <1>2, <1>3, CoreFields

\* MOV writes fields, and with modifier I the code, of another cell.
LEMMA MovClosed ==
  ASSUME NEW S, NEW A \in Operand(S), NEW B \in Operand(S),
         NEW m \in E!Modifier, NEW i \in Address
  PROVE  GoodResult(E!Mov(A, B, m, i), S)
<1> DEFINE values == [x \in DOMAIN E!Meets(m) |-> A[E!Meets(m)[x]]]
           moved  == E!Wrote(B, values)
<1>1. moved \in GoodCore(S)
  <2>1. /\ DOMAIN values \subseteq Field
        /\ \A x \in DOMAIN values : values[x] \in Address
    BY MeetsFields, OperandFields
  <2> HIDE DEF values
  <2> QED
    BY <2>1, WroteClosed
<1>2. B.addr \in Address /\ B.core[A.addr] \in GoodCell(S)
  BY OperandFields, CoreFields
<1> HIDE DEF moved
<1>3. [moved EXCEPT ![B.addr].insn = B.core[A.addr].insn] \in GoodCore(S)
  <2> DEFINE cell == [moved[B.addr] EXCEPT !.insn = B.core[A.addr].insn]
  <2>1. cell \in GoodCell(S)
    BY <1>1, <1>2, CoreFields, CellFields DEF Field
  <2>2. [moved EXCEPT ![B.addr] = cell] \in GoodCore(S)
    BY <1>1, <1>2, <2>1, CoreFields
  <2> QED
    BY <2>2
<1>4. E!Inc(i) \in Address
  BY MacrosClosed
<1> QED
  BY <1>1, <1>3, <1>4, ResultsGood DEF E!Mov, moved

\* ADD, SUB and MUL combine two fields to one.
LEMMA CombinedClosed ==
  ASSUME NEW S, NEW A \in Operand(S), NEW B \in Operand(S),
         NEW m \in E!Modifier, NEW i \in Address
  PROVE  /\ GoodResult(E!Add(A, B, m, i), S)
         /\ GoodResult(E!Sub(A, B, m, i), S)
         /\ GoodResult(E!Mul(A, B, m, i), S)
<1> DEFINE D == DOMAIN E!Meets(m)
<1>1. D \subseteq Field /\ \A x \in D : E!Meets(m)[x] \in Field
  BY MeetsFields
<1>2. \A x \in D : B[x] \in Address /\ A[E!Meets(m)[x]] \in Address
  BY <1>1, OperandFields
<1>3. E!Inc(i) \in Address
  BY MacrosClosed
<1>4. GoodResult(E!Add(A, B, m, i), S)
  <2> DEFINE values == [x \in D |-> E!Plus(B[x], A[E!Meets(m)[x]])]
  <2>1. DOMAIN values = D /\ \A x \in D : values[x] \in Address
    BY <1>2, MacrosClosed
  <2>2. E!Add(A, B, m, i) = E!Continues(E!Wrote(B, values), E!Inc(i))
    BY DEF E!Add
  <2> HIDE DEF values, D
  <2> QED
    BY <1>1, <1>3, <2>1, <2>2, WroteClosed, ResultsGood
<1>5. GoodResult(E!Sub(A, B, m, i), S)
  <2> DEFINE values == [x \in D |-> E!Minus(B[x], A[E!Meets(m)[x]])]
  <2>1. DOMAIN values = D /\ \A x \in D : values[x] \in Address
    BY <1>2, MacrosClosed
  <2>2. E!Sub(A, B, m, i) = E!Continues(E!Wrote(B, values), E!Inc(i))
    BY DEF E!Sub
  <2> HIDE DEF values, D
  <2> QED
    BY <1>1, <1>3, <2>1, <2>2, WroteClosed, ResultsGood
<1>6. GoodResult(E!Mul(A, B, m, i), S)
  <2> DEFINE values == [x \in D |-> (B[x] * A[E!Meets(m)[x]]) % CoreSize]
  <2>1. ASSUME NEW y \in Address, NEW z \in Address
        PROVE  (y * z) % CoreSize \in Address
    <3>1. y * z \in Int /\ CoreSize \in Nat \ {0}
      BY RunAssumption DEF Address
    <3> QED
      BY <3>1, Quotient DEF Address
  <2>2. DOMAIN values = D /\ \A x \in D : values[x] \in Address
    BY <1>2, <2>1
  <2>3. E!Mul(A, B, m, i) = E!Continues(E!Wrote(B, values), E!Inc(i))
    BY DEF E!Mul
  <2> HIDE DEF values, D
  <2> QED
    BY <1>1, <1>3, <2>2, <2>3, WroteClosed, ResultsGood
<1> QED
  BY <1>4, <1>5, <1>6

\* DIV and MOD write quotients and remainders of the divisors that are not
\* zero, and the process goes on or dies.
LEMMA DividedClosed ==
  ASSUME NEW S, NEW A \in Operand(S), NEW B \in Operand(S),
         NEW m \in E!Modifier, NEW i \in Address
  PROVE  /\ GoodResult(E!Div(A, B, m, i), S)
         /\ GoodResult(E!Modulo(A, B, m, i), S)
<1> DEFINE D == E!Sound(A, m)
<1>1. D \subseteq Field /\ \A x \in D : E!Meets(m)[x] \in Field
  BY MeetsFields DEF E!Sound
<1>2. \A x \in D : /\ B[x] \in Address /\ A[E!Meets(m)[x]] \in Address
                   /\ A[E!Meets(m)[x]] # 0
  BY <1>1, OperandFields DEF E!Sound
<1>3. ASSUME NEW y \in Address, NEW z \in Address, z # 0
      PROVE  y \div z \in Address /\ y % z \in Address
  <2>1. CoreSize \in Nat /\ y \in 0 .. CoreSize - 1 /\ z \in 1 .. CoreSize - 1
    BY <1>3, RunAssumption DEF Address
  <2> QED
    BY <2>1, QuotientSmall DEF Address
<1>4. ASSUME NEW after \in GoodCore(S)
      PROVE  GoodResult(E!Quotients(A, m, after, i), S)
  BY MacrosClosed, ResultsGood DEF E!Quotients
<1>5. GoodResult(E!Div(A, B, m, i), S)
  <2> DEFINE values == [x \in D |-> B[x] \div A[E!Meets(m)[x]]]
  <2>1. DOMAIN values = D /\ \A x \in D : values[x] \in Address
    BY <1>2, <1>3
  <2>2. E!Div(A, B, m, i) = E!Quotients(A, m, E!Wrote(B, values), i)
    BY DEF E!Div
  <2> HIDE DEF values, D
  <2> QED
    BY <1>1, <1>4, <2>1, <2>2, WroteClosed
<1>6. GoodResult(E!Modulo(A, B, m, i), S)
  <2> DEFINE values == [x \in D |-> B[x] % A[E!Meets(m)[x]]]
  <2>1. DOMAIN values = D /\ \A x \in D : values[x] \in Address
    BY <1>2, <1>3
  <2>2. E!Modulo(A, B, m, i) = E!Quotients(A, m, E!Wrote(B, values), i)
    BY DEF E!Modulo
  <2> HIDE DEF values, D
  <2> QED
    BY <1>1, <1>4, <2>1, <2>2, WroteClosed
<1> QED
  BY <1>5, <1>6

\* The jumps and the skips change nothing but, with DJN, the fields of B.
LEMMA JumpsClosed ==
  ASSUME NEW S, NEW A \in Operand(S), NEW B \in Operand(S),
         NEW m \in E!Modifier, NEW i \in Address
  PROVE  /\ \A condition : GoodResult(E!JumpIf(condition, A, B, i), S)
         /\ \A condition : GoodResult(E!SkipIf(condition, B, i), S)
         /\ GoodResult(E!Djn(A, B, m, i), S)
<1>1. /\ A.addr \in Address /\ B.addr \in Address /\ B.core \in GoodCore(S)
      /\ E!Inc(i) \in Address /\ E!Inc(E!Inc(i)) \in Address
  BY OperandFields, MacrosClosed
<1>2. \A condition : GoodResult(E!JumpIf(condition, A, B, i), S)
  BY <1>1, ResultsGood DEF E!JumpIf
<1>3. \A condition : GoodResult(E!SkipIf(condition, B, i), S)
  BY <1>1, ResultsGood DEF E!SkipIf
<1>4. GoodResult(E!Djn(A, B, m, i), S)
  <2> DEFINE D    == E!Tested(m)
             less == [x \in D |-> E!Dec(B.core[B.addr][x])]
             jump == \E x \in D : B[x] # 1
             written == E!Wrote(B, less)
  <2>1. D \subseteq Field
    BY MeetsFields DEF E!Tested
  <2>2. DOMAIN less = D /\ \A x \in D : less[x] \in Address
    BY <1>1, <2>1, CoreFields, MacrosClosed
  <2> HIDE DEF less, D
  <2>3. written \in GoodCore(S)
    BY <2>1, <2>2, WroteClosed
  <2> HIDE DEF written
  <2>4. E!Djn(A, B, m, i)
          = E!Continues(written, IF jump THEN A.addr ELSE E!Inc(i))
    BY DEF E!Djn, E!JumpIf, Operand, less, D, written
  <2> HIDE DEF jump
  <2> QED
    BY <1>1, <2>3, <2>4, ResultsGood
<1> QED
  BY <1>2, <1>3, <1>4

\* The whole switch.  Its default case is reached with opcodes of P-space
\* only.
LEMMA SwitchClosed ==
  ASSUME NEW S, NEW A \in Operand(S), NEW B \in Operand(S),
         NEW insn \in GoodCell(S), NEW i \in Address
  PROVE  GoodResult(E!Switch(A, B, insn, i), S)
<1> DEFINE o == E!op(insn)
           m == E!mod(insn)
<1>1. m \in E!Modifier /\ o \in S /\ o \in E!Opcode
  BY DEF GoodCell, E!Code, E!op, E!mod
<1>2. /\ A.addr \in Address /\ B.core \in GoodCore(S)
      /\ E!Inc(i) \in Address
  BY OperandFields, MacrosClosed
<1> HIDE DEF m
<1>3. CASE o \in {"MOV", "ADD", "SUB", "MUL", "DIV", "MOD"}
  <2>1. /\ GoodResult(E!Mov(A, B, m, i), S) /\ GoodResult(E!Add(A, B, m, i), S)
        /\ GoodResult(E!Sub(A, B, m, i), S) /\ GoodResult(E!Mul(A, B, m, i), S)
        /\ GoodResult(E!Div(A, B, m, i), S)
        /\ GoodResult(E!Modulo(A, B, m, i), S)
    BY <1>1, MovClosed, CombinedClosed, DividedClosed
  <2> QED
    BY <1>3, <2>1 DEF E!Switch, m
<1>4. CASE o \in {"JMZ", "JMN", "DJN"}
  <2>1. /\ GoodResult(E!Jmz(A, B, m, i), S) /\ GoodResult(E!Jmn(A, B, m, i), S)
        /\ GoodResult(E!Djn(A, B, m, i), S)
    BY <1>1, JumpsClosed DEF E!Jmz, E!Jmn
  <2> QED
    BY <1>4, <2>1 DEF E!Switch, m
<1>5. CASE o \in {"SEQ", "SNE", "SLT"}
  <2>1. /\ GoodResult(E!SkipIf(E!Equal(A, B, m), B, i), S)
        /\ GoodResult(E!SkipIf(~E!Equal(A, B, m), B, i), S)
        /\ GoodResult(E!Slt(A, B, m, i), S)
    BY <1>1, JumpsClosed DEF E!Slt
  <2> QED
    BY <1>5, <2>1 DEF E!Switch, m
<1>6. CASE o \in {"DAT", "SPL", "JMP", "NOP"}
  <2>1. /\ GoodResult(E!Dies(B.core), S)
        /\ GoodResult(E!Splits(B.core, A.addr), S)
        /\ GoodResult(E!Continues(B.core, A.addr), S)
        /\ GoodResult(E!Continues(B.core, E!Inc(i)), S)
    BY <1>2, ResultsGood
  <2> QED
    BY <1>6, <2>1 DEF E!Switch
<1>7. CASE o \in {"LDP", "STP"}
  <2>1. E!Switch(A, B, insn, i) = E!Vanishes(B.core)
    BY <1>7 DEF E!Switch
  <2>2. ~(S \subseteq E!Executed)
    BY <1>1, <1>7 DEF E!Executed
  <2> QED
    BY <1>2, <2>1, <2>2 DEF GoodResult, E!Vanishes
<1> QED
  BY <1>1, <1>3, <1>4, <1>5, <1>6, <1>7 DEF E!Opcode, E!Executed

\* Any instruction that is not one of the frequent ones.
LEMMA SlowClosed ==
  ASSUME NEW S, NEW c \in GoodCore(S), NEW i \in Address
  PROVE  GoodResult(E!BenchSlow(c, i), S)
<1>1. c[i] \in GoodCell(S)
  BY CoreFields
<1>2. E!am(c[i]) \in E!Mode
  BY <1>1 DEF GoodCell, E!Code, E!am
<1>3. /\ E!BenchOperands(c, i)[1] \in Operand(S)
      /\ E!BenchOperands(c, i)[2] \in Operand(S)
  BY <1>2, OperandsClosed
<1> QED
  BY <1>1, <1>3, SwitchClosed DEF E!BenchSlow

----------------------------------------------------------------------------
(* The most frequent instructions *)

\* The frequent forms of MOV.I copy a cell, or one with a saved field.
LEMMA CopiesClosed ==
  ASSUME NEW S, NEW before \in GoodCore(S), NEW now \in GoodCore(S),
         NEW from \in Address, NEW x \in Address, NEW i \in Address
  PROVE  /\ GoodResult(E!Copies(now, from, x, i), S)
         /\ GoodResult(E!CopiesA(before, now, from, x, i), S)
         /\ GoodResult(E!CopiesB(before, now, from, x, i), S)
<1>1. now[from] \in GoodCell(S) /\ E!Inc(i) \in Address
  BY CoreFields, MacrosClosed
<1>2. /\ [now[from] EXCEPT !.a = before[from].a] \in GoodCell(S)
      /\ [now[from] EXCEPT !.b = before[from].b] \in GoodCell(S)
  <2>1. before[from].a \in Address /\ before[from].b \in Address
    BY CoreFields
  <2> QED
    BY <1>1, <2>1, CellFields DEF Field
<1>3. \A r \in GoodCell(S) : [now EXCEPT ![x] = r] \in GoodCore(S)
  BY CoreFields
<1> QED
  BY <1>1, <1>2, <1>3, ResultsGood DEF E!Copies, E!CopiesA, E!CopiesB

\* MOV.I }, > copies the fields as they were and the code as it is by now.
LEMMA OldFieldsClosed ==
  ASSUME NEW S, NEW before \in GoodCore(S), NEW now \in GoodCore(S),
         NEW from \in Address, NEW x \in Address, NEW i \in Address
  PROVE  GoodResult(E!Continues(
           [now EXCEPT ![x] = [before[from] EXCEPT !.insn = now[from].insn]],
           E!Inc(i)), S)
<1>1. /\ now[from] \in GoodCell(S) /\ before[from] \in GoodCell(S)
      /\ E!Inc(i) \in Address
  BY CoreFields, MacrosClosed
<1>2. [before[from] EXCEPT !.insn = now[from].insn] \in GoodCell(S)
  BY <1>1 DEF GoodCell
<1>3. [now EXCEPT ![x] = [before[from] EXCEPT !.insn = now[from].insn]]
        \in GoodCore(S)
  BY <1>2, CoreFields
<1> QED
  BY <1>1, <1>3, ResultsGood

\* The frequent forms of DJN decrement fields of a cell.
LEMMA DjnFieldsClosed ==
  ASSUME NEW S, NEW before \in GoodCore(S), NEW now \in GoodCore(S),
         NEW fields \in SUBSET Field, NEW x \in Address, NEW a \in Address,
         NEW i \in Address
  PROVE  GoodResult(E!DjnFields(before, now, fields, x, a, i), S)
<1> DEFINE old  == now[x]
           cell == [f \in {"insn", "a", "b"} |->
                      IF f \in fields THEN E!Dec(old[f]) ELSE old[f]]
           goal == IF \A f \in fields : before[x][f] = 1 THEN E!Inc(i) ELSE a
<1>1. old \in GoodCell(S) /\ old.a \in Address /\ old.b \in Address
      /\ goal \in Address
  BY CoreFields, MacrosClosed
<1>2. E!Dec(old.a) \in Address /\ E!Dec(old.b) \in Address
  BY <1>1, MacrosClosed
<1>3. cell \in GoodCell(S)
  BY <1>1, <1>2 DEF GoodCell, Field
<1>4. E!DjnFields(before, now, fields, x, a, i)
        = E!Continues([now EXCEPT ![x] = cell], goal)
  BY DEF E!DjnFields
<1> HIDE DEF cell, goal
<1> QED
  BY <1>1, <1>3, <1>4, CoreFields, ResultsGood

\* The frequent instructions, last ones first: each case keeps the core good,
\* whatever instruction it is reached with.
LEMMA Fast5Closed ==
  ASSUME NEW S, NEW c \in GoodCore(S), NEW i \in Address
  PROVE  GoodResult(E!BenchFast5(c, i), S)
<1> DEFINE a == E!at(c, i, "a")
           b == E!at(c, i, "b")
<1>1. a \in Address /\ b \in Address
  BY BumpDropClosed DEF Field
\* DJN.B $, #
<1>2. GoodResult(E!DjnFields(c, c, {"b"}, i, a, i), S)
  BY <1>1, DjnFieldsClosed DEF Field
\* DAT.F >, >
<1>3. GoodResult(E!Dies(E!Bump(E!Bump(c, a, "b"), b, "b")), S)
  <2>1. E!Bump(c, a, "b") \in GoodCore(S)
    BY <1>1, BumpDropClosed DEF Field
  <2>2. E!Bump(E!Bump(c, a, "b"), b, "b") \in GoodCore(S)
    BY <1>1, <2>1, BumpDropClosed DEF Field
  <2> QED
    BY <1>1, <2>1, <2>2, ResultsGood
\* DJN.F $, <
<1>4. GoodResult(E!DjnFields(E!Drop(c, b, "b"), E!Drop(c, b, "b"), E!Both,
                           E!at(E!Drop(c, b, "b"), b, "b"), a, i), S)
  <2>1. E!Drop(c, b, "b") \in GoodCore(S)
    BY <1>1, BumpDropClosed DEF Field
  <2>2. E!at(E!Drop(c, b, "b"), b, "b") \in Address
    BY <1>1, <2>1, BumpDropClosed DEF Field
  <2> QED
    BY <1>1, <2>1, <2>2, DjnFieldsClosed DEF Field, E!Both
\* MOV.I $, @
<1>5. GoodResult(E!Copies(c, a, E!at(c, b, "b"), i), S)
  <2>1. E!at(c, b, "b") \in Address
    BY <1>1, BumpDropClosed DEF Field
  <2> QED
    BY <1>1, <2>1, CopiesClosed
\* ADD.F $, $
<1>6. GoodResult(E!Continues(
        [[c EXCEPT ![b].a = E!Plus(@, c[a].a)] EXCEPT ![b].b =
           E!Plus(@, [c EXCEPT ![b].a = E!Plus(@, c[a].a)][a].b)],
        E!Inc(i)), S)
  <2> DEFINE x == E!Plus(c[b].a, c[a].a)
             d == [c EXCEPT ![b].a = x]
             y == E!Plus(d[b].b, d[a].b)
             e == [d EXCEPT ![b].b = y]
  <2>1. x \in Address
    BY <1>1, CoreFields, MacrosClosed
  <2>2. d \in GoodCore(S)
    BY <1>1, <2>1, FieldChanged DEF Field
  <2> HIDE DEF x, d
  <2>3. y \in Address
    BY <1>1, <2>2, CoreFields, MacrosClosed
  <2>4. e \in GoodCore(S)
    BY <1>1, <2>2, <2>3, FieldChanged DEF Field
  <2> HIDE DEF y, e
  <2>5. GoodResult(E!Continues(e, E!Inc(i)), S)
    BY <2>4, MacrosClosed, ResultsGood
  <2> QED
    BY <2>5 DEF x, d, y, e
<1>7. GoodResult(E!BenchSlow(c, i), S)
  BY SlowClosed
<1> QED
  BY <1>2, <1>3, <1>4, <1>5, <1>6, <1>7,
     Zenon DEF E!BenchFast5

\* The frequent instructions before those.
LEMMA Fast4Closed ==
  ASSUME NEW S, NEW c \in GoodCore(S), NEW i \in Address
  PROVE  GoodResult(E!BenchFast4(c, i), S)
<1> DEFINE a == E!at(c, i, "a")
           b == E!at(c, i, "b")
<1>1. a \in Address /\ b \in Address
  BY BumpDropClosed DEF Field
\* SPL.B #, >
<1>2. GoodResult(E!Splits(E!Bump(c, b, "b"), i), S)
  <2>1. E!Bump(c, b, "b") \in GoodCore(S)
    BY <1>1, BumpDropClosed DEF Field
  <2> QED
    BY <1>1, <2>1, ResultsGood
\* DJN.F $, }
<1>3. GoodResult(E!DjnFields(c, E!Bump(c, b, "a"), E!Both, E!at(c, b, "a"), a, i), S)
  <2>1. E!Bump(c, b, "a") \in GoodCore(S) /\ E!at(c, b, "a") \in Address
    BY <1>1, BumpDropClosed DEF Field
  <2> QED
    BY <1>1, <2>1, DjnFieldsClosed DEF Field, E!Both
\* JMP.B $, $
<1>4. GoodResult(E!Continues(c, a), S)
  BY <1>1, ResultsGood
\* SPL.B @, <
<1>5. GoodResult(E!Splits(E!Drop(c, b, "b"), E!at(c, a, "b")), S)
  <2>1. E!Drop(c, b, "b") \in GoodCore(S) /\ E!at(c, a, "b") \in Address
    BY <1>1, BumpDropClosed DEF Field
  <2> QED
    BY <1>1, <2>1, ResultsGood
\* DJN.F $, {
<1>6. GoodResult(E!DjnFields(E!Drop(c, b, "a"), E!Drop(c, b, "a"), E!Both,
                           E!at(E!Drop(c, b, "a"), b, "a"), a, i), S)
  <2>1. E!Drop(c, b, "a") \in GoodCore(S)
    BY <1>1, BumpDropClosed DEF Field
  <2>2. E!at(E!Drop(c, b, "a"), b, "a") \in Address
    BY <1>1, <2>1, BumpDropClosed DEF Field
  <2> QED
    BY <1>1, <2>1, <2>2, DjnFieldsClosed DEF Field, E!Both
\* JMP.B $, <
<1>7. GoodResult(E!Continues(E!Drop(c, b, "b"), a), S)
  <2>1. E!Drop(c, b, "b") \in GoodCore(S)
    BY <1>1, BumpDropClosed DEF Field
  <2> QED
    BY <1>1, <2>1, ResultsGood
<1>8. GoodResult(E!BenchFast5(c, i), S)
  BY Fast5Closed
<1> QED
  BY <1>2, <1>3, <1>4, <1>5, <1>6, <1>7, <1>8,
     Zenon DEF E!BenchFast4

\* The frequent instructions before those.
LEMMA Fast3Closed ==
  ASSUME NEW S, NEW c \in GoodCore(S), NEW i \in Address
  PROVE  GoodResult(E!BenchFast3(c, i), S)
<1> DEFINE a == E!at(c, i, "a")
           b == E!at(c, i, "b")
<1>1. a \in Address /\ b \in Address
  BY BumpDropClosed DEF Field
\* MOV.I $, }
<1>2. GoodResult(E!CopiesA(c, E!Bump(c, b, "a"), a, E!at(c, b, "a"), i), S)
  <2>1. E!Bump(c, b, "a") \in GoodCore(S) /\ E!at(c, b, "a") \in Address
    BY <1>1, BumpDropClosed DEF Field
  <2> QED
    BY <1>1, <2>1, CopiesClosed
\* SPL.B $, $
<1>3. GoodResult(E!Splits(c, a), S)
  BY <1>1, ResultsGood
\* MOV.I @, >
<1>4. GoodResult(E!CopiesB(c, E!Bump(c, b, "b"), E!at(c, a, "b"),
                         E!at(c, b, "b"), i), S)
  <2>1. E!Bump(c, b, "b") \in GoodCore(S) /\ E!at(c, a, "b") \in Address
      /\ E!at(c, b, "b") \in Address
    BY <1>1, BumpDropClosed DEF Field
  <2> QED
    BY <1>1, <2>1, CopiesClosed
\* SPL.B #, {
<1>5. GoodResult(E!Splits(E!Drop(c, b, "a"), i), S)
  <2>1. E!Drop(c, b, "a") \in GoodCore(S)
    BY <1>1, BumpDropClosed DEF Field
  <2> QED
    BY <1>1, <2>1, ResultsGood
\* MOV.I }, >
<1>6. GoodResult(E!Continues(
        [E!Bump(E!Bump(c, a, "a"), b, "b")
           EXCEPT ![E!at(E!Bump(c, a, "a"), b, "b")] =
             [c[E!at(c, a, "a")] EXCEPT !.insn =
                E!Bump(E!Bump(c, a, "a"), b, "b")[E!at(c, a, "a")].insn]],
        E!Inc(i)), S)
  <2> DEFINE d    == E!Bump(c, a, "a")
             e    == E!Bump(d, b, "b")
             from == E!at(c, a, "a")
             x    == E!at(d, b, "b")
  <2>1. d \in GoodCore(S) /\ from \in Address
    BY <1>1, BumpDropClosed DEF Field
  <2>2. e \in GoodCore(S) /\ x \in Address
    BY <1>1, <2>1, BumpDropClosed DEF Field
  <2> HIDE DEF e, from, x
  <2>3. GoodResult(E!Continues(
          [e EXCEPT ![x] = [c[from] EXCEPT !.insn = e[from].insn]], E!Inc(i)), S)
    BY <2>1, <2>2, OldFieldsClosed
  <2> QED
    BY <2>3 DEF e, from, x
\* DJN.B $, {
<1>7. GoodResult(E!DjnFields(E!Drop(c, b, "a"), E!Drop(c, b, "a"), {"b"},
                           E!at(E!Drop(c, b, "a"), b, "a"), a, i), S)
  <2>1. E!Drop(c, b, "a") \in GoodCore(S)
    BY <1>1, BumpDropClosed DEF Field
  <2>2. E!at(E!Drop(c, b, "a"), b, "a") \in Address
    BY <1>1, <2>1, BumpDropClosed DEF Field
  <2> QED
    BY <1>1, <2>1, <2>2, DjnFieldsClosed DEF Field
<1>8. GoodResult(E!BenchFast4(c, i), S)
  BY Fast4Closed
<1> QED
  BY <1>2, <1>3, <1>4, <1>5, <1>6, <1>7, <1>8,
     Zenon DEF E!BenchFast3

\* The frequent instructions before those.
LEMMA Fast2Closed ==
  ASSUME NEW S, NEW c \in GoodCore(S), NEW i \in Address
  PROVE  GoodResult(E!BenchFast2(c, i), S)
<1> DEFINE a == E!at(c, i, "a")
           b == E!at(c, i, "b")
<1>1. a \in Address /\ b \in Address
  BY BumpDropClosed DEF Field
\* MOV.I #, {
<1>2. GoodResult(E!CopiesA(c, E!Drop(c, b, "a"), i, E!at(E!Drop(c, b, "a"), b, "a"), i), S)
  <2>1. E!Drop(c, b, "a") \in GoodCore(S)
    BY <1>1, BumpDropClosed DEF Field
  <2>2. E!at(E!Drop(c, b, "a"), b, "a") \in Address
    BY <1>1, <2>1, BumpDropClosed DEF Field
  <2> QED
    BY <1>1, <2>1, <2>2, CopiesClosed
\* DJN.F $, >
<1>3. GoodResult(E!DjnFields(c, E!Bump(c, b, "b"), E!Both, E!at(c, b, "b"), a, i), S)
  <2>1. E!Bump(c, b, "b") \in GoodCore(S) /\ E!at(c, b, "b") \in Address
    BY <1>1, BumpDropClosed DEF Field
  <2> QED
    BY <1>1, <2>1, DjnFieldsClosed DEF Field, E!Both
\* MOV.I *, >
<1>4. GoodResult(E!CopiesB(c, E!Bump(c, b, "b"), E!at(c, a, "a"),
                         E!at(c, b, "b"), i), S)
  <2>1. E!Bump(c, b, "b") \in GoodCore(S) /\ E!at(c, a, "a") \in Address
      /\ E!at(c, b, "b") \in Address
    BY <1>1, BumpDropClosed DEF Field
  <2> QED
    BY <1>1, <2>1, CopiesClosed
\* SPL.B #, #
<1>5. GoodResult(E!Splits(c, i), S)
  BY <1>1, ResultsGood
\* DAT.F <, $
<1>6. GoodResult(E!Dies(E!Drop(c, a, "b")), S)
  <2>1. E!Drop(c, a, "b") \in GoodCore(S)
    BY <1>1, BumpDropClosed DEF Field
  <2> QED
    BY <1>1, <2>1, ResultsGood
\* SPL.B #, <
<1>7. GoodResult(E!Splits(E!Drop(c, b, "b"), i), S)
  <2>1. E!Drop(c, b, "b") \in GoodCore(S)
    BY <1>1, BumpDropClosed DEF Field
  <2> QED
    BY <1>1, <2>1, ResultsGood
<1>8. GoodResult(E!BenchFast3(c, i), S)
  BY Fast3Closed
<1> QED
  BY <1>2, <1>3, <1>4, <1>5, <1>6, <1>7, <1>8,
     Zenon DEF E!BenchFast2

\* The frequent instructions before those.
LEMMA Fast1Closed ==
  ASSUME NEW S, NEW c \in GoodCore(S), NEW i \in Address
  PROVE  GoodResult(E!BenchFast1(c, i), S)
<1> DEFINE a == E!at(c, i, "a")
           b == E!at(c, i, "b")
<1>1. a \in Address /\ b \in Address
  BY BumpDropClosed DEF Field
\* MOV.I #, $
<1>2. GoodResult(E!Copies(c, i, b, i), S)
  BY <1>1, CopiesClosed
\* SPL.B #, $
<1>3. GoodResult(E!Splits(c, i), S)
  BY <1>1, ResultsGood
\* MOV.I #, *
<1>4. GoodResult(E!Copies(c, i, E!at(c, b, "a"), i), S)
  <2>1. E!at(c, b, "a") \in Address
    BY <1>1, BumpDropClosed DEF Field
  <2> QED
    BY <1>1, <2>1, CopiesClosed
\* MOV.I $, >
<1>5. GoodResult(E!CopiesB(c, E!Bump(c, b, "b"), a, E!at(c, b, "b"), i), S)
  <2>1. E!Bump(c, b, "b") \in GoodCore(S) /\ E!at(c, b, "b") \in Address
    BY <1>1, BumpDropClosed DEF Field
  <2> QED
    BY <1>1, <2>1, CopiesClosed
\* DAT.F $, $
<1>6. GoodResult(E!Dies(c), S)
  BY <1>1, ResultsGood
\* MOV.I #, <
<1>7. GoodResult(E!CopiesB(c, E!Drop(c, b, "b"), i, E!at(E!Drop(c, b, "b"), b, "b"), i), S)
  <2>1. E!Drop(c, b, "b") \in GoodCore(S)
    BY <1>1, BumpDropClosed DEF Field
  <2>2. E!at(E!Drop(c, b, "b"), b, "b") \in Address
    BY <1>1, <2>1, BumpDropClosed DEF Field
  <2> QED
    BY <1>1, <2>1, <2>2, CopiesClosed
\* MOV.I #, }
<1>8. GoodResult(E!CopiesA(c, E!Bump(c, b, "a"), i, E!at(c, b, "a"), i), S)
  <2>1. E!Bump(c, b, "a") \in GoodCore(S) /\ E!at(c, b, "a") \in Address
    BY <1>1, BumpDropClosed DEF Field
  <2> QED
    BY <1>1, <2>1, CopiesClosed
<1>9. GoodResult(E!BenchFast2(c, i), S)
  BY Fast2Closed
<1> QED
  BY <1>2, <1>3, <1>4, <1>5, <1>6, <1>7, <1>8, <1>9,
     Zenon DEF E!BenchFast1

\* An instruction maps a good core to a good core and queues addresses, and
\* no opcode of P-space appears where there was none.
LEMMA BenchClosed ==
  ASSUME NEW S, NEW c \in GoodCore(S), NEW i \in Address
  PROVE  GoodResult(E!Bench(c, i), S)
  BY Fast1Closed DEF E!Bench

----------------------------------------------------------------------------
(* The invariant of a fight *)

Slot == 0 .. Capacity - 1

TypeOK ==
  /\ warriors \in [Warrior -> Programs]
  /\ pqueue \in [Slot -> Address \cup {NULL}]
  /\ head \in Nat
  /\ tail \in [Warrior -> Nat]
  /\ numprocesses \in [Warrior -> 0 .. MaxProcesses]
  /\ pqinfo \in Warrior
  /\ cycle \in 0 .. 2 * MaxCycles
  /\ insn_counter \in Nat /\ cycle <= insn_counter
  /\ results \in [0 .. 3 -> Nat]
  /\ round \in 0 .. NumRounds

CoresGood ==
  /\ core \in GoodCore(E!Opcode)
  /\ proper => core \in GoodCore(E!Executed)

\* The head walks one slot a turn; both warriors live until the round ends,
\* and one of them beyond.  A process that was dropped leaves a queue with
\* less than is counted, never with more.
Counted ==
  /\ cycle > 0 => head = 2 * MaxCycles - cycle
  /\ cycle > 0 => \A w \in Warrior : numprocesses[w] > 0
  /\ \E w \in Warrior : numprocesses[w] > 0
  /\ \A w \in Warrior : tail[w] <= NextSlot(w) + 2 * numprocesses[w]
  /\ proper => \A w \in Warrior : tail[w] = NextSlot(w) + 2 * numprocesses[w]

\* The processes a queue is said to have are addresses of the core.
LiveSlots ==
  proper => \A w \in Warrior : \A i \in 1 .. numprocesses[w] :
    pqueue[NextSlot(w) + 2 * (i - 1)] \in Address

IInv == TypeOK /\ CoresGood /\ Counted /\ LiveSlots

\* A freshly loaded core is good.
LEMMA LoadedGood ==
  ASSUME NEW S, "DAT" \in S, NEW p \in [Warrior -> Programs],
         NEW pos2 \in Position,
         \A w \in Warrior : \A k \in 1 .. Len(p[w].insns) :
           E!op(p[w].insns[k]) \in S
  PROVE  Loaded(p, pos2) \in GoodCore(S)
<1>1. E!Blank \in GoodCell(S)
  <2>1. "$" \in E!Mode
    BY DEF E!Mode
  <2>2. 0 \in Address
    BY RunAssumption DEF Address
  <2> QED
    BY <2>1, <2>2 DEF E!Blank, GoodCell, E!Code, E!Opcode, E!Executed,
       E!Modifier
<1>2. ASSUME NEW w \in Warrior
      PROVE  /\ Len(p[w].insns) \in Nat
             /\ \A k \in 1 .. Len(p[w].insns) : p[w].insns[k] \in GoodCell(S)
  <2>1. p[w] \in Programs
    OBVIOUS
  <2>2. Len(p[w].insns) \in 1 .. MinDistance /\ MinDistance \in Nat
    BY <2>1, RunAssumption
  <2>3. \A k \in 1 .. Len(p[w].insns) :
          p[w].insns[k] \in E!Insn /\ E!op(p[w].insns[k]) \in S
    BY <2>1, RunAssumption
  <2> QED
    BY <2>2, <2>3 DEF GoodCell, E!Insn, E!op, E!Address, Address
<1>3. ASSUME NEW x \in Address
      PROVE  Loaded(p, pos2)[x] \in GoodCell(S)
  <2> DEFINE k == x - pos2
  <2>1. 1 \in Warrior /\ 2 \in Warrior
    BY DEF Warrior
  <2>2. Len(p[1].insns) \in Nat /\ Len(p[2].insns) \in Nat
    BY <1>2, <2>1
  <2>3. x \in Nat /\ k \in Int
    BY RunAssumption DEF Address, Position
  <2>4. CASE k \in 0 .. Len(p[2].insns) - 1
    <3>1. k + 1 \in 1 .. Len(p[2].insns)
      BY <2>2, <2>3, <2>4
    <3>2. Loaded(p, pos2)[x] = p[2].insns[k + 1]
      BY <2>4 DEF Loaded
    <3> QED
      BY <1>2, <2>1, <3>1, <3>2
  <2>5. CASE k \notin 0 .. Len(p[2].insns) - 1 /\ x < Len(p[1].insns)
    <3>1. x + 1 \in 1 .. Len(p[1].insns)
      BY <2>2, <2>3, <2>5
    <3>2. Loaded(p, pos2)[x] = p[1].insns[x + 1]
      BY <2>5 DEF Loaded
    <3> QED
      BY <1>2, <2>1, <3>1, <3>2
  <2>6. CASE k \notin 0 .. Len(p[2].insns) - 1 /\ ~(x < Len(p[1].insns))
    BY <1>1, <2>6 DEF Loaded
  <2> QED
    BY <2>4, <2>5, <2>6
<1> QED
  BY <1>3 DEF Loaded, GoodCore

\* Whatever the warriors are, and if they are proper.
LEMMA LoadedCores ==
  ASSUME warriors \in [Warrior -> Programs], NEW pos2 \in Position
  PROVE  /\ Loaded(warriors, pos2) \in GoodCore(E!Opcode)
         /\ proper => Loaded(warriors, pos2) \in GoodCore(E!Executed)
<1>1. "DAT" \in E!Executed /\ "DAT" \in E!Opcode
  BY DEF E!Executed, E!Opcode
<1>2. \A w \in Warrior : \A k \in 1 .. Len(warriors[w].insns) :
        E!op(warriors[w].insns[k]) \in E!Opcode
  <2> SUFFICES ASSUME NEW w \in Warrior, NEW k \in 1 .. Len(warriors[w].insns)
               PROVE  E!op(warriors[w].insns[k]) \in E!Opcode
    OBVIOUS
  <2>1. warriors[w].insns[k] \in E!Insn
    BY RunAssumption
  <2> QED
    BY <2>1 DEF E!Insn, E!Code, E!op
<1> QED
  BY <1>1, <1>2, LoadedGood DEF proper

\* A warrior is loaded inside the core, and starts inside itself.
LEMMA StartsInCore ==
  ASSUME warriors \in [Warrior -> Programs], NEW pos2 \in Position,
         NEW w \in Warrior
  PROVE  StartOf(w, pos2) \in Address
<1>1. /\ Len(warriors[w].insns) \in 1 .. MinDistance
      /\ warriors[w].start \in 0 .. Len(warriors[w].insns) - 1
  BY RunAssumption
<1>2. /\ MinDistance \in Nat /\ CoreSize \in Nat /\ 2 * MinDistance <= CoreSize
      /\ pos2 \in MinDistance .. CoreSize - MinDistance
  BY RunAssumption DEF Position
<1>3. warriors[w].start \in 0 .. MinDistance - 1
  BY <1>1, <1>2
<1> QED
  BY <1>2, <1>3 DEF StartOf, Address

\* The first round starts with one process per warrior, in slots 0 and 1.
LEMMA InitIInv == Init => IInv
<1> SUFFICES ASSUME Init PROVE IInv
  OBVIOUS
<1>1. /\ {CoreSize, MaxProcesses, MaxCycles, NumRounds} \subseteq Nat \ {0}
      /\ warriors \in [Warrior -> Programs]
  BY RunAssumption DEF Init
<1>2. PICK pos2 \in Position :
        /\ core = Loaded(warriors, pos2)
        /\ pqueue = [i \in 0 .. Capacity - 1 |->
                       IF i = 0 THEN StartOf(1, pos2)
                       ELSE IF i = 1 THEN StartOf(2, pos2) ELSE NULL]
  BY DEF Init
<1>3. StartOf(1, pos2) \in Address /\ StartOf(2, pos2) \in Address
  BY <1>1, StartsInCore DEF Warrior
<1>4. /\ pqueue \in [Slot -> Address \cup {NULL}]
      /\ pqueue[0] \in Address /\ pqueue[1] \in Address
  BY <1>1, <1>2, <1>3 DEF Slot, Capacity
<1>5. /\ head = 0 /\ tail = [w \in Warrior |-> 2 + Lane(w, 0)]
      /\ numprocesses = [w \in Warrior |-> 1] /\ pqinfo = 1
      /\ \A w \in Warrior : Lane(w, 0) = NextSlot(w) /\ NextSlot(w) \in {0, 1}
  BY DEF Init, First, Lane, NextSlot, Warrior
<1>6. TypeOK
  BY <1>1, <1>4, <1>5 DEF Init, TypeOK, Warrior
<1>7. CoresGood
  BY <1>1, <1>2, LoadedCores DEF CoresGood
<1>8. Counted
  BY <1>1, <1>5 DEF Counted, Init, Warrior
<1>9. LiveSlots
  BY <1>4, <1>5 DEF LiveSlots
<1> QED
  BY <1>6, <1>7, <1>8, <1>9 DEF IInv

\* A turn fetches an address, and the roles change places.
LEMMA TurnPlaces ==
  ASSUME IInv, NEW me \in Warrior, pqinfo = me, Fetch
  PROVE  /\ cycle \in Nat /\ cycle > 0 /\ head \in Slot
         /\ head + cycle = 2 * MaxCycles /\ head' = head + 1
         /\ ip \in Address
         /\ pqinfo' = Other(me) /\ Other(me) \in Warrior /\ Other(me) # me
         /\ NextSlot(me) = head /\ NextSlot(me)' = head + 2
         /\ NextSlot(Other(me)) = head + 1 /\ NextSlot(Other(me))' = head + 1
         /\ \A w \in Warrior : /\ numprocesses[w] \in 1 .. MaxProcesses
                               /\ tail[w] \in Nat
                               /\ NextSlot(w) \in Nat
<1>1. MaxProcesses \in Nat /\ MaxCycles \in Nat
  BY RunAssumption
<1>2. cycle \in Nat /\ cycle > 0 /\ head + cycle = 2 * MaxCycles /\ head \in Nat
  BY <1>1 DEF IInv, TypeOK, Counted, Fetch
<1>3. head \in Slot
  BY <1>1, <1>2 DEF Slot, Capacity
<1>4. ip \in Address
  BY <1>3 DEF IInv, TypeOK, Fetch, ip
<1>5. \A w \in Warrior : numprocesses[w] \in 1 .. MaxProcesses /\ tail[w] \in Nat
  BY <1>1, <1>2 DEF IInv, TypeOK, Counted
<1>6. /\ head' = head + 1 /\ pqinfo' = Other(me)
      /\ Other(me) \in Warrior /\ Other(me) # me
  BY DEF Fetch, Other, Warrior
<1>7. /\ NextSlot(me) = head /\ NextSlot(me)' = head + 2
      /\ NextSlot(Other(me)) = head + 1 /\ NextSlot(Other(me))' = head + 1
  BY <1>2, <1>6 DEF NextSlot
<1> QED
  BY <1>2, <1>3, <1>4, <1>5, <1>6, <1>7 DEF NextSlot

\* There are only two warriors.
LEMMA TwoWarriors ==
  ASSUME NEW me \in Warrior, NEW w \in Warrior, w # me
  PROVE  w = Other(me)
  BY DEF Warrior, Other

\* A turn takes one process of warrior me away and appends k new ones.
Serve(me, k) ==
  /\ Fetch
  /\ numprocesses' \in [Warrior -> 0 .. MaxProcesses]
  /\ numprocesses'[me] = numprocesses[me] - 1 + k
  /\ tail' \in [Warrior -> Nat]
  /\ tail'[me] = tail[me] + 2 * k
  /\ \A w \in Warrior : w # me => /\ numprocesses'[w] = numprocesses[w]
                                  /\ tail'[w] = tail[w]
  /\ pqueue' \in [Slot -> Address \cup {NULL}]
  /\ \A i \in Slot : (\A j \in 0 .. k - 1 : i # tail[me] + 2 * j)
                         => pqueue'[i] = pqueue[i]
  /\ \A j \in 0 .. k - 1 : tail[me] + 2 * j \in Slot
                            => pqueue'[tail[me] + 2 * j] \in Address

\* The appended slots and all live slots are slots of the array.
LEMMA ServeInBounds ==
  ASSUME IInv, NEW me \in Warrior, pqinfo = me, NEW k \in 0 .. 2, Serve(me, k)
  PROVE  /\ \A j \in 0 .. k - 1 : tail[me] + 2 * j \in Slot
         /\ \A w \in Warrior : \A i \in 1 .. numprocesses[w] :
              NextSlot(w) + 2 * (i - 1) \in Slot
<1>1. Fetch
  BY DEF Serve
<1>2. /\ MaxCycles \in Nat /\ MaxProcesses \in Nat
      /\ head \in 0 .. 2 * MaxCycles - 1
      /\ tail[me] \in 0 .. head + 2 * numprocesses[me]
  <2>1. MaxCycles \in Nat /\ MaxProcesses \in Nat
    BY RunAssumption
  <2>2. head \in Nat /\ cycle \in Nat /\ cycle > 0 /\ head + cycle = 2 * MaxCycles
    BY <1>1, TurnPlaces DEF Slot
  <2>3. tail[me] <= NextSlot(me) + 2 * numprocesses[me]
    BY DEF IInv, Counted
  <2> QED
    BY <1>1, <2>1, <2>2, <2>3, TurnPlaces
<1>3. ASSUME NEW j \in 0 .. k - 1 PROVE tail[me] + 2 * j \in Slot
  <2>1. numprocesses[me] \in Nat /\ numprocesses[me] + j <= MaxProcesses
    BY <1>1, <1>2, TurnPlaces DEF Serve
  <2> QED
    BY <1>2, <2>1 DEF Slot, Capacity
<1>4. ASSUME NEW w \in Warrior, NEW i \in 1 .. numprocesses[w]
      PROVE  NextSlot(w) + 2 * (i - 1) \in Slot
  <2>1. NextSlot(w) \in {head, head + 1}
    BY <1>1, TurnPlaces, TwoWarriors
  <2>2. i - 1 \in 0 .. MaxProcesses - 1
    BY <1>1, <1>2, TurnPlaces
  <2> QED
    BY <1>2, <2>1, <2>2 DEF Slot, Capacity
<1> QED
  BY <1>3, <1>4

\* Such a turn keeps the counts, and all live slots hold addresses.
LEMMA ServeQueues ==
  ASSUME IInv, NEW me \in Warrior, pqinfo = me, NEW k \in 0 .. 2, Serve(me, k),
         cycle' \in {0, cycle - 1}, numprocesses[me] - 1 + k = 0 => cycle' = 0,
         UNCHANGED warriors
  PROVE  Counted' /\ LiveSlots'
<1>1. Fetch
  BY DEF Serve
<1>2. proper' = proper
  BY DEF proper
<1>3. /\ tail'[me] = tail[me] + 2 * k
      /\ numprocesses'[me] = numprocesses[me] - 1 + k
      /\ NextSlot(me)' = NextSlot(me) + 2
      /\ numprocesses[me] \in Nat /\ tail[me] \in Nat /\ NextSlot(me) \in Nat
  BY <1>1, TurnPlaces DEF Serve, Slot
<1>4. ASSUME NEW w \in Warrior, w # me
      PROVE  /\ tail'[w] = tail[w] /\ numprocesses'[w] = numprocesses[w]
             /\ NextSlot(w)' = NextSlot(w) /\ NextSlot(w) = head + 1
  BY <1>1, <1>4, TurnPlaces, TwoWarriors DEF Serve
<1>5. Counted'
  <2>1. (cycle > 0 => head = 2 * MaxCycles - cycle)'
    BY <1>1, TurnPlaces, RunAssumption DEF Slot
  <2>2. (cycle > 0 => \A w \in Warrior : numprocesses[w] > 0)'
    <3>1. numprocesses'[me] \in Nat /\ (numprocesses'[me] = 0 => cycle' = 0)
      BY <1>3 DEF Serve
    <3>2. \A w \in Warrior : w # me => numprocesses'[w] > 0
      BY <1>1, <1>4, TurnPlaces
    <3> QED
      BY <3>1, <3>2
  <2>3. (\E w \in Warrior : numprocesses[w] > 0)'
    <3>1. Other(me) \in Warrior /\ Other(me) # me /\ numprocesses[Other(me)] > 0
      BY <1>1, TurnPlaces
    <3> QED
      BY <1>4, <3>1
  <2>4. ASSUME NEW w \in Warrior
        PROVE  /\ tail'[w] <= NextSlot(w)' + 2 * numprocesses'[w]
               /\ proper => tail'[w] = NextSlot(w)' + 2 * numprocesses'[w]
    <3>1. /\ tail[w] <= NextSlot(w) + 2 * numprocesses[w]
          /\ proper => tail[w] = NextSlot(w) + 2 * numprocesses[w]
      BY DEF IInv, Counted
    <3>2. CASE w = me
      BY <1>3, <3>1, <3>2
    <3>3. CASE w # me
      BY <1>4, <3>1, <3>3
    <3> QED
      BY <3>2, <3>3
  <2>5. /\ \A w \in Warrior : tail'[w] <= NextSlot(w)' + 2 * numprocesses'[w]
        /\ proper' => \A w \in Warrior :
                        tail'[w] = NextSlot(w)' + 2 * numprocesses'[w]
    BY <1>2, <2>4
  <2> QED
    BY <2>1, <2>2, <2>3, <2>5 DEF Counted
<1>6. LiveSlots'
  <2> SUFFICES ASSUME proper, NEW w \in Warrior, NEW i \in 1 .. numprocesses'[w]
               PROVE  pqueue'[NextSlot(w)' + 2 * (i - 1)] \in Address
    BY <1>2 DEF LiveSlots
  <2>0. \A v \in Warrior : tail[v] = NextSlot(v) + 2 * numprocesses[v]
    BY DEF IInv, Counted
  <2>1. CASE w # me
    <3>1. i \in 1 .. numprocesses[w] /\ NextSlot(w)' = NextSlot(w)
      BY <1>4, <2>1
    <3>2. NextSlot(w) + 2 * (i - 1) \in Slot
      BY <3>1, ServeInBounds
    <3>3. \A j \in 0 .. k - 1 : NextSlot(w) + 2 * (i - 1) # tail[me] + 2 * j
      <4>1. /\ NextSlot(w) = head + 1 /\ NextSlot(me) = head /\ head \in Nat
            /\ i \in Nat /\ numprocesses[me] \in Nat
        BY <1>1, <1>4, <2>1, TurnPlaces DEF Slot
      <4> QED
        BY <2>0, <4>1
    <3> QED
      BY <3>1, <3>2, <3>3 DEF Serve, IInv, LiveSlots
  <2>2. CASE w = me /\ i < numprocesses[me]
    <3>1. i + 1 \in 1 .. numprocesses[me]
           /\ NextSlot(me)' + 2 * (i - 1) = NextSlot(me) + 2 * ((i + 1) - 1)
      BY <1>3, <2>2
    <3>2. NextSlot(me) + 2 * ((i + 1) - 1) \in Slot
      BY <3>1, ServeInBounds
    <3>3. \A j \in 0 .. k - 1 : NextSlot(me) + 2 * ((i + 1) - 1) # tail[me] + 2 * j
      BY <1>3, <2>0, <2>2
    <3>4. pqueue[NextSlot(me) + 2 * ((i + 1) - 1)] \in Address
      BY <3>1 DEF IInv, LiveSlots
    <3> QED
      BY <2>2, <3>1, <3>2, <3>3, <3>4 DEF Serve
  <2>3. CASE w = me /\ i >= numprocesses[me]
    <3> DEFINE j == i - numprocesses[me]
    <3>1. j \in 0 .. k - 1 /\ NextSlot(me)' + 2 * (i - 1) = tail[me] + 2 * j
      BY <1>3, <2>0, <2>3
    <3>2. tail[me] + 2 * j \in Slot
      BY <3>1, ServeInBounds
    <3> QED
      BY <2>3, <3>1, <3>2 DEF Serve
  <2>4. i \in Int /\ numprocesses[me] \in Int
    BY <1>3
  <2> QED
    BY <2>1, <2>2, <2>3, <2>4
<1> QED
  BY <1>5, <1>6

\* A turn that appends one address and leaves the counter alone.
LEMMA AppendOneServes ==
  ASSUME IInv, NEW me \in Warrior, pqinfo = me, NEW y \in Address,
         Fetch, Append1(me, y), UNCHANGED numprocesses
  PROVE  Serve(me, 1)
<1>1. /\ numprocesses \in [Warrior -> 0 .. MaxProcesses]
      /\ tail \in [Warrior -> Nat]
      /\ pqueue \in [Slot -> Address \cup {NULL}]
  BY DEF IInv, TypeOK
<1>2. numprocesses[me] \in Nat /\ tail[me] \in Nat
  BY TurnPlaces, RunAssumption
<1>3. numprocesses' = numprocesses /\ numprocesses'[me] = numprocesses[me] - 1 + 1
  BY <1>2
<1>4. /\ tail' \in [Warrior -> Nat] /\ tail'[me] = tail[me] + 2 * 1
      /\ \A w \in Warrior : w # me => tail'[w] = tail[w]
  BY <1>1 DEF Append1
<1>5. /\ pqueue' \in [Slot -> Address \cup {NULL}]
      /\ \A i \in Slot : i # tail[me] => pqueue'[i] = pqueue[i]
      /\ tail[me] \in Slot => pqueue'[tail[me]] = y
  BY <1>1 DEF Append1
<1>6. \A i \in 0 .. 1 - 1 : i = 0
  OBVIOUS
<1>7. tail[me] + 2 * 0 = tail[me] /\ 0 \in 0 .. 1 - 1
  BY <1>2
<1> QED
  BY <1>1, <1>3, <1>4, <1>5, <1>6, <1>7 DEF Serve

\* A split with room for the new process appends two.
LEMMA AppendTwoServes ==
  ASSUME IInv, NEW me \in Warrior, pqinfo = me, NEW x \in Address,
         NEW y \in Address, Fetch, Append2(me, y, x),
         numprocesses[me] < MaxProcesses,
         numprocesses' = [numprocesses EXCEPT ![me] = @ + 1]
  PROVE  Serve(me, 2)
<1>1. /\ numprocesses \in [Warrior -> 0 .. MaxProcesses]
      /\ tail \in [Warrior -> Nat]
      /\ pqueue \in [Slot -> Address \cup {NULL}]
  BY DEF IInv, TypeOK
<1>2. numprocesses[me] \in Nat /\ tail[me] \in Nat
  BY TurnPlaces, RunAssumption
<1>3. /\ pqueue' = [pqueue EXCEPT ![tail[me]] = y, ![tail[me] + 2] = x]
      /\ tail' = [tail EXCEPT ![me] = @ + 4]
  BY DEF Append2
<1>4. numprocesses' \in [Warrior -> 0 .. MaxProcesses]
  <2>1. numprocesses[me] + 1 \in 0 .. MaxProcesses
    BY <1>2, RunAssumption
  <2> QED
    BY <1>1, <2>1
<1>5. tail' \in [Warrior -> Nat]
  BY <1>1, <1>2, <1>3
<1>6. /\ numprocesses'[me] = numprocesses[me] - 1 + 2
      /\ tail'[me] = tail[me] + 2 * 2
      /\ \A w \in Warrior : w # me => /\ numprocesses'[w] = numprocesses[w]
                                      /\ tail'[w] = tail[w]
  BY <1>1, <1>2, <1>3
<1>7. pqueue' \in [Slot -> Address \cup {NULL}]
  BY <1>1, <1>3
<1>8. \A i \in Slot : i # tail[me] /\ i # tail[me] + 2 => pqueue'[i] = pqueue[i]
  BY <1>1, <1>3
<1>9. /\ tail[me] \in Slot => pqueue'[tail[me]] \in Address
      /\ tail[me] + 2 \in Slot => pqueue'[tail[me] + 2] \in Address
  BY <1>1, <1>2, <1>3
<1>10. /\ \A j \in 0 .. 2 - 1 : j = 0 \/ j = 1
       /\ 0 \in 0 .. 2 - 1 /\ 1 \in 0 .. 2 - 1
       /\ tail[me] + 2 * 0 = tail[me] /\ tail[me] + 2 * 1 = tail[me] + 2
  BY <1>2
<1> QED
  BY <1>4, <1>5, <1>6, <1>7, <1>8, <1>9, <1>10 DEF Serve

\* What a turn does to the core and to the queues.
LEMMA TurnOutcome ==
  ASSUME IInv, NEW me \in Warrior, Turn(me)
  PROVE  /\ pqinfo = me /\ Fetch
         /\ core' \in GoodCore(E!Opcode)
         /\ proper => core' \in GoodCore(E!Executed)
         /\ \E x \in Address : \/ Continue(me, x) \/ Split(me, x) \/ Die(me)
                               \/ Lose /\ ~proper
<1> DEFINE result == E!Bench(core, ip)
<1>1. pqinfo = me /\ Fetch /\ core' = result.core
  BY DEF Turn
<1>2. ip \in Address
  BY <1>1, TurnPlaces
<1>3. /\ GoodResult(result, E!Opcode)
      /\ proper => GoodResult(result, E!Executed)
  BY <1>2, BenchClosed DEF IInv, CoresGood
<1>4. /\ result.does = "continue" => Continue(me, result.next)
      /\ result.does = "split"    => Split(me, result.next)
      /\ result.does = "die"      => Die(me)
      /\ result.does = "lost"     => Lose
  BY DEF Turn
<1> HIDE DEF result
<1>5. 0 \in Address
  BY RunAssumption DEF Address
<1>6. \E x \in Address : \/ Continue(me, x) \/ Split(me, x) \/ Die(me)
                         \/ Lose /\ ~proper
  <2>1. CASE result.does = "continue"
    BY <1>3, <1>4, <2>1 DEF GoodResult
  <2>2. CASE result.does = "split"
    BY <1>3, <1>4, <2>2 DEF GoodResult
  <2>3. CASE result.does = "die"
    BY <1>4, <1>5, <2>3
  <2>4. CASE result.does = "lost"
    BY <1>3, <1>4, <1>5, <2>4 DEF GoodResult
  <2> QED
    BY <1>3, <2>1, <2>2, <2>3, <2>4 DEF GoodResult
<1> QED
  BY <1>1, <1>3, <1>6 DEF GoodResult

\* Each outcome but a lost process serves the queue.
LEMMA OutcomesServe ==
  ASSUME IInv, NEW me \in Warrior, pqinfo = me, Fetch, NEW x \in Address
  PROVE  /\ Continue(me, x) => Serve(me, 1)
         /\ Split(me, x) /\ numprocesses[me] < MaxProcesses => Serve(me, 2)
         /\ Split(me, x) /\ ~(numprocesses[me] < MaxProcesses) => Serve(me, 1)
         /\ Die(me) => Serve(me, 0)
<1>1. E!Inc(ip) \in Address
  BY TurnPlaces, MacrosClosed
<1>2. Continue(me, x) => Serve(me, 1)
  BY AppendOneServes DEF Continue
<1>3. Split(me, x) /\ numprocesses[me] < MaxProcesses => Serve(me, 2)
  BY <1>1, AppendTwoServes DEF Split
<1>4. Split(me, x) /\ ~(numprocesses[me] < MaxProcesses) => Serve(me, 1)
  BY <1>1, AppendOneServes DEF Split
<1>5. ASSUME Die(me) PROVE Serve(me, 0)
  <2>1. /\ numprocesses \in [Warrior -> 0 .. MaxProcesses]
        /\ tail \in [Warrior -> Nat]
        /\ pqueue \in [Slot -> Address \cup {NULL}]
        /\ MaxProcesses \in Nat
    BY RunAssumption DEF IInv, TypeOK
  <2>2. numprocesses[me] \in 1 .. MaxProcesses /\ tail[me] \in Nat
    BY TurnPlaces
  <2>3. numprocesses' = [numprocesses EXCEPT ![me] = @ - 1]
        /\ pqueue' = pqueue /\ tail' = tail
    BY <1>5 DEF Die
  <2>4. numprocesses' \in [Warrior -> 0 .. MaxProcesses]
    BY <2>1, <2>2, <2>3
  <2>5. /\ numprocesses'[me] = numprocesses[me] - 1 + 0
        /\ \A w \in Warrior : w # me => numprocesses'[w] = numprocesses[w]
        /\ tail'[me] = tail[me] + 2 * 0
        /\ 0 .. 0 - 1 = {}
    BY <2>1, <2>2, <2>3
  <2> QED
    BY <2>1, <2>3, <2>4, <2>5 DEF Serve
<1> QED
  BY <1>2, <1>3, <1>4, <1>5

\* The counters behind a turn.
LEMMA TurnCounters ==
  ASSUME IInv, NEW me \in Warrior, pqinfo = me, Fetch, NEW x \in Address,
         Continue(me, x) \/ Split(me, x) \/ Die(me) \/ Lose
  PROVE  /\ cycle' \in {0, cycle - 1} /\ cycle' \in 0 .. 2 * MaxCycles
         /\ insn_counter' \in Nat /\ cycle' <= insn_counter'
         /\ insn_counter' - cycle' = insn_counter - cycle + 1
         /\ ~Die(me) => cycle' = cycle - 1
         /\ Die(me) => cycle' = IF numprocesses[me] = 1 THEN 0 ELSE cycle - 1
<1>1. /\ cycle \in Nat /\ cycle > 0 /\ insn_counter \in Nat
      /\ cycle <= insn_counter /\ cycle <= 2 * MaxCycles /\ MaxCycles \in Nat
  BY TurnPlaces, RunAssumption DEF IInv, TypeOK
<1>2. CASE ~Die(me)
  <2>1. cycle' = cycle - 1 /\ insn_counter' = insn_counter
    BY <1>2 DEF Continue, Split, Lose
  <2> QED
    BY <1>1, <1>2, <2>1
<1>3. CASE Die(me)
  <2>1. CASE numprocesses[me] = 1
    <3>1. cycle' = 0 /\ insn_counter' = insn_counter - (cycle - 1)
      BY <1>3, <2>1 DEF Die
    <3> QED
      BY <1>1, <1>3, <2>1, <3>1
  <2>2. CASE numprocesses[me] # 1
    <3>1. cycle' = cycle - 1 /\ insn_counter' = insn_counter
      BY <1>3, <2>2 DEF Die
    <3> QED
      BY <1>1, <1>3, <2>2, <3>1
  <2> QED
    BY <2>1, <2>2
<1> QED
  BY <1>2, <1>3

\* Every turn keeps the invariant, that of a process that is lost included.
LEMMA TurnIInv ==
  ASSUME IInv, NEW me \in Warrior, Turn(me)
  PROVE  IInv'
<1>1. /\ pqinfo = me /\ Fetch
      /\ core' \in GoodCore(E!Opcode)
      /\ proper => core' \in GoodCore(E!Executed)
  BY TurnOutcome
<1>2. PICK x \in Address : \/ Continue(me, x) \/ Split(me, x) \/ Die(me)
                           \/ Lose /\ ~proper
  BY TurnOutcome
<1>3. UNCHANGED <<warriors, results, round>> /\ proper' = proper
  BY <1>1 DEF Fetch, proper
<1>4. CoresGood'
  BY <1>1, <1>3 DEF CoresGood
<1>5. /\ cycle' \in {0, cycle - 1} /\ cycle' \in 0 .. 2 * MaxCycles
      /\ insn_counter' \in Nat /\ cycle' <= insn_counter'
  BY <1>1, <1>2, TurnCounters
<1>6. /\ head \in Nat /\ head' = head + 1 /\ head + cycle = 2 * MaxCycles
      /\ pqinfo' \in Warrior
      /\ numprocesses[me] \in 1 .. MaxProcesses /\ MaxProcesses \in Nat
  BY <1>1, TurnPlaces, RunAssumption DEF Slot
<1>7. ASSUME NEW k \in 0 .. 2, Serve(me, k),
             numprocesses[me] - 1 + k = 0 => cycle' = 0
      PROVE  IInv'
  <2>1. Counted' /\ LiveSlots'
    BY <1>1, <1>3, <1>5, <1>7, ServeQueues
  <2>2. TypeOK'
    BY <1>3, <1>5, <1>6, <1>7 DEF IInv, TypeOK, Serve
  <2> QED
    BY <1>4, <2>1, <2>2 DEF IInv
<1>8. CASE Continue(me, x)
  BY <1>1, <1>6, <1>7, <1>8, OutcomesServe
<1>9. CASE Split(me, x)
  BY <1>1, <1>6, <1>7, <1>9, OutcomesServe
<1>10. CASE Die(me)
  <2>1. numprocesses[me] - 1 + 0 = 0 => cycle' = 0
    BY <1>1, <1>6, <1>10, TurnCounters
  <2> QED
    BY <1>1, <1>7, <1>10, <2>1, OutcomesServe
<1>11. CASE Lose /\ ~proper
  <2>1. UNCHANGED <<pqueue, tail, numprocesses>> /\ cycle' = cycle - 1
    BY <1>11 DEF Lose
  <2>2. TypeOK'
    BY <1>3, <1>5, <1>6, <2>1 DEF IInv, TypeOK
  <2>3. Counted'
    <3>1. \A w \in Warrior : NextSlot(w)' \in {NextSlot(w), NextSlot(w) + 2}
      BY <1>1, TurnPlaces, TwoWarriors DEF Slot
    <3>2. \A w \in Warrior : /\ tail[w] \in Nat /\ numprocesses[w] \in Nat
                             /\ NextSlot(w) \in Nat
      BY <1>1, <1>6, TurnPlaces
    <3>3. \A w \in Warrior : tail[w] <= NextSlot(w)' + 2 * numprocesses[w]
      BY <3>1, <3>2 DEF IInv, Counted
    <3>4. \A w \in Warrior : numprocesses[w] > 0
      BY <1>1, <1>6, TurnPlaces
    <3>5. cycle' > 0 => head' = 2 * MaxCycles - cycle'
      BY <1>1, <1>6, <2>1, TurnPlaces, RunAssumption
    <3> QED
      BY <1>3, <1>11, <2>1, <3>3, <3>4, <3>5 DEF Counted, Warrior
  <2>4. LiveSlots'
    BY <1>3, <1>11 DEF LiveSlots
  <2> QED
    BY <1>4, <2>2, <2>3, <2>4 DEF IInv
<1> QED
  BY <1>2, <1>8, <1>9, <1>10, <1>11

\* The end of a round keeps it: the next one starts with fresh queues.
LEMMA RoundDoneIInv ==
  ASSUME IInv, RoundDone
  PROVE  IInv'
<1>1. /\ {CoreSize, MaxProcesses, MaxCycles, NumRounds} \subseteq Nat \ {0}
      /\ warriors \in [Warrior -> Programs] /\ warriors' = warriors
      /\ proper' = proper
  BY RunAssumption DEF RoundDone, IInv, TypeOK, proper
<1>2. results' \in [0 .. 3 -> Nat] /\ round' \in 0 .. NumRounds
  <2>1. Verdict \in {0, 1, 2}
    BY DEF Verdict
  <2>2. /\ results \in [0 .. 3 -> Nat] /\ insn_counter \in Nat
        /\ round \in 0 .. NumRounds
    BY DEF IInv, TypeOK
  <2>3. results' = [results EXCEPT ![Verdict] = @ + 1]
          \/ results' = [results EXCEPT ![Verdict] = @ + 1, ![3] = insn_counter]
    BY DEF RoundDone
  <2>4. results' \in [0 .. 3 -> Nat]
    BY <2>1, <2>2, <2>3
  <2>5. round' = round + 1 /\ round < NumRounds
    BY DEF RoundDone
  <2> QED
    BY <1>1, <2>2, <2>4, <2>5
<1>3. CASE round + 1 < NumRounds
  <2>1. SetUp(round + 1)
    BY <1>3 DEF RoundDone
  <2>2. PICK pos2 \in Position :
          /\ core' = Loaded(warriors, pos2)
          /\ pqueue' = [pqueue EXCEPT ![Lane(1, round + 1)] = StartOf(1, pos2),
                                      ![Lane(2, round + 1)] = StartOf(2, pos2)]
    BY <2>1 DEF SetUp
  <2>3. StartOf(1, pos2) \in Address /\ StartOf(2, pos2) \in Address
    BY <1>1, StartsInCore DEF Warrior
  <2>4. /\ Lane(1, round + 1) \in {0, 1} /\ Lane(2, round + 1) \in {0, 1}
        /\ Lane(1, round + 1) # Lane(2, round + 1)
    BY DEF Lane, First
  <2>5. pqueue \in [Slot -> Address \cup {NULL}] /\ 0 \in Slot /\ 1 \in Slot
    BY <1>1 DEF IInv, TypeOK, Slot, Capacity
  <2>6. /\ pqueue' \in [Slot -> Address \cup {NULL}]
        /\ pqueue'[0] \in Address /\ pqueue'[1] \in Address
    BY <2>2, <2>3, <2>4, <2>5
  <2>7. /\ head' = 0 /\ tail' = [w \in Warrior |-> 2 + Lane(w, round + 1)]
        /\ numprocesses' = [w \in Warrior |-> 1]
        /\ pqinfo' = First(round + 1) /\ cycle' = 2 * MaxCycles
        /\ insn_counter' = insn_counter + 2 * MaxCycles /\ insn_counter \in Nat
    BY <2>1 DEF SetUp, IInv, TypeOK
  <2>8. /\ pqinfo' \in Warrior
        /\ \A w \in Warrior : /\ Lane(w, round + 1) = NextSlot(w)'
                              /\ NextSlot(w)' \in {0, 1}
    BY <2>7 DEF First, Lane, NextSlot, Warrior
  <2>9. TypeOK'
    <3>1. tail' \in [Warrior -> Nat]
      BY <2>7, <2>8
    <3>2. numprocesses' \in [Warrior -> 0 .. MaxProcesses]
      BY <1>1, <2>7
    <3>3. cycle' \in 0 .. 2 * MaxCycles /\ insn_counter' \in Nat
          /\ cycle' <= insn_counter'
      BY <1>1, <2>7
    <3> QED
      BY <1>1, <1>2, <2>6, <2>7, <2>8, <3>1, <3>2, <3>3 DEF TypeOK
  <2>10. CoresGood'
    BY <1>1, <2>2, LoadedCores DEF CoresGood
  <2>11. Counted'
    BY <1>1, <2>7, <2>8 DEF Counted, Warrior
  <2>12. LiveSlots'
    BY <2>6, <2>7, <2>8 DEF LiveSlots
  <2> QED
    BY <2>9, <2>10, <2>11, <2>12 DEF IInv
<1>4. CASE ~(round + 1 < NumRounds)
  <2>1. UNCHANGED <<core, pqueue, head, tail, numprocesses, pqinfo, cycle,
                    insn_counter>>
    BY <1>4 DEF RoundDone
  <2>2. \A w \in Warrior : NextSlot(w)' = NextSlot(w)
    BY <2>1 DEF NextSlot
  <2> QED
    BY <1>1, <1>2, <2>1, <2>2
       DEF IInv, TypeOK, CoresGood, Counted, LiveSlots
<1> QED
  BY <1>3, <1>4

\* The invariant holds in every fight.
LEMMA IInvHolds == Spec => []IInv
<1>1. IInv /\ [Next]_vars => IInv'
  <2> SUFFICES ASSUME IInv, [Next]_vars PROVE IInv'
    OBVIOUS
  <2>1. CASE RoundDone
    BY <2>1, RoundDoneIInv
  <2>2. ASSUME NEW w \in Warrior, Turn(w) PROVE IInv'
    BY <2>2, TurnIInv
  <2>3. CASE UNCHANGED vars
    <3>1. proper' = proper /\ \A w \in Warrior : NextSlot(w)' = NextSlot(w)
      BY <2>3 DEF vars, proper, NextSlot
    <3> QED
      BY <2>3, <3>1 DEF vars, IInv, TypeOK, CoresGood, Counted, LiveSlots
  <2> QED
    BY <2>1, <2>2, <2>3 DEF Next
<1> QED
  BY <1>1, InitIInv, PTL DEF Spec

----------------------------------------------------------------------------
(* Theorems *)

\* No read or write of a process leaves the array of 2 * (maxcycles +
\* maxprocesses) pointers, for every value of the two and whatever the
\* warriors do, dropped processes included.
THEOREM ArrayLargeEnough == Spec => []NoOverrun
<1>1. IInv => NoOverrun
  <2> SUFFICES ASSUME IInv, cycle > 0
               PROVE  /\ head < Capacity
                      /\ tail[pqinfo] < Capacity
                      /\ numprocesses[pqinfo] < MaxProcesses
                           => tail[pqinfo] + 2 < Capacity
    BY DEF NoOverrun
  <2>1. /\ pqinfo \in Warrior /\ NextSlot(pqinfo) = head
        /\ head \in Nat /\ tail[pqinfo] \in Nat
        /\ numprocesses[pqinfo] \in 0 .. MaxProcesses
        /\ MaxProcesses \in Nat /\ MaxCycles \in Nat /\ cycle \in Nat
    BY RunAssumption DEF IInv, TypeOK, NextSlot
  <2>2. /\ tail[pqinfo] <= head + 2 * numprocesses[pqinfo]
        /\ head = 2 * MaxCycles - cycle
    BY <2>1 DEF IInv, Counted
  <2> QED
    BY <2>1, <2>2 DEF Capacity
<1> QED
  BY <1>1, IInvHolds, PTL

\* All fields stay inside the core, in every core that ever forms from
\* any warriors; and no opcode of P-space forms from warriors without one.
THEOREM CoreStaysValid == Spec => []CoreValid
<1>1. IInv => CoreValid
  <2> SUFFICES ASSUME IInv PROVE CoreValid
    OBVIOUS
  <2>1. core \in E!Core
    BY DEF IInv, CoresGood, GoodCore, GoodCell, E!Core, E!Insn, E!Address,
           Address
  <2>2. proper => \A x \in Address : E!op(core[x]) \in E!Executed
    BY DEF IInv, CoresGood, GoodCore, GoodCell, E!op
  <2> QED
    BY <2>1, <2>2 DEF CoreValid
<1> QED
  BY <1>1, IInvHolds, PTL

\* Between warriors without P-space each queue holds what its warrior is
\* said to have, and no turn fetches a slot its warrior did not fill in this
\* round.
THEOREM CountsCorrect == Spec => []QueuesCounted
<1>1. IInv => QueuesCounted
  <2> SUFFICES ASSUME IInv, proper
               PROVE  /\ \A w \in Warrior :
                           tail[w] = NextSlot(w) + 2 * numprocesses[w]
                      /\ cycle > 0 => head < tail[pqinfo] /\ ip \in Address
    BY DEF QueuesCounted
  <2>1. \A w \in Warrior : tail[w] = NextSlot(w) + 2 * numprocesses[w]
    BY DEF IInv, Counted
  <2>2. ASSUME cycle > 0 PROVE head < tail[pqinfo] /\ ip \in Address
    <3>1. /\ pqinfo \in Warrior /\ NextSlot(pqinfo) = head /\ head \in Nat
          /\ numprocesses[pqinfo] \in Nat /\ numprocesses[pqinfo] > 0
      BY <2>2, RunAssumption DEF IInv, TypeOK, Counted, NextSlot
    <3>2. 1 \in 1 .. numprocesses[pqinfo] /\ head + 2 * (1 - 1) = head
      BY <3>1
    <3> QED
      BY <2>1, <3>1, <3>2 DEF IInv, LiveSlots, ip
  <2> QED
    BY <2>1, <2>2
<1> QED
  BY <1>1, IInvHolds, PTL

\* What FreshCore says of a core c, once pos2 is known.
base(w, pos2)  == IF w = 1 THEN 0 ELSE pos2
image(w, pos2) == base(w, pos2) .. base(w, pos2) + Len(warriors[w].insns) - 1

Pristine(c, pos2) ==
  /\ image(1, pos2) \cap image(2, pos2) = {} /\ image(2, pos2) \subseteq Address
  /\ \A w \in Warrior : \A x \in image(w, pos2) :
       c[x] = warriors[w].insns[x - base(w, pos2) + 1]
  /\ \A x \in Address \ (image(1, pos2) \cup image(2, pos2)) : c[x] = E!Blank

\* Wherever the second warrior is put, loading leaves both complete.
LEMMA LoadedPristine ==
  ASSUME warriors \in [Warrior -> Programs], NEW pos2 \in Position
  PROVE  Pristine(Loaded(warriors, pos2), pos2) /\ pos2 \in Address
<1> DEFINE len(w) == Len(warriors[w].insns)
           c      == Loaded(warriors, pos2)
<1>1. 1 \in Warrior /\ 2 \in Warrior
  BY DEF Warrior
<1>2. len(1) \in 1 .. MinDistance /\ len(2) \in 1 .. MinDistance
  BY <1>1, RunAssumption
<1>3. /\ MinDistance \in Nat \ {0} /\ CoreSize \in Nat \ {0}
      /\ 2 * MinDistance <= CoreSize
      /\ pos2 \in MinDistance .. CoreSize - MinDistance
  BY RunAssumption DEF Position
<1> HIDE DEF len
<1>4. /\ image(1, pos2) = 0 .. len(1) - 1
      /\ image(2, pos2) = pos2 .. pos2 + len(2) - 1
  <2>1. /\ base(1, pos2) = 0 /\ base(2, pos2) = pos2
        /\ 0 + len(1) - 1 = len(1) - 1
    BY <1>2 DEF base
  <2> QED
    BY <2>1 DEF image, len
<1>5. /\ image(1, pos2) \cap image(2, pos2) = {}
      /\ image(2, pos2) \subseteq Address /\ image(1, pos2) \subseteq Address
      /\ pos2 \in Address
  BY <1>2, <1>3, <1>4 DEF Address
<1>6. ASSUME NEW x \in Address
      PROVE  c[x] = IF x - pos2 \in 0 .. len(2) - 1
                      THEN warriors[2].insns[x - pos2 + 1]
                    ELSE IF x < len(1) THEN warriors[1].insns[x + 1] ELSE E!Blank
  BY DEF Loaded, len
<1> HIDE DEF c
<1>7. ASSUME NEW x \in image(2, pos2)
      PROVE  c[x] = warriors[2].insns[x - pos2 + 1]
  <2>1. x \in Address /\ x - pos2 \in 0 .. len(2) - 1
    BY <1>2, <1>3, <1>4, <1>5
  <2> QED
    BY <1>6, <2>1
<1>8. ASSUME NEW x \in image(1, pos2)
      PROVE  c[x] = warriors[1].insns[x - 0 + 1]
  <2>1. x \in Address /\ x < len(1) /\ x - 0 + 1 = x + 1
    BY <1>2, <1>4, <1>5
  <2>2. ~(x - pos2 \in 0 .. len(2) - 1)
    BY <1>2, <1>3, <1>4
  <2>3. c[x] = warriors[1].insns[x + 1]
    BY <1>6, <2>1, <2>2
  <2> QED
    BY <2>1, <2>3
<1>9. ASSUME NEW x \in Address, x \notin image(1, pos2), x \notin image(2, pos2)
      PROVE  c[x] = E!Blank
  <2>1. ~(x < len(1)) /\ ~(x - pos2 \in 0 .. len(2) - 1)
    BY <1>2, <1>3, <1>4, <1>9 DEF Address
  <2> QED
    BY <1>6, <2>1
<1>10. \A w \in Warrior : \A x \in image(w, pos2) :
         c[x] = warriors[w].insns[x - base(w, pos2) + 1]
  <2>1. base(1, pos2) = 0 /\ base(2, pos2) = pos2
    BY DEF base
  <2> QED
    BY <1>7, <1>8, <2>1 DEF Warrior
<1> QED
  BY <1>5, <1>9, <1>10 DEF Pristine, c

\* A pristine core with the start addresses queued is a fresh one.
LEMMA PristineIsFresh ==
  ASSUME NEW pos2 \in Address, Pristine(core, pos2),
         \A w \in Warrior : pqueue[IF pqinfo = w THEN 0 ELSE 1]
                              = base(w, pos2) + warriors[w].start
  PROVE  FreshCore
  BY DEF FreshCore, Pristine, base, image

\* Every round starts with both warriors complete and nothing else in the
\* core, wherever they are put, and with their start addresses queued in the
\* order in which they move.
THEOREM RoundsStartFresh == Spec => []FreshCore
<1>1. Init => FreshCore
  <2> SUFFICES ASSUME Init PROVE FreshCore
    OBVIOUS
  <2>1. warriors \in [Warrior -> Programs] /\ pqinfo = 1
    BY DEF Init, First
  <2>2. PICK pos2 \in Position :
          /\ core = Loaded(warriors, pos2)
          /\ pqueue = [i \in 0 .. Capacity - 1 |->
                         IF i = 0 THEN StartOf(1, pos2)
                         ELSE IF i = 1 THEN StartOf(2, pos2) ELSE NULL]
    BY DEF Init
  <2>3. 0 \in 0 .. Capacity - 1 /\ 1 \in 0 .. Capacity - 1
    BY RunAssumption DEF Capacity
  <2>4. pqueue[0] = StartOf(1, pos2) /\ pqueue[1] = StartOf(2, pos2)
    BY <2>2, <2>3
  <2>5. \A w \in Warrior : StartOf(w, pos2) = warriors[w].start + base(w, pos2)
    BY DEF StartOf, base
  <2>6. \A w \in Warrior : warriors[w].start \in Int /\ base(w, pos2) \in Int
    BY <2>1, RunAssumption DEF base, Position
  <2>7. \A w \in Warrior : pqueue[IF pqinfo = w THEN 0 ELSE 1]
                             = base(w, pos2) + warriors[w].start
    BY <2>1, <2>4, <2>5, <2>6 DEF Warrior
  <2>8. Pristine(core, pos2) /\ pos2 \in Address
    BY <2>1, <2>2, LoadedPristine
  <2> QED
    BY <2>7, <2>8, PristineIsFresh
<1>2. IInv /\ FreshCore /\ [Next]_vars => FreshCore'
  <2> SUFFICES ASSUME IInv, FreshCore, [Next]_vars PROVE FreshCore'
    OBVIOUS
  <2>1. MaxCycles \in Nat \ {0} /\ warriors \in [Warrior -> Programs]
    BY RunAssumption DEF IInv, TypeOK
  <2>2. ASSUME NEW w \in Warrior, Turn(w) PROVE FreshCore'
    <3>1. pqinfo = w /\ Fetch
      BY <2>2, TurnOutcome
    <3>2. \E x \in Address : Continue(w, x) \/ Split(w, x) \/ Die(w) \/ Lose
      BY <2>2, TurnOutcome
    <3>3. cycle' \in {0, cycle - 1}
      BY <3>1, <3>2, TurnCounters
    <3>4. cycle \in 0 .. 2 * MaxCycles
      BY DEF IInv, TypeOK
    <3>5. cycle' # 2 * MaxCycles
      BY <2>1, <3>3, <3>4
    <3> QED
      BY <3>5 DEF FreshCore
  <2>3. CASE RoundDone /\ round + 1 < NumRounds
    <3>1. SetUp(round + 1) /\ warriors' = warriors
      BY <2>3 DEF RoundDone
    <3>2. PICK pos2 \in Position :
            /\ core' = Loaded(warriors, pos2)
            /\ pqueue' = [pqueue EXCEPT
                            ![Lane(1, round + 1)] = StartOf(1, pos2),
                            ![Lane(2, round + 1)] = StartOf(2, pos2)]
      BY <3>1 DEF SetUp
    <3>3. /\ Lane(1, round + 1) \in {0, 1} /\ Lane(2, round + 1) \in {0, 1}
          /\ Lane(1, round + 1) # Lane(2, round + 1)
          /\ pqinfo' = First(round + 1)
      BY <3>1 DEF SetUp, Lane, First
    <3>4. pqueue \in [Slot -> Address \cup {NULL}] /\ 0 \in Slot /\ 1 \in Slot
      BY <2>1, RunAssumption DEF IInv, TypeOK, Slot, Capacity
    <3>5. /\ pqueue'[Lane(1, round + 1)] = StartOf(1, pos2)
          /\ pqueue'[Lane(2, round + 1)] = StartOf(2, pos2)
      BY <3>2, <3>3, <3>4
    <3>6. \A w \in Warrior :
            /\ warriors[w].start \in Int /\ base(w, pos2) \in Int
            /\ StartOf(w, pos2) = warriors[w].start + base(w, pos2)
            /\ Lane(w, round + 1) = IF pqinfo' = w THEN 0 ELSE 1
      BY <2>1, <3>3, RunAssumption DEF base, Position, StartOf, Lane
    <3>7. \A w \in Warrior : pqueue'[IF pqinfo' = w THEN 0 ELSE 1]
                               = base(w, pos2) + warriors[w].start
      BY <3>5, <3>6 DEF Warrior
    <3>8. Pristine(core', pos2) /\ pos2 \in Address
      BY <2>1, <3>2, LoadedPristine
    <3>9. Pristine(core, pos2)'
      BY <3>1, <3>8 DEF Pristine, image
    <3> QED
      BY <3>1, <3>7, <3>8, <3>9 DEF FreshCore, Pristine, base, image
  <2>4. CASE RoundDone /\ ~(round + 1 < NumRounds)
    <3>1. cycle' = 0
      BY <2>4 DEF RoundDone
    <3> QED
      BY <2>1, <3>1 DEF FreshCore
  <2>5. CASE UNCHANGED vars
    BY <2>5 DEF vars, FreshCore
  <2> QED
    BY <2>2, <2>3, <2>4, <2>5 DEF Next
<1> QED
  BY <1>1, <1>2, IInvHolds, PTL DEF Spec

----------------------------------------------------------------------------
(* Fights of proper warriors implement Fight. *)

Queue(w) == [i \in 1 .. numprocesses[w] |-> pqueue[NextSlot(w) + 2 * (i - 1)]]

\* A queue is a sequence of as many addresses as are counted.
QueueIsSeq ==
  \A w \in Warrior :
    /\ numprocesses[w] \in Nat
    /\ Queue(w) \in Seq(Address)
    /\ Len(Queue(w)) = numprocesses[w]
    /\ \A i \in 1 .. numprocesses[w] :
         Queue(w)[i] = pqueue[NextSlot(w) + 2 * (i - 1)]

\* The queue of a warrior is a sequence of addresses.
LEMMA QueuesAreSeqs == IInv /\ proper => QueueIsSeq
<1> SUFFICES ASSUME IInv, proper, NEW w \in Warrior
             PROVE  /\ numprocesses[w] \in Nat
                    /\ Queue(w) \in Seq(Address)
                    /\ Len(Queue(w)) = numprocesses[w]
                    /\ \A i \in 1 .. numprocesses[w] :
                         Queue(w)[i] = pqueue[NextSlot(w) + 2 * (i - 1)]
  BY DEF QueueIsSeq
<1>1. numprocesses[w] \in Nat
  BY RunAssumption DEF IInv, TypeOK
<1>2. Queue(w) \in [1 .. numprocesses[w] -> Address]
  BY DEF IInv, LiveSlots, Queue
<1>3. Queue(w) \in Seq(Address) /\ Len(Queue(w)) = numprocesses[w]
  BY <1>1, <1>2
<1> QED
  BY <1>1, <1>3 DEF Queue

\* A turn shifts the queue of the warrior that moves, and no other.
LEMMA ServeShifts ==
  ASSUME IInv, IInv', proper, proper', NEW me \in Warrior, pqinfo = me,
         NEW k \in 0 .. 2, Serve(me, k)
  PROVE  /\ Len(Queue(me)') = Len(Queue(me)) - 1 + k
         /\ \A i \in 1 .. Len(Queue(me)) - 1 : Queue(me)'[i] = Queue(me)[i + 1]
         /\ k >= 1 => Queue(me)'[Len(Queue(me))] = pqueue'[tail[me]]
         /\ k = 2 => Queue(me)'[Len(Queue(me)) + 1] = pqueue'[tail[me] + 2]
         /\ \A w \in Warrior : w # me => Queue(w)' = Queue(w)
<1>1. Fetch
  BY DEF Serve
<1>2. /\ numprocesses[me] \in Nat
      /\ Len(Queue(me)) = numprocesses[me]
      /\ \A i \in 1 .. numprocesses[me] :
           Queue(me)[i] = pqueue[NextSlot(me) + 2 * (i - 1)]
  BY QueuesAreSeqs DEF QueueIsSeq
<1>3. /\ numprocesses'[me] \in Nat
      /\ Len(Queue(me)') = numprocesses'[me]
      /\ \A i \in 1 .. numprocesses'[me] :
           Queue(me)'[i] = pqueue'[NextSlot(me)' + 2 * (i - 1)]
  <2>1. QueueIsSeq'
    BY QueuesAreSeqs, PTL
  <2> QED
    BY <2>1 DEF QueueIsSeq
<1>4. numprocesses'[me] = numprocesses[me] - 1 + k
  BY DEF Serve
<1>5. /\ NextSlot(me)' = NextSlot(me) + 2 /\ NextSlot(me) = head
      /\ head \in Nat /\ tail[me] \in Nat
      /\ tail[me] = head + 2 * numprocesses[me]
  BY <1>1, TurnPlaces DEF IInv, Counted, Slot
<1>6. ASSUME NEW i \in 1 .. numprocesses[me] - 1
      PROVE  Queue(me)'[i] = Queue(me)[i + 1]
  <2>1. NextSlot(me)' + 2 * (i - 1) = NextSlot(me) + 2 * ((i + 1) - 1)
    BY <1>5
  <2>2. i + 1 \in 1 .. numprocesses[me] /\ i \in 1 .. numprocesses'[me]
    BY <1>2, <1>4
  <2>3. NextSlot(me) + 2 * ((i + 1) - 1) \in Slot
    BY <2>2, ServeInBounds
  <2>4. \A j \in 0 .. k - 1 : NextSlot(me) + 2 * ((i + 1) - 1) # tail[me] + 2 * j
    BY <1>2, <1>5
  <2> QED
    BY <1>2, <1>3, <2>1, <2>2, <2>3, <2>4 DEF Serve
<1>7. ASSUME NEW j \in 0 .. k - 1
      PROVE  Queue(me)'[numprocesses[me] + j] = pqueue'[tail[me] + 2 * j]
  <2> DEFINE n == numprocesses[me]
             s == NextSlot(me)'
  <2>0. /\ n \in Nat /\ j \in Int /\ s = head + 2 /\ head \in Nat
        /\ tail[me] = head + 2 * n
    BY <1>2, <1>5
  <2> HIDE DEF n, s
  <2>1. s + 2 * ((n + j) - 1) = tail[me] + 2 * j
    BY <2>0
  <2> USE DEF n, s
  <2>2. numprocesses[me] + j \in 1 .. numprocesses'[me]
    BY <1>1, <1>2, <1>4, TurnPlaces
  <2> QED
    BY <1>3, <2>1, <2>2
<1>8. ASSUME NEW w \in Warrior, w # me PROVE Queue(w)' = Queue(w)
  <2>1. /\ numprocesses'[w] = numprocesses[w]
        /\ NextSlot(w)' = NextSlot(w) /\ NextSlot(w) = head + 1
    BY <1>1, <1>8, TurnPlaces, TwoWarriors DEF Serve
  <2>2. ASSUME NEW i \in 1 .. numprocesses[w]
        PROVE  pqueue'[NextSlot(w) + 2 * (i - 1)] = pqueue[NextSlot(w) + 2 * (i - 1)]
    <3>1. NextSlot(w) + 2 * (i - 1) \in Slot
      BY ServeInBounds
    <3>2. \A j \in 0 .. k - 1 : NextSlot(w) + 2 * (i - 1) # tail[me] + 2 * j
      BY <1>2, <1>5, <2>1
    <3> QED
      BY <3>1, <3>2 DEF Serve
  <2> QED
    BY <2>1, <2>2 DEF Queue
<1>9. k >= 1 => Queue(me)'[numprocesses[me]] = pqueue'[tail[me]]
  <2>1. /\ k >= 1 => 0 \in 0 .. k - 1
        /\ numprocesses[me] + 0 = numprocesses[me] /\ tail[me] + 2 * 0 = tail[me]
    BY <1>2, <1>5
  <2> QED
    BY <1>7, <2>1
<1>10. k = 2 => Queue(me)'[numprocesses[me] + 1] = pqueue'[tail[me] + 2]
  <2>1. (k = 2 => 1 \in 0 .. k - 1) /\ tail[me] + 2 * 1 = tail[me] + 2
    BY <1>5
  <2> QED
    BY <1>7, <2>1
<1> QED
  BY <1>2, <1>3, <1>4, <1>6, <1>8, <1>9, <1>10

\* What a turn does to the two queues is one of the steps of Fight.
LEMMA TurnImplements ==
  ASSUME IInv, IInv', proper, proper', NEW me \in Warrior, Turn(me)
  PROVE  F!Continue(me) \/ F!Split(me) \/ F!Die(me)
<1> DEFINE q == Queue(me)
<1>1. pqinfo = me /\ Fetch
  BY TurnOutcome
<1>2. PICK x \in Address : Continue(me, x) \/ Split(me, x) \/ Die(me)
  BY TurnOutcome
<1>3. /\ q \in Seq(Address) /\ Len(q) = numprocesses[me]
      /\ numprocesses[me] \in Nat /\ numprocesses[me] > 0 /\ q # <<>>
      /\ q[1] = ip /\ ip \in Address
  <2>1. /\ q \in Seq(Address) /\ Len(q) = numprocesses[me]
        /\ numprocesses[me] \in Nat
        /\ \A i \in 1 .. numprocesses[me] : q[i] = pqueue[NextSlot(me) + 2 * (i - 1)]
    BY QueuesAreSeqs DEF QueueIsSeq
  <2>2. numprocesses[me] > 0 /\ NextSlot(me) = head /\ head \in Nat
        /\ ip \in Address
    BY <1>1, <2>1, TurnPlaces DEF Slot
  <2> QED
    BY <2>1, <2>2 DEF ip
<1>4. Queue(me)' \in Seq(Address)
  <2>1. QueueIsSeq'
    BY QueuesAreSeqs, PTL
  <2> QED
    BY <2>1 DEF QueueIsSeq
<1>5. queues = [w \in Warrior |-> Queue(w)]
      /\ queues' = [w \in Warrior |-> Queue(w)']
  BY DEF queues, Queue
<1>6. ASSUME NEW k \in 0 .. 2, Serve(me, k)
      PROVE  queues' = [queues EXCEPT ![me] = Queue(me)']
  <2>1. \A w \in Warrior : w # me => Queue(w)' = Queue(w)
    BY <1>1, <1>6, ServeShifts
  <2> QED
    BY <1>5, <2>1
<1>7. queues[me] = q /\ me \in F!Warrior /\ Head(q) = ip
  BY <1>3, <1>5 DEF F!Warrior, Warrior
<1>8. F!Turn(me)
  <2>1. /\ cycle > 0 /\ pqinfo' = 3 - me /\ UNCHANGED <<results, round>>
        /\ insn_counter' - cycle' = insn_counter - cycle + 1
    BY <1>1, <1>2, TurnCounters DEF Fetch, Other
  <2> QED
    BY <1>1, <2>1 DEF F!Turn, F!Opponent, score
<1>9. /\ ~Die(me) => cycle' = cycle - 1
      /\ Die(me) => cycle' = IF numprocesses[me] = 1 THEN 0 ELSE cycle - 1
  BY <1>1, <1>2, TurnCounters
<1>10. /\ tail[me] \in Nat /\ tail[me] + 2 * 0 = tail[me]
       /\ tail[me] + 2 * 1 = tail[me] + 2
       /\ pqueue \in [Slot -> Address \cup {NULL}]
       /\ numprocesses \in [Warrior -> 0 .. MaxProcesses]
  BY <1>1, TurnPlaces DEF IInv, TypeOK
<1>11. CASE Continue(me, x)
  <2>1. Serve(me, 1)
    BY <1>1, <1>11, OutcomesServe
  <2>2. pqueue'[tail[me]] = x /\ numprocesses' = numprocesses
        /\ cycle' = cycle - 1
    <3>1. tail[me] \in Slot
      BY <1>1, <1>10, <2>1, ServeInBounds
    <3> QED
      BY <1>10, <1>11, <3>1 DEF Continue, Append1
  <2>3. /\ Len(Queue(me)') = Len(q)
        /\ \A i \in 1 .. Len(q) - 1 : Queue(me)'[i] = q[i + 1]
        /\ Queue(me)'[Len(q)] = x
    BY <1>1, <1>3, <2>1, <2>2, ServeShifts
  <2>4. Queue(me)' = Append(Tail(q), x)
    BY <1>3, <1>4, <2>3, ShiftAppend
  <2>5. queues' = [queues EXCEPT ![me] = Append(Tail(@), x)]
    BY <1>6, <1>7, <2>1, <2>4
  <2> QED
    BY <1>8, <2>2, <2>5 DEF F!Continue, F!Address, Address
<1>12. CASE Split(me, x)
  <2> DEFINE y == E!Inc(ip)
  <2>1. y \in Address /\ y = F!Successor(ip)
    BY <1>3, MacrosClosed DEF E!Inc, F!Successor
  <2>2. cycle' = cycle - 1
    BY <1>12 DEF Split
  <2>3. CASE numprocesses[me] < MaxProcesses
    <3>1. Serve(me, 2)
      BY <1>1, <1>12, <2>3, OutcomesServe
    <3>2. pqueue'[tail[me]] = y /\ pqueue'[tail[me] + 2] = x
      <4>1. tail[me] \in Slot /\ tail[me] + 2 \in Slot
        BY <1>1, <1>10, <3>1, ServeInBounds
      <4> QED
        BY <1>10, <1>12, <2>3, <4>1 DEF Split, Append2
    <3>3. /\ Len(Queue(me)') = Len(q) + 1
          /\ \A i \in 1 .. Len(q) - 1 : Queue(me)'[i] = q[i + 1]
          /\ Queue(me)'[Len(q)] = y /\ Queue(me)'[Len(q) + 1] = x
      BY <1>1, <1>3, <3>1, <3>2, ServeShifts
    <3>4. Queue(me)' = Append(Append(Tail(q), y), x)
      BY <1>3, <1>4, <2>1, <3>3, ShiftAppendTwo
    <3>5. queues' = [queues EXCEPT ![me] = Append(Append(Tail(q), y), x)]
      BY <1>6, <3>1, <3>4
    <3>6. F!Split(me)
      BY <1>3, <1>7, <1>8, <2>1, <2>2, <2>3, <3>5 DEF F!Split, F!Address,
         Address
    <3> QED
      BY <3>6
  <2>4. CASE ~(numprocesses[me] < MaxProcesses)
    <3>1. Serve(me, 1)
      BY <1>1, <1>12, <2>4, OutcomesServe
    <3>2. pqueue'[tail[me]] = y
      <4>1. tail[me] \in Slot
        BY <1>1, <1>10, <3>1, ServeInBounds
      <4> QED
        BY <1>10, <1>12, <2>4, <4>1 DEF Split, Append1
    <3>3. /\ Len(Queue(me)') = Len(q)
          /\ \A i \in 1 .. Len(q) - 1 : Queue(me)'[i] = q[i + 1]
          /\ Queue(me)'[Len(q)] = y
      BY <1>1, <1>3, <3>1, <3>2, ServeShifts
    <3>4. Queue(me)' = Append(Tail(q), y)
      BY <1>3, <1>4, <2>1, <3>3, ShiftAppend
    <3>5. queues' = [queues EXCEPT ![me] = Append(Tail(q), y)]
      BY <1>6, <3>1, <3>4
    <3>6. F!Split(me)
      BY <1>3, <1>7, <1>8, <2>1, <2>2, <2>4, <3>5 DEF F!Split, F!Address,
         Address
    <3> QED
      BY <3>6
  <2> QED
    BY <2>3, <2>4
<1>13. CASE Die(me)
  <2>1. Serve(me, 0)
    BY <1>1, <1>13, OutcomesServe
  <2>2. /\ Len(Queue(me)') = Len(q) - 1
        /\ \A i \in 1 .. Len(q) - 1 : Queue(me)'[i] = q[i + 1]
    BY <1>1, <1>3, <2>1, ServeShifts
  <2>3. Queue(me)' = Tail(q)
    BY <1>3, <1>4, <2>2, ShiftTail
  <2>4. queues' = [queues EXCEPT ![me] = Tail(@)]
    BY <1>6, <1>7, <2>1, <2>3
  <2>5. cycle' = IF Len(queues[me]) = 1 THEN 0 ELSE cycle - 1
    BY <1>3, <1>7, <1>9, <1>13
  <2> QED
    BY <1>8, <2>4, <2>5 DEF F!Die
<1> QED
  BY <1>2, <1>11, <1>12, <1>13

\* The first round of a fight is one of Fight.
LEMMA InitImplements == Init /\ proper => F!Init
<1> SUFFICES ASSUME Init, proper PROVE F!Init
  OBVIOUS
<1>1. warriors \in [Warrior -> Programs] /\ pqinfo = 1
  BY DEF Init, First
<1>2. PICK pos2 \in Position :
        pqueue = [i \in 0 .. Capacity - 1 |->
                    IF i = 0 THEN StartOf(1, pos2)
                    ELSE IF i = 1 THEN StartOf(2, pos2) ELSE NULL]
  BY DEF Init
<1>3. 0 \in 0 .. Capacity - 1 /\ 1 \in 0 .. Capacity - 1
  BY RunAssumption DEF Capacity
<1>4. \A w \in Warrior : StartOf(w, pos2) \in Address
  BY <1>1, StartsInCore
<1>5. queues = [w \in F!Warrior |-> <<StartOf(w, pos2)>>]
  <2>1. pqueue[0] = StartOf(1, pos2) /\ pqueue[1] = StartOf(2, pos2)
    BY <1>2, <1>3
  <2>2. ASSUME NEW w \in Warrior
        PROVE  Queue(w) = <<StartOf(w, pos2)>>
    <3>1. /\ numprocesses[w] = 1 /\ NextSlot(w) = w - 1
          /\ pqueue[w - 1] = StartOf(w, pos2)
      BY <1>1, <2>1 DEF Init, NextSlot, Warrior
    <3>2. Queue(w) = [i \in 1 .. 1 |-> pqueue[(w - 1) + 2 * (i - 1)]]
      BY <3>1 DEF Queue
    <3>3. \A i \in 1 .. 1 : i = 1 /\ (w - 1) + 2 * (i - 1) = w - 1
      BY DEF Warrior
    <3>4. Queue(w) = [i \in 1 .. 1 |-> StartOf(w, pos2)]
      BY <3>1, <3>2, <3>3
    <3> QED
      BY <3>4
  <2> QED
    BY <2>2 DEF queues, Queue, F!Warrior, Warrior
<1>6. F!Start(queues)
  <2>1. [w \in Warrior |-> StartOf(w, pos2)] \in [Warrior -> Address]
    BY <1>4
  <2> QED
    BY <1>5, <2>1 DEF F!Start, F!Warrior, F!Address, Warrior, Address
<1>7. pqinfo = F!First(0) /\ score = [r \in F!Result |-> 0]
  BY <1>1 DEF F!First, Init, score, F!Result
<1> QED
  BY <1>6, <1>7, RunAssumption DEF Init, F!Init

\* The result is counted for the right warrior, and the next round starts
\* with the other one.
LEMMA RoundDoneImplements ==
  ASSUME IInv, proper, RoundDone
  PROVE  F!EndRound
<1>1. /\ cycle = 0 /\ round \in Nat /\ round < NumRounds /\ round' = round + 1
      /\ results \in [0 .. 3 -> Nat] /\ insn_counter \in Nat
      /\ warriors' = warriors /\ warriors \in [Warrior -> Programs]
      /\ pqueue \in [Slot -> Address \cup {NULL}]
      /\ MaxCycles \in Nat /\ NumRounds \in Nat
  BY RunAssumption DEF RoundDone, IInv, TypeOK
<1>2. Len(queues[1]) = numprocesses[1] /\ Len(queues[2]) = numprocesses[2]
  <2>1. \A w \in Warrior : queues[w] = Queue(w)
    BY DEF queues, Queue
  <2> QED
    BY <2>1, QueuesAreSeqs DEF QueueIsSeq, Warrior
<1>3. /\ Verdict = 0 <=> F!Verdict = "win"
      /\ Verdict = 1 <=> F!Verdict = "loss"
      /\ Verdict = 2 <=> F!Verdict = "tie"
      /\ F!Verdict \in {"win", "loss", "tie"} /\ Verdict \in {0, 1, 2}
  BY <1>2 DEF Verdict, F!Verdict
<1>4. score' = [score EXCEPT ![F!Verdict] = @ + 1]
  <2>1. \A v \in {0, 1, 2} : results'[v] = IF v = Verdict THEN results[v] + 1
                                                       ELSE results[v]
    BY <1>1, <1>3 DEF RoundDone
  <2> QED
    BY <1>3, <2>1 DEF score
<1>5. CASE round + 1 < NumRounds
  <2>1. SetUp(round + 1)
    BY <1>5 DEF RoundDone
  <2>2. PICK pos2 \in Position :
          pqueue' = [pqueue EXCEPT ![Lane(1, round + 1)] = StartOf(1, pos2),
                                   ![Lane(2, round + 1)] = StartOf(2, pos2)]
    BY <2>1 DEF SetUp
  <2>3. \A w \in Warrior : StartOf(w, pos2) \in Address
    BY <1>1, StartsInCore
  <2>4. /\ Lane(1, round + 1) \in {0, 1} /\ Lane(2, round + 1) \in {0, 1}
        /\ Lane(1, round + 1) # Lane(2, round + 1)
        /\ 0 \in Slot /\ 1 \in Slot
    BY RunAssumption DEF Lane, First, Slot, Capacity
  <2>5. \A w \in Warrior : pqueue'[Lane(w, round + 1)] = StartOf(w, pos2)
    BY <1>1, <2>2, <2>4 DEF Warrior
  <2>6. ASSUME NEW w \in Warrior PROVE Queue(w)' = <<StartOf(w, pos2)>>
    <3>1. /\ numprocesses'[w] = 1 /\ NextSlot(w)' = Lane(w, round + 1)
          /\ Lane(w, round + 1) \in {0, 1}
      BY <2>1 DEF SetUp, NextSlot, Lane
    <3> DEFINE lane == Lane(w, round + 1)
    <3> HIDE DEF lane
    <3>2. Queue(w)' = [i \in 1 .. 1 |-> pqueue'[lane + 2 * (i - 1)]]
      BY <3>1 DEF Queue, lane
    <3>3. \A i \in 1 .. 1 : i = 1 /\ lane + 2 * (i - 1) = lane
      BY <3>1 DEF lane
    <3>4. Queue(w)' = [i \in 1 .. 1 |-> StartOf(w, pos2)]
      BY <2>5, <3>2, <3>3 DEF lane
    <3> QED
      BY <3>4
  <2>7. queues' = [w \in F!Warrior |-> <<StartOf(w, pos2)>>]
    BY <2>6 DEF queues, Queue, F!Warrior, Warrior
  <2>8. F!Start(queues')
    <3>1. [w \in Warrior |-> StartOf(w, pos2)] \in [Warrior -> Address]
      BY <2>3
    <3> QED
      BY <2>7, <3>1 DEF F!Start, F!Warrior, F!Address, Warrior, Address
  <2>9. /\ pqinfo' = F!First(round + 1) /\ cycle' = 2 * MaxCycles
        /\ insn_counter' = insn_counter + 2 * MaxCycles
    BY <2>1 DEF SetUp, First, F!First, F!Opponent
  <2>10. insn_counter' - cycle' = insn_counter - cycle
    BY <1>1, <2>9
  <2> QED
    BY <1>1, <1>4, <1>5, <2>8, <2>9, <2>10 DEF F!EndRound
<1>6. CASE ~(round + 1 < NumRounds)
  <2>1. UNCHANGED <<core, pqueue, head, tail, numprocesses, pqinfo, cycle,
                    insn_counter>>
    BY <1>6 DEF RoundDone
  <2>2. queues' = queues
    BY <2>1 DEF queues, NextSlot
  <2> QED
    BY <1>1, <1>4, <1>6, <2>1, <2>2 DEF F!EndRound
<1> QED
  BY <1>5, <1>6

\* A fight of proper warriors is the abstract one: what the two interleaved
\* queues, the single head and the early end of a round do is FIFO order,
\* strict alternation, an exact instruction counter and the right winner.
THEOREM MarsImplementsFight == Spec => Implements
<1>1. IInv /\ IInv' /\ [Next]_vars => [proper => F!Next]_(F!vars)
  <2> SUFFICES ASSUME IInv, IInv', [Next]_vars
               PROVE  [proper => F!Next]_(F!vars)
    OBVIOUS
  <2>1. CASE RoundDone
    BY <2>1, RoundDoneImplements DEF F!Next
  <2>2. ASSUME NEW w \in Warrior, Turn(w) PROVE proper => F!Next
    <3>1. w \in F!Warrior /\ warriors' = warriors
      BY <2>2, TurnOutcome DEF F!Warrior, Warrior, Fetch
    <3>2. proper' = proper
      BY <3>1 DEF proper
    <3> QED
      BY <2>2, <3>1, <3>2, TurnImplements DEF F!Next
  <2>3. CASE UNCHANGED vars
    <3>1. UNCHANGED (F!vars)
      BY <2>3 DEF vars, F!vars, queues, NextSlot, score
    <3> QED
      BY <3>1
  <2> QED
    BY <2>1, <2>2, <2>3 DEF Next
<1>2. Init => (proper => F!Init)
  BY InitImplements
<1> QED
  BY <1>1, <1>2, IInvHolds, PTL DEF Spec, Implements
=============================================================================
