------------------------------ MODULE Exec94 ------------------------------
(***************************************************************************)
(* One instruction of the draft of ICWS '94 (without P-space), as          *)
(* BenchMARS94nop.c and OptMARS94nop.c execute it.                         *)
(*                                                                         *)
(* Both files first look the whole instruction up among the most frequent  *)
(* ones, which have hand-optimized cases.  Any other instruction takes     *)
(* two steps.  Its operands are evaluated: in BenchMARS94nop.c by one of   *)
(* 64 cases for the pair of modes, in OptMARS94nop.c by two switches, one  *)
(* for each operand.  Then a switch on opcode and modifier, which is the   *)
(* same in both files, changes the core and the queue.                     *)
(***************************************************************************)
EXTENDS Integers

CONSTANT CoreSize

Address == 0 .. CoreSize - 1

\* DIRECT, IMMEDIATE, B_INDIRECT, B_PREDECREMENT, B_POSTINCREMENT,
\* A_INDIRECT, A_PREDECREMENT, A_POSTINCREMENT
Mode     == {"$", "#", "@", "<", ">", "*", "{", "}"}
Modifier == {"A", "B", "AB", "BA", "F", "X", "I"}

\* The opcodes the switch has cases for.  LDP and STP belong to P-space.
Executed == {"DAT", "MOV", "ADD", "SUB", "MUL", "DIV", "MOD", "JMP", "JMZ",
             "JMN", "DJN", "SEQ", "SNE", "SLT", "SPL", "NOP"}
Opcode   == Executed \cup {"LDP", "STP"}

\* insn_t.  The field insn is opcode, modifier and modes.
Code == Opcode \X Modifier \X Mode \X Mode
Insn == [insn : Code, a : Address, b : Address]
Core == [Address -> Insn]

op(i)  == i.insn[1]
mod(i) == i.insn[2]
am(i)  == i.insn[3]
bm(i)  == i.insn[4]

\* What memset leaves in every cell.
Blank == [insn |-> <<"DAT", "F", "$", "$">>, a |-> 0, b |-> 0]

----------------------------------------------------------------------------
(* BenchMacros.h *)

\* ASSIGNADDR, ADDADDR and ADDMOD; SUBMOD; DECMOD; INCMOD and IPINCMOD.
Plus(x, y)  == IF x + y >= CoreSize THEN x + y - CoreSize ELSE x + y
Minus(x, y) == IF x < y THEN x - y + CoreSize ELSE x - y
Dec(x)      == IF x = 0 THEN CoreSize - 1 ELSE x - 1
\* Mutant: wraps to one address behind the core.
IncWide(x) == IF x = CoreSize THEN 0 ELSE x + 1

Inc(x) == IF x + 1 = CoreSize THEN 0 ELSE x + 1

----------------------------------------------------------------------------
(* What an instruction does: the core behind it, what becomes of the       *)
(* process, and the address it queues, or the second one of a split.       *)

Continues(c, x) == [core |-> c, does |-> "continue", next |-> x]
Splits(c, x)    == [core |-> c, does |-> "split", next |-> x]
Dies(c)         == [core |-> c, does |-> "die", next |-> -1]
Vanishes(c)     == [core |-> c, does |-> "lost", next |-> -1]

----------------------------------------------------------------------------
(* Operands.  An evaluated operand is its address, the values that were    *)
(* read there, and the core behind the evaluation.                         *)

\* The field that serves as the pointer.
Via(mode) == IF mode \in {"@", "<", ">"} THEN "b" ELSE "a"

Immediate(c, ip) == [core |-> c, addr |-> ip, a |-> c[ip].a, b |-> c[ip].b]

\* An operand that is not immediate.  A predecrement comes before the
\* pointer is used, a postincrement after the values have been read.
Through(c, ip, mode, field) ==
  LET ptr  == Plus(ip, field)
      f    == Via(mode)
      pre  == IF mode \in {"<", "{"} THEN [c EXCEPT ![ptr][f] = Dec(@)] ELSE c
      addr == IF mode = "$" THEN ptr ELSE Plus(ptr, pre[ptr][f])
      post == IF mode \in {">", "}"} THEN [pre EXCEPT ![ptr][f] = Inc(@)]
                                     ELSE pre
  IN  [core |-> post, addr |-> addr, a |-> pre[addr].a, b |-> pre[addr].b]

\* The two switches of OptMARS94nop.c.  The fields of the instruction are
\* saved before A is evaluated, and stand for an immediate B.
OptA(c, ip) ==
  LET mode == am(c[ip])
  IN  IF mode = "#" THEN Immediate(c, ip) ELSE Through(c, ip, mode, c[ip].a)

OptB(c, ip) ==
  LET behind == OptA(c, ip).core
      mode   == bm(c[ip])
  IN  IF mode = "#" THEN [Immediate(c, ip) EXCEPT !.core = behind]
                    ELSE Through(behind, ip, mode, c[ip].b)

\* The 64 cases of BenchMARS94nop.c.  A case evaluates A, then B with the
\* B field the instruction has by then, or with the one saved before A.
Live(A, ip, mode) ==
  IF mode = "#" THEN Immediate(A.core, ip)
                ELSE Through(A.core, ip, mode, A.core[ip].b)

\* No mode of A that leaves the core alone needs anything saved.
ImmediateA(c, ip) ==
  LET A == Immediate(c, ip) IN <<A, Live(A, ip, bm(c[ip]))>>

DirectA(c, ip) ==
  LET A == Through(c, ip, "$", c[ip].a) IN <<A, Live(A, ip, bm(c[ip]))>>

BIndirectA(c, ip) ==
  LET A == Through(c, ip, "@", c[ip].a) IN <<A, Live(A, ip, bm(c[ip]))>>

AIndirectA(c, ip) ==
  LET A == Through(c, ip, "*", c[ip].a) IN <<A, Live(A, ip, bm(c[ip]))>>

\* Mutant: the B field is not saved.
BPredecrementALive(c, ip) ==
  LET A == Through(c, ip, "<", c[ip].a) IN <<A, Live(A, ip, bm(c[ip]))>>

\* Modes that change a B field: the one of the instruction may be it.
BPredecrementA(c, ip) ==
  LET A    == Through(c, ip, "<", c[ip].a)
      rb_b == c[ip].b
  IN  <<A, IF bm(c[ip]) = "#"
             THEN [Immediate(A.core, ip) EXCEPT !.b = rb_b]
             ELSE Through(A.core, ip, bm(c[ip]), rb_b)>>

BPostincrementA(c, ip) ==
  LET A    == Through(c, ip, ">", c[ip].a)
      rb_b == c[ip].b
  IN  <<A, IF bm(c[ip]) = "#"
             THEN [Immediate(A.core, ip) EXCEPT !.b = rb_b]
             ELSE Through(A.core, ip, bm(c[ip]), rb_b)>>

\* Modes that change an A field, which only an immediate B can read.
APredecrementA(c, ip) ==
  LET A    == Through(c, ip, "{", c[ip].a)
      rb_a == c[ip].a
  IN  <<A, IF bm(c[ip]) = "#"
             THEN [Immediate(A.core, ip) EXCEPT !.a = rb_a]
             ELSE Live(A, ip, bm(c[ip]))>>

APostincrementA(c, ip) ==
  LET A    == Through(c, ip, "}", c[ip].a)
      rb_a == c[ip].a
  IN  <<A, IF bm(c[ip]) = "#"
             THEN [Immediate(A.core, ip) EXCEPT !.a = rb_a]
             ELSE Live(A, ip, bm(c[ip]))>>

BenchOperands(c, ip) ==
  CASE am(c[ip]) = "#" -> ImmediateA(c, ip)
    [] am(c[ip]) = "$" -> DirectA(c, ip)
    [] am(c[ip]) = "@" -> BIndirectA(c, ip)
    [] am(c[ip]) = "<" -> BPredecrementA(c, ip)
    [] am(c[ip]) = ">" -> BPostincrementA(c, ip)
    [] am(c[ip]) = "*" -> AIndirectA(c, ip)
    [] am(c[ip]) = "{" -> APredecrementA(c, ip)
    [] am(c[ip]) = "}" -> APostincrementA(c, ip)

----------------------------------------------------------------------------
(* The switch on opcode and modifier.  A and B are the operands of the     *)
(* instruction at ip with modifier m; B.core is the core behind both.      *)

\* The fields of B a modifier selects, each with the field of A it meets.
Meets(m) == CASE m = "A"          -> [a |-> "a"]
              [] m = "B"          -> [b |-> "b"]
              [] m = "AB"         -> [b |-> "a"]
              [] m = "BA"         -> [a |-> "b"]
              [] m = "X"          -> [a |-> "b", b |-> "a"]
              [] m \in {"F", "I"} -> [a |-> "a", b |-> "b"]

\* The core behind both operands with the fields of values written to B.
Wrote(B, values) ==
  [B.core EXCEPT ![B.addr] =
     [x \in {"insn", "a", "b"} |->
        IF x \in DOMAIN values THEN values[x] ELSE @[x]]]

\* MOV.I copies the code as it is by now.
Mov(A, B, m, ip) ==
  LET moved == Wrote(B, [x \in DOMAIN Meets(m) |-> A[Meets(m)[x]]])
  IN  Continues(IF m # "I" THEN moved
                ELSE [moved EXCEPT ![B.addr].insn = B.core[A.addr].insn], Inc(ip))

Add(A, B, m, ip) ==
  Continues(Wrote(B, [x \in DOMAIN Meets(m) |-> Plus(B[x], A[Meets(m)[x]])]),
            Inc(ip))

Sub(A, B, m, ip) ==
  Continues(Wrote(B, [x \in DOMAIN Meets(m) |-> Minus(B[x], A[Meets(m)[x]])]),
            Inc(ip))

\* The product of two fields fits u32_t: a core has at most 10^9 cells, and
\* u32_t is unsigned long.
Mul(A, B, m, ip) ==
  Continues(Wrote(B, [x \in DOMAIN Meets(m) |->
                        (B[x] * A[Meets(m)[x]]) % CoreSize]), Inc(ip))

\* The fields that meet a divisor other than zero are written.  A division
\* by zero kills the process, but with modifiers F, X and I the other field
\* is still written.
Sound(A, m) == {x \in DOMAIN Meets(m) : A[Meets(m)[x]] # 0}

Quotients(A, m, after, ip) ==
  IF Sound(A, m) = DOMAIN Meets(m) THEN Continues(after, Inc(ip)) ELSE Dies(after)

Div(A, B, m, ip) ==
  Quotients(A, m, Wrote(B, [x \in Sound(A, m) |-> B[x] \div A[Meets(m)[x]]]), ip)

\* Mutant: nobody dies of MOD.
ModuloLives(A, B, m, ip) ==
  Continues(Wrote(B, [x \in Sound(A, m) |-> B[x] % A[Meets(m)[x]]]), Inc(ip))

Modulo(A, B, m, ip) ==
  Quotients(A, m, Wrote(B, [x \in Sound(A, m) |-> B[x] % A[Meets(m)[x]]]), ip)

\* The fields of B the jumps look at.
Tested(m) == DOMAIN Meets(m)

JumpIf(condition, A, B, ip) ==
  Continues(B.core, IF condition THEN A.addr ELSE Inc(ip))

Jmz(A, B, m, ip) == JumpIf(\A x \in Tested(m) : B[x] = 0, A, B, ip)

\* Mutant: JMN.F wants both fields other than zero.
JmnBoth(A, B, m, ip) == JumpIf(\A x \in Tested(m) : B[x] # 0, A, B, ip)

Jmn(A, B, m, ip) == JumpIf(\E x \in Tested(m) : B[x] # 0, A, B, ip)

\* DJN decrements the fields as they are by now, but tests what was read.
Djn(A, B, m, ip) ==
  LET less == [x \in Tested(m) |-> Dec(B.core[B.addr][x])]
  IN  JumpIf(\E x \in Tested(m) : B[x] # 1, A,
             [B EXCEPT !.core = Wrote(B, less)], ip)

SkipIf(condition, B, ip) ==
  Continues(B.core, IF condition THEN Inc(Inc(ip)) ELSE Inc(ip))

\* SEQ.I and SNE.I compare the codes as they are by now.
Equal(A, B, m) ==
  /\ \A x \in Tested(m) : A[Meets(m)[x]] = B[x]
  /\ m = "I" => B.core[A.addr].insn = B.core[B.addr].insn

Slt(A, B, m, ip) == SkipIf(\A x \in Tested(m) : A[Meets(m)[x]] < B[x], B, ip)

\* The whole switch.  Its default case prints a message, queues nothing, and
\* is reached with LDP and STP.
Switch(A, B, insn, ip) ==
  LET o == op(insn)
      m == mod(insn)
  IN  CASE o = "MOV" -> Mov(A, B, m, ip)
        [] o = "DAT" -> Dies(B.core)
        [] o = "SPL" -> Splits(B.core, A.addr)
        [] o = "DJN" -> Djn(A, B, m, ip)
        [] o = "SUB" -> Sub(A, B, m, ip)
        [] o = "JMZ" -> Jmz(A, B, m, ip)
        [] o = "ADD" -> Add(A, B, m, ip)
        [] o = "JMN" -> Jmn(A, B, m, ip)
        [] o = "SNE" -> SkipIf(~Equal(A, B, m), B, ip)
        [] o = "JMP" -> Continues(B.core, A.addr)
        [] o = "SEQ" -> SkipIf(Equal(A, B, m), B, ip)
        [] o = "SLT" -> Slt(A, B, m, ip)
        [] o = "MUL" -> Mul(A, B, m, ip)
        [] o = "DIV" -> Div(A, B, m, ip)
        [] o = "NOP" -> Continues(B.core, Inc(ip))
        [] o = "MOD" -> Modulo(A, B, m, ip)
        [] OTHER     -> Vanishes(B.core)

BenchSlow(c, ip) ==
  LET operands == BenchOperands(c, ip)
  IN  Switch(operands[1], operands[2], c[ip], ip)

OptSlow(c, ip) == Switch(OptA(c, ip), OptB(c, ip), c[ip], ip)

----------------------------------------------------------------------------
(* The most frequent instructions, in the order of the switches.  The      *)
(* cases compute no more than they need, and read it when it suits them.   *)

at(c, x, f)   == Plus(x, c[x][f])
Bump(c, x, f) == [c EXCEPT ![x][f] = Inc(@)]
Drop(c, x, f) == [c EXCEPT ![x][f] = Dec(@)]

\* Copy the cell at from to x: as it is now, except for the field that was
\* saved before a pointer changed.
Copies(now, from, x, ip) == Continues([now EXCEPT ![x] = now[from]], Inc(ip))

CopiesA(before, now, from, x, ip) ==
  Continues([now EXCEPT ![x] = [now[from] EXCEPT !.a = before[from].a]], Inc(ip))

CopiesB(before, now, from, x, ip) ==
  Continues([now EXCEPT ![x] = [now[from] EXCEPT !.b = before[from].b]], Inc(ip))

\* Decrement the fields at x, whose values were tested before the pointer
\* changed, and jump to a.
DjnFields(before, now, fields, x, a, ip) ==
  Continues([now EXCEPT ![x] = [f \in {"insn", "a", "b"} |->
                                  IF f \in fields THEN Dec(@[f]) ELSE @[f]]],
            IF \A f \in fields : before[x][f] = 1 THEN Inc(ip) ELSE a)

Both == {"a", "b"}

\* BenchMARS94nop.c
BenchFast5(c, ip) ==
  LET code == c[ip].insn
      a    == at(c, ip, "a")
      b    == at(c, ip, "b")
  IN  CASE code = <<"DJN", "B", "$", "#">> -> DjnFields(c, c, {"b"}, ip, a, ip)
        [] code = <<"DAT", "F", ">", ">">> -> Dies(Bump(Bump(c, a, "b"), b, "b"))
        [] code = <<"DJN", "F", "$", "<">> ->
             LET d == Drop(c, b, "b")
             IN  DjnFields(d, d, Both, at(d, b, "b"), a, ip)
        [] code = <<"MOV", "I", "$", "@">> -> Copies(c, a, at(c, b, "b"), ip)
        [] code = <<"ADD", "F", "$", "$">> ->
             LET d == [c EXCEPT ![b].a = Plus(@, c[a].a)]
             IN  Continues([d EXCEPT ![b].b = Plus(@, d[a].b)], Inc(ip))
        [] OTHER -> BenchSlow(c, ip)

BenchFast4(c, ip) ==
  LET code == c[ip].insn
      a    == at(c, ip, "a")
      b    == at(c, ip, "b")
  IN  CASE code = <<"SPL", "B", "#", ">">> -> Splits(Bump(c, b, "b"), ip)
        [] code = <<"DJN", "F", "$", "}">> ->
             DjnFields(c, Bump(c, b, "a"), Both, at(c, b, "a"), a, ip)
        [] code = <<"JMP", "B", "$", "$">> -> Continues(c, a)
        [] code = <<"SPL", "B", "@", "<">> ->
             Splits(Drop(c, b, "b"), at(c, a, "b"))
        [] code = <<"DJN", "F", "$", "{">> ->
             LET d == Drop(c, b, "a")
             IN  DjnFields(d, d, Both, at(d, b, "a"), a, ip)
        [] code = <<"JMP", "B", "$", "<">> -> Continues(Drop(c, b, "b"), a)
        [] OTHER -> BenchFast5(c, ip)

BenchFast3(c, ip) ==
  LET code == c[ip].insn
      a    == at(c, ip, "a")
      b    == at(c, ip, "b")
  IN  CASE code = <<"MOV", "I", "$", "}">> ->
             CopiesA(c, Bump(c, b, "a"), a, at(c, b, "a"), ip)
        [] code = <<"SPL", "B", "$", "$">> -> Splits(c, a)
        [] code = <<"MOV", "I", "@", ">">> ->
             CopiesB(c, Bump(c, b, "b"), at(c, a, "b"), at(c, b, "b"), ip)
        [] code = <<"SPL", "B", "#", "{">> -> Splits(Drop(c, b, "a"), ip)
        [] code = <<"MOV", "I", "}", ">">> ->
             LET d    == Bump(c, a, "a")
                 e    == Bump(d, b, "b")
                 from == at(c, a, "a")
             IN  Continues([e EXCEPT ![at(d, b, "b")] =
                              [c[from] EXCEPT !.insn = e[from].insn]], Inc(ip))
        [] code = <<"DJN", "B", "$", "{">> ->
             LET d == Drop(c, b, "a")
             IN  DjnFields(d, d, {"b"}, at(d, b, "a"), a, ip)
        [] OTHER -> BenchFast4(c, ip)

BenchFast2(c, ip) ==
  LET code == c[ip].insn
      a    == at(c, ip, "a")
      b    == at(c, ip, "b")
  IN  CASE code = <<"MOV", "I", "#", "{">> ->
             LET d == Drop(c, b, "a") IN CopiesA(c, d, ip, at(d, b, "a"), ip)
        [] code = <<"DJN", "F", "$", ">">> ->
             DjnFields(c, Bump(c, b, "b"), Both, at(c, b, "b"), a, ip)
        [] code = <<"MOV", "I", "*", ">">> ->
             CopiesB(c, Bump(c, b, "b"), at(c, a, "a"), at(c, b, "b"), ip)
        [] code = <<"SPL", "B", "#", "#">> -> Splits(c, ip)
        [] code = <<"DAT", "F", "<", "$">> -> Dies(Drop(c, a, "b"))
        [] code = <<"SPL", "B", "#", "<">> -> Splits(Drop(c, b, "b"), ip)
        [] OTHER -> BenchFast3(c, ip)

\* Mutant: MOV.I #, < copies the B field behind the predecrement.
BenchFast1Live(c, ip) ==
  LET b == at(c, ip, "b")
      d == Drop(c, b, "b")
  IN  IF c[ip].insn = <<"MOV", "I", "#", "<">>
        THEN Copies(d, ip, at(d, b, "b"), ip) ELSE BenchFast2(c, ip)

BenchFast1(c, ip) ==
  LET code == c[ip].insn
      a    == at(c, ip, "a")
      b    == at(c, ip, "b")
  IN  CASE code = <<"MOV", "I", "#", "$">> -> Copies(c, ip, b, ip)
        [] code = <<"SPL", "B", "#", "$">> -> Splits(c, ip)
        [] code = <<"MOV", "I", "#", "*">> -> Copies(c, ip, at(c, b, "a"), ip)
        [] code = <<"MOV", "I", "$", ">">> ->
             CopiesB(c, Bump(c, b, "b"), a, at(c, b, "b"), ip)
        [] code = <<"DAT", "F", "$", "$">> -> Dies(c)
        [] code = <<"MOV", "I", "#", "<">> ->
             LET d == Drop(c, b, "b") IN CopiesB(c, d, ip, at(d, b, "b"), ip)
        [] code = <<"MOV", "I", "#", "}">> ->
             CopiesA(c, Bump(c, b, "a"), ip, at(c, b, "a"), ip)
        [] OTHER -> BenchFast2(c, ip)

\* OptMARS94nop.c
OptFast4(c, ip) ==
  LET code == c[ip].insn
      a    == at(c, ip, "a")
      b    == at(c, ip, "b")
      d    == Drop(c, b, "b")
  IN  CASE code = <<"DJN", "F", "$", "<">> ->
             DjnFields(d, d, Both, at(d, b, "b"), a, ip)
        [] code = <<"MOV", "I", "$", "<">> -> CopiesB(c, d, a, at(d, b, "b"), ip)
        [] code = <<"MOV", "I", "$", "@">> -> Copies(c, a, at(c, b, "b"), ip)
        [] code = <<"MOV", "I", "}", ">">> ->
             LET e    == Bump(c, a, "a")
                 g    == Bump(e, b, "b")
                 from == at(c, a, "a")
             IN  Continues([g EXCEPT ![at(e, b, "b")] =
                              [c[from] EXCEPT !.insn = g[from].insn]], Inc(ip))
        [] code = <<"MOV", "I", "{", "<">> ->
             LET e == Drop(c, a, "a")
                 g == Drop(e, b, "b")
             IN  CopiesB(e, g, at(e, a, "a"), at(g, b, "b"), ip)
        [] OTHER -> OptSlow(c, ip)

OptFast3(c, ip) ==
  LET code == c[ip].insn
      a    == at(c, ip, "a")
      b    == at(c, ip, "b")
      d    == Drop(c, b, "a")
  IN  CASE code = <<"MOV", "I", "@", ">">> ->
             CopiesB(c, Bump(c, b, "b"), at(c, a, "b"), at(c, b, "b"), ip)
        [] code = <<"SPL", "B", "#", "{">> -> Splits(d, ip)
        [] code = <<"SPL", "B", "#", ">">> -> Splits(Bump(c, b, "b"), ip)
        [] code = <<"JMP", "B", "$", "$">> -> Continues(c, a)
        [] code = <<"SPL", "B", "@", "<">> ->
             Splits(Drop(c, b, "b"), at(c, a, "b"))
        [] code = <<"DJN", "B", "$", "{">> ->
             DjnFields(d, d, {"b"}, at(d, b, "a"), a, ip)
        [] code = <<"DJN", "F", "$", "{">> ->
             DjnFields(d, d, Both, at(d, b, "a"), a, ip)
        [] OTHER -> OptFast4(c, ip)

OptFast2(c, ip) ==
  LET code == c[ip].insn
      a    == at(c, ip, "a")
      b    == at(c, ip, "b")
  IN  CASE code = <<"MOV", "I", "#", "<">> ->
             LET d == Drop(c, b, "b") IN CopiesB(c, d, ip, at(d, b, "b"), ip)
        [] code = <<"MOV", "I", "*", ">">> ->
             CopiesB(c, Bump(c, b, "b"), at(c, a, "a"), at(c, b, "b"), ip)
        [] code = <<"DAT", "F", "<", "$">> -> Dies(Drop(c, a, "b"))
        [] code = <<"SPL", "B", "$", "$">> -> Splits(c, a)
        [] code = <<"DAT", "F", ">", "$">> -> Dies(Bump(c, a, "b"))
        [] code = <<"MOV", "I", "#", "{">> ->
             LET d == Drop(c, b, "a") IN CopiesA(c, d, ip, at(d, b, "a"), ip)
        [] code = <<"DAT", "F", ">", ">">> -> Dies(Bump(Bump(c, a, "b"), b, "b"))
        [] OTHER -> OptFast3(c, ip)

OptFast1(c, ip) ==
  LET code == c[ip].insn
      a    == at(c, ip, "a")
      b    == at(c, ip, "b")
  IN  CASE code = <<"MOV", "I", "#", "$">> -> Copies(c, ip, b, ip)
        [] code = <<"SPL", "B", "#", "$">> -> Splits(c, ip)
        [] code = <<"MOV", "I", "$", ">">> ->
             CopiesB(c, Bump(c, b, "b"), a, at(c, b, "b"), ip)
        [] code = <<"MOV", "I", "#", "*">> -> Copies(c, ip, at(c, b, "a"), ip)
        [] code = <<"SPL", "B", "#", "#">> -> Splits(c, ip)
        [] code = <<"DJN", "F", "$", ">">> ->
             DjnFields(c, Bump(c, b, "b"), Both, at(c, b, "b"), a, ip)
        [] code = <<"SPL", "B", "#", "<">> -> Splits(Drop(c, b, "b"), ip)
        [] code = <<"DAT", "F", "$", "$">> -> Dies(c)
        [] OTHER -> OptFast2(c, ip)

----------------------------------------------------------------------------

\* A pass through the loop body of run_94nop and p_run_94nop of
\* BenchMARS94nop.c, and of run_94nop of OptMARS94nop.c.  The p_run_94nop
\* of OptMARS94nop.c has no frequent cases: it is OptSlow.
Bench(c, ip) == BenchFast1(c, ip)
Opt(c, ip)   == OptFast1(c, ip)
=============================================================================
