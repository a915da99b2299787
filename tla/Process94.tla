----------------------------- MODULE Process94 -----------------------------
(***************************************************************************)
(* A warrior of a single process, alone in the core of run_94nop: what the *)
(* instructions of Exec94 do when they are executed one after the other,   *)
(* each changing the core the next one runs in.  With maxprocesses = 1 an  *)
(* SPL queues nothing but the next instruction.                            *)
(***************************************************************************)
EXTENDS Exec94

CONSTANTS
  Under,    \* instructions a run may start with at the process
  Backdrop  \* instructions that may fill the rest of the core

VARIABLES
  core,     \* core
  ip        \* the process, -1 when it has died or was lost

vars == <<core, ip>>

Init ==
  /\ \E first \in Under, rest \in [Address \ {0} -> Backdrop] :
       core = [x \in Address |-> IF x = 0 THEN first ELSE rest[x]]
  /\ ip = 0

\* A pass through the loop body.
Turn ==
  /\ ip # -1
  /\ LET result == Bench(core, ip)
     IN  /\ core' = result.core
         /\ ip' = CASE result.does = "continue" -> result.next
                    [] result.does = "split"    -> Inc(ip)
                    [] OTHER                    -> -1

Next == Turn

Spec == Init /\ [][Next]_vars

----------------------------------------------------------------------------
(* Properties *)

\* A field never leaves the core, so that no macro of BenchMacros.h needs
\* more than one subtraction, and no pointer built from a field leaves the
\* array.
CoreOK ==
  /\ core \in Core
  /\ ip \in Address \cup {-1}

\* core and a result, moved d cells further.
Moved(c, d) == [x \in Address |-> c[Minus(x, d)]]

MovedResult(r, d) ==
  [r EXCEPT !.core = Moved(@, d), !.next = IF @ = -1 THEN -1 ELSE Plus(@, d)]

\* Programs are relocatable: in a core that is rotated by d an instruction
\* does the same, rotated by d.
Relocatable ==
  LET here == Bench(core, ip)
  IN  ip # -1 => \A d \in Address \ {0} :
        Bench(Moved(core, d), Plus(ip, d)) = MovedResult(here, d)

\* A frequent instruction does what the two general steps would do with it:
\* what the special case does not compute is not needed, and what it does
\* not save has not changed when it is read.  As p_run_94nop of
\* OptMARS94nop.c has no special cases, both functions run the same fights.
FastAsSlow ==
  ip # -1 => /\ Bench(core, ip) = BenchSlow(core, ip)
             /\ Opt(core, ip) = OptSlow(core, ip)

\* The 64 cases of BenchMARS94nop.c for pairs of modes and the two switches
\* of OptMARS94nop.c evaluate operands alike, although they save different
\* registers: a program that was optimized with one is judged by the other.
BenchAsOpt == ip # -1 => BenchSlow(core, ip) = OptSlow(core, ip)

\* c with the opcode of the instruction at ip replaced by o.
Recoded(o, c) == [c EXCEPT ![ip].insn[1] = o]

\* DIV and MOD take the same decisions: the same divisions by zero kill the
\* process, the same fields are written nevertheless, and quotient and
\* remainder give back the field that was read.
DivThenMod ==
  ip # -1 /\ op(core[ip]) = "DIV" =>
    LET A        == OptA(core, ip)
        B        == OptB(core, ip)
        quotient == Bench(core, ip)
        rest     == Bench(Recoded("MOD", core), ip)
        q        == quotient.core[B.addr]
        r        == rest.core[B.addr]
        now      == B.core[B.addr]
    IN  /\ quotient.does = rest.does /\ quotient.next = rest.next
        /\ \A x \in Both :
             \/ q[x] = now[x] /\ r[x] = now[x]
             \/ \E y \in Both : q[x] * A[y] + r[x] = B[x] /\ r[x] < A[y]
        /\ quotient.does = "continue" =>
             \E x, y \in Both : q[x] * A[y] + r[x] = B[x] /\ r[x] < A[y]

\* SEQ and SNE, JMZ and JMN change the core in the same way and decide the
\* opposite, with every modifier.  SEQ.I and SNE.I look at whole codes, also
\* at their own.
TestsOpposite ==
  LET opposite == [SEQ |-> "SNE", JMZ |-> "JMN"]
      o        == op(core[ip])
      A        == OptA(core, ip)
      self     == mod(core[ip]) = "I"
                    /\ (ip = A.addr) # (ip = OptB(core, ip).addr)
  IN  ip # -1 /\ o \in DOMAIN opposite /\ ~(o = "SEQ" /\ self) =>
        LET one   == Bench(core, ip)
            other == Bench(Recoded(opposite[o], core), ip)
        IN  /\ other.core = Recoded(opposite[o], one.core)
            /\ {one.next, other.next} =
                 {Inc(ip), IF o = "SEQ" THEN Inc(Inc(ip)) ELSE A.addr}
=============================================================================
