----------------------------- MODULE Process88 -----------------------------
(***************************************************************************)
(* A warrior of a single process, alone in the core of run_88: what the    *)
(* instructions of Exec88 do when they are executed one after the other,   *)
(* each changing the core the next one runs in.  With maxprocesses = 1 an  *)
(* SPL queues nothing but the next instruction.                            *)
(***************************************************************************)
EXTENDS Exec88

CONSTANTS
  Under,    \* instructions a run may start with at the process
  Backdrop  \* instructions that may fill the rest of the core

\* get_instructions copies what the parser or the user made of a program.
ASSUME ProcessAssumption ==
  \A insn \in Under \cup Backdrop : insn \in Insn /\ insn.insn \in ValidCode

VARIABLES
  core,     \* core
  ip        \* the process, -1 when it has died or was lost

vars == <<core, ip>>

Init ==
  /\ \E first \in Under, rest \in [Address \ {0} -> Backdrop] :
       core = [x \in Address |-> IF x = 0 THEN first ELSE rest[x]]
  /\ ip = 0

\* A pass through the switch.
Turn ==
  /\ ip # -1
  /\ core' = CoreAfter(core, ip)
  /\ ip' = CASE Outcome(core, ip) = "continue" -> Queued(core, ip)
             [] Outcome(core, ip) = "split"    -> IpIncMod(ip)
             [] OTHER                          -> -1

Next == Turn

Spec == Init /\ [][Next]_vars

----------------------------------------------------------------------------
(* Properties, checked by Processes *)

\* A field never leaves the core, so that no macro of BenchMacros.h needs
\* more than one subtraction, and no pointer built from a field leaves the
\* array.  The code of every cell stays one that the switch has a case for:
\* the default case, which ends the round and breaks p_run_88's array of
\* four results, is never reached from valid programs.
CoreOK ==
  /\ core \in Core
  /\ \A x \in Address : core[x].insn \in ValidCode
  /\ ip \in Address \cup {-1}

\* core and x, moved d cells further.
Moved(c, d) == [x \in Address |-> c[Minus(x, d)]]

\* Programs are relocatable: in a core that is rotated by d an instruction
\* does the same, rotated by d.  Nothing wraps too early or too late at the
\* end of the core, and no absolute address gets into a field.
Relocatable ==
  ip # -1 =>
    \A d \in Address \ {0} :
      LET there == Moved(core, d)
          at    == Plus(ip, d)
      IN  /\ CoreAfter(there, at) = Moved(CoreAfter(core, ip), d)
          /\ Outcome(there, at) = Outcome(core, ip)
          /\ Queued(there, at) = Plus(Queued(core, ip), d)

\* The core with the operation of the instruction at ip replaced by o.
With(o, c) == [c EXCEPT ![ip].insn = <<o, am(c[ip]), bm(c[ip])>>]

\* The instruction at ip writes to a cell that its operands do not depend on.
detached ==
  /\ "<" \notin {am(core[ip]), bm(core[ip])}
  /\ bAddr(core, ip) \notin {ip, aAddr(core, ip), Plus(ip, core[ip].a),
                             Plus(ip, core[ip].b)}

\* The case blocks of MOV and CMP agree on what the operands are and on what
\* is copied or compared: CMP finds equal what MOV with the same operands
\* has just copied.
MovThenCmp ==
  ip # -1 /\ op(core[ip]) = "MOV" /\ detached
    /\ (immediate(core, ip) \/ aAddr(core, ip) # ip) =>
      LET compare == With("CMP", CoreAfter(core, ip))
      IN  Queued(compare, ip) = IpIncMod(IpIncMod(ip))

\* Over a whole run no code comes out of nothing: arithmetic works on fields
\* only, and an instruction that changes a code is a MOV that copied it from
\* another cell, to one cell.
CodesCopied ==
  \A x \in Address : core'[x].insn # core[x].insn =>
    /\ op(core[ip]) = "MOV"
    /\ \E y \in Address : core'[x].insn = core[y].insn
    /\ \A y \in Address \ {x} : core'[y].insn = core[y].insn
=============================================================================
