------------------------------ MODULE MCMars88 ------------------------------
(***************************************************************************)
(* Mars88 with warriors of one or two instructions: an imp, a splitter, a  *)
(* bomber, a scanner, a DAT that decrements what it points at, and a jump  *)
(* through a pointer.  Losers hold the JMZ that may drop its process.      *)
(***************************************************************************)
EXTENDS Mars88

Cell(o, m, x, n, y) == [insn |-> <<o, m, n>>, a |-> x, b |-> y]

Imp     == Cell("MOV", "$", 0, "$", 1)
Splits  == Cell("SPL", "$", 0, "<", 1)
Bomber  == Cell("ADD", "#", 2, "@", 1)
Counter == Cell("DJN", "@", 1, "<", 3)
Bomb    == Cell("DAT", "<", 1, "<", 2)
Scanner == Cell("CMP", "<", 4, "$", 2)

Alphabet == {Imp, Splits, Bomber, Counter, Bomb, Scanner}

Warriors ==
  {[insns |-> <<x>>, start |-> 0] : x \in Alphabet}
    \cup {[insns |-> <<x, y>>, start |-> s] :
            x \in Alphabet, y \in Alphabet, s \in 0 .. 1}

Jmz(y) == [insns |-> <<Cell("JMZ", "<", 3, "@", y)>>, start |-> 0]

Losers == {Jmz(0), Jmz(1), [insns |-> <<Imp>>, start |-> 0]}
=============================================================================
