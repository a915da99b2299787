------------------------------ MODULE MCMars94 ------------------------------
(***************************************************************************)
(* Mars94 with warriors of one or two instructions: an imp, a splitter, a  *)
(* bomber through a postincremented pointer, a divider that may divide by  *)
(* zero, a DJN stream, a scanner, a bomb with side effects, and an         *)
(* instruction of P-space.                                                 *)
(***************************************************************************)
EXTENDS Mars94

Cell(o, m, x, a, y, b) == [insn |-> <<o, m, x, y>>, a |-> a, b |-> b]

Imp     == Cell("MOV", "I", "$", 0, "$", 1)
Splits  == Cell("SPL", "B", "$", 0, "<", 1)
Bomber  == Cell("MOV", "I", "#", 3, "}", 1)
Divider == Cell("DIV", "X", "{", 1, "*", 2)
Stream  == Cell("DJN", "F", "$", 0, ">", 3)
Scanner == Cell("SNE", "I", "<", 4, "@", 1)
Bomb    == Cell("DAT", "F", ">", 1, ">", 1)
Foreign == Cell("LDP", "A", "#", 0, "$", 1)

Alphabet == {Imp, Splits, Bomber, Divider, Stream, Scanner, Bomb, Foreign}

Warriors ==
  {[insns |-> <<x>>, start |-> 0] : x \in Alphabet}
    \cup {[insns |-> <<x, y>>, start |-> 1] : x \in Alphabet, y \in Alphabet}
=============================================================================
