----------------------------- MODULE MCRedcode -----------------------------
(***************************************************************************)
(* Constants for checking Redcode with TLC: cores of 1 and 3 cells, and of *)
(* 200000, where the text of an instruction loses a digit; an int of 20    *)
(* and a long of 24 bits.  The texts have every opcode, with modes for     *)
(* which the rules of '88 differ.                                          *)
(***************************************************************************)
EXTENDS Redcode

MCCoreSizes == {1, 3, 200000}

\* -524288 is the smallest int, and the number before it does not fit.
\* There are opcodes, modifiers and modes, each also too large, and the last
\* opcode.  As fields of the large core they have one digit, two or
\* more, of either sign.
MCValues == {-524289, -524288, -1, 0, 1, 3, 6, 17}

\* Foreign states with a modifier 7, with fields and codes at their limit,
\* and just behind it.
MCStates == {<<3, 448, 0, 2>>, <<3, 175, 2, 0>>, <<3, 9151, 0, 0>>,
             <<3, 9152, 0, 0>>, <<1, 17, 0, 1>>, <<0, 0, 0, 0>>,
             <<200000, 175, 100000, 100001>>}

Text(o, m, am, a, bm, b) ==
  [opcode |-> o, modifier |-> m, amode |-> am, afield |-> a,
   bmode |-> bm, bfield |-> b, cut |-> FALSE]

CutText(t) == [t EXCEPT !.cut = TRUE]

MCTexts ==
  {Text(Mnemonics[o], "", modes[1], 1, modes[2], -2) :
     o \in DOMAIN Mnemonics, modes \in {<<"#", "">>, <<"", "#">>, <<"<", "@">>}}
    \cup {Text("CMP", "", "#", -524289, "<", 0), Text("JMP", "", "$", 0, ">", 0),
          Text("SNE", "BA", "*", 5, "}", 0), Text("DAT", "", "<", 5000000, "#", 0),
          CutText(Text("MOV", "", "", 0, "", 0))}
=============================================================================
