---------------------------- MODULE MCProcesses ----------------------------
(***************************************************************************)
(* Processes on a core of three cells.  The process starts at any valid    *)
(* instruction of '88 with any fields, or at one of the '94 draft; the two *)
(* other cells hold instructions that make an indirect operand point to    *)
(* each of the three cells and that change the core when control reaches   *)
(* them.                                                                   *)
(***************************************************************************)
EXTENDS Processes

\* The instructions of the draft, apart from the instance whose constants they
\* are.
Draft == INSTANCE Exec94

AllUnder == [insn : ValidCode, a : Address, b : Address]

Cells == {[insn |-> <<"SUB", "<", "@">>, a |-> 1, b |-> 2],
          [insn |-> <<"DJN", "@", "<">>, a |-> 2, b |-> 1],
          Blank}

\* All pairs of modes with a few instructions; those with special cases, which
\* are among these pairs, with some; and all instructions with three.
Codes94 ==
  {<<"MOV", "I">>, <<"DJN", "F">>, <<"SEQ", "I">>} \X (Draft!Mode \X Draft!Mode)
    \cup {<<"SPL", "B">>, <<"DAT", "F">>, <<"JMP", "B">>, <<"DJN", "B">>,
          <<"ADD", "F">>} \X ({"#", "$", "@", "<", ">"} \X {"#", "$", "<", ">", "{"})
    \cup (Draft!Opcode \X Draft!Modifier)
           \X {<<"$", ">">>, <<"{", "#">>, <<"<", "}">>}

AllUnder94 ==
  {[insn |-> <<c[1][1], c[1][2], c[2][1], c[2][2]>>, a |-> x, b |-> y] :
     c \in Codes94, x \in Address, y \in Address}

Cells94 == {[insn |-> <<"MUL", "X", "<", "}">>, a |-> 1, b |-> 2],
            [insn |-> <<"DJN", "F", "$", ">">>, a |-> 2, b |-> 0]}
=============================================================================
