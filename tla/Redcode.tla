------------------------------ MODULE Redcode ------------------------------
(***************************************************************************)
(* The instruction objects of Corewar.Redcode: Instruction88 for ICWS '88  *)
(* and Instruction for the draft of '94.                                   *)
(*                                                                         *)
(* An object keeps opcode, modifier and modes packed into one number,      *)
(* which Corewar.Benchmarking copies into the core as it is; setters       *)
(* replace single groups of its bits.  Objects are also made from pickled  *)
(* states and, by fromString, from text.  A text is a record of what its   *)
(* parts say: characters and blanks are left out.                          *)
(***************************************************************************)
EXTENDS Integers, Sequences

CONSTANTS
  CoreSizes,    \* coresizes an object may be made for
  Values,       \* numbers an attribute may be set to
  States,       \* foreign states an object may be made from
  Texts,        \* texts given to fromString
  IntRange,     \* 2^32
  LongRange     \* 2^64

VARIABLES
  obj,          \* the object the program works with
  foreign       \* it was made from a state given by the program

vars == <<obj, foreign>>

\* coresize, which is at most MAX_CORESIZE, fits into an int, and a long has
\* more bits than an int.
ASSUME RedcodeAssumption ==
  /\ IntRange \in Nat \ {0} /\ LongRange \in Nat
  /\ IntRange % 2 = 0 /\ LongRange >= 2 * IntRange
  /\ CoreSizes \subseteq 1 .. IntRange \div 2 - 1
  /\ Values \subseteq Int

Standard == {"88", "94"}
Refused  == [std |-> "refused"]

----------------------------------------------------------------------------
(* Instruction.h *)

\* The bits of a number that are worth low or more and less than high, where
\* they are; low and high are powers of two.
Bits(insn, low, high) == (insn % high) - (insn % low)

\* A bitwise or, with bm up to 7: a B-mode above 3 reaches into the
\* lowest bit of the A-mode, see FromString.
INSN88(op, am, bm) ==
  op * 16 + am * 4 + (IF am % 2 = 1 THEN bm % 4 ELSE bm)
OPCODE88(insn)        == insn \div 16
AMODE88(insn)         == Bits(insn, 4, 16) \div 4
BMODE88(insn)         == Bits(insn, 1, 4)
SETOPCODE88(insn, op) == Bits(insn, 1, 16) + op * 16
SETAMODE88(insn, am)  == Bits(insn, 1, 4) + Bits(insn, 16, 256) + am * 4
SETBMODE88(insn, bm)  == Bits(insn, 4, 256) + bm

INSN(op, mod, am, bm) == op * 512 + mod * 64 + am * 8 + bm
OPCODE(insn)          == insn \div 512
MODIFIER(insn)        == Bits(insn, 64, 512) \div 64
AMODE(insn)           == Bits(insn, 8, 64) \div 8
BMODE(insn)           == Bits(insn, 1, 8)
SETOPCODE(insn, op)   == Bits(insn, 1, 512) + op * 512
SETAMODE(insn, am)    == Bits(insn, 1, 8) + Bits(insn, 64, 16384) + am * 8
SETBMODE(insn, bm)    == Bits(insn, 8, 16384) + bm

\* Mutant: the mask has the highest bits of an opcode of '88 only.
SETMODIFIERMASK(insn, mod) == Bits(insn, 1, 64) + Bits(insn, 512, 8192) + mod * 64

SETMODIFIER(insn, mod) == Bits(insn, 1, 64) + Bits(insn, 512, 16384) + mod * 64

\* The attributes opcode, modifier, amode and bmode.
Opcode(x)   == IF x.std = "88" THEN OPCODE88(x.insn) ELSE OPCODE(x.insn)
Modifier(x) == IF x.std = "88" THEN 0 ELSE MODIFIER(x.insn)
AMode(x)    == IF x.std = "88" THEN AMODE88(x.insn) ELSE AMODE(x.insn)
BMode(x)    == IF x.std = "88" THEN BMODE88(x.insn) ELSE BMODE(x.insn)

MaxOpcode(std) == IF std = "88" THEN 10 ELSE 17
MaxMode(std)   == IF std = "88" THEN 3 ELSE 7

----------------------------------------------------------------------------
(* Fields are reduced modulo coresize *)

\* abs takes an int, and its argument is a long: only the lower half of it
\* is used.  There is no absolute value of the smallest int.
Abs(x) ==
  LET half == IntRange \div 2
      int  == ((x + half) % IntRange) - half
  IN  IF int < 0 /\ int # -half THEN -int ELSE int

\* Instruction88_SetAField and the like: coresize is unsigned.
ReducedUnsigned(x, coresize) ==
  LET abs == IF Abs(x) < 0 THEN Abs(x) + LongRange ELSE Abs(x)
  IN  (IF x < 0 THEN coresize - (abs % coresize) ELSE x) % coresize

\* fromString: coresize is signed, and a remainder has the sign of the
\* dividend.
ReducedSigned(x, coresize) ==
  LET rem == IF Abs(x) < 0 THEN -((-Abs(x)) % coresize) ELSE Abs(x) % coresize
  IN  (IF x < 0 THEN coresize - rem ELSE x) % coresize

----------------------------------------------------------------------------
(* Objects, pickled states and text *)

\* Instruction88_new and Instruction_new with a coresize.
Created(std, coresize) ==
  [std |-> std, coresize |-> coresize, insn |-> 0, a |-> 0, b |-> 0]

\* __reduce__, and the same constructors with its result.
State(x) == <<x.coresize, x.insn, x.a, x.b>>

Unpickled(std, state) ==
  IF /\ state[1] \in CoreSizes
     /\ state[2] \in 0 .. IF std = "88" THEN INSN88(10, 3, 3)
                                        ELSE INSN(17, 6, 7, 7)
     /\ state[3] \in 0 .. state[1] - 1
     /\ state[4] \in 0 .. state[1] - 1
    THEN [std |-> std, coresize |-> state[1], insn |-> state[2],
          a |-> state[3], b |-> state[4]]
    ELSE Refused

\* INSTRUCTIONS, INSTRUCTIONS88, MODIFIERS and MODES.
Mnemonics == <<"DAT", "MOV", "ADD", "SUB", "JMP", "JMZ", "JMN", "DJN", "SEQ",
               "SPL", "SLT", "MUL", "DIV", "MOD", "SNE", "NOP", "LDP", "STP">>
Mnemonics88 == <<"DAT", "MOV", "ADD", "SUB", "JMP", "JMZ", "JMN", "DJN",
                 "CMP", "SPL", "SLT">>
Modifiers == <<"F", "A", "B", "AB", "BA", "X", "I">>
Modes     == <<"$", "#", "@", "<", ">", "*", "{", "}">>

\* The texts whose parts have names: others are refused before anything is
\* made of them.
ASSUME TextsAssumption == \A t \in Texts :
  /\ t.opcode = "CMP" \/ \E n \in 1 .. 18 : t.opcode = Mnemonics[n]
  /\ t.modifier = "" \/ \E n \in 1 .. 7 : t.modifier = Modifiers[n]
  /\ \A m \in {t.amode, t.bmode} : m = "" \/ \E n \in 1 .. 8 : m = Modes[n]
  /\ t.afield \in Int /\ t.bfield \in Int /\ t.cut \in BOOLEAN

\* A field above half of the core is shown as a negative number.
Shown(field, coresize) ==
  IF field > coresize \div 2 THEN field - coresize ELSE field

\* From this size on both fields are printed 11 characters wide.  That
\* makes 33 characters, and the buffer has room for 32: the last one, which
\* is the last digit of the B number, is cut off.
Wide(x) == x.coresize >= 2 * 100000

\* A number without its last digit, and that digit was its only one.
CutNumber(n) == IF n < 0 THEN -((-n) \div 10) ELSE n \div 10
OneDigit(n)  == n \in -9 .. 9

\* Instruction88_repr and Instruction_repr.  A text that is cut ends where
\* a digit of its B number should be, behind the blanks or the sign.
Repr(x) ==
  [opcode   |-> IF x.std = "88" THEN Mnemonics88[Opcode(x) + 1]
                                ELSE Mnemonics[Opcode(x) + 1],
   modifier |-> IF x.std = "88" THEN "" ELSE Modifiers[Modifier(x) + 1],
   amode    |-> Modes[AMode(x) + 1],
   afield   |-> Shown(x.a, x.coresize),
   bmode    |-> Modes[BMode(x) + 1],
   bfield   |-> LET shown == Shown(x.b, x.coresize)
                IN  IF Wide(x) THEN CutNumber(shown) ELSE shown,
   cut      |-> Wide(x) /\ OneDigit(Shown(x.b, x.coresize))]

\* The number of a name in a table of names.
NumberOf(name, table) == CHOOSE n \in 0 .. Len(table) - 1 : table[n + 1] = name

\* The opcode, and DIRECT where a text has no mode.
OpcodeOf(t) == IF t.opcode = "CMP" THEN 8 ELSE NumberOf(t.opcode, Mnemonics)

\* Mutant: reads the two predecrements the wrong way round.
ModeOfSwapped(m) == IF m = "<" THEN 6 ELSE IF m = "{" THEN 3
                    ELSE IF m = "" THEN 0 ELSE NumberOf(m, Modes)

ModeOf(m) == IF m = "" THEN 0 ELSE NumberOf(m, Modes)

\* Mutant: also JMP may have an immediate A operand.
Accepts88Jumps(opcode, amode, bmode) ==
  CASE opcode = 0                  -> amode \in {1, 3} /\ bmode \in {1, 3}
    [] opcode \in {1, 2, 3, 8, 10} -> bmode # 1
    [] opcode = 4                  -> TRUE
    [] OTHER                       -> amode # 1

\* "Check ICWS '88 rules for instructions."
Accepts88(opcode, amode, bmode) ==
  CASE opcode = 0                  -> amode \in {1, 3} /\ bmode \in {1, 3}
    [] opcode \in {1, 2, 3, 8, 10} -> bmode # 1
    [] OTHER                       -> amode # 1

\* "Fill in default modifier, if necessary."
DefaultModifier(opcode, amode, bmode) ==
  CASE opcode \in {0, 15}              -> 0
    [] opcode \in {4, 5, 6, 7, 9}      -> 2
    [] opcode \in {10, 16, 17}         -> IF amode = 1 THEN 3 ELSE 2
    [] OTHER -> IF amode = 1 THEN 3
                ELSE IF bmode = 1 THEN 2
                ELSE IF opcode \in {1, 8, 14} THEN 6 ELSE 0

\* The numbers fromString reads: up to LONG_MAX >> 1.
Readable(x) == x \in -(LongRange \div 4 - 1) .. LongRange \div 4 - 1

\* Redcode_fromString.  Under '88 only the A-mode is checked to be one of
\* '88; a later B-mode gets into the bits of the A-mode.
FromString(t, coresize, std) ==
  LET opcode == OpcodeOf(t)
      amode  == ModeOf(t.amode)
      bmode  == ModeOf(t.bmode)
      a      == ReducedSigned(t.afield, coresize)
      b      == ReducedSigned(t.bfield, coresize)
      modifier == IF t.modifier = "" THEN DefaultModifier(opcode, amode, bmode)
                                     ELSE NumberOf(t.modifier, Modifiers)
  IN  IF t.cut \/ ~Readable(t.afield) \/ ~Readable(t.bfield) THEN Refused
      ELSE IF std = "94"
        THEN [std |-> std, coresize |-> coresize,
              insn |-> INSN(opcode, modifier, amode, bmode), a |-> a, b |-> b]
      ELSE IF /\ opcode <= 10
              /\ t.modifier = ""
              /\ amode <= 3
              /\ Accepts88(opcode, amode, bmode)
        THEN [std |-> std, coresize |-> coresize,
              insn |-> INSN88(opcode, amode, bmode), a |-> a, b |-> b]
      ELSE Refused

\* Instruction88_richcompare and Instruction_richcompare.
Equal(x, y) == <<x.insn, x.a, x.b>> = <<y.insn, y.a, y.b>>

----------------------------------------------------------------------------
(* The life of an object.  It is constructed in one of three ways, and a   *)
(* call that is refused raises an exception and changes nothing.           *)

Fresh == \E std \in Standard, c \in CoreSizes : obj = Created(std, c)

\* Instruction88(coresize, insn, a, b), for any state.
Unpickle == \E std \in Standard, state \in States :
  Unpickled(std, state) # Refused /\ obj = Unpickled(std, state)

Parse == \E std \in Standard, c \in CoreSizes, t \in Texts :
  FromString(t, c, std) # Refused /\ obj = FromString(t, c, std)

Init == \/ Fresh /\ foreign = FALSE
        \/ Unpickle /\ foreign = TRUE
        \/ Parse /\ foreign = FALSE

SetOpcode(v) ==
  /\ v \in 0 .. MaxOpcode(obj.std)
  /\ obj' = [obj EXCEPT !.insn = IF obj.std = "88" THEN SETOPCODE88(@, v)
                                                   ELSE SETOPCODE(@, v)]
  /\ UNCHANGED foreign

SetModifier(v) ==
  /\ obj.std = "94"
  /\ v \in 0 .. 6
  /\ obj' = [obj EXCEPT !.insn = SETMODIFIER(@, v)]
  /\ UNCHANGED foreign

SetAMode(v) ==
  /\ v \in 0 .. MaxMode(obj.std)
  /\ obj' = [obj EXCEPT !.insn = IF obj.std = "88" THEN SETAMODE88(@, v)
                                                   ELSE SETAMODE(@, v)]
  /\ UNCHANGED foreign

SetBMode(v) ==
  /\ v \in 0 .. MaxMode(obj.std)
  /\ obj' = [obj EXCEPT !.insn = IF obj.std = "88" THEN SETBMODE88(@, v)
                                                   ELSE SETBMODE(@, v)]
  /\ UNCHANGED foreign

SetAField(v) == /\ obj' = [obj EXCEPT !.a = ReducedUnsigned(v, obj.coresize)]
                /\ UNCHANGED foreign

SetBField(v) == /\ obj' = [obj EXCEPT !.b = ReducedUnsigned(v, obj.coresize)]
                /\ UNCHANGED foreign

Reinit == obj' = Created(obj.std, obj.coresize) /\ foreign' = FALSE

Next == \/ Reinit
        \/ \E v \in Values : \/ SetOpcode(v) \/ SetModifier(v)
                             \/ SetAMode(v) \/ SetBMode(v)
                             \/ SetAField(v) \/ SetBField(v)

Spec == Init /\ [][Next]_vars

----------------------------------------------------------------------------
(* Properties *)

\* An object can be pickled and restored.  Only a foreign state can have a
\* modifier without a name, which cannot be printed; with the last opcode,
\* which SetOpcode may still give it, it cannot be restored either.
\*
\* In cores of less than 200000 cells what an object prints is read back as
\* an equal object (Test/Redcode.py lines 48 to 51, with 8000 cells), if it
\* is read at all, which under '94 it always is.  In larger ones it never
\* is: the B number has lost its last digit (as in Test/Instruction88.py
\* lines 111 to 121), and a number of one digit leaves a text that is
\* refused.  Nothing else of the instruction is lost.
RoundTrip ==
  /\ Modifier(obj) = 7 => foreign
  /\ Unpickled(obj.std, State(obj)) =
       IF Modifier(obj) = 7 /\ Opcode(obj) = 17 THEN Refused ELSE obj
  /\ Modifier(obj) # 7 =>
       LET read  == FromString(Repr(obj), obj.coresize, obj.std)
           shown == Shown(obj.b, obj.coresize)
       IN  IF read = Refused
             THEN obj.std = "88" \/ (Wide(obj) /\ OneDigit(shown))
           ELSE IF Wide(obj)
             THEN /\ ~OneDigit(shown)
                  /\ <<read.insn, read.a>> = <<obj.insn, obj.a>>
                  /\ OneDigit(shown - 10 * Shown(read.b, obj.coresize))
                  /\ ~Equal(read, obj)
           ELSE Equal(read, obj)

\* A setter stores what it is given, a field reduced modulo coresize, and
\* leaves the other attributes alone, although they share one number.
\* (Below the smallest int abs does not see the whole number.)
Attributes(x) == <<Opcode(x), Modifier(x), AMode(x), BMode(x), x.a, x.b>>

SettersApart ==
  [][\A v \in Values :
       /\ SetOpcode(v)   => Attributes(obj') = [Attributes(obj) EXCEPT ![1] = v]
       /\ SetModifier(v) => Attributes(obj') = [Attributes(obj) EXCEPT ![2] = v]
       /\ SetAMode(v)    => Attributes(obj') = [Attributes(obj) EXCEPT ![3] = v]
       /\ SetBMode(v)    => Attributes(obj') = [Attributes(obj) EXCEPT ![4] = v]
       /\ SetAField(v) /\ v > -(IntRange \div 2) =>
            Attributes(obj') = [Attributes(obj) EXCEPT ![5] = v % obj.coresize]
       /\ SetBField(v) /\ v > -(IntRange \div 2) =>
            Attributes(obj') = [Attributes(obj) EXCEPT ![6] = v % obj.coresize]
    ]_vars

E88 == INSTANCE Exec88 WITH CoreSize <- 1

\* The code of an object of '88 as run_88 understands it.
Code88(x) == <<Mnemonics88[Opcode(x) + 1], Modes[AMode(x) + 1],
               Modes[BMode(x) + 1]>>

\* fromString (Redcodemodule.c) and the switch of run_88 (BenchMARS88.c)
\* list separately what an instruction of '88 is, and agree: what an object
\* prints can be read exactly if run_88 executes the instruction, except for
\* that of an empty cell and for texts whose B number was cut off.
RulesAgree ==
  obj.std = "88" =>
    (FromString(Repr(obj), obj.coresize, "88") # Refused
       <=> /\ Code88(obj) \in E88!ValidCode \ {E88!Blank.insn}
           /\ Wide(obj) => ~OneDigit(Shown(obj.b, obj.coresize)))
=============================================================================
