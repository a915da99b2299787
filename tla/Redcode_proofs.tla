--------------------------- MODULE Redcode_proofs ---------------------------
(***************************************************************************)
(* Instruction objects, for every core size, number, text and state.       *)
(*                                                                         *)
(* An instruction is one number.  The first lemmas take it apart and put   *)
(* it together again; with them the setters, what is printed and what is   *)
(* read become statements about opcode, modifier and modes.                *)
(***************************************************************************)
EXTENDS Redcode, Lemmas

----------------------------------------------------------------------------
(* The groups of bits *)

\* Opcodes of '94, modifiers and modes of '94, and the numbers of instructions
\* of '94 and of '88.
Opcodes == 0 .. 17
Octal   == 0 .. 7
Insns   == 0 .. 9215
Insns88 == 0 .. 175

\* What INSN packs is found where OPCODE, MODIFIER, AMODE and BMODE look.
LEMMA Parts ==
  ASSUME NEW op \in 0 .. 17, NEW mod \in 0 .. 7, NEW am \in 0 .. 7,
         NEW bm \in 0 .. 7, NEW insn, insn = INSN(op, mod, am, bm)
  PROVE  /\ insn \in Insns
         /\ OPCODE(insn) = op /\ MODIFIER(insn) = mod
         /\ AMODE(insn) = am /\ BMODE(insn) = bm
  BY DEF Insns, INSN, OPCODE, MODIFIER, AMODE, BMODE, Bits

\* Every number an object may have is packed that way.
LEMMA Made ==
  ASSUME NEW insn \in Insns
  PROVE  /\ OPCODE(insn) \in 0 .. 17 /\ MODIFIER(insn) \in 0 .. 7
         /\ AMODE(insn) \in 0 .. 7 /\ BMODE(insn) \in 0 .. 7
         /\ insn = INSN(OPCODE(insn), MODIFIER(insn), AMODE(insn), BMODE(insn))
<1>1. PICK op \in 0 .. 17, r \in 0 .. 511 : insn = op * 512 + r
  <2>1. insn \div 512 \in 0 .. 17 /\ insn % 512 \in 0 .. 511
        /\ insn = (insn \div 512) * 512 + (insn % 512)
    BY DEF Insns
  <2> QED
    BY <2>1
<1>2. PICK mod \in 0 .. 7, s \in 0 .. 63 : r = mod * 64 + s
  <2>1. r \div 64 \in 0 .. 7 /\ r % 64 \in 0 .. 63
        /\ r = (r \div 64) * 64 + (r % 64)
    OBVIOUS
  <2> QED
    BY <2>1
<1>3. PICK am \in 0 .. 7, bm \in 0 .. 7 : s = am * 8 + bm
  <2>1. s \div 8 \in 0 .. 7 /\ s % 8 \in 0 .. 7 /\ s = (s \div 8) * 8 + (s % 8)
    OBVIOUS
  <2> QED
    BY <2>1
<1>4. insn = INSN(op, mod, am, bm)
  BY <1>1, <1>2, <1>3 DEF INSN
<1>5. /\ OPCODE(insn) = op /\ MODIFIER(insn) = mod
      /\ AMODE(insn) = am /\ BMODE(insn) = bm
  BY <1>4 DEF Insns, INSN, OPCODE, MODIFIER, AMODE, BMODE, Bits
<1> QED
  BY <1>4, <1>5

\* The same of '88.
LEMMA Parts88 ==
  ASSUME NEW op \in 0 .. 10, NEW am \in 0 .. 3, NEW bm \in 0 .. 3,
         NEW insn, insn = INSN88(op, am, bm)
  PROVE  /\ insn \in Insns88
         /\ OPCODE88(insn) = op /\ AMODE88(insn) = am /\ BMODE88(insn) = bm
  BY DEF Insns88, INSN88, OPCODE88, AMODE88, BMODE88, Bits

\* And back.
LEMMA Made88 ==
  ASSUME NEW insn \in Insns88
  PROVE  /\ OPCODE88(insn) \in 0 .. 10
         /\ AMODE88(insn) \in 0 .. 3 /\ BMODE88(insn) \in 0 .. 3
         /\ insn = INSN88(OPCODE88(insn), AMODE88(insn), BMODE88(insn))
  BY DEF Insns88, INSN88, OPCODE88, AMODE88, BMODE88, Bits

\* fromString packs a B-mode of '94 into an instruction of '88 as well.
LEMMA Fits88 ==
  ASSUME NEW op \in 0 .. 10, NEW am \in 0 .. 3, NEW bm \in 0 .. 7
  PROVE  INSN88(op, am, bm) \in Insns88
  BY DEF Insns88, INSN88

\* A setter replaces what it is given, and nothing else.
LEMMA SetGroups ==
  ASSUME NEW op \in Opcodes, NEW mod \in Octal, NEW am \in Octal,
         NEW bm \in Octal, NEW insn, insn = INSN(op, mod, am, bm)
  PROVE  /\ \A v \in Opcodes : SETOPCODE(insn, v) = INSN(v, mod, am, bm)
         /\ \A v \in Octal : /\ SETMODIFIER(insn, v) = INSN(op, v, am, bm)
                             /\ SETAMODE(insn, v) = INSN(op, mod, v, bm)
                             /\ SETBMODE(insn, v) = INSN(op, mod, am, v)
<1>1. insn % 1 = 0 /\ insn % 8 = bm /\ insn % 64 = am * 8 + bm
      /\ insn % 512 = mod * 64 + am * 8 + bm
      /\ insn % 16384 = insn
  BY DEF INSN, Opcodes, Octal
<1> QED
  BY <1>1 DEF Opcodes, Octal, INSN, SETOPCODE, SETMODIFIER, SETAMODE, SETBMODE, Bits

\* The setters of '88.
LEMMA SetGroups88 ==
  ASSUME NEW op \in 0 .. 10, NEW am \in 0 .. 3, NEW bm \in 0 .. 3,
         NEW insn, insn = INSN88(op, am, bm)
  PROVE  /\ \A v \in 0 .. 10 : SETOPCODE88(insn, v) = INSN88(v, am, bm)
         /\ \A v \in 0 .. 3 : /\ SETAMODE88(insn, v) = INSN88(op, v, bm)
                              /\ SETBMODE88(insn, v) = INSN88(op, am, v)
<1>1. \A x \in 0 .. 10, y \in 0 .. 3, z \in 0 .. 3 :
        INSN88(x, y, z) = x * 16 + y * 4 + z
  BY DEF INSN88
<1>2. insn % 1 = 0 /\ insn % 4 = bm /\ insn % 16 = am * 4 + bm
      /\ insn % 256 = insn /\ insn = op * 16 + am * 4 + bm
  BY <1>1
<1>3. /\ \A v \in 0 .. 10 : SETOPCODE88(insn, v) = v * 16 + am * 4 + bm
      /\ \A v \in 0 .. 3 : /\ SETAMODE88(insn, v) = op * 16 + v * 4 + bm
                           /\ SETBMODE88(insn, v) = op * 16 + am * 4 + v
  BY <1>2 DEF SETOPCODE88, SETAMODE88, SETBMODE88, Bits
<1> QED
  BY <1>1, <1>3

----------------------------------------------------------------------------
(* Fields *)

Half == IntRange \div 2

\* Half of the values of an int are negative.
LEMMA HalfInt ==
  /\ Half \in Nat /\ IntRange = 2 * Half
  /\ CoreSizes \subseteq 1 .. Half - 1
  /\ Half <= LongRange \div 4
  BY RedcodeAssumption DEF Half

\* abs is right about what is an int and not the smallest one.
LEMMA AbsInt ==
  ASSUME NEW x \in Int, x > -Half, x < Half
  PROVE  Abs(x) = IF x < 0 THEN -x ELSE x
<1>1. x + Half \in 0 .. IntRange - 1 /\ IntRange \in Nat \ {0}
  BY HalfInt
<1>2. (x + Half) % IntRange = x + Half
  BY <1>1, ModSmall
<1> QED
  BY <1>2, HalfInt DEF Abs, Half

\* It returns some int in any case.
LEMMA AbsType ==
  ASSUME NEW x \in Int
  PROVE  Abs(x) \in Int
<1>1. Half \in Int /\ x + Half \in Int /\ IntRange \in Nat \ {0}
  BY HalfInt, RedcodeAssumption
<1>2. (x + Half) % IntRange \in Int
  BY <1>1, Quotient
<1> QED
  BY <1>1, <1>2 DEF Abs, Half

\* What is reduced is a field of the core.
LEMMA Reduced ==
  ASSUME NEW x \in Int, NEW c \in CoreSizes
  PROVE  /\ ReducedUnsigned(x, c) \in 0 .. c - 1
         /\ ReducedSigned(x, c) \in 0 .. c - 1
<1>1. c \in Nat \ {0} /\ Abs(x) \in Int /\ LongRange \in Int
  BY HalfInt, AbsType, RedcodeAssumption
<1>2. \A y \in Int : y % c \in 0 .. c - 1
  BY <1>1, Quotient
<1> DEFINE abs == IF Abs(x) < 0 THEN Abs(x) + LongRange ELSE Abs(x)
           rem == IF Abs(x) < 0 THEN -((-Abs(x)) % c) ELSE Abs(x) % c
<1>3. abs \in Int /\ rem \in Int
  BY <1>1, <1>2
<1>4. /\ ReducedUnsigned(x, c) = (IF x < 0 THEN c - (abs % c) ELSE x) % c
      /\ ReducedSigned(x, c) = (IF x < 0 THEN c - rem ELSE x) % c
  BY DEF ReducedUnsigned, ReducedSigned
<1> HIDE DEF abs, rem
<1>5. /\ (IF x < 0 THEN c - (abs % c) ELSE x) \in Int
      /\ (IF x < 0 THEN c - rem ELSE x) \in Int
  BY <1>1, <1>2, <1>3
<1> QED
  BY <1>2, <1>4, <1>5

\* Reduction is modulo the core size, above the smallest int.
LEMMA ReducedIs ==
  ASSUME NEW x \in Int, x > -Half, NEW c \in CoreSizes
  PROVE  ReducedUnsigned(x, c) = x % c /\ ReducedSigned(x, c) = x % c
<1>1. c \in Nat \ {0} /\ c \in Int
  BY HalfInt
<1>2. CASE x >= 0
  BY <1>2 DEF ReducedUnsigned, ReducedSigned
<1>3. CASE x < 0
  <2>1. Abs(x) = -x
    BY <1>3, AbsInt, HalfInt
  <2>2. /\ ReducedUnsigned(x, c) = (c - ((-x) % c)) % c
        /\ ReducedSigned(x, c) = (c - ((-x) % c)) % c
    BY <1>3, <2>1 DEF ReducedUnsigned, ReducedSigned
  <2>3. \A y \in Int : (c - (y % c)) % c = (c - y) % c
    BY <1>1, ModDifference
  <2>4. \A q \in Int : (x + c * q) % c = x % c
    BY <1>1, Congruent
  <2>5. -x \in Int /\ c - (-x) = x + c * 1
    BY <1>1
  <2> QED
    BY <2>2, <2>3, <2>4, <2>5
<1> QED
  BY <1>2, <1>3

\* A field that is shown is read back.
LEMMA ShownIsRead ==
  ASSUME NEW c \in CoreSizes, NEW f \in 0 .. c - 1
  PROVE  /\ Shown(f, c) \in Int /\ Readable(Shown(f, c))
         /\ ReducedSigned(Shown(f, c), c) = f
<1>1. c \in Nat \ {0} /\ c < Half /\ Half \in Nat /\ f \in Int
  BY HalfInt
<1>2. Shown(f, c) \in {f, f - c}
  BY DEF Shown
<1>3. Shown(f, c) \in Int /\ Shown(f, c) > -Half /\ Shown(f, c) < Half
  BY <1>1, <1>2
<1>4. Readable(Shown(f, c))
  BY <1>1, <1>2, HalfInt, RedcodeAssumption DEF Readable
<1>5. f % c = f
  BY <1>1, ModSmall
<1>6. \A q \in Int : (f + c * q) % c = f % c
  BY <1>1, Congruent
<1>7. -1 \in Int /\ f - c = f + c * (-1)
  BY <1>1
<1>8. Shown(f, c) % c = f
  BY <1>2, <1>5, <1>6, <1>7
<1> QED
  BY <1>3, <1>4, <1>8, ReducedIs

\* A number that lost its last digit is between the number and zero.
LEMMA CutIs ==
  ASSUME NEW n \in Int
  PROVE  /\ CutNumber(n) \in Int /\ OneDigit(n - 10 * CutNumber(n))
         /\ n >= 0 => CutNumber(n) >= 0 /\ CutNumber(n) <= n
         /\ n < 0 => CutNumber(n) <= 0 /\ CutNumber(n) >= n
         /\ ~OneDigit(n) => CutNumber(n) # 0 /\ CutNumber(n) # n
<1>1. CASE n >= 0
  <2>1. PICK q \in Int, r \in 0 .. 9 : n = 10 * q + r /\ n \div 10 = q
    BY <1>1
  <2>2. CutNumber(n) = q
    BY <1>1, <2>1 DEF CutNumber
  <2> QED
    BY <1>1, <2>1, <2>2 DEF OneDigit
<1>2. CASE n < 0
  <2>1. PICK q \in Int, r \in 0 .. 9 : -n = 10 * q + r /\ (-n) \div 10 = q
    BY <1>2
  <2>2. CutNumber(n) = -q
    BY <1>2, <2>1 DEF CutNumber
  <2> QED
    BY <1>2, <2>1, <2>2 DEF OneDigit
<1> QED
  BY <1>1, <1>2

\* A field that is shown without its last digit is read as the field that is
\* shown as the rest, and that is another one.
LEMMA CutIsRead ==
  ASSUME NEW c \in CoreSizes, NEW f \in 0 .. c - 1, ~OneDigit(Shown(f, c)),
         NEW q, q = CutNumber(Shown(f, c))
  PROVE  /\ Readable(q)
         /\ ReducedSigned(q, c) \in 0 .. c - 1
         /\ Shown(ReducedSigned(q, c), c) = q
         /\ ReducedSigned(q, c) # f
<1> DEFINE s == Shown(f, c)
           h == c \div 2
<1>1. c \in Nat \ {0} /\ c < Half /\ Half \in Nat /\ f \in Int
  BY HalfInt
<1>2. h \in Nat /\ 2 * h <= c /\ c <= 2 * h + 1
  BY <1>1
<1>3. s = IF f > h THEN f - c ELSE f
  BY DEF Shown
<1> HIDE DEF s, h
<1>4. s \in Int /\ s >= h + 1 - c /\ s <= h
  BY <1>1, <1>2, <1>3
<1>5. q \in Int /\ q # 0 /\ q # s
      /\ (s >= 0 => q >= 0 /\ q <= s) /\ (s < 0 => q <= 0 /\ q >= s)
  BY <1>4, CutIs DEF s
<1>6. q >= h + 1 - c /\ q <= h /\ q > -Half /\ q < Half
  BY <1>1, <1>2, <1>4, <1>5
<1>7. Readable(q)
  BY <1>1, <1>5, <1>6, HalfInt, RedcodeAssumption DEF Readable
<1>8. ReducedSigned(q, c) = q % c
  BY <1>5, <1>6, ReducedIs
<1>9. q % c = IF q >= 0 THEN q ELSE q + c
  <2>1. CASE q >= 0
    <3>1. q \in 0 .. c - 1
      BY <1>1, <1>2, <1>5, <1>6, <2>1
    <3> QED
      BY <1>1, <2>1, <3>1, ModSmall
  <2>2. CASE q < 0
    <3>1. q + c \in 0 .. c - 1 /\ q + c = q + c * 1 /\ 1 \in Int
      BY <1>1, <1>2, <1>5, <1>6, <2>2
    <3>2. (q + c) % c = q + c
      BY <1>1, <3>1, ModSmall
    <3>3. \A n \in Int : (q + c * n) % c = q % c
      BY <1>1, <1>5, Congruent
    <3>4. q % c = q + c
      BY <3>1, <3>2, <3>3
    <3>5. ~(q >= 0)
      BY <1>5, <2>2
    <3> QED
      BY <3>4, <3>5
  <2> QED
    BY <1>5, <2>1, <2>2
<1> DEFINE r == q % c
<1>10. r \in 0 .. c - 1 /\ (r > h <=> q < 0)
  BY <1>1, <1>2, <1>5, <1>6, <1>9
<1> HIDE DEF r
<1>11. Shown(r, c) = IF r > h THEN r - c ELSE r
  BY DEF Shown, h
<1>12. Shown(r, c) = q
  BY <1>1, <1>5, <1>9, <1>10, <1>11 DEF r
<1>13. r # f
  BY <1>5, <1>12 DEF s
<1> QED
  BY <1>7, <1>8, <1>10, <1>12, <1>13 DEF r

----------------------------------------------------------------------------
(* Names *)

\* No name is twice in a table.
LEMMA Distinct ==
  /\ \A m, n \in 1 .. 18 : Mnemonics[m] = Mnemonics[n] => m = n
  /\ \A m, n \in 1 .. 7 : Modifiers[m] = Modifiers[n] => m = n
  /\ \A m, n \in 1 .. 8 : Modes[m] = Modes[n] => m = n
<1>1. \A m, n \in 1 .. 18 : Mnemonics[m] = Mnemonics[n] => m = n
  BY DEF Mnemonics
<1>2. \A m, n \in 1 .. 7 : Modifiers[m] = Modifiers[n] => m = n
  BY DEF Modifiers
<1>3. \A m, n \in 1 .. 8 : Modes[m] = Modes[n] => m = n
  <2>1. /\ Modes[1] = "$" /\ Modes[2] = "#" /\ Modes[3] = "@" /\ Modes[4] = "<"
        /\ Modes[5] = ">" /\ Modes[6] = "*" /\ Modes[7] = "{" /\ Modes[8] = "}"
    BY DEF Modes
  <2>2. \A n \in 1 .. 8 : \/ n = 1 \/ n = 2 \/ n = 3 \/ n = 4
                         \/ n = 5 \/ n = 6 \/ n = 7 \/ n = 8
    OBVIOUS
  <2> QED
    BY <2>1, <2>2, Zenon
<1> QED
  BY <1>1, <1>2, <1>3

\* How many there are, and what is special about some of them.
LEMMA Tables ==
  /\ Len(Mnemonics) = 18 /\ Len(Modifiers) = 7 /\ Len(Modes) = 8
  /\ \A n \in 1 .. 18 : Mnemonics[n] # "CMP"
  /\ \A n \in 1 .. 7 : Modifiers[n] # ""
  /\ \A n \in 1 .. 8 : Modes[n] # ""
  /\ Mnemonics88[9] = "CMP"
  /\ \A n \in 1 .. 11 : n # 9 => Mnemonics88[n] = Mnemonics[n]
<1>1. Len(Mnemonics) = 18 /\ \A n \in 1 .. 18 : Mnemonics[n] # "CMP"
  BY DEF Mnemonics
<1>2. Len(Modifiers) = 7 /\ \A n \in 1 .. 7 : Modifiers[n] # ""
  BY DEF Modifiers
<1>3. Len(Modes) = 8 /\ \A n \in 1 .. 8 : Modes[n] # ""
  BY DEF Modes
<1>4. /\ Mnemonics88[9] = "CMP"
      /\ \A n \in 1 .. 11 : n # 9 => Mnemonics88[n] = Mnemonics[n]
  BY DEF Mnemonics, Mnemonics88
<1> QED
  BY <1>1, <1>2, <1>3, <1>4

\* The number of a name is the place it was taken from.
LEMMA Number ==
  /\ \A n \in 0 .. 17 : NumberOf(Mnemonics[n + 1], Mnemonics) = n
  /\ \A n \in 0 .. 6 : NumberOf(Modifiers[n + 1], Modifiers) = n
  /\ \A n \in 0 .. 7 : NumberOf(Modes[n + 1], Modes) = n
<1>1. ASSUME NEW table, NEW size \in Nat, Len(table) = size,
             \A m, n \in 1 .. size : table[m] = table[n] => m = n,
             NEW n \in 0 .. size - 1
      PROVE  NumberOf(table[n + 1], table) = n
  <2>1. \A m \in 0 .. size - 1 : table[m + 1] = table[n + 1] => m = n
    <3> TAKE m \in 0 .. size - 1
    <3>1. m + 1 \in 1 .. size /\ n + 1 \in 1 .. size
      OBVIOUS
    <3>2. table[m + 1] = table[n + 1] => m + 1 = n + 1
      BY <1>1, <3>1, Zenon
    <3> QED
      BY <3>2
  <2> QED
    BY <1>1, <2>1 DEF NumberOf
<1>2. \A n \in 0 .. 17 : NumberOf(Mnemonics[n + 1], Mnemonics) = n
  <2>1. \A n \in 0 .. 18 - 1 : NumberOf(Mnemonics[n + 1], Mnemonics) = n
    BY <1>1, Distinct, Tables
  <2> QED
    BY <2>1
<1>3. \A n \in 0 .. 6 : NumberOf(Modifiers[n + 1], Modifiers) = n
  <2>1. \A n \in 0 .. 7 - 1 : NumberOf(Modifiers[n + 1], Modifiers) = n
    BY <1>1, Distinct, Tables
  <2> QED
    BY <2>1
<1>4. \A n \in 0 .. 7 : NumberOf(Modes[n + 1], Modes) = n
  <2>1. \A n \in 0 .. 8 - 1 : NumberOf(Modes[n + 1], Modes) = n
    BY <1>1, Distinct, Tables
  <2> QED
    BY <2>1
<1> QED
  BY <1>2, <1>3, <1>4

----------------------------------------------------------------------------
(* Objects *)

MaxInsn(std) == IF std = "88" THEN 175 ELSE 9215

Objects == {x \in [std : Standard, coresize : CoreSizes, insn : Nat,
                   a : Nat, b : Nat] :
              /\ x.insn <= MaxInsn(x.std)
              /\ x.a < x.coresize /\ x.b < x.coresize}

\* What holds of an object whatever was done with it.
Inv == /\ obj \in Objects
       /\ foreign \in BOOLEAN
       /\ Modifier(obj) = 7 => foreign

\* What the parts of an object are.
LEMMA ObjectType ==
  ASSUME NEW x \in Objects
  PROVE  /\ x.std \in Standard /\ x.coresize \in CoreSizes
         /\ x.std = "88" => x.insn \in Insns88
         /\ x.std = "94" => x.insn \in Insns
         /\ x.coresize \in Nat \ {0}
         /\ x.a \in 0 .. x.coresize - 1 /\ x.b \in 0 .. x.coresize - 1
         /\ x = [std |-> x.std, coresize |-> x.coresize, insn |-> x.insn,
                 a |-> x.a, b |-> x.b]
<1>1. x \in [std : Standard, coresize : CoreSizes, insn : Nat, a : Nat, b : Nat]
  BY DEF Objects
<1>2. /\ x.std \in Standard /\ x.coresize \in CoreSizes
      /\ x.insn \in Nat /\ x.a \in Nat /\ x.b \in Nat
      /\ x = [std |-> x.std, coresize |-> x.coresize, insn |-> x.insn,
              a |-> x.a, b |-> x.b]
  BY <1>1
<1>3. /\ x.insn <= MaxInsn(x.std)
      /\ x.a < x.coresize /\ x.b < x.coresize
  BY DEF Objects
<1>4. /\ x.std = "88" => x.insn \in Insns88
      /\ x.std = "94" => x.insn \in Insns
  <2>1. x.std = "88" => MaxInsn(x.std) = 175
    BY DEF MaxInsn
  <2>2. x.std = "94" => MaxInsn(x.std) = 9215
    <3>1. x.std = "94" => x.std # "88"
      OBVIOUS
    <3> QED
      BY <3>1 DEF MaxInsn
  <2> DEFINE max == MaxInsn(x.std)
             insn == x.insn
  <2>3. insn \in Nat /\ insn <= max
    BY <1>2, <1>3
  <2> HIDE DEF max, insn
  <2>4. (max = 175 => insn \in Insns88) /\ (max = 9215 => insn \in Insns)
    BY <2>3 DEF Insns, Insns88
  <2> QED
    BY <2>1, <2>2, <2>4 DEF max, insn
<1>5. x.coresize \in Nat \ {0}
  BY <1>2, HalfInt
<1>6. x.a \in 0 .. x.coresize - 1 /\ x.b \in 0 .. x.coresize - 1
  BY <1>2, <1>3, <1>5
<1> QED
  BY <1>2, <1>4, <1>5, <1>6

\* The attributes of an object have the values they may be set to, and make
\* up the number it keeps.
LEMMA ObjectParts ==
  ASSUME NEW x \in Objects
  PROVE  /\ Opcode(x) \in 0 .. MaxOpcode(x.std)
         /\ Modifier(x) \in 0 .. 7
         /\ AMode(x) \in 0 .. MaxMode(x.std) /\ BMode(x) \in 0 .. MaxMode(x.std)
         /\ x.insn = IF x.std = "88"
                       THEN INSN88(Opcode(x), AMode(x), BMode(x))
                       ELSE INSN(Opcode(x), Modifier(x), AMode(x), BMode(x))
<1>1. CASE x.std = "88"
  <2>1. x.insn \in Insns88
    BY <1>1, ObjectType
  <2> QED
    BY <1>1, <2>1, Made88 DEF Opcode, Modifier, AMode, BMode, MaxOpcode, MaxMode
<1>2. CASE x.std = "94"
  <2>1. x.insn \in Insns
    BY <1>2, ObjectType
  <2> QED
    <3>1. x.std # "88"
      BY <1>2
    <3>2. /\ Opcode(x) = OPCODE(x.insn) /\ Modifier(x) = MODIFIER(x.insn)
          /\ AMode(x) = AMODE(x.insn) /\ BMode(x) = BMODE(x.insn)
          /\ MaxOpcode(x.std) = 17 /\ MaxMode(x.std) = 7
      BY <3>1 DEF Opcode, Modifier, AMode, BMode, MaxOpcode, MaxMode
    <3>3. /\ OPCODE(x.insn) \in 0 .. 17 /\ MODIFIER(x.insn) \in 0 .. 7
          /\ AMODE(x.insn) \in 0 .. 7 /\ BMODE(x.insn) \in 0 .. 7
          /\ x.insn = INSN(OPCODE(x.insn), MODIFIER(x.insn), AMODE(x.insn),
                           BMODE(x.insn))
      BY <2>1, Made, Zenon
    <3> QED
      BY <3>1, <3>2, <3>3, Zenon
<1> QED
  BY <1>1, <1>2, ObjectType DEF Standard

\* What the text of an object says of its B field, and the field it is read
\* as.
Lost(x)     == Wide(x) /\ OneDigit(Shown(x.b, x.coresize))
PrintedB(x) == LET shown == Shown(x.b, x.coresize)
               IN  IF Wide(x) THEN CutNumber(shown) ELSE shown
ReadB(x)    == ReducedSigned(PrintedB(x), x.coresize)

\* A B number that is not lost is read as a field: the one that was printed,
\* or in a large core another one, which is shown without the last digit.
LEMMA BIsRead ==
  ASSUME NEW x \in Objects, ~Lost(x)
  PROVE  /\ Readable(PrintedB(x))
         /\ ReadB(x) \in 0 .. x.coresize - 1
         /\ ~Wide(x) => ReadB(x) = x.b
         /\ Wide(x) =>
              /\ ReadB(x) # x.b
              /\ OneDigit(Shown(x.b, x.coresize)
                          - 10 * Shown(ReadB(x), x.coresize))
<1>1. x.coresize \in CoreSizes /\ x.b \in 0 .. x.coresize - 1
  BY ObjectType
<1> DEFINE c == x.coresize
           s == Shown(x.b, c)
<1>2. s \in Int /\ Readable(s) /\ ReducedSigned(s, c) = x.b
  BY <1>1, ShownIsRead
<1>3. CASE ~Wide(x)
  <2>1. PrintedB(x) = s
    BY <1>3 DEF PrintedB
  <2> QED
    BY <1>1, <1>2, <1>3, <2>1 DEF ReadB
<1>4. CASE Wide(x)
  <2>1. PrintedB(x) = CutNumber(s) /\ ~OneDigit(s)
    BY <1>4 DEF PrintedB, Lost
  <2>2. /\ Readable(CutNumber(s))
        /\ ReducedSigned(CutNumber(s), c) \in 0 .. c - 1
        /\ Shown(ReducedSigned(CutNumber(s), c), c) = CutNumber(s)
        /\ ReducedSigned(CutNumber(s), c) # x.b
    BY <1>1, <2>1, CutIsRead
  <2>3. OneDigit(s - 10 * CutNumber(s))
    BY <1>2, CutIs
  <2> QED
    BY <1>4, <2>1, <2>2, <2>3 DEF ReadB
<1> QED
  BY <1>3, <1>4

\* What is read of what an object prints is the object itself, but for the B
\* field of a large core.
LEMMA ReadBack ==
  ASSUME NEW x \in Objects, Modifier(x) # 7
  PROVE  FromString(Repr(x), x.coresize, x.std)
           = IF /\ ~Lost(x)
                /\ x.std = "94" \/ Accepts88(Opcode(x), AMode(x), BMode(x))
               THEN [x EXCEPT !.b = ReadB(x)] ELSE Refused
<1> DEFINE t == Repr(x)
           op == Opcode(x)
           mod == Modifier(x)
           am == AMode(x)
           bm == BMode(x)
<1>1. /\ op \in 0 .. MaxOpcode(x.std) /\ mod \in 0 .. 6
      /\ am \in 0 .. MaxMode(x.std) /\ bm \in 0 .. MaxMode(x.std)
      /\ x.insn = IF x.std = "88" THEN INSN88(op, am, bm)
                                  ELSE INSN(op, mod, am, bm)
  BY ObjectParts
<1>2. /\ x.std \in Standard /\ x.coresize \in CoreSizes
      /\ x.a \in 0 .. x.coresize - 1 /\ x.b \in 0 .. x.coresize - 1
      /\ x = [std |-> x.std, coresize |-> x.coresize, insn |-> x.insn,
              a |-> x.a, b |-> x.b]
  BY ObjectType
<1>3. /\ Readable(t.afield) /\ ReducedSigned(t.afield, x.coresize) = x.a
      /\ t.bfield = PrintedB(x) /\ (t.cut <=> Lost(x))
      /\ ReducedSigned(t.bfield, x.coresize) = ReadB(x)
      /\ ~Lost(x) => Readable(t.bfield)
  BY <1>2, ShownIsRead, BIsRead DEF Repr, Lost, PrintedB, ReadB
<1>4. /\ op \in 0 .. 17 /\ am \in 0 .. 7 /\ bm \in 0 .. 7
      /\ x.std = "88" => op <= 10 /\ am <= 3 /\ bm <= 3
  BY <1>1, <1>2 DEF MaxOpcode, MaxMode, Standard
<1>5. /\ t.opcode = IF x.std = "88" THEN Mnemonics88[op + 1] ELSE Mnemonics[op + 1]
      /\ t.modifier = IF x.std = "88" THEN "" ELSE Modifiers[mod + 1]
      /\ t.amode = Modes[am + 1] /\ t.bmode = Modes[bm + 1]
  BY DEF Repr
<1> HIDE DEF t, op, mod, am, bm
<1>6. ModeOf(t.amode) = am /\ ModeOf(t.bmode) = bm
  <2>1. am + 1 \in 1 .. 8 /\ bm + 1 \in 1 .. 8
    BY <1>4
  <2> QED
    BY <1>4, <1>5, <2>1, Tables, Number DEF ModeOf
<1>7. OpcodeOf(t) = op
  <2>1. /\ op + 1 \in 1 .. 18
        /\ x.std = "88" => op + 1 \in 1 .. 11
        /\ op + 1 = 9 => op = 8
    BY <1>4
  <2>2. t.opcode = Mnemonics[op + 1] \/ (t.opcode = "CMP" /\ op = 8)
    BY <1>5, <2>1, Tables
  <2>3. Mnemonics[op + 1] # "CMP"
    BY <1>4, <2>1, Tables
  <2> QED
    BY <1>4, <2>2, <2>3, Number DEF OpcodeOf
<1>8. x.std = "94" => t.modifier # "" /\ NumberOf(t.modifier, Modifiers) = mod
  <2>1. mod + 1 \in 1 .. 7
    BY <1>1
  <2> QED
    BY <1>1, <1>5, <2>1, Tables, Number
<1>9. [x EXCEPT !.b = ReadB(x)]
        = [std |-> x.std, coresize |-> x.coresize, insn |-> x.insn,
           a |-> x.a, b |-> ReadB(x)]
  BY <1>2
<1>10. CASE Lost(x)
  BY <1>3, <1>10 DEF FromString, t
<1>11. CASE ~Lost(x) /\ x.std = "94"
  <2>1. FromString(t, x.coresize, x.std)
          = [std |-> x.std, coresize |-> x.coresize,
             insn |-> INSN(op, mod, am, bm), a |-> x.a, b |-> ReadB(x)]
    BY <1>3, <1>6, <1>7, <1>8, <1>11 DEF FromString
  <2>2. x.std # "88"
    BY <1>11
  <2> QED
    BY <1>1, <1>9, <1>11, <2>1, <2>2 DEF op, am, bm, t
<1>12. CASE ~Lost(x) /\ x.std = "88"
  <2>1. FromString(t, x.coresize, x.std)
          = IF Accepts88(op, am, bm)
              THEN [std |-> x.std, coresize |-> x.coresize,
                    insn |-> INSN88(op, am, bm), a |-> x.a, b |-> ReadB(x)]
              ELSE Refused
    BY <1>3, <1>4, <1>5, <1>6, <1>7, <1>12 DEF FromString
  <2> QED
    BY <1>1, <1>9, <1>12, <2>1 DEF op, am, bm, t, mod
<1> QED
  BY <1>2, <1>10, <1>11, <1>12 DEF Standard

----------------------------------------------------------------------------
(* The rules of '88 *)

\* A mode of '88 by its number.
LEMMA Modes88 ==
  ASSUME NEW k \in 0 .. 3
  PROVE  /\ Modes[k + 1] \in {"$", "#", "@", "<"}
         /\ Modes[k + 1] = "$" <=> k = 0
         /\ Modes[k + 1] = "#" <=> k = 1
         /\ Modes[k + 1] = "@" <=> k = 2
         /\ Modes[k + 1] = "<" <=> k = 3
<1>1. Modes[1] = "$" /\ Modes[2] = "#" /\ Modes[3] = "@" /\ Modes[4] = "<"
  BY DEF Modes
<1>2. /\ k = 0 => k + 1 = 1
      /\ k = 1 => k + 1 = 2
      /\ k = 2 => k + 1 = 3
      /\ k = 3 => k + 1 = 4
      /\ k = 0 \/ k = 1 \/ k = 2 \/ k = 3
  OBVIOUS
<1> QED
  BY <1>1, <1>2

\* The rules fromString checks are those the switch of run_88 has cases for.
LEMMA Rules ==
  ASSUME NEW op \in 0 .. 10, NEW am \in 0 .. 3, NEW bm \in 0 .. 3
  PROVE  Accepts88(op, am, bm)
           <=> <<Mnemonics88[op + 1], Modes[am + 1], Modes[bm + 1]>>
                 \in E88!ValidCode \ {E88!Blank.insn}
<1> DEFINE o == Mnemonics88[op + 1]
           m == Modes[am + 1]
           n == Modes[bm + 1]
<1>1. /\ m \in {"$", "#", "@", "<"} /\ n \in {"$", "#", "@", "<"}
      /\ (m = "$" <=> am = 0) /\ (n = "$" <=> bm = 0)
      /\ (m = "#" <=> am = 1) /\ (n = "#" <=> bm = 1)
      /\ (m = "@" <=> am = 2) /\ (n = "@" <=> bm = 2)
      /\ (m = "<" <=> am = 3) /\ (n = "<" <=> bm = 3)
  BY Modes88
<1>2. /\ op = 0 => o = "DAT"
      /\ op \in {1, 2, 3, 8, 10} => o \in E88!Arithmetic
      /\ op \in {4, 5, 6, 7, 9} => o \in E88!Jump
  BY DEF Mnemonics88, E88!Arithmetic, E88!Jump
<1>3. /\ "DAT" \notin E88!Arithmetic /\ "DAT" \notin E88!Jump
      /\ E88!Arithmetic \cap E88!Jump = {}
  BY DEF E88!Arithmetic, E88!Jump
<1>4. E88!Blank.insn = <<"DAT", "$", "$">>
  BY DEF E88!Blank
<1> HIDE DEF o, m, n
<1>5. <<o, m, n>> \in E88!ValidCode \ {E88!Blank.insn} <=>
        \/ o \in E88!Arithmetic /\ m \in {"$", "#", "@", "<"} /\ n \in {"$", "@", "<"}
        \/ o \in E88!Jump /\ m \in {"$", "@", "<"} /\ n \in {"$", "#", "@", "<"}
        \/ o = "DAT" /\ m \in {"#", "<"} /\ n \in {"#", "<"}
  BY <1>1, <1>3, <1>4 DEF E88!ValidCode, E88!Mode
<1>6. CASE op = 0
  BY <1>1, <1>2, <1>3, <1>5, <1>6 DEF Accepts88, o, m, n
<1>7. CASE op \in {1, 2, 3, 8, 10}
  BY <1>1, <1>2, <1>3, <1>5, <1>7 DEF Accepts88, o, m, n
<1>8. CASE op \in {4, 5, 6, 7, 9}
  BY <1>1, <1>2, <1>3, <1>5, <1>8 DEF Accepts88, o, m, n
<1> QED
  BY <1>6, <1>7, <1>8

----------------------------------------------------------------------------
(* The invariant *)

\* An object of '88 that is made of numbers in range.
LEMMA Object88 ==
  ASSUME NEW c \in CoreSizes, NEW insn \in Insns88,
         NEW a \in 0 .. c - 1, NEW b \in 0 .. c - 1
  PROVE  [std |-> "88", coresize |-> c, insn |-> insn, a |-> a, b |-> b]
           \in Objects
<1> DEFINE x == [std |-> "88", coresize |-> c, insn |-> insn, a |-> a, b |-> b]
<1>1. c \in Nat /\ a \in Nat /\ b \in Nat /\ a < c /\ b < c
  BY HalfInt
<1>2. insn \in Nat /\ insn <= 175
  BY DEF Insns88
<1>3. x \in [std : Standard, coresize : CoreSizes, insn : Nat, a : Nat, b : Nat]
  BY <1>1, <1>2 DEF Standard
<1>4. MaxInsn("88") = 175
  BY DEF MaxInsn
<1>5. x.insn <= MaxInsn(x.std) /\ x.a < x.coresize /\ x.b < x.coresize
  BY <1>1, <1>2, <1>4
<1> HIDE DEF x
<1>6. x \in Objects
  BY <1>3, <1>5 DEF Objects
<1> QED
  BY <1>6 DEF x

\* The same of '94.
LEMMA Object94 ==
  ASSUME NEW c \in CoreSizes, NEW insn \in Insns,
         NEW a \in 0 .. c - 1, NEW b \in 0 .. c - 1
  PROVE  [std |-> "94", coresize |-> c, insn |-> insn, a |-> a, b |-> b]
           \in Objects
<1> DEFINE x == [std |-> "94", coresize |-> c, insn |-> insn, a |-> a, b |-> b]
<1>1. c \in Nat /\ a \in Nat /\ b \in Nat /\ a < c /\ b < c
  BY HalfInt
<1>2. insn \in Nat /\ insn <= 9215
  BY DEF Insns
<1>3. x \in [std : Standard, coresize : CoreSizes, insn : Nat, a : Nat, b : Nat]
  BY <1>1, <1>2 DEF Standard
<1>4. MaxInsn("94") = 9215
  BY DEF MaxInsn
<1>5. x.insn <= MaxInsn(x.std) /\ x.a < x.coresize /\ x.b < x.coresize
  BY <1>1, <1>2, <1>4
<1> HIDE DEF x
<1>6. x \in Objects
  BY <1>3, <1>5 DEF Objects
<1> QED
  BY <1>6 DEF x

\* A new object, of either standard.
LEMMA CreatedObject ==
  ASSUME NEW std \in Standard, NEW c \in CoreSizes
  PROVE  Created(std, c) \in Objects /\ Modifier(Created(std, c)) # 7
<1>1. 0 \in 0 .. c - 1 /\ 0 \in Insns /\ 0 \in Insns88
  BY HalfInt DEF Insns, Insns88
<1>2. Created(std, c) \in Objects
  BY <1>1, Object88, Object94 DEF Created, Standard
<1>3. MODIFIER(0) = 0
  BY DEF MODIFIER, Bits
<1> QED
  BY <1>2, <1>3 DEF Created, Modifier

\* What a constructor makes of a state it accepts.
LEMMA UnpickledObject ==
  ASSUME NEW std \in Standard, NEW state, Unpickled(std, state) # Refused
  PROVE  Unpickled(std, state) \in Objects
<1>1. /\ INSN88(10, 3, 3) = 175 /\ INSN(17, 6, 7, 7) = 9151
  BY DEF INSN88, INSN
<1> DEFINE max == IF std = "88" THEN 175 ELSE 9151
<1>2. /\ state[1] \in CoreSizes
      /\ state[2] \in 0 .. max
      /\ state[3] \in 0 .. state[1] - 1 /\ state[4] \in 0 .. state[1] - 1
      /\ Unpickled(std, state) =
           [std |-> std, coresize |-> state[1], insn |-> state[2],
            a |-> state[3], b |-> state[4]]
  BY <1>1 DEF Unpickled
<1>3. CASE std = "88"
  <2>1. state[2] \in Insns88
    BY <1>2, <1>3 DEF Insns88
  <2> QED
    BY <1>2, <1>3, <2>1, Object88
<1>4. CASE std = "94"
  <2>1. std # "88"
    BY <1>4
  <2>2. max = 9151
    BY <2>1
  <2> HIDE DEF max
  <2>3. state[2] \in Insns
    BY <1>2, <2>2 DEF Insns
  <2> QED
    BY <1>2, <1>4, <2>3, Object94
<1> QED
  BY <1>3, <1>4 DEF Standard

\* The numbers fromString finds in its tables.
LEMMA TextParts ==
  ASSUME NEW t \in Texts
  PROVE  /\ OpcodeOf(t) \in 0 .. 17
         /\ ModeOf(t.amode) \in 0 .. 7 /\ ModeOf(t.bmode) \in 0 .. 7
         /\ t.modifier # "" => NumberOf(t.modifier, Modifiers) \in 0 .. 6
         /\ t.afield \in Int /\ t.bfield \in Int
<1>1. OpcodeOf(t) \in 0 .. 17
  <2>1. CASE t.opcode = "CMP"
    BY <2>1 DEF OpcodeOf
  <2>2. CASE t.opcode # "CMP"
    <3>1. PICK n \in 1 .. 18 : t.opcode = Mnemonics[n]
      BY <2>2, TextsAssumption
    <3>2. n - 1 \in 0 .. 17 /\ (n - 1) + 1 = n
      BY <3>1
    <3>3. NumberOf(t.opcode, Mnemonics) = n - 1
      BY <3>1, <3>2, Number
    <3> QED
      BY <2>2, <3>2, <3>3 DEF OpcodeOf
  <2> QED
    BY <2>1, <2>2
<1>2. ASSUME NEW m, m = "" \/ \E n \in 1 .. 8 : m = Modes[n]
      PROVE  ModeOf(m) \in 0 .. 7
  <2>1. CASE m = ""
    <3>1. ModeOf(m) = 0
      BY <2>1, Zenon DEF ModeOf
    <3> QED
      BY <3>1
  <2>2. CASE m # ""
    <3>1. PICK n \in 1 .. 8 : m = Modes[n]
      BY <1>2, <2>2
    <3>2. n - 1 \in 0 .. 7 /\ (n - 1) + 1 = n
      BY <3>1
    <3>3. NumberOf(m, Modes) = n - 1
      BY <3>1, <3>2, Number
    <3> QED
      BY <2>2, <3>2, <3>3 DEF ModeOf
  <2> QED
    BY <2>1, <2>2
<1>3. ModeOf(t.amode) \in 0 .. 7 /\ ModeOf(t.bmode) \in 0 .. 7
  BY <1>2, TextsAssumption
<1>4. ASSUME t.modifier # "" PROVE NumberOf(t.modifier, Modifiers) \in 0 .. 6
  <2>1. PICK n \in 1 .. 7 : t.modifier = Modifiers[n]
    BY <1>4, TextsAssumption
  <2>2. n - 1 \in 0 .. 6 /\ (n - 1) + 1 = n
    BY <2>1
  <2>3. NumberOf(t.modifier, Modifiers) = n - 1
    BY <2>1, <2>2, Number
  <2> QED
    BY <2>2, <2>3
<1> QED
  BY <1>1, <1>3, <1>4, TextsAssumption

\* What fromString makes of a text it accepts.
LEMMA ParsedObject ==
  ASSUME NEW std \in Standard, NEW c \in CoreSizes, NEW t \in Texts,
         FromString(t, c, std) # Refused
  PROVE  /\ FromString(t, c, std) \in Objects
         /\ Modifier(FromString(t, c, std)) # 7
<1> DEFINE op == OpcodeOf(t)
           am == ModeOf(t.amode)
           bm == ModeOf(t.bmode)
           a == ReducedSigned(t.afield, c)
           b == ReducedSigned(t.bfield, c)
           mod == IF t.modifier = "" THEN DefaultModifier(op, am, bm)
                                     ELSE NumberOf(t.modifier, Modifiers)
<1>1. op \in 0 .. 17 /\ am \in 0 .. 7 /\ bm \in 0 .. 7
  BY TextParts
<1>2. a \in 0 .. c - 1 /\ b \in 0 .. c - 1
  BY TextParts, Reduced
<1>3. mod \in 0 .. 6
  <2>1. DefaultModifier(op, am, bm) \in {0, 2, 3, 6}
    BY <1>1 DEF DefaultModifier
  <2>2. CASE t.modifier = ""
    <3>1. mod = DefaultModifier(op, am, bm)
      BY <2>2
    <3> HIDE DEF mod, op, am, bm
    <3> QED
      BY <2>1, <3>1
  <2>3. CASE t.modifier # ""
    <3>1. mod = NumberOf(t.modifier, Modifiers)
      BY <2>3
    <3>2. NumberOf(t.modifier, Modifiers) \in 0 .. 6
      BY <2>3, TextParts
    <3> HIDE DEF mod
    <3> QED
      BY <3>1, <3>2
  <2> QED
    BY <2>2, <2>3
<1>4. CASE std = "94"
  <2>1. FromString(t, c, std) =
          [std |-> "94", coresize |-> c, insn |-> INSN(op, mod, am, bm),
           a |-> a, b |-> b]
    BY <1>4 DEF FromString
  <2> HIDE DEF op, am, bm, a, b, mod
  <2>2. mod \in 0 .. 7
    BY <1>3
  <2>3. INSN(op, mod, am, bm) \in Insns /\ MODIFIER(INSN(op, mod, am, bm)) = mod
    BY <1>1, <2>2, Parts
  <2>4. FromString(t, c, std) \in Objects
    BY <1>2, <2>1, <2>3, Object94
  <2>5. Modifier(FromString(t, c, std)) = mod
    BY <2>1, <2>3 DEF Modifier
  <2> QED
    BY <1>3, <2>4, <2>5
<1>5. CASE std = "88"
  <2>1. /\ op <= 10 /\ am <= 3
        /\ FromString(t, c, std) =
             [std |-> "88", coresize |-> c, insn |-> INSN88(op, am, bm),
              a |-> a, b |-> b]
    BY <1>5 DEF FromString
  <2> HIDE DEF op, am, bm, a, b, mod
  <2>2. INSN88(op, am, bm) \in Insns88
    BY <1>1, <2>1, Fits88
  <2>3. FromString(t, c, std) \in Objects
    BY <1>2, <2>1, <2>2, Object88
  <2>4. Modifier(FromString(t, c, std)) = 0
    BY <2>1 DEF Modifier
  <2> QED
    BY <2>3, <2>4
<1> QED
  BY <1>4, <1>5 DEF Standard

\* Every object starts with the invariant,
LEMMA InitInv ==
  ASSUME Init
  PROVE  Inv
<1>1. CASE Fresh /\ foreign = FALSE
  BY <1>1, CreatedObject DEF Fresh, Inv
<1>2. CASE Unpickle /\ foreign = TRUE
  BY <1>2, UnpickledObject DEF Unpickle, Inv
<1>3. CASE Parse /\ foreign = FALSE
  BY <1>3, ParsedObject DEF Parse, Inv
<1> QED
  BY <1>1, <1>2, <1>3 DEF Init

\* and keeps it when its number or its fields are replaced.
LEMMA ReplacedInsn ==
  ASSUME NEW x \in Objects, NEW insn,
         x.std = "88" => insn \in Insns88, x.std = "94" => insn \in Insns
  PROVE  [x EXCEPT !.insn = insn] \in Objects
<1>1. /\ x = [std |-> x.std, coresize |-> x.coresize, insn |-> x.insn,
              a |-> x.a, b |-> x.b]
      /\ x.std \in Standard /\ x.coresize \in CoreSizes
      /\ x.a \in 0 .. x.coresize - 1 /\ x.b \in 0 .. x.coresize - 1
  BY ObjectType
<1>2. [x EXCEPT !.insn = insn]
        = [std |-> x.std, coresize |-> x.coresize, insn |-> insn,
           a |-> x.a, b |-> x.b]
  BY <1>1
<1> QED
  BY <1>1, <1>2, Object88, Object94 DEF Standard

\* The same of its fields.
LEMMA ReplacedFields ==
  ASSUME NEW x \in Objects, NEW f \in 0 .. x.coresize - 1
  PROVE  [x EXCEPT !.a = f] \in Objects /\ [x EXCEPT !.b = f] \in Objects
<1>1. /\ x = [std |-> x.std, coresize |-> x.coresize, insn |-> x.insn,
              a |-> x.a, b |-> x.b]
      /\ x.std \in Standard /\ x.coresize \in CoreSizes
      /\ x.std = "88" => x.insn \in Insns88
      /\ x.std = "94" => x.insn \in Insns
      /\ x.a \in 0 .. x.coresize - 1 /\ x.b \in 0 .. x.coresize - 1
  BY ObjectType
<1>2. /\ [x EXCEPT !.a = f]
           = [std |-> x.std, coresize |-> x.coresize, insn |-> x.insn,
              a |-> f, b |-> x.b]
      /\ [x EXCEPT !.b = f]
           = [std |-> x.std, coresize |-> x.coresize, insn |-> x.insn,
              a |-> x.a, b |-> f]
  BY <1>1
<1> QED
  BY <1>1, <1>2, Object88, Object94 DEF Standard

\* An object of '88 with another number.
LEMMA Other88 ==
  ASSUME NEW x \in Objects, x.std = "88",
         NEW op \in 0 .. 10, NEW am \in 0 .. 3, NEW bm \in 0 .. 3,
         NEW y, y = [x EXCEPT !.insn = INSN88(op, am, bm)]
  PROVE  y \in Objects /\ Attributes(y) = <<op, 0, am, bm, x.a, x.b>>
<1> DEFINE insn == INSN88(op, am, bm)
<1>1. /\ insn \in Insns88
      /\ OPCODE88(insn) = op /\ AMODE88(insn) = am /\ BMODE88(insn) = bm
  BY Parts88
<1> HIDE DEF insn
<1>2. y = [x EXCEPT !.insn = insn]
  BY DEF insn
<1>3. y \in Objects
  BY <1>1, <1>2, ReplacedInsn
<1>4. y.insn = insn /\ y.std = "88" /\ y.a = x.a /\ y.b = x.b
  BY <1>2, ObjectType
<1>5. /\ Opcode(y) = op /\ Modifier(y) = 0 /\ AMode(y) = am /\ BMode(y) = bm
  BY <1>1, <1>4 DEF Opcode, Modifier, AMode, BMode
<1> QED
  BY <1>3, <1>4, <1>5 DEF Attributes

\* An object of '94 with another number.
LEMMA Other94 ==
  ASSUME NEW x \in Objects, x.std = "94",
         NEW op \in 0 .. 17, NEW mod \in 0 .. 7, NEW am \in 0 .. 7,
         NEW bm \in 0 .. 7, NEW y, y = [x EXCEPT !.insn = INSN(op, mod, am, bm)]
  PROVE  y \in Objects /\ Attributes(y) = <<op, mod, am, bm, x.a, x.b>>
<1> DEFINE insn == INSN(op, mod, am, bm)
<1>1. /\ insn \in Insns
      /\ OPCODE(insn) = op /\ MODIFIER(insn) = mod
      /\ AMODE(insn) = am /\ BMODE(insn) = bm
  BY Parts
<1> HIDE DEF insn
<1>2. y = [x EXCEPT !.insn = insn]
  BY DEF insn
<1>3. y \in Objects
  BY <1>1, <1>2, ReplacedInsn
<1>4. y.insn = insn /\ y.std = "94" /\ y.a = x.a /\ y.b = x.b
  BY <1>2, ObjectType
<1>5. y.std # "88"
  BY <1>4
<1>6. /\ Opcode(y) = op /\ Modifier(y) = mod /\ AMode(y) = am /\ BMode(y) = bm
  BY <1>1, <1>4, <1>5 DEF Opcode, Modifier, AMode, BMode
<1> QED
  BY <1>3, <1>4, <1>6 DEF Attributes

\* Whatever the standard: an object keeps its type and gets the attributes
\* its new number was made of.
LEMMA Other ==
  ASSUME NEW x \in Objects,
         NEW op \in 0 .. MaxOpcode(x.std), NEW mod \in 0 .. 7,
         NEW am \in 0 .. MaxMode(x.std), NEW bm \in 0 .. MaxMode(x.std),
         x.std = "88" => mod = 0,
         NEW y, y = [x EXCEPT !.insn = IF x.std = "88" THEN INSN88(op, am, bm)
                                             ELSE INSN(op, mod, am, bm)]
  PROVE  y \in Objects /\ Attributes(y) = <<op, mod, am, bm, x.a, x.b>>
<1>1. CASE x.std = "88"
  <2>1. op \in 0 .. 10 /\ am \in 0 .. 3 /\ bm \in 0 .. 3
    BY <1>1 DEF MaxOpcode, MaxMode
  <2>2. y = [x EXCEPT !.insn = INSN88(op, am, bm)]
    BY <1>1
  <2> QED
    BY <1>1, <2>1, <2>2, Other88
<1>2. CASE x.std = "94"
  <2>1. x.std # "88"
    BY <1>2
  <2>2. op \in 0 .. 17 /\ am \in 0 .. 7 /\ bm \in 0 .. 7
    BY <2>1 DEF MaxOpcode, MaxMode
  <2>3. y = [x EXCEPT !.insn = INSN(op, mod, am, bm)]
    BY <2>1
  <2> QED
    BY <1>2, <2>2, <2>3, Other94
<1> QED
  BY <1>1, <1>2, ObjectType DEF Standard

\* The number of an object after each of the setters.
LEMMA Numbers ==
  ASSUME NEW x \in Objects
  PROVE  LET op  == Opcode(x)
             mod == Modifier(x)
             am  == AMode(x)
             bm  == BMode(x)
         IN  /\ x.std = "88" => mod = 0
             /\ \A v \in 0 .. MaxOpcode(x.std) :
                  (IF x.std = "88" THEN SETOPCODE88(x.insn, v) ELSE SETOPCODE(x.insn, v))
                    = IF x.std = "88" THEN INSN88(v, am, bm) ELSE INSN(v, mod, am, bm)
             /\ x.std = "94" => \A v \in 0 .. 6 :
                  SETMODIFIER(x.insn, v) = INSN(op, v, am, bm)
             /\ \A v \in 0 .. MaxMode(x.std) :
                  /\ (IF x.std = "88" THEN SETAMODE88(x.insn, v) ELSE SETAMODE(x.insn, v))
                       = IF x.std = "88" THEN INSN88(op, v, bm) ELSE INSN(op, mod, v, bm)
                  /\ (IF x.std = "88" THEN SETBMODE88(x.insn, v) ELSE SETBMODE(x.insn, v))
                       = IF x.std = "88" THEN INSN88(op, am, v) ELSE INSN(op, mod, am, v)
<1> DEFINE op == Opcode(x)
           mod == Modifier(x)
           am == AMode(x)
           bm == BMode(x)
           insn == x.insn
<1>1. /\ op \in 0 .. MaxOpcode(x.std) /\ mod \in 0 .. 7
      /\ am \in 0 .. MaxMode(x.std) /\ bm \in 0 .. MaxMode(x.std)
      /\ insn = IF x.std = "88" THEN INSN88(op, am, bm)
                                ELSE INSN(op, mod, am, bm)
  BY ObjectParts
<1>2. x.std = "88" => mod = 0
  BY DEF Modifier
<1>3. x.std = "88" \/ x.std = "94"
  BY ObjectType DEF Standard
<1> HIDE DEF op, mod, am, bm, insn
<1>4. CASE x.std = "88"
  <2>1. op \in 0 .. 10 /\ am \in 0 .. 3 /\ bm \in 0 .. 3
        /\ insn = INSN88(op, am, bm)
    BY <1>1, <1>4 DEF MaxOpcode, MaxMode
  <2>2. /\ \A v \in 0 .. 10 : SETOPCODE88(insn, v) = INSN88(v, am, bm)
        /\ \A v \in 0 .. 3 : /\ SETAMODE88(insn, v) = INSN88(op, v, bm)
                             /\ SETBMODE88(insn, v) = INSN88(op, am, v)
    BY <2>1, SetGroups88
  <2>3. MaxOpcode(x.std) = 10 /\ MaxMode(x.std) = 3 /\ x.std # "94"
    BY <1>4 DEF MaxOpcode, MaxMode
  <2> QED
    BY <1>2, <1>4, <2>2, <2>3 DEF op, mod, am, bm, insn
<1>5. CASE x.std = "94"
  <2>1. x.std # "88"
    BY <1>5
  <2>2. /\ op \in Opcodes /\ mod \in Octal
        /\ am \in Octal /\ bm \in Octal
        /\ insn = INSN(op, mod, am, bm)
    BY <1>1, <2>1 DEF MaxOpcode, MaxMode, Opcodes, Octal
  <2>3. /\ \A v \in Opcodes : SETOPCODE(insn, v) = INSN(v, mod, am, bm)
        /\ \A v \in Octal : /\ SETMODIFIER(insn, v) = INSN(op, v, am, bm)
                             /\ SETAMODE(insn, v) = INSN(op, mod, v, bm)
                             /\ SETBMODE(insn, v) = INSN(op, mod, am, v)
    BY <2>2, SetGroups
  <2>4. MaxOpcode(x.std) = 17 /\ MaxMode(x.std) = 7
    BY <2>1 DEF MaxOpcode, MaxMode
  <2>5. \A v \in 0 .. 6 : v \in Octal
    BY DEF Octal
  <2> QED
    BY <2>1, <2>3, <2>4, <2>5 DEF Opcodes, Octal, op, mod, am, bm, insn
<1> QED
  BY <1>3, <1>4, <1>5

\* A setter of a part of the number changes the attribute it is for.
LEMMA Setters ==
  ASSUME obj \in Objects, NEW v
  PROVE  LET x == Attributes(obj)
         IN  /\ SetOpcode(v) => obj' \in Objects
                                /\ Attributes(obj') = [x EXCEPT ![1] = v]
             /\ SetModifier(v) => obj' \in Objects
                                  /\ Attributes(obj') = [x EXCEPT ![2] = v]
             /\ SetAMode(v) => obj' \in Objects
                               /\ Attributes(obj') = [x EXCEPT ![3] = v]
             /\ SetBMode(v) => obj' \in Objects
                               /\ Attributes(obj') = [x EXCEPT ![4] = v]
<1> DEFINE op == Opcode(obj)
           mod == Modifier(obj)
           am == AMode(obj)
           bm == BMode(obj)
<1>1. /\ op \in 0 .. MaxOpcode(obj.std) /\ mod \in 0 .. 7
      /\ am \in 0 .. MaxMode(obj.std) /\ bm \in 0 .. MaxMode(obj.std)
  BY ObjectParts
<1>2. obj.std = "88" => mod = 0
  BY Numbers
<1>3. Attributes(obj) = <<op, mod, am, bm, obj.a, obj.b>>
  BY DEF Attributes
<1>4. ASSUME SetOpcode(v)
      PROVE  obj' \in Objects /\ Attributes(obj') = [Attributes(obj) EXCEPT ![1] = v]
  <2>1. /\ v \in 0 .. MaxOpcode(obj.std)
        /\ obj' = [obj EXCEPT !.insn = IF obj.std = "88" THEN INSN88(v, am, bm)
                                                         ELSE INSN(v, mod, am, bm)]
    BY <1>4, Numbers DEF SetOpcode
  <2> HIDE DEF op, mod, am, bm
  <2>2. /\ obj' \in Objects
        /\ Attributes(obj') = <<v, mod, am, bm, obj.a, obj.b>>
    BY <1>1, <1>2, <2>1, Other
  <2> QED
    BY <1>3, <2>2
<1>5. ASSUME SetModifier(v)
      PROVE  obj' \in Objects /\ Attributes(obj') = [Attributes(obj) EXCEPT ![2] = v]
  <2>1. /\ v \in 0 .. 6 /\ obj.std = "94"
        /\ obj' = [obj EXCEPT !.insn = INSN(op, v, am, bm)]
    BY <1>5, Numbers DEF SetModifier
  <2> HIDE DEF op, mod, am, bm
  <2>2. obj.std # "88" /\ v \in 0 .. 7
    BY <2>1
  <2>3. obj' = [obj EXCEPT !.insn = IF obj.std = "88" THEN INSN88(op, am, bm)
                                                      ELSE INSN(op, v, am, bm)]
    BY <2>1, <2>2
  <2>4. /\ obj' \in Objects
        /\ Attributes(obj') = <<op, v, am, bm, obj.a, obj.b>>
    BY <1>1, <2>2, <2>3, Other
  <2> QED
    BY <1>3, <2>4
<1>6. ASSUME SetAMode(v)
      PROVE  obj' \in Objects /\ Attributes(obj') = [Attributes(obj) EXCEPT ![3] = v]
  <2>1. /\ v \in 0 .. MaxMode(obj.std)
        /\ obj' = [obj EXCEPT !.insn = IF obj.std = "88" THEN INSN88(op, v, bm)
                                                         ELSE INSN(op, mod, v, bm)]
    BY <1>6, Numbers DEF SetAMode
  <2> HIDE DEF op, mod, am, bm
  <2>2. /\ obj' \in Objects
        /\ Attributes(obj') = <<op, mod, v, bm, obj.a, obj.b>>
    BY <1>1, <1>2, <2>1, Other
  <2> QED
    BY <1>3, <2>2
<1>7. ASSUME SetBMode(v)
      PROVE  obj' \in Objects /\ Attributes(obj') = [Attributes(obj) EXCEPT ![4] = v]
  <2>1. /\ v \in 0 .. MaxMode(obj.std)
        /\ obj' = [obj EXCEPT !.insn = IF obj.std = "88" THEN INSN88(op, am, v)
                                                         ELSE INSN(op, mod, am, v)]
    BY <1>7, Numbers DEF SetBMode
  <2> HIDE DEF op, mod, am, bm
  <2>2. /\ obj' \in Objects
        /\ Attributes(obj') = <<op, mod, am, v, obj.a, obj.b>>
    BY <1>1, <1>2, <2>1, Other
  <2> QED
    BY <1>3, <2>2
<1> QED
  BY <1>4, <1>5, <1>6, <1>7

\* So does a setter of a field; it reduces what it is given.
LEMMA FieldSetters ==
  ASSUME obj \in Objects, NEW v \in Values
  PROVE  /\ SetAField(v) =>
              /\ obj' \in Objects /\ Modifier(obj') = Modifier(obj)
              /\ v > -Half => Attributes(obj')
                                = [Attributes(obj) EXCEPT ![5] = v % obj.coresize]
         /\ SetBField(v) =>
              /\ obj' \in Objects /\ Modifier(obj') = Modifier(obj)
              /\ v > -Half => Attributes(obj')
                                = [Attributes(obj) EXCEPT ![6] = v % obj.coresize]
<1> DEFINE f == ReducedUnsigned(v, obj.coresize)
<1>1. v \in Int /\ obj.coresize \in CoreSizes
  BY ObjectType, RedcodeAssumption
<1>2. f \in 0 .. obj.coresize - 1
  BY <1>1, Reduced
<1>3. v > -Half => f = v % obj.coresize
  BY <1>1, ReducedIs
<1>4. [obj EXCEPT !.a = f] \in Objects /\ [obj EXCEPT !.b = f] \in Objects
  BY <1>2, ReplacedFields
<1>5. obj = [std |-> obj.std, coresize |-> obj.coresize, insn |-> obj.insn,
             a |-> obj.a, b |-> obj.b]
  BY ObjectType
<1>6. ASSUME SetAField(v)
      PROVE  /\ obj' \in Objects /\ Modifier(obj') = Modifier(obj)
             /\ v > -Half => Attributes(obj')
                               = [Attributes(obj) EXCEPT ![5] = v % obj.coresize]
  <2>1. obj' = [obj EXCEPT !.a = f]
    BY <1>6 DEF SetAField
  <2> HIDE DEF f
  <2>2. obj'.std = obj.std /\ obj'.insn = obj.insn /\ obj'.a = f /\ obj'.b = obj.b
    BY <1>5, <2>1
  <2>3. /\ Opcode(obj') = Opcode(obj) /\ Modifier(obj') = Modifier(obj)
        /\ AMode(obj') = AMode(obj) /\ BMode(obj') = BMode(obj)
    BY <2>2 DEF Opcode, Modifier, AMode, BMode
  <2>4. Attributes(obj') = [Attributes(obj) EXCEPT ![5] = f]
    BY <2>2, <2>3 DEF Attributes
  <2> QED
    BY <1>3, <1>4, <2>1, <2>3, <2>4
<1>7. ASSUME SetBField(v)
      PROVE  /\ obj' \in Objects /\ Modifier(obj') = Modifier(obj)
             /\ v > -Half => Attributes(obj')
                               = [Attributes(obj) EXCEPT ![6] = v % obj.coresize]
  <2>1. obj' = [obj EXCEPT !.b = f]
    BY <1>7 DEF SetBField
  <2> HIDE DEF f
  <2>2. obj'.std = obj.std /\ obj'.insn = obj.insn /\ obj'.a = obj.a /\ obj'.b = f
    BY <1>5, <2>1
  <2>3. /\ Opcode(obj') = Opcode(obj) /\ Modifier(obj') = Modifier(obj)
        /\ AMode(obj') = AMode(obj) /\ BMode(obj') = BMode(obj)
    BY <2>2 DEF Opcode, Modifier, AMode, BMode
  <2>4. Attributes(obj') = [Attributes(obj) EXCEPT ![6] = f]
    BY <2>2, <2>3 DEF Attributes
  <2> QED
    BY <1>3, <1>4, <2>1, <2>3, <2>4
<1> QED
  BY <1>6, <1>7

\* The invariant is kept by every step.  A modifier without a name is never
\* set, only kept.
LEMMA StepInv ==
  ASSUME Inv, [Next]_vars
  PROVE  Inv'
<1>1. obj \in Objects /\ foreign \in BOOLEAN /\ (Modifier(obj) = 7 => foreign)
  BY DEF Inv
<1>2. Attributes(obj)[2] = Modifier(obj)
  BY DEF Attributes
<1>3. Attributes(obj')[2] = Modifier(obj')
  BY DEF Attributes
<1>4. DOMAIN Attributes(obj) = 1 .. 6
  BY DEF Attributes
<1>5. ASSUME NEW v \in Values, SetOpcode(v) \/ SetAMode(v) \/ SetBMode(v)
      PROVE  Inv'
  <2>1. /\ obj' \in Objects
        /\ \E k \in {1, 3, 4} : Attributes(obj') = [Attributes(obj) EXCEPT ![k] = v]
    BY <1>1, <1>5, Setters
  <2>2. Modifier(obj') = Modifier(obj)
    BY <1>2, <1>3, <1>4, <2>1
  <2>3. foreign' = foreign
    BY <1>5 DEF SetOpcode, SetAMode, SetBMode
  <2> QED
    BY <1>1, <2>1, <2>2, <2>3 DEF Inv
<1>6. ASSUME NEW v \in Values, SetModifier(v)
      PROVE  Inv'
  <2>1. /\ obj' \in Objects
        /\ Attributes(obj') = [Attributes(obj) EXCEPT ![2] = v]
    BY <1>1, <1>6, Setters
  <2>2. Modifier(obj') = v
    BY <1>3, <1>4, <2>1
  <2>3. foreign' = foreign /\ v \in 0 .. 6
    BY <1>6 DEF SetModifier
  <2>4. v # 7
    BY <2>3
  <2> QED
    BY <1>1, <2>1, <2>2, <2>3, <2>4 DEF Inv
<1>7. ASSUME NEW v \in Values, SetAField(v) \/ SetBField(v)
      PROVE  Inv'
  <2>1. obj' \in Objects /\ Modifier(obj') = Modifier(obj)
    BY <1>1, <1>7, FieldSetters
  <2>2. foreign' = foreign
    BY <1>7 DEF SetAField, SetBField
  <2> QED
    BY <1>1, <2>1, <2>2 DEF Inv
<1>8. CASE Reinit
  <2>1. obj.std \in Standard /\ obj.coresize \in CoreSizes
    BY <1>1, ObjectType
  <2> QED
    BY <1>8, <2>1, CreatedObject DEF Reinit, Inv
<1>9. CASE UNCHANGED vars
  BY <1>1, <1>9 DEF vars, Inv
<1> QED
  BY <1>5, <1>6, <1>7, <1>8, <1>9 DEF Next

----------------------------------------------------------------------------
(* Results *)

\* A state is refused only if it has the last opcode and the modifier 7.
LEMMA Restored ==
  ASSUME NEW x \in Objects
  PROVE  Unpickled(x.std, State(x)) =
           IF Modifier(x) = 7 /\ Opcode(x) = 17 THEN Refused ELSE x
<1> DEFINE state == State(x)
           max == IF x.std = "88" THEN 175 ELSE 9151
<1>1. /\ x.std \in Standard /\ x.coresize \in CoreSizes
      /\ x.a \in 0 .. x.coresize - 1 /\ x.b \in 0 .. x.coresize - 1
      /\ x = [std |-> x.std, coresize |-> x.coresize, insn |-> x.insn,
              a |-> x.a, b |-> x.b]
  BY ObjectType
<1>2. /\ state[1] = x.coresize /\ state[2] = x.insn
      /\ state[3] = x.a /\ state[4] = x.b
  BY DEF State
<1>3. INSN88(10, 3, 3) = 175 /\ INSN(17, 6, 7, 7) = 9151
  BY DEF INSN88, INSN
<1>4. Unpickled(x.std, state) = IF x.insn \in 0 .. max THEN x ELSE Refused
  <2> HIDE DEF state
  <2> QED
    BY <1>1, <1>2, <1>3 DEF Unpickled
<1>5. x.insn \in 0 .. max <=> ~(Modifier(x) = 7 /\ Opcode(x) = 17)
  <2>1. CASE x.std = "88"
    <3>1. x.insn \in 0 .. max
      BY <2>1, ObjectType DEF Insns88
    <3>2. Modifier(x) = 0
      BY <2>1 DEF Modifier
    <3> QED
      BY <3>1, <3>2
  <2>2. CASE x.std = "94"
    <3>1. x.std # "88"
      BY <2>2
    <3>2. PICK op \in 0 .. 17, mod \in 0 .. 7, am \in 0 .. 7, bm \in 0 .. 7 :
            op = Opcode(x) /\ mod = Modifier(x) /\ x.insn = INSN(op, mod, am, bm)
      BY <3>1, ObjectParts DEF MaxOpcode, MaxMode
    <3>3. max = 9151
      BY <3>1
    <3> DEFINE insn == op * 512 + mod * 64 + am * 8 + bm
    <3>4. insn \in Nat /\ (insn <= 9151 <=> ~(mod = 7 /\ op = 17))
      BY <3>2
    <3>5. x.insn = insn
      BY <3>2 DEF INSN
    <3> HIDE DEF insn
    <3>6. x.insn \in 0 .. max <=> insn <= 9151
      BY <3>3, <3>4, <3>5
    <3> HIDE DEF max
    <3> QED
      BY <3>2, <3>4, <3>6
  <2> QED
    BY <1>1, <2>1, <2>2 DEF Standard
<1> QED
  BY <1>4, <1>5

\* Whatever is done with an object, it can be pickled and restored, and in a
\* core of less than 200000 cells its text is read as an equal object; in
\* every larger core the text has lost the last digit of the B number, and
\* nothing else.  For all core sizes, numbers, states and texts.  (The
\* modifier without a name is excepted in the property.)
THEOREM ObjectsRoundTrip == Spec => []RoundTrip
<1>1. ASSUME Inv PROVE RoundTrip
  <2>1. obj \in Objects /\ (Modifier(obj) = 7 => foreign)
    BY <1>1 DEF Inv
  <2>2. Unpickled(obj.std, State(obj)) =
          IF Modifier(obj) = 7 /\ Opcode(obj) = 17 THEN Refused ELSE obj
    BY <2>1, Restored
  <2>3. ASSUME Modifier(obj) # 7
        PROVE  LET read  == FromString(Repr(obj), obj.coresize, obj.std)
                   shown == Shown(obj.b, obj.coresize)
               IN  IF read = Refused
                     THEN obj.std = "88" \/ (Wide(obj) /\ OneDigit(shown))
                   ELSE IF Wide(obj)
                     THEN /\ ~OneDigit(shown)
                          /\ <<read.insn, read.a>> = <<obj.insn, obj.a>>
                          /\ OneDigit(shown - 10 * Shown(read.b, obj.coresize))
                          /\ ~Equal(read, obj)
                   ELSE Equal(read, obj)
    <3> DEFINE read == FromString(Repr(obj), obj.coresize, obj.std)
               shown == Shown(obj.b, obj.coresize)
    <3>1. read = IF /\ ~Lost(obj)
                    /\ obj.std = "94" \/ Accepts88(Opcode(obj), AMode(obj), BMode(obj))
                   THEN [obj EXCEPT !.b = ReadB(obj)] ELSE Refused
      BY <2>1, <2>3, ReadBack
    <3>2. obj.std \in {"88", "94"}
          /\ [obj EXCEPT !.b = ReadB(obj)]
               = [std |-> obj.std, coresize |-> obj.coresize,
                  insn |-> obj.insn, a |-> obj.a, b |-> ReadB(obj)]
      BY <2>1, ObjectType DEF Standard
    <3>3. Lost(obj) <=> Wide(obj) /\ OneDigit(shown)
      BY DEF Lost
    <3> DEFINE Kept == /\ ~OneDigit(shown)
                       /\ <<read.insn, read.a>> = <<obj.insn, obj.a>>
                       /\ OneDigit(shown - 10 * Shown(read.b, obj.coresize))
                       /\ ~Equal(read, obj)
    <3> HIDE DEF read
    <3>4. ASSUME read = Refused PROVE obj.std = "88" \/ (Wide(obj) /\ OneDigit(shown))
      <4>1. ~(~Lost(obj) /\ obj.std = "94")
        BY <3>1, <3>2, <3>4 DEF Refused
      <4> QED
        BY <3>2, <3>3, <3>4, <4>1
    <3>5. ASSUME read # Refused
          PROVE  IF Wide(obj) THEN Kept ELSE Equal(read, obj)
      <4>1. /\ ~Lost(obj) /\ read.insn = obj.insn /\ read.a = obj.a
            /\ read.b = ReadB(obj)
        BY <3>1, <3>2, <3>5
      <4>2. /\ ~Wide(obj) => ReadB(obj) = obj.b
            /\ Wide(obj) => /\ ReadB(obj) # obj.b
                            /\ OneDigit(shown - 10 * Shown(ReadB(obj), obj.coresize))
        BY <2>1, <4>1, BIsRead
      <4>3. Equal(read, obj) <=> ~Wide(obj)
        BY <4>1, <4>2 DEF Equal
      <4> QED
        BY <3>3, <3>5, <4>1, <4>2, <4>3
    <3> QED
      BY <3>4, <3>5 DEF read
  <2> QED
    BY <2>1, <2>2, <2>3 DEF RoundTrip
<1> QED
  BY <1>1, InitInv, StepInv, PTL DEF Spec

\* For every object of '88, fromString reads what it prints exactly if the
\* switch of run_88 has a case for it, the blank cell apart, and the B
\* number was not cut off completely, as it is in cores of 200000 cells and
\* more when it has one digit.
THEOREM ReadersAgree == Spec => []RulesAgree
<1>1. ASSUME Inv PROVE RulesAgree
  <2> SUFFICES ASSUME obj.std = "88"
               PROVE  FromString(Repr(obj), obj.coresize, "88") # Refused
                        <=> /\ Code88(obj) \in E88!ValidCode \ {E88!Blank.insn}
                            /\ Wide(obj) => ~OneDigit(Shown(obj.b, obj.coresize))
    BY DEF RulesAgree
  <2> DEFINE op == Opcode(obj)
             am == AMode(obj)
             bm == BMode(obj)
             copy == [obj EXCEPT !.b = ReadB(obj)]
  <2>1. obj \in Objects
    BY <1>1 DEF Inv
  <2>2. op \in 0 .. 10 /\ am \in 0 .. 3 /\ bm \in 0 .. 3
    BY <2>1, ObjectParts DEF MaxOpcode, MaxMode
  <2>3. Modifier(obj) # 7
    BY DEF Modifier
  <2>4. obj.std # "94"
    OBVIOUS
  <2>5. copy # Refused
    <3>1. copy = [std |-> obj.std, coresize |-> obj.coresize,
                  insn |-> obj.insn, a |-> obj.a, b |-> ReadB(obj)]
      BY <2>1, ObjectType
    <3>2. copy.std = "88" /\ Refused.std = "refused"
      BY <3>1 DEF Refused
    <3> QED
      BY <3>2
  <2>6. FromString(Repr(obj), obj.coresize, "88")
          = IF ~Lost(obj) /\ Accepts88(op, am, bm) THEN copy ELSE Refused
    BY <2>1, <2>3, <2>4, ReadBack
  <2>7. Accepts88(op, am, bm)
          <=> Code88(obj) \in E88!ValidCode \ {E88!Blank.insn}
    BY <2>2, Rules DEF Code88
  <2>8. ~Lost(obj) <=> (Wide(obj) => ~OneDigit(Shown(obj.b, obj.coresize)))
    BY DEF Lost
  <2> HIDE DEF op, am, bm, copy
  <2> QED
    BY <2>5, <2>6, <2>7, <2>8
<1> QED
  BY <1>1, InitInv, StepInv, PTL DEF Spec

\* For every object and every number a setter changes its own attribute and
\* no other.
THEOREM SettersIndependent == Spec => SettersApart
<1> DEFINE Apart == \A v \in Values :
             /\ SetOpcode(v)   => Attributes(obj') = [Attributes(obj) EXCEPT ![1] = v]
             /\ SetModifier(v) => Attributes(obj') = [Attributes(obj) EXCEPT ![2] = v]
             /\ SetAMode(v)    => Attributes(obj') = [Attributes(obj) EXCEPT ![3] = v]
             /\ SetBMode(v)    => Attributes(obj') = [Attributes(obj) EXCEPT ![4] = v]
             /\ SetAField(v) /\ v > -(IntRange \div 2) =>
                  Attributes(obj') = [Attributes(obj) EXCEPT ![5] = v % obj.coresize]
             /\ SetBField(v) /\ v > -(IntRange \div 2) =>
                  Attributes(obj') = [Attributes(obj) EXCEPT ![6] = v % obj.coresize]
<1>1. Inv => Apart
  BY Setters, FieldSetters DEF Inv, Half
<1>2. [][Apart]_vars <=> SettersApart
  BY DEF SettersApart
<1> HIDE DEF Apart
<1>3. Inv /\ [Next]_vars => [Apart]_vars
  BY <1>1
<1> QED
  BY <1>2, <1>3, InitInv, StepInv, PTL DEF Spec
=============================================================================
