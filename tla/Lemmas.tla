------------------------------- MODULE Lemmas -------------------------------
(***************************************************************************)
(* Facts about sequences, numbers, sums and tuples for several proofs.     *)
(*                                                                         *)
(* What a turn does to a queue, element by element: a sequence shifted by  *)
(* one place, with nothing, one or two elements added behind.  The run     *)
(* loops only move a head and a tail over an array; these lemmas turn what *)
(* is between the two into the Tail and Append of Fight.                   *)
(*                                                                         *)
(* What div and mod do when the divisor is a constant of the model: a core *)
(* size, a number of warriors, the size of a machine word.                 *)
(*                                                                         *)
(* What MapThenSumSet of the community modules computes.  The induction it *)
(* takes is over a set of numbers (AllOf), not over an operator.           *)
(*                                                                         *)
(* Tuples of natural numbers, compared at the first place where they are   *)
(* different (Distances, Nearer): no sequence of them falls without end.   *)
(***************************************************************************)
EXTENDS Integers, Sequences, SequenceTheorems, FiniteSets, FiniteSetTheorems,
        WellFoundedInduction, TLAPS

\* Nothing added: the process at the head died.
LEMMA ShiftTail ==
  ASSUME NEW S, NEW q \in Seq(S), NEW r \in Seq(S), q # <<>>,
         Len(r) = Len(q) - 1,
         \A i \in 1 .. Len(q) - 1 : r[i] = q[i + 1]
  PROVE  r = Tail(q)
<1>1. /\ Tail(q) \in Seq(S)
      /\ Len(Tail(q)) = Len(q) - 1
      /\ \A i \in 1 .. Len(q) - 1 : Tail(q)[i] = q[i + 1]
  BY HeadTailProperties
<1>2. \A i \in 1 .. Len(r) : r[i] = Tail(q)[i]
  BY <1>1
<1> QED
  BY <1>1, <1>2, SeqEqual

\* One element added.
LEMMA ShiftAppend ==
  ASSUME NEW S, NEW q \in Seq(S), NEW r \in Seq(S), q # <<>>, NEW x \in S,
         Len(r) = Len(q),
         \A i \in 1 .. Len(q) - 1 : r[i] = q[i + 1],
         r[Len(q)] = x
  PROVE  r = Append(Tail(q), x)
<1> DEFINE t == Tail(q)
<1>1. /\ t \in Seq(S)
      /\ Len(t) = Len(q) - 1
      /\ \A i \in 1 .. Len(q) - 1 : t[i] = q[i + 1]
  BY HeadTailProperties
<1> HIDE DEF t
<1>2. /\ Append(t, x) \in Seq(S)
      /\ Len(Append(t, x)) = Len(t) + 1
      /\ \A i \in 1 .. Len(t) : Append(t, x)[i] = t[i]
      /\ Append(t, x)[Len(t) + 1] = x
  BY <1>1, AppendProperties
<1>3. Len(q) \in Nat
  BY LenProperties
<1>4. \A i \in 1 .. Len(r) : r[i] = Append(t, x)[i]
  BY <1>1, <1>2, <1>3
<1>5. r = Append(t, x)
  BY <1>1, <1>2, <1>3, <1>4, SeqEqual
<1> QED
  BY <1>5 DEF t

\* Two elements added: a process split.
LEMMA ShiftAppendTwo ==
  ASSUME NEW S, NEW q \in Seq(S), NEW r \in Seq(S), q # <<>>,
         NEW x \in S, NEW y \in S,
         Len(r) = Len(q) + 1,
         \A i \in 1 .. Len(q) - 1 : r[i] = q[i + 1],
         r[Len(q)] = x, r[Len(q) + 1] = y
  PROVE  r = Append(Append(Tail(q), x), y)
<1> DEFINE t == Tail(q)
           u == Append(t, x)
<1>1. /\ t \in Seq(S)
      /\ Len(t) = Len(q) - 1
      /\ \A i \in 1 .. Len(q) - 1 : t[i] = q[i + 1]
  BY HeadTailProperties
<1> HIDE DEF t
<1>2. /\ u \in Seq(S)
      /\ Len(u) = Len(t) + 1
      /\ \A i \in 1 .. Len(t) : u[i] = t[i]
      /\ u[Len(t) + 1] = x
  BY <1>1, AppendProperties
<1> HIDE DEF u
<1>3. /\ Append(u, y) \in Seq(S)
      /\ Len(Append(u, y)) = Len(u) + 1
      /\ \A i \in 1 .. Len(u) : Append(u, y)[i] = u[i]
      /\ Append(u, y)[Len(u) + 1] = y
  BY <1>2, AppendProperties
<1>4. Len(q) \in Nat
  BY LenProperties
<1>5. \A i \in 1 .. Len(r) : r[i] = Append(u, y)[i]
  BY <1>1, <1>2, <1>3, <1>4
<1>6. r = Append(u, y)
  BY <1>1, <1>2, <1>3, <1>4, <1>5, SeqEqual
<1> QED
  BY <1>6 DEF t, u

----------------------------------------------------------------------------
(* Arithmetic of div and mod with a divisor that is not a constant. *)

\* What div and mod are.
LEMMA Quotient ==
  ASSUME NEW a \in Int, NEW b \in Nat \ {0}
  PROVE  /\ a \div b \in Int
         /\ b * (a \div b) <= a /\ a < b * (a \div b) + b
         /\ a % b \in 0 .. b - 1
         /\ a = b * (a \div b) + (a % b)
  OBVIOUS

\* They are the only quotient and remainder.
LEMMA QuotientIs ==
  ASSUME NEW a \in Int, NEW b \in Nat \ {0}, NEW q \in Int, NEW r \in 0 .. b - 1,
         a = b * q + r
  PROVE  a \div b = q /\ a % b = r
<1> DEFINE d == a \div b
<1>1. /\ d \in Int
      /\ b * d <= a /\ a < b * d + b
      /\ a % b \in 0 .. b - 1
      /\ a = b * d + (a % b)
  BY Quotient
<1> HIDE DEF d
<1>2. b * (d - q) <= r /\ 0 <= r /\ r < b * (d - q) + b
  BY <1>1
<1>3. d - q = 0
  <2>1. CASE d - q >= 1
    <3>1. b * (d - q) >= b
      BY <1>1, <2>1
    <3> QED
      BY <1>1, <1>2, <3>1
  <2>2. CASE d - q <= -1
    <3>1. b * (d - q) <= -b
      BY <1>1, <2>2
    <3> QED
      BY <1>1, <1>2, <3>1
  <2> QED
    BY <1>1, <2>1, <2>2
<1>4. d = q
  BY <1>1, <1>3
<1> QED
  BY <1>1, <1>4 DEF d

\* Multiples of the divisor do not change the remainder.
LEMMA Congruent ==
  ASSUME NEW a \in Int, NEW b \in Nat \ {0}, NEW q \in Int
  PROVE  (a + b * q) % b = a % b
<1>1. /\ a \div b \in Int
      /\ a % b \in 0 .. b - 1
      /\ a = b * (a \div b) + (a % b)
  BY Quotient
<1>2. a + b * q \in Int /\ a \div b + q \in Int
  BY <1>1
<1>3. a + b * q = b * (a \div b + q) + (a % b)
  BY <1>1
<1> QED
  BY <1>1, <1>2, <1>3, QuotientIs

\* Words may wrap in the middle of a sum or difference.
LEMMA ModDifference ==
  ASSUME NEW a \in Int, NEW c \in Int, NEW b \in Nat \ {0}
  PROVE  /\ (a - (c % b)) % b = (a - c) % b
         /\ ((a % b) - c) % b = (a - c) % b
         /\ ((a % b) + c) % b = (a + c) % b
<1>1. /\ c \div b \in Int /\ c % b \in Int
      /\ c = b * (c \div b) + (c % b)
      /\ a \div b \in Int /\ a % b \in Int
      /\ a = b * (a \div b) + (a % b)
  BY Quotient
<1> DEFINE qa == a \div b
           qc == c \div b
           ra == a % b
           rc == c % b
<1> HIDE DEF qa, qc, ra, rc
<1>2. \A x, q \in Int : (x + b * q) % b = x % b
  BY Congruent
<1>3. /\ qa \in Int /\ qc \in Int /\ ra \in Int /\ rc \in Int
      /\ a = b * qa + ra /\ c = b * qc + rc
  BY <1>1 DEF qa, qc, ra, rc
<1>4. (a - rc) % b = (a - c) % b
  <2>1. a - rc = (a - c) + b * qc
    BY <1>3
  <2>2. (a - c) \in Int
    BY <1>3
  <2>3. ((a - c) + b * qc) % b = (a - c) % b
    BY <1>2, <1>3, <2>2
  <2> QED
    BY <2>1, <2>3
<1>5. (ra - c) % b = (a - c) % b
  <2>1. a - c = (ra - c) + b * qa
    BY <1>3
  <2>2. (ra - c) \in Int
    BY <1>3
  <2>3. ((ra - c) + b * qa) % b = (ra - c) % b
    BY <1>2, <1>3, <2>2
  <2> QED
    BY <2>1, <2>3
<1>6. (ra + c) % b = (a + c) % b
  <2>1. a + c = (ra + c) + b * qa
    BY <1>3
  <2>2. (ra + c) \in Int
    BY <1>3
  <2>3. ((ra + c) + b * qa) % b = (ra + c) % b
    BY <1>2, <1>3, <2>2
  <2> QED
    BY <2>1, <2>3
<1> QED
  BY <1>4, <1>5, <1>6 DEF ra, rc

\* A word is its own remainder.
LEMMA ModSmall ==
  ASSUME NEW b \in Nat \ {0}, NEW a \in 0 .. b - 1
  PROVE  a % b = a
<1>1. a = b * 0 + a
  OBVIOUS
<1> QED
  BY <1>1, QuotientIs

\* A step around a ring of b places wraps at most once.
LEMMA StepAround ==
  ASSUME NEW b \in Nat \ {0}, NEW i \in 0 .. b - 1, NEW d \in 0 .. b
  PROVE  (i + d) % b = IF i + d < b THEN i + d ELSE i + d - b
<1>1. CASE i + d < b
  BY <1>1, ModSmall
<1>2. CASE i + d >= b
  <2>1. i + d = b * 1 + (i + d - b)
    OBVIOUS
  <2> QED
    BY <1>2, <2>1, QuotientIs
<1> QED
  BY <1>1, <1>2

\* A quotient of two addresses, and its remainder, are addresses.
LEMMA QuotientSmall ==
  ASSUME NEW n \in Nat, NEW a \in 0 .. n - 1, NEW b \in 1 .. n - 1
  PROVE  a \div b \in 0 .. n - 1 /\ a % b \in 0 .. n - 1
<1> DEFINE q == a \div b
<1>1. q \in Int /\ b * q <= a /\ a < b * q + b /\ a % b \in 0 .. b - 1
  BY Quotient
<1> HIDE DEF q
<1>2. q >= 0
  <2>1. CASE q <= -1
    <3>1. b * q <= -b
      BY <1>1, <2>1
    <3> QED
      BY <1>1, <3>1
  <2> QED
    BY <1>1, <2>1
<1>3. q <= b * q
  BY <1>1, <1>2
<1> QED
  BY <1>1, <1>2, <1>3 DEF q

----------------------------------------------------------------------------
(* Sums over finite sets, which the community modules define by recursion  *)
(* over the subsets.                                                       *)

LessOnNat == OpToRel(<, Nat)

\* A set of numbers that is not empty has a least one.
LEMMA LeastOf ==
  ASSUME NEW S, S \subseteq Nat, S # {}
  PROVE  \E x \in S : \A y \in S : x <= y
<1>1. PICK x \in S : \A y \in S : <<y, x>> \notin LessOnNat
  BY NatLessThanWellFounded, WFMin DEF LessOnNat
<1>2. \A y \in Nat : y < x => <<y, x>> \in LessOnNat
  BY DEF LessOnNat, OpToRel
<1>3. ASSUME NEW y \in S PROVE x <= y
  <2>1. x \in Nat /\ y \in Nat /\ ~(y < x)
    BY <1>1, <1>2
  <2> QED
    BY <2>1
<1> QED
  BY <1>3

\* Induction, for the set of the numbers that have a property.
LEMMA AllOf ==
  ASSUME NEW S, 0 \in S, \A n \in Nat : n \in S => n + 1 \in S
  PROVE  Nat \subseteq S
<1> SUFFICES ASSUME Nat \ S # {} PROVE FALSE
  OBVIOUS
<1>1. PICK n \in Nat \ S : \A m \in Nat \ S : n <= m
  BY LeastOf
<1>2. n # 0 /\ n - 1 \in Nat
  BY <1>1
<1>3. n - 1 \in S
  BY <1>1, <1>2
<1> QED
  BY <1>1, <1>2, <1>3

\* The element a sum starts with, and the sums of w over the subsets of S.
Picked(s) == CHOOSE x \in s : TRUE

IsSum(g, w, S) ==
  g = [s \in SUBSET S |-> IF s = {} THEN 0
                          ELSE w[Picked(s)] + g[s \ {Picked(s)}]]

\* A set without the element that is picked from it has one element less.
LEMMA Smaller ==
  ASSUME NEW S, IsFiniteSet(S), NEW n \in Nat,
         NEW s \in SUBSET S, Cardinality(s) = n + 1
  PROVE  /\ s # {} /\ Picked(s) \in s /\ Picked(s) \in S
         /\ s \ {Picked(s)} \in SUBSET S
         /\ Cardinality(s \ {Picked(s)}) = n
<1>1. IsFiniteSet(s)
  BY FS_Subset
<1>2. s # {}
  BY FS_EmptySet
<1>3. Picked(s) \in s
  BY <1>2 DEF Picked
<1> QED
  BY <1>1, <1>2, <1>3, FS_RemoveElement

\* The recursion is well defined: it removes an element each time.
LEMMA SumExists ==
  ASSUME NEW S, IsFiniteSet(S), NEW w
  PROVE  \E g : IsSum(g, w, S)
<1> DEFINE Step(g, s) == IF s = {} THEN 0 ELSE w[Picked(s)] + g[s \ {Picked(s)}]
           Small(n) == {s \in SUBSET S : Cardinality(s) <= n}
           Good == {n \in Nat : \E g : \A s \in Small(n) : g[s] = Step(g, s)}
<1>1. \A s \in SUBSET S : IsFiniteSet(s) /\ Cardinality(s) \in Nat
  BY FS_Subset, FS_CardinalityType
<1>2. \A s \in SUBSET S : s # {} =>
        /\ Picked(s) \in s /\ s \ {Picked(s)} \in SUBSET S
        /\ Cardinality(s \ {Picked(s)}) = Cardinality(s) - 1
  BY <1>1, FS_RemoveElement DEF Picked
<1>3. 0 \in Good
  <2> DEFINE g == [s \in SUBSET S |-> 0]
  <2>1. \A s \in Small(0) : s = {}
    BY <1>1, FS_EmptySet
  <2>2. \A s \in Small(0) : g[s] = Step(g, s)
    BY <2>1
  <2> HIDE DEF g, Step, Small
  <2> QED
    BY <2>2
<1>4. ASSUME NEW n \in Nat, n \in Good
      PROVE  n + 1 \in Good
  <2>1. PICK g : \A s \in Small(n) : g[s] = Step(g, s)
    BY <1>4
  <2> DEFINE h == [s \in SUBSET S |-> IF s \in Small(n) THEN g[s] ELSE Step(g, s)]
  <2>2. \A s \in SUBSET S : h[s] = Step(g, s)
    BY <2>1
  <2>3. ASSUME NEW s \in Small(n + 1), s # {}
        PROVE  h[s \ {Picked(s)}] = g[s \ {Picked(s)}]
    <3>1. s \ {Picked(s)} \in Small(n)
      BY <1>1, <1>2, <2>3
    <3> QED
      BY <3>1
  <2> HIDE DEF h
  <2>4. \A s \in Small(n + 1) : h[s] = Step(h, s)
    BY <2>2, <2>3
  <2> HIDE DEF Step, Small
  <2> QED
    BY <2>4
<1>5. Cardinality(S) \in Good
  <2> HIDE DEF Good
  <2>1. Nat \subseteq Good
    BY <1>3, <1>4, AllOf
  <2> QED
    BY <2>1, FS_CardinalityType
<1>6. PICK g : \A s \in Small(Cardinality(S)) : g[s] = Step(g, s)
  BY <1>5
<1>7. \A s \in SUBSET S : s \in Small(Cardinality(S))
  BY <1>1, FS_Subset
<1> DEFINE h == [s \in SUBSET S |-> g[s]]
<1>8. \A s \in SUBSET S : Step(h, s) = Step(g, s)
  BY <1>2
<1>9. h = [s \in SUBSET S |-> Step(h, s)]
  <2>1. \A s \in SUBSET S : g[s] = Step(h, s)
    BY <1>6, <1>7, <1>8
  <2> HIDE DEF Step
  <2> QED
    BY <2>1
<1> QED
  BY <1>9 DEF IsSum

\* v is w with one more in the places of T.
OneMore(v, w, T, S) ==
  /\ T \subseteq S
  /\ \A x \in S : /\ w[x] \in Nat
                  /\ v[x] = IF x \in T THEN w[x] + 1 ELSE w[x]

\* A sum of numbers grows by one for each of them that does.
LEMMA SumGrows ==
  ASSUME NEW S, IsFiniteSet(S), NEW T, NEW w, NEW v, OneMore(v, w, T, S),
         NEW g, IsSum(g, w, S), NEW h, IsSum(h, v, S)
  PROVE  g[S] \in Nat /\ h[S] = g[S] + Cardinality(T)
<1> DEFINE Holds(s) == g[s] \in Nat /\ h[s] = g[s] + Cardinality(s \cap T)
           Good == {n \in Nat : \A s \in SUBSET S : Cardinality(s) = n => Holds(s)}
<1>1. \A s \in SUBSET S : IsFiniteSet(s) /\ Cardinality(s) \in Nat
  BY FS_Subset, FS_CardinalityType
<1>2. 0 \in Good
  <2>1. \A s \in SUBSET S : Cardinality(s) = 0 => s = {}
    BY <1>1, FS_EmptySet
  <2>2. Holds({})
    BY FS_EmptySet DEF IsSum
  <2> HIDE DEF Holds
  <2> QED
    BY <2>1, <2>2
<1>3. ASSUME NEW n \in Nat, n \in Good
      PROVE  n + 1 \in Good
  <2> SUFFICES ASSUME NEW s \in SUBSET S, Cardinality(s) = n + 1
               PROVE  Holds(s)
    OBVIOUS
  <2> DEFINE e == Picked(s)
             r == s \ {e}
  <2>1. s # {} /\ e \in s /\ e \in S /\ r \in SUBSET S /\ Cardinality(r) = n
    BY Smaller
  <2>2. Holds(r)
    BY <1>3, <2>1
  <2>3. g[s] = w[e] + g[r] /\ h[s] = v[e] + h[r]
    BY <2>1 DEF IsSum
  <2> HIDE DEF e
  <2>4. Cardinality(s \cap T)
          = IF e \in T THEN Cardinality(r \cap T) + 1 ELSE Cardinality(r \cap T)
    <3>1. IsFiniteSet(s \cap T)
      BY <1>1
    <3>2. r \cap T = (s \cap T) \ {e}
      OBVIOUS
    <3>3. Cardinality(r \cap T)
            = IF e \in T THEN Cardinality(s \cap T) - 1 ELSE Cardinality(s \cap T)
      BY <2>1, <3>1, <3>2, FS_RemoveElement
    <3>4. Cardinality(s \cap T) \in Nat
      BY <3>1, FS_CardinalityType
    <3> QED
      BY <3>3, <3>4
  <2>5. w[e] \in Nat /\ v[e] = IF e \in T THEN w[e] + 1 ELSE w[e]
    BY <2>1 DEF OneMore
  <2>6. Cardinality(r \cap T) \in Nat
    BY <1>1
  <2> HIDE DEF r
  <2> QED
    BY <2>2, <2>3, <2>4, <2>5, <2>6
<1>4. Cardinality(S) \in Good
  <2> HIDE DEF Good
  <2>1. Nat \subseteq Good
    BY <1>2, <1>3, AllOf
  <2> QED
    BY <2>1, FS_CardinalityType
<1>5. S \cap T = T
  BY DEF OneMore
<1> QED
  BY <1>4, <1>5

\* A sum of zeros.
LEMMA SumOfZeros ==
  ASSUME NEW S, IsFiniteSet(S), NEW w, \A x \in S : w[x] = 0,
         NEW g, IsSum(g, w, S)
  PROVE  g[S] = 0
<1> DEFINE Good == {n \in Nat : \A s \in SUBSET S : Cardinality(s) = n => g[s] = 0}
<1>1. \A s \in SUBSET S : IsFiniteSet(s) /\ Cardinality(s) \in Nat
  BY FS_Subset, FS_CardinalityType
<1>2. \A s \in SUBSET S : Cardinality(s) = 0 => s = {}
  BY <1>1, FS_EmptySet
<1>3. 0 \in Good
  BY <1>2 DEF IsSum
<1>4. ASSUME NEW n \in Nat, n \in Good
      PROVE  n + 1 \in Good
  <2> SUFFICES ASSUME NEW s \in SUBSET S, Cardinality(s) = n + 1
               PROVE  g[s] = 0
    OBVIOUS
  <2>1. /\ s # {} /\ Picked(s) \in S
        /\ s \ {Picked(s)} \in SUBSET S
        /\ Cardinality(s \ {Picked(s)}) = n
    BY Smaller
  <2>2. g[s \ {Picked(s)}] = 0
    BY <1>4, <2>1
  <2>3. g[s] = w[Picked(s)] + g[s \ {Picked(s)}]
    BY <2>1 DEF IsSum
  <2> QED
    BY <2>1, <2>2, <2>3
<1>5. Cardinality(S) \in Good
  <2> HIDE DEF Good
  <2>1. Nat \subseteq Good
    BY <1>3, <1>4, AllOf
  <2> QED
    BY <2>1, FS_CardinalityType
<1> QED
  BY <1>5

----------------------------------------------------------------------------
(* Distances from the end of a computation: n numbers each, the first one  *)
(* that differs decides which distance is the shorter one.                 *)

Distances(n) == [1 .. n -> Nat]
Nearer(n)    == LexProductOrdering(LessOnNat, Nat, n)

\* No sequence of distances gets nearer and nearer without end.
LEMMA NearerIsWellFounded ==
  ASSUME NEW n \in Nat
  PROVE  IsWellFoundedOn(Nearer(n), Distances(n))
  BY NatLessThanWellFounded, WFLexProductOrdering
     DEF Nearer, Distances, LessOnNat

\* The first number that differs is less in the nearer one.
LEMMA NearerAt ==
  ASSUME NEW n \in Nat, NEW f \in Distances(n), NEW g \in Distances(n),
         NEW j \in 1 .. n, f[j] < g[j], \A i \in 1 .. j - 1 : f[i] = g[i]
  PROVE  <<f, g>> \in Nearer(n)
<1>1. <<f[j], g[j]>> \in LessOnNat
  BY DEF LessOnNat, OpToRel, Distances
<1> QED
  BY <1>1 DEF Nearer, Distances, LexProductOrdering

\* The same for distances of two numbers,
LEMMA NearerOfTwo ==
  ASSUME NEW f \in [1 .. 2 -> Nat], NEW g \in [1 .. 2 -> Nat],
         \/ f[1] < g[1]
         \/ f[1] = g[1] /\ f[2] < g[2]
  PROVE  <<f, g>> \in Nearer(2)
<1>1. PICK j \in 1 .. 2 : f[j] < g[j] /\ \A i \in 1 .. j - 1 : f[i] = g[i]
  OBVIOUS
<1>2. f \in Distances(2) /\ g \in Distances(2) /\ 2 \in Nat
  BY DEF Distances
<1> QED
  BY <1>1, <1>2, NearerAt

\* of three,
LEMMA NearerOfThree ==
  ASSUME NEW f \in [1 .. 3 -> Nat], NEW g \in [1 .. 3 -> Nat],
         \/ f[1] < g[1]
         \/ f[1] = g[1] /\ f[2] < g[2]
         \/ f[1] = g[1] /\ f[2] = g[2] /\ f[3] < g[3]
  PROVE  <<f, g>> \in Nearer(3)
<1>1. PICK j \in 1 .. 3 : f[j] < g[j] /\ \A i \in 1 .. j - 1 : f[i] = g[i]
  OBVIOUS
<1>2. f \in Distances(3) /\ g \in Distances(3) /\ 3 \in Nat
  BY DEF Distances
<1> QED
  BY <1>1, <1>2, NearerAt

\* and of six.
LEMMA NearerOfSix ==
  ASSUME NEW f \in [1 .. 6 -> Nat], NEW g \in [1 .. 6 -> Nat],
         NEW j \in 1 .. 6, f[j] < g[j],
         1 < j => f[1] = g[1], 2 < j => f[2] = g[2], 3 < j => f[3] = g[3],
         4 < j => f[4] = g[4], 5 < j => f[5] = g[5]
  PROVE  <<f, g>> \in Nearer(6)
<1>1. \A i \in 1 .. j - 1 : f[i] = g[i]
  OBVIOUS
<1>2. f \in Distances(6) /\ g \in Distances(6) /\ 6 \in Nat
  BY DEF Distances
<1> QED
  BY <1>1, <1>2, NearerAt
=============================================================================
