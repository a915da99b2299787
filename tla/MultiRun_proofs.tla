-------------------------- MODULE MultiRun_proofs --------------------------
(***************************************************************************)
(* Proofs about the loop of mw_run_88, for any number of warriors, any     *)
(* limits and any outcomes of the instructions, those included that lose a *)
(* process.                                                                *)
(*                                                                         *)
(* The ring: next and prev lead each living warrior to the nearest living  *)
(* one (Linked); unlinking keeps this, because the way around the ring is  *)
(* measured modulo numwarriors (Gap).  Hence the living take their turns   *)
(* in laps (InLap), and the queues, which start one slot further apart     *)
(* than they are long, never meet.                                         *)
(*                                                                         *)
(* The budget: cycle never exceeds what the living may still have (Share), *)
(* so that no head gets further than MaxCycles slots.  That breaks when    *)
(* the budget wraps around zero; then cycle is far above any share of the  *)
(* array and stays there, provided that words are long (LongWords).  So    *)
(* only a wrap gives a warrior more turns than MaxCycles; even then the end *)
(* of the call comes nearer, as fewer warriors are alive (Distance).       *)
(*                                                                         *)
(* The results: a round adds one to the row of every warrior, in a column  *)
(* that says with how many it survived, so that sums over columns and rows *)
(* grow in step; the sums are folds over finite sets (Lemmas).             *)
(*                                                                         *)
(* Two warriors (PairOnly): the queues are the ones of Fight, and with the *)
(* second death the round is over before the budget can wrap.              *)
(***************************************************************************)
EXTENDS MultiRun, Lemmas, FiniteSetTheorems

\* What the assumptions say of the constants and their products.
LEMMA Constants ==
  /\ NumWarriors \in Nat /\ NumWarriors >= 2
  /\ CoreSize \in Nat /\ CoreSize >= 1
  /\ MaxProcesses \in Nat /\ MaxProcesses >= 1
  /\ MaxCycles \in Nat /\ MaxCycles >= 1
  /\ NumRounds \in Nat /\ NumRounds >= 1
  /\ WordSize \in Nat /\ WordSize > NumWarriors * MaxCycles
  /\ NumWarriors * MaxCycles \in Nat
  /\ NumWarriors * MaxProcesses \in Nat
  /\ NumWarriors * MaxCycles >= 2 /\ NumWarriors * MaxProcesses >= NumWarriors
  /\ Capacity \in Nat
  /\ Capacity = NumWarriors * MaxCycles + NumWarriors * MaxProcesses
<1>1. /\ NumWarriors \in Nat /\ NumWarriors >= 2
      /\ CoreSize \in Nat /\ CoreSize >= 1
      /\ MaxProcesses \in Nat /\ MaxProcesses >= 1
      /\ MaxCycles \in Nat /\ MaxCycles >= 1
      /\ NumRounds \in Nat /\ NumRounds >= 1
      /\ WordSize \in Nat /\ WordSize > NumWarriors * MaxCycles
  BY MultiAssumption
<1>2. /\ NumWarriors * MaxCycles \in Nat
      /\ NumWarriors * MaxProcesses \in Nat
      /\ NumWarriors * MaxCycles >= 2
      /\ NumWarriors * MaxProcesses >= NumWarriors
  BY <1>1
<1>3. Capacity = NumWarriors * MaxCycles + NumWarriors * MaxProcesses
  BY <1>1 DEF Capacity
<1> QED
  BY <1>1, <1>2, <1>3

\* The queues start more than maxprocesses slots apart.
LEMMA Homes ==
  ASSUME NEW i \in Warrior
  PROVE  /\ Home(i) \in Nat
         /\ Home(i) \div (MaxProcesses + 1) = i
         /\ Home(i) <= NumWarriors * MaxProcesses - MaxProcesses + NumWarriors - 1
         /\ \A j \in Warrior : j > i => Home(j) >= Home(i) + MaxProcesses + 1
<1>1. /\ i \in Nat /\ i <= NumWarriors - 1
      /\ MaxProcesses \in Nat /\ MaxProcesses + 1 \in Nat \ {0}
  BY Constants DEF Warrior
<1>2. Home(i) \in Nat /\ Home(i) = (MaxProcesses + 1) * i + 0
  BY <1>1, Constants DEF Home
<1>3. Home(i) \div (MaxProcesses + 1) = i
  BY <1>1, <1>2, QuotientIs
<1>4. Home(i) <= NumWarriors * MaxProcesses - MaxProcesses + NumWarriors - 1
  <2>1. i * (MaxProcesses + 1) <= (NumWarriors - 1) * (MaxProcesses + 1)
    BY <1>1, Constants
  <2> QED
    BY <1>1, <2>1, Constants DEF Home
<1>5. ASSUME NEW j \in Warrior, j > i
      PROVE  Home(j) >= Home(i) + MaxProcesses + 1
  <2> DEFINE p == MaxProcesses + 1
  <2>1. p \in Nat /\ j \in Nat /\ j >= i + 1 /\ Home(j) = j * p /\ Home(i) = i * p
    BY <1>1, <1>5 DEF Warrior, Home
  <2>2. p = MaxProcesses + 1
    OBVIOUS
  <2> HIDE DEF p
  <2>3. j * p >= (i + 1) * p /\ (i + 1) * p = i * p + p
    BY <1>1, <2>1
  <2> QED
    BY <1>1, <1>2, <2>1, <2>2, <2>3
<1> QED
  BY <1>2, <1>3, <1>4, <1>5

\* Loading stores the start address of each warrior.
LEMMA LoadType ==
  ASSUME NEW q \in [Slot -> Address \cup {NULL}],
         NEW start \in [Warrior -> Address]
  PROVE  Load(q, start) \in [Slot -> Address \cup {NULL}]
<1>1. ASSUME NEW s \in Slot, \E i \in Warrior : s = Home(i)
      PROVE  start[s \div (MaxProcesses + 1)] \in Address
  BY <1>1, Homes
<1> QED
  BY <1>1 DEF Load

\* The indices numwarriors_mod gives a warrior's neighbours.
LEMMA Links ==
  ASSUME NEW i \in Warrior
  PROVE  /\ (i + 1) % NumWarriors = IF i = NumWarriors - 1 THEN 0 ELSE i + 1
         /\ (i + NumWarriors - 1) % NumWarriors =
              IF i = 0 THEN NumWarriors - 1 ELSE i - 1
<1>1. i \in 0 .. NumWarriors - 1 /\ NumWarriors \in Nat \ {0}
  BY Constants DEF Warrior
<1>2. 1 \in 0 .. NumWarriors /\ NumWarriors - 1 \in 0 .. NumWarriors
  BY Constants
<1>3. (i + 1) % NumWarriors = IF i + 1 < NumWarriors THEN i + 1
                                                  ELSE i + 1 - NumWarriors
  BY <1>1, <1>2, StepAround
<1>4. (i + (NumWarriors - 1)) % NumWarriors =
        IF i + (NumWarriors - 1) < NumWarriors
          THEN i + (NumWarriors - 1) ELSE i + (NumWarriors - 1) - NumWarriors
  BY <1>1, <1>2, StepAround
<1>5. i + NumWarriors - 1 = i + (NumWarriors - 1)
  BY <1>1
<1> QED
  BY <1>1, <1>3, <1>4, <1>5

\* Every round is started by a warrior.
LEMMA RoundStart ==
  ASSUME NEW r \in Nat
  PROVE  r % NumWarriors \in Warrior
  BY Quotient, Constants DEF Warrior

----------------------------------------------------------------------------

\* A new round has well-typed queues, links and counters.
LEMMA SetUpType ==
  ASSUME NEW r \in Nat, SetUp(r)
  PROVE  /\ head' \in [Warrior -> Nat]
         /\ tail' \in [Warrior -> Nat]
         /\ numprocesses' \in [Warrior -> 0 .. MaxProcesses]
         /\ next' \in [Warrior -> Warrior] /\ prev' \in [Warrior -> Warrior]
         /\ pqinfo' \in Warrior
         /\ numalive' \in 1 .. NumWarriors
         /\ cycle' \in Word
<1>1. \A i \in Warrior : Home(i) \in Nat
  BY Homes
<1>2. \A i \in Warrior : /\ (i + 1) % NumWarriors \in Warrior
                         /\ (i + NumWarriors - 1) % NumWarriors \in Warrior
  <2> TAKE i \in Warrior
  <2> QED
    BY Links, Constants DEF Warrior
<1>3. r % NumWarriors \in Warrior
  BY RoundStart
<1>4. NumWarriors * MaxCycles \in Word
  BY Constants DEF Word
<1> QED
  BY <1>1, <1>2, <1>3, <1>4, Constants DEF SetUp

\* The first round is set up like the others.
LEMMA InitSetUp ==
  ASSUME Init
  PROVE  /\ head = [i \in Warrior |-> Home(i)]
         /\ tail = [i \in Warrior |-> Home(i) + 1]
         /\ numprocesses = [i \in Warrior |-> 1]
         /\ next = [i \in Warrior |-> (i + 1) % NumWarriors]
         /\ prev = [i \in Warrior |-> (i + NumWarriors - 1) % NumWarriors]
  BY DEF Init

\* The initial states are well-typed.
LEMMA InitType == Init => TypeOK
<1> SUFFICES ASSUME Init PROVE TypeOK
  OBVIOUS
<1>1. \A i \in Warrior : Home(i) \in Nat
  BY Homes
<1>2. \A i \in Warrior : /\ (i + 1) % NumWarriors \in Warrior
                         /\ (i + NumWarriors - 1) % NumWarriors \in Warrior
  <2> TAKE i \in Warrior
  <2> QED
    BY Links, Constants DEF Warrior
<1>3. NumWarriors * MaxCycles \in Word /\ 0 \in Warrior
  BY Constants DEF Word, Warrior
<1>4. pqueue \in [Slot -> Address \cup {NULL}]
  <2>1. [s \in Slot |-> NULL] \in [Slot -> Address \cup {NULL}]
    OBVIOUS
  <2> QED
    BY <2>1, LoadType DEF Init
<1>5. head \in [Warrior -> Nat]
  BY <1>1 DEF Init
<1>6. tail \in [Warrior -> Nat]
  BY <1>1 DEF Init
<1>7. numprocesses \in [Warrior -> 0 .. MaxProcesses]
  BY Constants DEF Init
<1>8. next \in [Warrior -> Warrior]
  BY <1>2 DEF Init
<1>9. prev \in [Warrior -> Warrior]
  BY <1>2 DEF Init
<1>10. results \in [Warrior -> [0 .. NumWarriors -> Nat]]
  <2>1. [k \in 0 .. NumWarriors |-> 0] \in [0 .. NumWarriors -> Nat]
    OBVIOUS
  <2> QED
    BY <2>1 DEF Init
<1>11. numalive \in 1 .. NumWarriors /\ round \in 0 .. NumRounds
  BY Constants DEF Init
<1> QED
  BY <1>3, <1>4, <1>5, <1>6, <1>7, <1>8, <1>9, <1>10, <1>11 DEF Init, TypeOK

\* What a fetch finds.
LEMMA Fetched ==
  ASSUME TypeOK, NEW i \in Warrior, Fetch(i)
  PROVE  /\ i = pqinfo
         /\ cycle \in 1 .. WordSize - 1 /\ numalive \in 2 .. NumWarriors
         /\ head[i] \in Slot /\ ip(i) \in Address
         /\ IpIncMod(ip(i)) \in Address
         /\ head' = [head EXCEPT ![i] = @ + 1] /\ head' \in [Warrior -> Nat]
         /\ results' = results /\ round' = round
<1>1. cycle \in 1 .. WordSize - 1 /\ numalive \in 2 .. NumWarriors
  BY Constants DEF Fetch, running, TypeOK, Word
<1>2. ip(i) \in Address
  BY DEF Fetch, TypeOK, ip
<1>3. IpIncMod(ip(i)) \in Address
  BY <1>2, Constants DEF IpIncMod, Address
<1>4. head' \in [Warrior -> Nat]
  BY DEF Fetch, TypeOK
<1> QED
  BY <1>1, <1>2, <1>3, <1>4 DEF Fetch

\* While turns are left, counting one does not wrap.
LEMMA AliveStep ==
  ASSUME TypeOK, cycle > 0, Alive
  PROVE  /\ pqinfo' = next[pqinfo] /\ pqinfo' \in Warrior
         /\ cycle' = cycle - 1 /\ cycle' \in Word
         /\ next' = next /\ prev' = prev /\ numalive' = numalive
         /\ insn_counter' = insn_counter
<1>1. cycle - 1 \in 0 .. WordSize - 1 /\ WordSize \in Nat \ {0}
  BY Constants DEF TypeOK, Word
<1>2. (cycle - 1) % WordSize = cycle - 1
  BY <1>1, ModSmall
<1>3. next[pqinfo] \in Warrior
  BY DEF TypeOK
<1> QED
  BY <1>1, <1>2, <1>3 DEF Alive, Word

\* What a turn that all living warriors survive keeps of the types.
LEMMA SurvivedType ==
  ASSUME TypeOK, NEW i \in Warrior, Fetch(i), Alive,
         pqueue' \in [Slot -> Address \cup {NULL}],
         tail' \in [Warrior -> Nat],
         numprocesses' \in [Warrior -> 0 .. MaxProcesses]
  PROVE  TypeOK'
<1>1. /\ cycle > 0
      /\ head' \in [Warrior -> Nat]
      /\ results' = results /\ round' = round
  BY Fetched
<1>2. /\ pqinfo' \in Warrior /\ cycle' \in Word
      /\ next' = next /\ prev' = prev /\ numalive' = numalive
      /\ insn_counter' = insn_counter
  BY <1>1, AliveStep
<1> QED
  BY <1>1, <1>2 DEF TypeOK

\* Queueing one address keeps the types.
LEMMA TypeContinue ==
  ASSUME TypeOK, NEW i \in Warrior, NEW x \in Address, Continue(i, x)
  PROVE  TypeOK'
<1>1. pqueue' \in [Slot -> Address \cup {NULL}]
  BY DEF Continue, Append1, TypeOK
<1>2. tail' \in [Warrior -> Nat]
  BY DEF Continue, Append1, TypeOK
<1>3. numprocesses' \in [Warrior -> 0 .. MaxProcesses]
  BY DEF Continue, TypeOK
<1> QED
  BY <1>1, <1>2, <1>3, SurvivedType DEF Continue

\* A split keeps them: there are never more than maxprocesses.
LEMMA TypeSplit ==
  ASSUME TypeOK, NEW i \in Warrior, NEW x \in Address, Split(i, x)
  PROVE  TypeOK'
<1>1. Fetch(i) /\ Alive
  BY DEF Split
<1>2. IpIncMod(ip(i)) \in Address
  BY <1>1, Fetched
<1>3. CASE numprocesses[i] < MaxProcesses
  <2>1. /\ numprocesses' = [numprocesses EXCEPT ![i] = @ + 1]
        /\ Append2(i, IpIncMod(ip(i)), x)
    BY <1>3 DEF Split
  <2>2. pqueue' \in [Slot -> Address \cup {NULL}]
    BY <1>2, <2>1 DEF Append2, TypeOK
  <2>3. tail' \in [Warrior -> Nat]
    BY <2>1 DEF Append2, TypeOK
  <2>4. numprocesses' \in [Warrior -> 0 .. MaxProcesses]
    BY <1>3, <2>1, Constants DEF TypeOK
  <2> QED
    BY <1>1, <2>2, <2>3, <2>4, SurvivedType
<1>4. CASE ~(numprocesses[i] < MaxProcesses)
  <2>1. numprocesses' = numprocesses /\ Append1(i, IpIncMod(ip(i)))
    BY <1>4 DEF Split
  <2>2. pqueue' \in [Slot -> Address \cup {NULL}]
    BY <1>2, <2>1 DEF Append1, TypeOK
  <2>3. tail' \in [Warrior -> Nat]
    BY <2>1 DEF Append1, TypeOK
  <2>4. numprocesses' \in [Warrior -> 0 .. MaxProcesses]
    BY <2>1 DEF TypeOK
  <2> QED
    BY <1>1, <2>2, <2>3, <2>4, SurvivedType
<1> QED
  BY <1>3, <1>4

\* A death keeps them, unless a warrior without a process is on turn.
LEMMA TypeDie ==
  ASSUME TypeOK, NEW i \in Warrior, numprocesses[i] > 0, Die(i)
  PROVE  TypeOK'
<1>1. Fetch(i) /\ pqueue' = pqueue /\ tail' = tail
  BY DEF Die
<1>2. /\ cycle > 0 /\ cycle \in Int /\ numalive \in 2 .. NumWarriors
      /\ head' \in [Warrior -> Nat]
      /\ results' = results /\ round' = round
  BY <1>1, Fetched
<1>3. numprocesses' \in [Warrior -> 0 .. MaxProcesses]
  <2>1. numprocesses' = [numprocesses EXCEPT ![i] = @ - 1]
    BY DEF Die
  <2>2. numprocesses \in [Warrior -> 0 .. MaxProcesses]
    BY DEF TypeOK
  <2> QED
    BY <2>1, <2>2, Constants
<1>4. CASE numprocesses[i] = 1
  <2>1. adj \in Int /\ \A x \in Int : x % WordSize \in Word
    BY <1>2, Quotient, Constants DEF adj, Word
  <2>2. cycle - adj - 1 \in Int /\ insn_counter - adj \in Int
    BY <1>2, <2>1 DEF TypeOK, Word
  <2>3. cycle' \in Word /\ insn_counter' \in Word
    BY <1>4, <2>1, <2>2 DEF Die
  <2>4. next' \in [Warrior -> Warrior]
    BY <1>4 DEF Die, TypeOK
  <2>5. prev' \in [Warrior -> Warrior]
    BY <1>4 DEF Die, TypeOK
  <2>6. pqinfo' \in Warrior /\ numalive' \in 1 .. NumWarriors
    BY <1>2, <1>4, Constants DEF Die, TypeOK
  <2> QED
    BY <1>1, <1>2, <1>3, <2>3, <2>4, <2>5, <2>6 DEF TypeOK
<1>5. CASE numprocesses[i] # 1
  <2>1. Alive
    BY <1>5 DEF Die
  <2> QED
    BY <1>1, <1>3, <2>1, SurvivedType DEF TypeOK
<1> QED
  BY <1>4, <1>5

\* A lost process keeps them.
LEMMA TypeLose ==
  ASSUME TypeOK, NEW i \in Warrior, Lose(i)
  PROVE  TypeOK'
<1>1. /\ Fetch(i) /\ Alive
      /\ pqueue' = pqueue /\ tail' = tail /\ numprocesses' = numprocesses
  BY DEF Lose
<1> QED
  BY <1>1, SurvivedType DEF TypeOK

\* The end of a round keeps them.
LEMMA TypeRound ==
  ASSUME TypeOK, RoundDone
  PROVE  TypeOK'
<1>1. results' \in [Warrior -> [0 .. NumWarriors -> Nat]]
  <2>1. \A i \in Warrior : [results[i] EXCEPT ![Rank(i)] = @ + 1]
                             \in [0 .. NumWarriors -> Nat]
    <3> TAKE i \in Warrior
    <3> DEFINE row == results[i]
               k   == Rank(i)
    <3>1. row \in [0 .. NumWarriors -> Nat] /\ k \in 0 .. NumWarriors
      BY Constants DEF TypeOK, Rank
    <3> HIDE DEF row, k
    <3>2. [row EXCEPT ![k] = @ + 1] \in [0 .. NumWarriors -> Nat]
      BY <3>1
    <3> QED
      BY <3>2 DEF row, k
  <2> QED
    BY <2>1 DEF RoundDone
<1>2. round' \in 0 .. NumRounds /\ round + 1 \in Nat
  BY Constants DEF RoundDone, TypeOK
<1>3. insn_counter' \in Word
  <2>1. \A x \in Int : x % WordSize \in Word
    BY Quotient, Constants DEF Word
  <2>2. /\ insn_counter - cycle \in Int
        /\ insn_counter - cycle + NumWarriors * MaxCycles \in Int
    BY Constants DEF TypeOK, Word
  <2> QED
    BY <2>1, <2>2 DEF RoundDone
<1>4. CASE round + 1 < NumRounds
  <2>1. SetUp(round + 1)
    BY <1>4 DEF RoundDone
  <2>2. pqueue' \in [Slot -> Address \cup {NULL}]
    BY <1>4, LoadType DEF RoundDone, TypeOK
  <2> QED
    BY <1>1, <1>2, <1>3, <2>1, <2>2, SetUpType DEF TypeOK
<1>5. CASE ~(round + 1 < NumRounds)
  BY <1>1, <1>2, <1>3, <1>5 DEF RoundDone, TypeOK
<1> QED
  BY <1>4, <1>5

----------------------------------------------------------------------------

\* The way from i to j around the ring, at least one step.
Gap(i, j) == IF j > i THEN j - i ELSE j - i + NumWarriors

\* next and prev link each living warrior with the nearest living one, in
\* both directions.
Linked ==
  /\ numalive = Cardinality(living)
  /\ pqinfo \in living
  /\ \A i \in living :
       /\ next[i] \in living /\ prev[i] \in living
       /\ prev[next[i]] = i /\ next[prev[i]] = i
       /\ \A k \in living : Gap(i, next[i]) <= Gap(i, k)

RingInv == TypeOK /\ Linked

\* The living are a finite set of warriors.
LEMMA LivingType ==
  /\ living \subseteq Warrior
  /\ IsFiniteSet(living) /\ Cardinality(living) \in Nat
<1>1. living \subseteq Warrior
  BY DEF living
<1>2. IsFiniteSet(Warrior)
  BY FS_Interval, Constants DEF Warrior
<1> QED
  BY <1>1, <1>2, FS_Subset, FS_CardinalityType

\* The two ways a turn ends: all go on, or the warrior on turn leaves.
GoesOn == Alive /\ living' = living

Leaves(i) ==
  /\ living' = living \ {i}
  /\ next' = [next EXCEPT ![prev[i]] = next[i]]
  /\ prev' = [prev EXCEPT ![next[i]] = prev[i]]
  /\ insn_counter' = (insn_counter - adj) % WordSize
  /\ cycle' = (cycle - adj - 1) % WordSize
  /\ numalive' = numalive - 1
  /\ pqinfo' = next[i]

\* Each turn ends in one of the two ways.
LEMMA TurnEnds ==
  ASSUME TypeOK, NEW i \in living, Turn(i)
  PROVE  Fetch(i) /\ (GoesOn \/ Leaves(i))
<1>0. i \in Warrior
  BY DEF living
<1>1. ASSUME NEW x \in Address, Continue(i, x) PROVE Fetch(i) /\ GoesOn
  BY <1>1 DEF Continue, GoesOn, living
<1>2. ASSUME NEW x \in Address, Split(i, x) PROVE Fetch(i) /\ GoesOn
  <2>1. CASE numprocesses[i] < MaxProcesses
    <3>1. numprocesses' = [numprocesses EXCEPT ![i] = @ + 1]
      BY <1>2, <2>1 DEF Split
    <3>2. \A k \in Warrior : numprocesses'[k] > 0 <=> numprocesses[k] > 0
      BY <3>1 DEF living, TypeOK
    <3> QED
      BY <1>2, <3>2 DEF Split, GoesOn, living
  <2>2. CASE ~(numprocesses[i] < MaxProcesses)
    BY <1>2, <2>2 DEF Split, GoesOn, living
  <2> QED
    BY <2>1, <2>2
<1>3. ASSUME Die(i) PROVE Fetch(i) /\ (GoesOn \/ Leaves(i))
  <2>1. numprocesses' = [numprocesses EXCEPT ![i] = @ - 1]
    BY <1>3 DEF Die
  <2>2. CASE numprocesses[i] = 1
    <3>1. \A k \in Warrior :
            numprocesses'[k] > 0 <=> numprocesses[k] > 0 /\ k # i
      BY <2>1, <2>2 DEF TypeOK
    <3>2. living' = living \ {i}
      BY <3>1 DEF living
    <3> QED
      BY <1>3, <2>2, <3>2 DEF Die, Leaves
  <2>3. CASE numprocesses[i] # 1
    <3>1. \A k \in Warrior : numprocesses'[k] > 0 <=> numprocesses[k] > 0
      BY <2>1, <2>3 DEF TypeOK, living
    <3>2. living' = living
      BY <3>1 DEF living
    <3> QED
      BY <1>3, <2>3, <3>2 DEF Die, GoesOn
  <2> QED
    BY <2>2, <2>3
<1>4. ASSUME Lose(i) PROVE Fetch(i) /\ GoesOn
  BY <1>4 DEF Lose, GoesOn, living
<1> QED
  BY <1>1, <1>2, <1>3, <1>4 DEF Turn

\* Unlinking i: the next warrior behind p is the next one behind i.
LEMMA GapSkips ==
  ASSUME NEW p \in Warrior, NEW i \in Warrior, NEW n \in Warrior,
         NEW k \in Warrior, n # i, k # i,
         Gap(p, i) <= Gap(p, k), Gap(i, n) <= Gap(i, k)
  PROVE  Gap(p, n) <= Gap(p, k)
  BY Constants DEF Gap, Warrior

\* A ring of at least two: the neighbours of a warrior are other ones.
LEMMA Neighbours ==
  ASSUME TypeOK, Linked, numalive > 1, NEW i \in living
  PROVE  next[i] # i /\ prev[i] # i
<1>1. PICK k \in living : k # i
  <2>1. Cardinality({i}) = 1 /\ Cardinality(living) > 1
    BY FS_Singleton DEF Linked
  <2>2. living # {i}
    BY <2>1
  <2> QED
    BY <2>2
<1>2. i \in Warrior /\ k \in Warrior /\ next[i] \in Warrior
  BY <1>1 DEF living, TypeOK
<1>3. Gap(i, next[i]) <= Gap(i, k)
  BY <1>1 DEF Linked
<1>4. next[i] # i
  BY <1>1, <1>2, <1>3, Constants DEF Gap, Warrior
<1> QED
  BY <1>4 DEF Linked

\* Unlinking a warrior keeps the ring of the others.
LEMMA LinkedUnlink ==
  ASSUME TypeOK, Linked, numalive > 1, NEW i \in living, Leaves(i)
  PROVE  Linked'
<1>1. next[i] # i /\ prev[i] # i
  BY Neighbours
<1>2. /\ next \in [Warrior -> Warrior] /\ prev \in [Warrior -> Warrior]
      /\ living \subseteq Warrior /\ i \in Warrior
      /\ prev[i] \in living /\ next[i] \in living
  BY LivingType DEF TypeOK, Linked
<1>3. numalive' = Cardinality(living')
  BY LivingType, FS_RemoveElement DEF Leaves, Linked
<1>4. pqinfo' \in living'
  BY <1>1, <1>2 DEF Leaves
<1>5. ASSUME NEW j \in living, j # i
      PROVE  /\ next'[j] \in living /\ next'[j] # i
             /\ prev'[j] \in living /\ prev'[j] # i
             /\ prev'[next'[j]] = j /\ next'[prev'[j]] = j
  <2>1. /\ next[j] \in living /\ prev[j] \in living
        /\ prev[next[j]] = j /\ next[prev[j]] = j
        /\ prev[next[i]] = i /\ next[prev[i]] = i
    BY <1>5 DEF Linked
  <2>2. /\ next'[j] = IF j = prev[i] THEN next[i] ELSE next[j]
        /\ prev'[j] = IF j = next[i] THEN prev[i] ELSE prev[j]
    BY <1>2, <1>5 DEF Leaves
  <2>3. /\ next[j] = i <=> j = prev[i]
        /\ prev[j] = i <=> j = next[i]
    BY <2>1
  <2> QED
    BY <1>1, <1>2, <1>5, <2>1, <2>2, <2>3 DEF Leaves
<1>6. ASSUME NEW j \in living, j # i, NEW k \in living, k # i
      PROVE  Gap(j, next'[j]) <= Gap(j, k)
  <2>1. next'[j] = IF j = prev[i] THEN next[i] ELSE next[j]
    BY <1>2, <1>6 DEF Leaves
  <2>2. Gap(j, next[j]) <= Gap(j, k) /\ Gap(i, next[i]) <= Gap(i, k)
    BY <1>6 DEF Linked
  <2>3. next[prev[i]] = i
    BY DEF Linked
  <2>4. j \in Warrior /\ k \in Warrior /\ next[i] \in Warrior
    BY <1>2, <1>6
  <2> QED
    BY <1>1, <1>2, <1>6, <2>1, <2>2, <2>3, <2>4, GapSkips
<1> QED
  BY <1>3, <1>4, <1>5, <1>6 DEF Leaves, Linked

\* The ring of all warriors, as a round starts with it.
LEMMA FullRing ==
  ASSUME NEW nx, NEW pv,
         nx = [i \in Warrior |-> (i + 1) % NumWarriors],
         pv = [i \in Warrior |-> (i + NumWarriors - 1) % NumWarriors],
         NEW i \in Warrior
  PROVE  /\ nx[i] \in Warrior /\ pv[i] \in Warrior
         /\ pv[nx[i]] = i /\ nx[pv[i]] = i
         /\ \A k \in Warrior : Gap(i, nx[i]) <= Gap(i, k)
<1> DEFINE behind(j) == IF j = NumWarriors - 1 THEN 0 ELSE j + 1
           before(j) == IF j = 0 THEN NumWarriors - 1 ELSE j - 1
<1>1. \A j \in Warrior : nx[j] = behind(j) /\ pv[j] = before(j)
  BY Links
<1>2. /\ behind(i) \in Warrior /\ before(i) \in Warrior
      /\ before(behind(i)) = i /\ behind(before(i)) = i
  BY Constants DEF Warrior
<1>3. \A k \in Warrior : Gap(i, behind(i)) <= Gap(i, k)
  BY Constants DEF Warrior, Gap
<1> HIDE DEF behind, before
<1> QED
  BY <1>1, <1>2, <1>3

\* The same, of any two such functions.
LEMMA AllLinked ==
  \A nx, pv :
    /\ nx = [i \in Warrior |-> (i + 1) % NumWarriors]
    /\ pv = [i \in Warrior |-> (i + NumWarriors - 1) % NumWarriors]
    => \A i \in Warrior :
         /\ nx[i] \in Warrior /\ pv[i] \in Warrior
         /\ pv[nx[i]] = i /\ nx[pv[i]] = i
         /\ \A k \in Warrior : Gap(i, nx[i]) <= Gap(i, k)
  BY FullRing

\* All warriors start with a process.
LEMMA AllLiving ==
  ASSUME NEW n, n = [i \in Warrior |-> 1]
  PROVE  /\ {i \in Warrior : n[i] > 0} = Warrior
         /\ Cardinality(Warrior) = NumWarriors
  BY FS_Interval, Constants DEF Warrior

\* The first round starts with the full ring, ...
LEMMA LinkedInit == Init => Linked
<1> SUFFICES ASSUME Init PROVE Linked
  OBVIOUS
<1>1. living = Warrior /\ Cardinality(living) = NumWarriors
  BY AllLiving DEF Init, living
<1>2. 0 \in Warrior
  BY Constants DEF Warrior
<1> QED
  BY <1>1, <1>2, AllLinked DEF Init, Linked

\* ... and so does every other.
LEMMA LinkedSetUp ==
  ASSUME NEW r \in Nat, SetUp(r)
  PROVE  Linked' /\ living' = Warrior
<1>1. living' = Warrior /\ Cardinality(Warrior) = NumWarriors
  BY AllLiving DEF SetUp, living
<1>2. pqinfo' \in Warrior
  BY RoundStart DEF SetUp
<1>3. \A i \in Warrior :
        /\ next'[i] \in Warrior /\ prev'[i] \in Warrior
        /\ prev'[next'[i]] = i /\ next'[prev'[i]] = i
        /\ \A k \in Warrior : Gap(i, next'[i]) <= Gap(i, k)
  BY AllLinked DEF SetUp
<1> QED
  BY <1>1, <1>2, <1>3 DEF SetUp, Linked

\* The ring is right at the start, ...
LEMMA RingInit == Init => RingInv
  BY InitType, LinkedInit DEF RingInv

\* Every turn of a living warrior keeps the types.
LEMMA TypeTurn ==
  ASSUME TypeOK, NEW i \in living, Turn(i)
  PROVE  TypeOK'
<1>1. i \in Warrior /\ numprocesses[i] > 0
  BY DEF living
<1> QED
  BY <1>1, TypeContinue, TypeSplit, TypeDie, TypeLose DEF Turn

\* The shape of every step.
LEMMA StepCases ==
  ASSUME RingInv, [Next]_vars
  PROVE  \/ /\ pqinfo \in living /\ Turn(pqinfo) /\ Fetch(pqinfo)
            /\ GoesOn \/ Leaves(pqinfo)
         \/ RoundDone
         \/ UNCHANGED vars
<1>1. pqinfo \in living /\ TypeOK
  BY DEF RingInv, Linked
<1>2. ASSUME NEW i \in Warrior, Turn(i) PROVE i = pqinfo
  BY <1>2 DEF Turn, Continue, Split, Die, Lose, Fetch
<1> QED
  BY <1>1, <1>2, TurnEnds DEF Next

\* ... every step keeps it, ...
LEMMA RingStep == RingInv /\ [Next]_vars => RingInv'
<1> SUFFICES ASSUME RingInv, [Next]_vars PROVE RingInv'
  OBVIOUS
<1>0. TypeOK /\ Linked
  BY DEF RingInv
<1>1. CASE pqinfo \in living /\ Turn(pqinfo) /\ Fetch(pqinfo) /\ GoesOn
  <2>1. TypeOK'
    BY <1>0, <1>1, TypeTurn
  <2>2. /\ next' = next /\ prev' = prev /\ numalive' = numalive
        /\ pqinfo' = next[pqinfo] /\ living' = living
    BY <1>1 DEF GoesOn, Alive
  <2>3. Linked'
    BY <1>0, <2>2 DEF Linked
  <2> QED
    BY <2>1, <2>3 DEF RingInv
<1>2. CASE pqinfo \in living /\ Turn(pqinfo) /\ Fetch(pqinfo) /\ Leaves(pqinfo)
  <2>1. TypeOK'
    BY <1>0, <1>2, TypeTurn
  <2>2. numalive > 1
    BY <1>2 DEF Fetch, running
  <2> QED
    BY <1>0, <1>2, <2>1, <2>2, LinkedUnlink DEF RingInv
<1>3. CASE RoundDone
  <2>1. TypeOK'
    BY <1>0, <1>3, TypeRound
  <2>2. CASE round + 1 < NumRounds
    <3>1. SetUp(round + 1) /\ round + 1 \in Nat
      BY <1>0, <1>3, <2>2, Constants DEF RoundDone, TypeOK
    <3> QED
      BY <2>1, <3>1, LinkedSetUp DEF RingInv
  <2>3. CASE ~(round + 1 < NumRounds)
    BY <1>0, <1>3, <2>1, <2>3 DEF RoundDone, RingInv, Linked, living
  <2> QED
    BY <2>2, <2>3
<1>4. CASE UNCHANGED vars
  BY <1>0, <1>4 DEF vars, RingInv, TypeOK, Linked, living
<1> QED
  BY <1>1, <1>2, <1>3, <1>4, StepCases

\* ... and it is always right.
LEMMA RingInvariant == Spec => []RingInv
  BY RingInit, RingStep, PTL DEF Spec

\* All variables keep their types: next and prev are always links to
\* warriors, a warrior is always on turn, and no count of processes falls
\* below zero or exceeds maxprocesses.
THEOREM TypeCorrect == Spec => []TypeOK
<1>1. RingInv => TypeOK
  BY DEF RingInv
<1> QED
  BY <1>1, RingInvariant, PTL

\* The nearest living warrior is the one the definition chooses.
LEMMA RingSuccessor == RingInv => RingOfLiving
<1> SUFFICES ASSUME RingInv PROVE RingOfLiving
  OBVIOUS
<1>0. TypeOK /\ Linked
  BY DEF RingInv
<1>1. ASSUME NEW i \in living PROVE next[i] = Successor(i)
  <2> DEFINE Reaches(j, d) ==
        /\ j = (i + d) % NumWarriors
        /\ \A e \in 1 .. d - 1 : (i + e) % NumWarriors \notin living
      g == Gap(i, next[i])
  <2>0. /\ i \in Warrior /\ next[i] \in living /\ living \subseteq Warrior
        /\ \A k \in living : g <= Gap(i, k)
    BY <1>0, LivingType DEF Linked
  <2>1. \A d \in 1 .. NumWarriors :
          (i + d) % NumWarriors =
             IF i + d < NumWarriors THEN i + d ELSE i + d - NumWarriors
    <3> TAKE d \in 1 .. NumWarriors
    <3>1. /\ NumWarriors \in Nat \ {0} /\ d \in 0 .. NumWarriors
          /\ i \in 0 .. NumWarriors - 1
      BY <2>0, Constants DEF Warrior
    <3> QED
      BY <3>1, StepAround
  <2>2. \A j \in Warrior : /\ Gap(i, j) \in 1 .. NumWarriors
                           /\ (i + Gap(i, j)) % NumWarriors = j
    <3> TAKE j \in Warrior
    <3>1. Gap(i, j) \in 1 .. NumWarriors
      BY <2>0, Constants DEF Gap, Warrior
    <3>2. (i + Gap(i, j)) % NumWarriors =
            IF i + Gap(i, j) < NumWarriors THEN i + Gap(i, j)
                                           ELSE i + Gap(i, j) - NumWarriors
      BY <2>1, <3>1
    <3>3. j = IF i + Gap(i, j) < NumWarriors THEN i + Gap(i, j)
                                             ELSE i + Gap(i, j) - NumWarriors
      BY <2>0, Constants DEF Gap, Warrior
    <3> QED
      BY <3>1, <3>2, <3>3
  <2>3. \A d \in 1 .. NumWarriors : /\ (i + d) % NumWarriors \in Warrior
                                    /\ Gap(i, (i + d) % NumWarriors) = d
    <3> TAKE d \in 1 .. NumWarriors
    <3> DEFINE j == IF i + d < NumWarriors THEN i + d ELSE i + d - NumWarriors
    <3>1. j \in Warrior /\ Gap(i, j) = d
      BY <2>0, Constants DEF Gap, Warrior
    <3> HIDE DEF j
    <3>2. (i + d) % NumWarriors = j
      BY <2>1 DEF j
    <3> QED
      BY <3>1, <3>2
  <2>4. g \in 1 .. NumWarriors /\ Reaches(next[i], g)
    <3>1. g \in 1 .. NumWarriors /\ next[i] = (i + g) % NumWarriors
      BY <2>0, <2>2
    <3>2. ASSUME NEW e \in 1 .. g - 1, (i + e) % NumWarriors \in living
          PROVE  FALSE
      <4>1. e \in 1 .. NumWarriors /\ e < g
        BY <3>1, Constants
      <4>2. Gap(i, (i + e) % NumWarriors) = e
        BY <2>3, <4>1
      <4>3. g <= e
        BY <2>0, <3>2, <4>2
      <4> QED
        BY <3>1, <4>1, <4>3
    <3> QED
      BY <3>1, <3>2
  <2>5. ASSUME NEW j \in living, NEW d \in 1 .. NumWarriors, Reaches(j, d)
        PROVE  j = next[i]
    <3>1. Gap(i, j) = d
      BY <2>3, <2>5
    <3>2. g <= d
      BY <2>0, <2>5, <3>1
    <3>3. CASE g < d
      <4>1. g \in 1 .. d - 1
        BY <2>4, <3>3
      <4> QED
        BY <2>0, <2>4, <2>5, <4>1
    <3>4. CASE g = d
      BY <2>4, <2>5, <3>4
    <3> HIDE DEF g
    <3> QED
      BY <2>4, <3>2, <3>3, <3>4
  <2> HIDE DEF g
  <2> QED
    BY <2>0, <2>4, <2>5 DEF Successor
<1> QED
  BY <1>0, <1>1 DEF Linked, RingOfLiving

\* The ring that mw_run_88 unlinks dead warriors from always holds exactly
\* the living ones, in their order and in both directions.
THEOREM RingIsLiving == Spec => []RingOfLiving
  BY RingInvariant, RingSuccessor, PTL

----------------------------------------------------------------------------

\* The place of i in a lap that starts with s.
Place(s, i) == IF i >= s THEN i - s ELSE i - s + NumWarriors

\* The living warriors that had their turn in the running lap.
Ahead(s) == {i \in living : Place(s, i) < Place(s, pqinfo)}

\* They are one turn ahead of the others.
InLap(s) ==
  \A i \in living :
    turns(i) = turns(pqinfo) + (IF i \in Ahead(s) THEN 1 ELSE 0)

\* The turn goes from i to n: who is ahead in the lap now.
LEMMA PlaceStep ==
  ASSUME NEW s \in Warrior, NEW i \in Warrior, NEW n \in Warrior,
         NEW k \in Warrior, Gap(i, n) <= Gap(i, k)
  PROVE  /\ Place(s, n) > Place(s, i) =>
              (Place(s, k) < Place(s, n) <=> Place(s, k) < Place(s, i) \/ k = i)
         /\ Place(s, n) <= Place(s, i) =>
              /\ Place(s, k) < Place(s, i) \/ k = i
              /\ ~(Place(s, k) < Place(s, n))
  BY Constants DEF Place, Gap, Warrior

\* Places are those of a lap.
LEMMA PlaceType ==
  ASSUME NEW s \in Warrior, NEW i \in Warrior
  PROVE  Place(s, i) \in 0 .. NumWarriors - 1
  BY Constants DEF Place, Warrior

\* Turns are numbers.
LEMMA TurnsType ==
  ASSUME TypeOK, NEW i \in Warrior
  PROVE  turns(i) \in Int
  BY Homes DEF turns, TypeOK

\* What a turn does to the lap: the warrior joins those ahead, or it was the
\* last one and a new lap starts.
LEMMA LapStep ==
  ASSUME RingInv, NEW s \in Warrior, InLap(s), Fetch(pqinfo),
         living' = living \/ living' = living \ {pqinfo},
         pqinfo' = next[pqinfo]
  PROVE  /\ InLap(s)'
         /\ \/ /\ turns(pqinfo)' = turns(pqinfo)
               /\ Ahead(s)' = (Ahead(s) \cup {pqinfo}) \cap living'
            \/ /\ turns(pqinfo)' = turns(pqinfo) + 1
               /\ Ahead(s)' = {} /\ Ahead(s) = living \ {pqinfo}
<1> DEFINE i == pqinfo
           n == next[i]
<1>0. TypeOK /\ Linked /\ numalive > 1
  BY DEF RingInv, Fetch, running
<1>1. /\ i \in living /\ n \in living /\ n # i /\ living \subseteq Warrior
      /\ \A k \in living : Gap(i, n) <= Gap(i, k)
  BY <1>0, Neighbours, LivingType DEF Linked
<1>2. \A k \in Warrior : /\ turns(k)' = IF k = i THEN turns(k) + 1 ELSE turns(k)
                         /\ turns(k) \in Int
  <2> TAKE k \in Warrior
  <2>1. head' = [head EXCEPT ![i] = @ + 1] /\ head \in [Warrior -> Nat]
    BY <1>0 DEF Fetch, TypeOK
  <2>2. Home(k) \in Nat /\ head[k] \in Nat
    BY <2>1, Homes
  <2>3. turns(k)' = head'[k] - Home(k) /\ turns(k) = head[k] - Home(k)
    BY DEF turns, Home
  <2> QED
    BY <2>1, <2>2, <2>3
<1>3. /\ living' \subseteq living /\ n \in living' /\ pqinfo' = n
      /\ \A k \in living : k # i => k \in living'
  BY <1>1
<1>4. Ahead(s)' = {k \in living' : Place(s, k) < Place(s, n)}
  BY <1>3 DEF Ahead, Place
<1>p. Place(s, i) \in Int /\ Place(s, n) \in Int
  BY <1>1, PlaceType
<1>5. \A k \in living : turns(k) = turns(i) + (IF k \in Ahead(s) THEN 1 ELSE 0)
  BY DEF InLap
<1>6. turns(pqinfo)' = turns(n)
  BY <1>1, <1>2, <1>3 DEF turns, Home
<1>7. CASE Place(s, n) > Place(s, i)
  <2>1. \A k \in living : Place(s, k) < Place(s, n) <=> k \in Ahead(s) \/ k = i
    BY <1>1, <1>7, PlaceStep DEF Ahead
  <2>2. Ahead(s)' = (Ahead(s) \cup {i}) \cap living'
    BY <1>3, <1>4, <2>1 DEF Ahead
  <2>3. n \notin Ahead(s)
    BY <1>7, <1>p DEF Ahead
  <2>4. i \notin Ahead(s)
    BY <1>p DEF Ahead
  <2>5. turns(n) = turns(i)
    BY <1>1, <1>2, <1>5, <2>3
  <2>6. ASSUME NEW k \in living'
        PROVE  turns(k)' = turns(n) + (IF k \in Ahead(s)' THEN 1 ELSE 0)
    <3>1. k \in living /\ k \in Warrior /\ i \in Warrior
      BY <1>1, <1>3
    <3>2. k \in Ahead(s)' <=> k \in Ahead(s) \/ k = i
      BY <2>2
    <3> QED
      BY <1>2, <1>5, <2>4, <2>5, <3>1, <3>2
  <2>7. InLap(s)'
    BY <1>6, <2>6 DEF InLap
  <2> QED
    BY <1>6, <2>2, <2>5, <2>7
<1>8. CASE ~(Place(s, n) > Place(s, i))
  <2>0. Place(s, n) <= Place(s, i)
    BY <1>8, <1>p
  <2>1. \A k \in living : /\ k \in Ahead(s) \/ k = i
                          /\ ~(Place(s, k) < Place(s, n))
    BY <1>1, <2>0, PlaceStep DEF Ahead
  <2>2. Ahead(s)' = {}
    BY <1>3, <1>4, <2>1
  <2>3. i \notin Ahead(s)
    BY <1>p DEF Ahead
  <2>4. Ahead(s) = living \ {i}
    BY <2>1, <2>3 DEF Ahead
  <2>5. turns(n) = turns(i) + 1
    BY <1>1, <1>5, <2>4
  <2>6. ASSUME NEW k \in living'
        PROVE  turns(k)' = turns(n)
    <3>1. k \in living /\ k \in Warrior /\ i \in Warrior
      BY <1>1, <1>3
    <3> QED
      BY <1>2, <1>5, <2>4, <2>5, <3>1
  <2>7. InLap(s)'
    <3>1. turns(n) \in Int
      BY <1>1, <1>2
    <3> QED
      BY <1>6, <2>2, <2>6, <3>1 DEF InLap
  <2> QED
    BY <1>6, <2>2, <2>4, <2>5, <2>7
<1> QED
  BY <1>7, <1>8

----------------------------------------------------------------------------

\* What is left of the turns of all living warriors when each may have limit.
Share(s, limit) ==
  numalive * (limit - turns(pqinfo)) - Cardinality(Ahead(s))

\* Not all living warriors are ahead: the one on turn is not.
LEMMA AheadCount ==
  ASSUME RingInv, NEW s \in Warrior
  PROVE  /\ pqinfo \notin Ahead(s) /\ Ahead(s) \subseteq living
         /\ IsFiniteSet(Ahead(s)) /\ Cardinality(Ahead(s)) \in 0 .. numalive - 1
         /\ numalive = Cardinality(living) /\ numalive \in 1 .. NumWarriors
         /\ turns(pqinfo) \in Int
<1>1. /\ pqinfo \in living /\ numalive = Cardinality(living)
      /\ numalive \in 1 .. NumWarriors /\ pqinfo \in Warrior /\ TypeOK
  BY DEF RingInv, Linked, TypeOK
<1>2. pqinfo \notin Ahead(s)
  <2>1. Place(s, pqinfo) \in Int
    BY <1>1, PlaceType
  <2> QED
    BY <2>1 DEF Ahead
<1>3. /\ IsFiniteSet(living \ {pqinfo})
      /\ Cardinality(living \ {pqinfo}) = numalive - 1
  BY <1>1, LivingType, FS_RemoveElement
<1>4. Ahead(s) \subseteq living \ {pqinfo}
  BY <1>2 DEF Ahead
<1>5. /\ IsFiniteSet(Ahead(s))
      /\ Cardinality(Ahead(s)) <= Cardinality(living \ {pqinfo})
  BY <1>3, <1>4, FS_Subset
<1>6. Cardinality(Ahead(s)) \in Nat
  BY <1>5, FS_CardinalityType
<1> QED
  BY <1>1, <1>2, <1>3, <1>4, <1>5, <1>6, TurnsType

\* A turn that nobody dies in takes one off.
LEMMA ShareFalls ==
  ASSUME RingInv, NEW s \in Warrior, InLap(s), Fetch(pqinfo), GoesOn,
         NEW limit \in Int
  PROVE  Share(s, limit)' = Share(s, limit) - 1
<1> DEFINE a == numalive
           t == turns(pqinfo)
           b == Cardinality(Ahead(s))
           y == limit - t
<1>1. /\ pqinfo \notin Ahead(s) /\ Ahead(s) \subseteq living /\ IsFiniteSet(Ahead(s))
      /\ b \in Int /\ a = Cardinality(living) /\ a \in Int /\ t \in Int /\ y \in Int
  BY AheadCount, Constants
<1>2. numalive' = a /\ living' = living /\ pqinfo \in living /\ pqinfo' = next[pqinfo]
  BY DEF GoesOn, Alive, RingInv, Linked
<1>3. Share(s, limit) = a * y - b
  BY DEF Share
<1>4. Share(s, limit)' = a * (limit - turns(pqinfo)') - Cardinality(Ahead(s)')
  BY <1>2 DEF Share
<1>5. \/ turns(pqinfo)' = t /\ Ahead(s)' = (Ahead(s) \cup {pqinfo}) \cap living'
      \/ /\ turns(pqinfo)' = t + 1
         /\ Ahead(s)' = {} /\ Ahead(s) = living \ {pqinfo}
  BY <1>2, LapStep
<1> HIDE DEF a, t, y
<1>6. CASE turns(pqinfo)' = t /\ Ahead(s)' = (Ahead(s) \cup {pqinfo}) \cap living'
  <2>1. Ahead(s)' = Ahead(s) \cup {pqinfo}
    BY <1>1, <1>2, <1>6
  <2>2. Cardinality(Ahead(s)') = b + 1
    BY <1>1, <2>1, FS_AddElement
  <2>3. limit - turns(pqinfo)' = y
    BY <1>6 DEF y
  <2> QED
    BY <1>1, <1>3, <1>4, <2>2, <2>3
<1>7. CASE /\ turns(pqinfo)' = t + 1
           /\ Ahead(s)' = {} /\ Ahead(s) = living \ {pqinfo}
  <2>1. Cardinality(Ahead(s)') = 0
    BY <1>7, FS_EmptySet
  <2>2. b = a - 1
    BY <1>1, <1>2, <1>7, LivingType, FS_RemoveElement
  <2>3. limit - turns(pqinfo)' = y - 1
    BY <1>1, <1>7 DEF y
  <2>4. a * (y - 1) = a * y - a
    BY <1>1
  <2>5. a * y \in Int
    BY <1>1
  <2> HIDE DEF b
  <2> QED
    BY <1>1, <1>3, <1>4, <2>1, <2>2, <2>3, <2>4, <2>5
<1> QED
  BY <1>5, <1>6, <1>7

\* A warrior that leaves takes its own share off.
LEMMA ShareLeaves ==
  ASSUME RingInv, NEW s \in Warrior, InLap(s), Fetch(pqinfo), Leaves(pqinfo),
         NEW limit \in Int
  PROVE  Share(s, limit)' =
           (numalive - 1) * (limit - turns(pqinfo)) - Cardinality(Ahead(s))
<1> DEFINE a == numalive
           t == turns(pqinfo)
           b == Cardinality(Ahead(s))
           y == limit - t
<1>1. /\ pqinfo \notin Ahead(s) /\ Ahead(s) \subseteq living /\ IsFiniteSet(Ahead(s))
      /\ b \in Int /\ a = Cardinality(living) /\ a \in Int /\ t \in Int /\ y \in Int
  BY AheadCount, Constants
<1>2. /\ numalive' = a - 1 /\ living' = living \ {pqinfo} /\ pqinfo \in living
      /\ pqinfo' = next[pqinfo]
  BY DEF Leaves, RingInv, Linked
<1>4. Share(s, limit)' = (a - 1) * (limit - turns(pqinfo)') - Cardinality(Ahead(s)')
  BY <1>2 DEF Share
<1>5. \/ turns(pqinfo)' = t /\ Ahead(s)' = (Ahead(s) \cup {pqinfo}) \cap living'
      \/ /\ turns(pqinfo)' = t + 1
         /\ Ahead(s)' = {} /\ Ahead(s) = living \ {pqinfo}
  BY <1>2, LapStep
<1> HIDE DEF a, t, y
<1>6. CASE turns(pqinfo)' = t /\ Ahead(s)' = (Ahead(s) \cup {pqinfo}) \cap living'
  <2>1. Ahead(s)' = Ahead(s)
    BY <1>1, <1>2, <1>6
  <2>3. limit - turns(pqinfo)' = y
    BY <1>6 DEF y
  <2>4. Share(s, limit)' = (a - 1) * y - b
    BY <1>4, <2>1, <2>3
  <2> QED
    BY <2>4 DEF a, t, y
<1>7. CASE /\ turns(pqinfo)' = t + 1
           /\ Ahead(s)' = {} /\ Ahead(s) = living \ {pqinfo}
  <2>1. Cardinality(Ahead(s)') = 0
    BY <1>7, FS_EmptySet
  <2>2. b = a - 1
    BY <1>1, <1>2, <1>7, LivingType, FS_RemoveElement
  <2>3. limit - turns(pqinfo)' = y - 1
    BY <1>1, <1>7 DEF y
  <2>4. (a - 1) * (y - 1) = (a - 1) * y - (a - 1) /\ (a - 1) * y \in Int
    BY <1>1
  <2>5. Share(s, limit)' = (a - 1) * y - (a - 1)
    <3>1. Share(s, limit)' = (a - 1) * (y - 1) - 0
      BY <1>4, <2>1, <2>3
    <3>2. (a - 1) * (y - 1) \in Int
      BY <1>1
    <3> QED
      BY <2>4, <3>1, <3>2
  <2>6. Share(s, limit)' = (a - 1) * y - b
    BY <2>2, <2>5
  <2> QED
    BY <2>6 DEF a, t, y
<1> QED
  BY <1>5, <1>6, <1>7

\* adj takes at least the share of the dead and its turn, ...
LEMMA TakenAbove ==
  ASSUME NEW a \in Nat, a >= 2, NEW y \in Int, NEW b \in 0 .. a - 1,
         NEW r \in Nat, r >= 1, r <= a * y - b
  PROVE  r - 2 - ((r - 1) \div a) <= (a - 1) * y - b
<1> DEFINE q == (r - 1) \div a
<1>1. q \in Int /\ a * q <= r - 1 /\ r - 1 < a * q + a
  BY Quotient
<1> HIDE DEF q
<1>2. CASE q >= y - 1
  <2>1. r - 2 - q <= a * y - b - 2 - (y - 1)
    BY <1>1, <1>2
  <2>2. a * y - y = (a - 1) * y
    OBVIOUS
  <2> QED
    BY <1>1, <2>1, <2>2 DEF q
<1>3. CASE q <= y - 2
  <2>1. r <= a * (q + 1)
    BY <1>1
  <2>2. a * (q + 1) - (q + 1) = (a - 1) * (q + 1)
    BY <1>1
  <2>3. (a - 1) * (q + 1) <= (a - 1) * (y - 1)
    BY <1>1, <1>3
  <2>4. (a - 1) * (y - 1) = (a - 1) * y - (a - 1)
    OBVIOUS
  <2>5. /\ a * (q + 1) \in Int /\ (a - 1) * (q + 1) \in Int
        /\ (a - 1) * (y - 1) \in Int /\ (a - 1) * y \in Int
    BY <1>1
  <2> QED
    BY <1>1, <2>1, <2>2, <2>3, <2>4, <2>5 DEF q
<1> QED
  BY <1>1, <1>2, <1>3

\* ... and at most one turn more.
LEMMA TakenBelow ==
  ASSUME NEW a \in Nat, a >= 2, NEW y \in Int, NEW b \in Nat,
         NEW r \in Nat, r >= 1, r >= a * y - b
  PROVE  r - 2 - ((r - 1) \div a) >= (a - 1) * y - b - 1
<1> DEFINE q == (r - 1) \div a
<1>1. q \in Int /\ a * q <= r - 1 /\ r - 1 < a * q + a
  BY Quotient
<1> HIDE DEF q
<1>2. CASE q <= y - 1
  <2>1. r - 2 - q >= a * y - b - 2 - (y - 1)
    BY <1>1, <1>2
  <2>2. a * y - y = (a - 1) * y
    OBVIOUS
  <2> QED
    BY <1>1, <2>1, <2>2 DEF q
<1>3. CASE q >= y
  <2>1. a * q - q = (a - 1) * q
    BY <1>1
  <2>2. (a - 1) * q >= (a - 1) * y
    BY <1>1, <1>3
  <2>3. a * q \in Int /\ (a - 1) * q \in Int /\ (a - 1) * y \in Int
    BY <1>1
  <2> QED
    BY <1>1, <2>1, <2>2, <2>3 DEF q
<1> QED
  BY <1>1, <1>2, <1>3

\* cycle behind a death: only a death in the very last turn wraps it.
LEMMA CycleLeaves ==
  ASSUME TypeOK, NEW i \in Warrior, Fetch(i), Leaves(i)
  PROVE  cycle' = IF cycle = 1 THEN WordSize - 1
                               ELSE cycle - 2 - ((cycle - 1) \div numalive)
<1> DEFINE q == (cycle - 1) \div numalive
<1>1. /\ cycle \in 1 .. WordSize - 1 /\ numalive \in 2 .. NumWarriors
      /\ NumWarriors \in Nat /\ WordSize \in Nat \ {0}
  BY Fetched, Constants
<1>2. q \in Int /\ numalive * q <= cycle - 1 /\ cycle - 1 < numalive * q + numalive
  BY <1>1, Quotient
<1>3. cycle' = (cycle - (1 + q) - 1) % WordSize
  BY DEF Leaves, adj
<1> HIDE DEF q
<1>4. 0 <= q
  <2>1. CASE q <= -1
    <3>1. numalive * q <= -numalive
      BY <1>1, <1>2, <2>1
    <3> QED
      BY <1>1, <1>2, <3>1
  <2> QED
    BY <1>2, <2>1
<1>5. CASE cycle = 1
  <2>1. q = 0
    <3>1. CASE q >= 1
      <4>1. numalive * q >= numalive
        BY <1>1, <1>2, <3>1
      <4> QED
        BY <1>1, <1>2, <1>5, <4>1
    <3> QED
      BY <1>2, <1>4, <3>1
  <2>2. cycle - (1 + q) - 1 = WordSize * (-1) + (WordSize - 1)
    BY <1>1, <1>5, <2>1
  <2>3. WordSize - 1 \in 0 .. WordSize - 1 /\ cycle - (1 + q) - 1 \in Int
    BY <1>1, <1>2
  <2>4. (cycle - (1 + q) - 1) % WordSize = WordSize - 1
    BY <1>1, <2>2, <2>3, QuotientIs
  <2> QED
    BY <1>3, <1>5, <2>4
<1>6. CASE cycle # 1
  <2>1. numalive * q >= 2 * q
    BY <1>1, <1>2, <1>4
  <2>2. cycle - 2 - q \in 0 .. WordSize - 1
    BY <1>1, <1>2, <1>4, <1>6, <2>1
  <2>3. cycle - (1 + q) - 1 = cycle - 2 - q
    BY <1>1, <1>2
  <2>4. (cycle - 2 - q) % WordSize = cycle - 2 - q
    BY <1>1, <2>2, ModSmall
  <2> QED
    BY <1>3, <1>6, <2>3, <2>4 DEF q
<1> QED
  BY <1>5, <1>6

----------------------------------------------------------------------------

\* Words count far more than the slots of the array.  The array holds pointers
\* of eight bytes in an address space of at most 2^48, so that it has less than
\* 2^45 slots: with words of 64 bits this is true of 2^18 warriors and less.
LongWords == WordSize > NumWarriors * (2 * Capacity)

\* Every queue is a piece of the array in front of its tail.
HeadBound == \A i \in Warrior : Home(i) <= head[i] /\ head[i] <= Capacity
TailBound == \A i \in Warrior : tail[i] <= head[i] + numprocesses[i]

Stopped == round = NumRounds => ~running

\* Either no more turns are left than MaxCycles allow, or the budget wrapped
\* and more are left than the array has room for.
InBudget(s) == cycle <= Share(s, MaxCycles)
FarAbove(s) == cycle >= Share(s, 2 * Capacity) - (NumWarriors - numalive)

Budgeted ==
  \E s \in Warrior : InLap(s) /\ (LongWords => InBudget(s) \/ FarAbove(s))

IInv == RingInv /\ HeadBound /\ TailBound /\ Stopped /\ Budgeted

\* All queues start inside the array.
LEMMA HomeInArray == \A i \in Warrior : Home(i) \in Nat /\ Home(i) <= Capacity
<1> TAKE i \in Warrior
<1>1. /\ Home(i) \in Nat
      /\ Home(i) <= NumWarriors * MaxProcesses - MaxProcesses + NumWarriors - 1
  BY Homes
<1>2. NumWarriors * MaxCycles >= NumWarriors
  BY Constants
<1> QED
  BY <1>1, <1>2, Constants

\* The first lap of the first round, ...
LEMMA FreshLap ==
  ASSUME \A i \in Warrior : turns(i) = 0, RingInv,
         numalive = NumWarriors, cycle = NumWarriors * MaxCycles
  PROVE  Budgeted
<1> DEFINE s == pqinfo
<1>1. s \in Warrior /\ living \subseteq Warrior
  BY LivingType DEF RingInv, TypeOK
<1>2. Ahead(s) = {}
  <2>1. \A i \in living : Place(s, i) >= 0 /\ Place(s, i) \in Int
    BY <1>1, PlaceType
  <2>2. Place(s, s) = 0
    BY <1>1 DEF Place, Warrior
  <2> QED
    BY <2>1, <2>2 DEF Ahead
<1>3. InLap(s)
  BY <1>1, <1>2 DEF InLap
<1>4. Cardinality(Ahead(s)) = 0
  BY <1>2, FS_EmptySet
<1>5. Share(s, MaxCycles) = NumWarriors * MaxCycles
  BY <1>1, <1>4, Constants DEF Share
<1> QED
  BY <1>1, <1>3, <1>5, Constants DEF Budgeted, InBudget

\* A turn keeps the lap.
LEMMA LapHolds ==
  ASSUME RingInv, NEW s \in Warrior, InLap(s), Fetch(pqinfo),
         GoesOn \/ Leaves(pqinfo)
  PROVE  InLap(s)'
  BY LapStep DEF GoesOn, Leaves, Alive

\* A turn that nobody dies in keeps the budget, and far above what is far
\* above.
LEMMA BudgetGoesOn ==
  ASSUME RingInv, NEW s \in Warrior, InLap(s), Fetch(pqinfo), GoesOn,
         InBudget(s) \/ FarAbove(s)
  PROVE  /\ InBudget(s)' \/ FarAbove(s)'
         /\ FarAbove(s) => FarAbove(s)'
<1>1. /\ cycle' = cycle - 1 /\ numalive' = numalive
      /\ cycle \in Int /\ numalive \in Int
  <2>1. TypeOK /\ cycle > 0 /\ Alive
    BY DEF RingInv, Fetch, running, GoesOn
  <2>2. cycle' = cycle - 1 /\ numalive' = numalive
    BY <2>1, AliveStep
  <2>3. cycle \in Int /\ numalive \in Int
    BY <2>1, Constants DEF TypeOK, Word
  <2> QED
    BY <2>2, <2>3
<1>2. \A limit \in Int : /\ Share(s, limit)' = Share(s, limit) - 1
                         /\ Share(s, limit) \in Int
  BY ShareFalls, AheadCount DEF Share
<1>3. MaxCycles \in Int /\ 2 * Capacity \in Int /\ NumWarriors \in Int
  BY Constants
<1>4. CASE InBudget(s) /\ ~FarAbove(s)
  <2>1. cycle' <= Share(s, MaxCycles)'
    BY <1>1, <1>2, <1>3, <1>4 DEF InBudget
  <2> QED
    BY <1>4, <2>1 DEF InBudget
<1>5. CASE FarAbove(s)
  <2>1. cycle' >= Share(s, 2 * Capacity)' - (NumWarriors - numalive')
    BY <1>1, <1>2, <1>3, <1>5 DEF FarAbove
  <2> QED
    BY <2>1 DEF FarAbove
<1> QED
  BY <1>4, <1>5

\* So does one that a warrior dies in, unless it wraps far above.
LEMMA BudgetLeaves ==
  ASSUME RingInv, HeadBound, LongWords, NEW s \in Warrior, InLap(s),
         Fetch(pqinfo), Leaves(pqinfo), InBudget(s) \/ FarAbove(s)
  PROVE  /\ InBudget(s)' \/ FarAbove(s)'
         /\ FarAbove(s) => FarAbove(s)'
<1> DEFINE a == numalive
           t == turns(pqinfo)
           b == Cardinality(Ahead(s))
           twice == 2 * Capacity
<1>0. pqinfo \in Warrior /\ TypeOK
  BY DEF RingInv, TypeOK
<1>1. /\ cycle \in Nat /\ cycle >= 1 /\ a \in Nat /\ a >= 2 /\ a <= NumWarriors
      /\ b \in 0 .. a - 1 /\ t \in Int
  BY <1>0, Fetched, AheadCount, Constants
<1>2. t >= 0
  BY <1>0, HomeInArray DEF HeadBound, turns, TypeOK
<1>3. a' = a - 1
  BY DEF Leaves
<1>4. /\ NumWarriors \in Nat /\ twice \in Nat /\ MaxCycles \in Nat
      /\ WordSize \in Nat /\ WordSize > NumWarriors * twice
  BY Constants DEF LongWords
<1>5. \A limit \in Int : /\ Share(s, limit)' = (a - 1) * (limit - t) - b
                         /\ Share(s, limit) = a * (limit - t) - b
  BY ShareLeaves DEF Share
<1>6. cycle' = IF cycle = 1 THEN WordSize - 1
                            ELSE cycle - 2 - ((cycle - 1) \div a)
  BY <1>0, CycleLeaves
<1> HIDE DEF a, t, b, twice
<1>7. CASE cycle = 1
  <2>1. (a - 1) * (twice - t) <= NumWarriors * twice
    <3>1. (a - 1) * (twice - t) <= (a - 1) * twice
      BY <1>1, <1>2, <1>4
    <3>2. (a - 1) * twice <= NumWarriors * twice
      BY <1>1, <1>4
    <3> QED
      BY <1>1, <1>4, <3>1, <3>2
  <2>2. Share(s, twice)' = (a - 1) * (twice - t) - b
    BY <1>4, <1>5
  <2>3. (a - 1) * (twice - t) \in Int /\ NumWarriors * twice \in Int
    BY <1>1, <1>4
  <2>4. cycle' >= Share(s, twice)' - (NumWarriors - a')
    BY <1>1, <1>3, <1>4, <1>6, <1>7, <2>1, <2>2, <2>3
  <2> QED
    BY <2>4 DEF FarAbove, a, twice
<1>8. CASE cycle # 1 /\ InBudget(s) /\ ~FarAbove(s)
  <2>1. cycle <= a * (MaxCycles - t) - b
    BY <1>4, <1>5, <1>8 DEF InBudget
  <2>2. cycle - 2 - ((cycle - 1) \div a) <= (a - 1) * (MaxCycles - t) - b
    <3>1. MaxCycles - t \in Int
      BY <1>1, <1>4
    <3> QED
      BY <1>1, <2>1, <3>1, TakenAbove
  <2>3. cycle' <= Share(s, MaxCycles)'
    BY <1>4, <1>5, <1>6, <1>8, <2>2
  <2> QED
    BY <1>8, <2>3 DEF InBudget
<1>9. CASE cycle # 1 /\ FarAbove(s)
  <2> DEFINE c == b + (NumWarriors - a)
  <2>1. c \in Nat /\ twice - t \in Int /\ a * (twice - t) \in Int
        /\ (a - 1) * (twice - t) \in Int
    BY <1>1, <1>4
  <2>2. cycle >= a * (twice - t) - b - (NumWarriors - a)
    BY <1>4, <1>5, <1>9 DEF FarAbove, a, twice
  <2>3. cycle >= a * (twice - t) - c
    BY <1>1, <1>4, <2>1, <2>2
  <2>4. cycle - 2 - ((cycle - 1) \div a) >= (a - 1) * (twice - t) - c - 1
    <3> HIDE DEF c
    <3> QED
      BY <1>1, <2>1, <2>3, TakenBelow
  <2>5. cycle' >= Share(s, twice)' - (NumWarriors - a')
    <3>1. Share(s, twice)' = (a - 1) * (twice - t) - b
      BY <1>4, <1>5
    <3>2. cycle' >= (a - 1) * (twice - t) - c - 1
      BY <1>6, <1>9, <2>4
    <3>3. cycle' \in Int
      BY <1>1, <1>6, <1>9, Quotient
    <3> QED
      BY <1>1, <1>3, <1>4, <2>1, <3>1, <3>2, <3>3
  <2> QED
    BY <2>5 DEF FarAbove, a, twice
<1> QED
  BY <1>7, <1>8, <1>9

\* Every turn keeps lap and budget.
LEMMA BudgetedTurn ==
  ASSUME IInv, Fetch(pqinfo), GoesOn \/ Leaves(pqinfo)
  PROVE  Budgeted'
<1>1. PICK s \in Warrior : InLap(s) /\ (LongWords => InBudget(s) \/ FarAbove(s))
  BY DEF IInv, Budgeted
<1>2. RingInv /\ HeadBound
  BY DEF IInv
<1>3. InLap(s)'
  BY <1>1, <1>2, LapHolds
<1>4. ASSUME LongWords PROVE InBudget(s)' \/ FarAbove(s)'
  BY <1>1, <1>2, <1>4, BudgetGoesOn, BudgetLeaves
<1>5. (LongWords => InBudget(s) \/ FarAbove(s))'
  BY <1>4 DEF LongWords, Capacity
<1> QED
  BY <1>1, <1>3, <1>5 DEF Budgeted

\* A head advances only from a slot of the array.
LEMMA HeadBoundTurn ==
  ASSUME TypeOK, HeadBound, Fetch(pqinfo)
  PROVE  HeadBound'
<1>1. /\ head' = [head EXCEPT ![pqinfo] = @ + 1] /\ head \in [Warrior -> Nat]
      /\ head[pqinfo] \in 0 .. Capacity - 1 /\ pqinfo \in Warrior
  BY DEF TypeOK, Fetch, Slot
<1>2. \A i \in Warrior : /\ Home(i) \in Nat /\ Home(i) <= head[i]
                         /\ head[i] <= Capacity /\ Capacity \in Nat
  BY Constants, Homes DEF HeadBound
<1>3. \A i \in Warrior : Home(i) <= head'[i] /\ head'[i] <= Capacity
  BY <1>1, <1>2
<1>4. \A i \in Warrior : Home(i)' = Home(i) /\ Capacity' = Capacity
  BY DEF Home, Capacity
<1> QED
  BY <1>3, <1>4 DEF HeadBound

\* A tail is never further ahead than there are processes.
LEMMA TailBoundTurn ==
  ASSUME TypeOK, TailBound, NEW i \in Warrior, Turn(i)
  PROVE  TailBound'
<1>0. /\ head \in [Warrior -> Nat] /\ tail \in [Warrior -> Nat]
      /\ numprocesses \in [Warrior -> 0 .. MaxProcesses]
  BY DEF TypeOK
<1>1. /\ head' = [head EXCEPT ![i] = @ + 1]
  BY DEF Turn, Continue, Split, Die, Lose, Fetch
<1>2. \/ tail' = [tail EXCEPT ![i] = @ + 1] /\ numprocesses' = numprocesses
      \/ /\ tail' = [tail EXCEPT ![i] = @ + 2]
         /\ numprocesses' = [numprocesses EXCEPT ![i] = @ + 1]
      \/ tail' = tail /\ numprocesses' = [numprocesses EXCEPT ![i] = @ - 1]
      \/ tail' = tail /\ numprocesses' = numprocesses
  BY DEF Turn, Continue, Split, Die, Lose, Append1, Append2
<1>3. \A k \in Warrior :
        /\ head[k] \in Nat /\ tail[k] \in Nat /\ numprocesses[k] \in Int
        /\ tail[k] <= head[k] + numprocesses[k]
  BY <1>0, Constants DEF TailBound
<1>4. ASSUME NEW k \in Warrior PROVE tail'[k] <= head'[k] + numprocesses'[k]
  <2>1. CASE k = i
    BY <1>0, <1>1, <1>2, <1>3, <2>1
  <2>2. CASE k # i
    BY <1>0, <1>1, <1>2, <1>3, <2>2
  <2> QED
    BY <2>1, <2>2
<1> QED
  BY <1>4 DEF TailBound

\* The inductive invariant: the initial states, ...
LEMMA IInvInit == Init => IInv
<1> SUFFICES ASSUME Init PROVE IInv
  OBVIOUS
<1>1. RingInv
  BY RingInit
<1>2. /\ head = [i \in Warrior |-> Home(i)]
      /\ tail = [i \in Warrior |-> Home(i) + 1]
      /\ numprocesses = [i \in Warrior |-> 1]
  BY InitSetUp
<1>3. HeadBound /\ TailBound
  BY <1>2, HomeInArray DEF HeadBound, TailBound
<1>4. Stopped
  BY Constants DEF Init, Stopped
<1>5. \A i \in Warrior : turns(i) = 0
  BY <1>2, Homes DEF turns
<1>6. Budgeted
  BY <1>1, <1>5, FreshLap DEF Init
<1> QED
  BY <1>1, <1>3, <1>4, <1>6 DEF IInv

\* ... and the first lap of every other round.
LEMMA FreshLapNext ==
  ASSUME RingInv', NEW r \in Nat, SetUp(r)
  PROVE  Budgeted'
<1> DEFINE s == r % NumWarriors
<1>1. s \in Warrior /\ living' = Warrior /\ pqinfo' = s
  BY RoundStart, LinkedSetUp DEF SetUp
<1> HIDE DEF s
<1>2. Ahead(s)' = {}
  <2>1. \A i \in Warrior : Place(s, i) >= 0 /\ Place(s, i) \in Int
    BY <1>1, PlaceType
  <2>2. Place(s, s) = 0
    BY <1>1 DEF Place, Warrior
  <2>3. Ahead(s)' = {i \in Warrior : Place(s, i) < Place(s, s)}
    BY <1>1 DEF Ahead, Place
  <2> QED
    BY <2>1, <2>2, <2>3
<1>3. \A i \in Warrior : turns(i)' = 0
  <2> TAKE i \in Warrior
  <2>1. head'[i] = Home(i) /\ Home(i) \in Nat /\ turns(i)' = head'[i] - Home(i)
    BY Homes DEF SetUp, turns, Home
  <2> QED
    BY <2>1
<1>3a. turns(pqinfo)' = 0
  BY <1>1, <1>3 DEF turns, Home
<1>4. InLap(s)'
  BY <1>1, <1>2, <1>3, <1>3a DEF InLap
<1>5. Cardinality(Ahead(s)') = 0
  BY <1>2, FS_EmptySet
<1>6. Share(s, MaxCycles)' = NumWarriors * MaxCycles
  <2>1. Share(s, MaxCycles)' = NumWarriors * (MaxCycles - 0) - 0
    BY <1>3a, <1>5 DEF Share, SetUp
  <2> QED
    BY <2>1, Constants
<1>7. InBudget(s)'
  BY <1>6, Constants DEF InBudget, SetUp
<1> QED
  BY <1>1, <1>4, <1>7 DEF Budgeted

\* ... the end of a round, ...
LEMMA IInvRound ==
  ASSUME IInv, RingInv', RoundDone
  PROVE  IInv'
<1>0. TypeOK /\ HeadBound /\ TailBound /\ Budgeted
  BY DEF IInv, RingInv
<1>1. CASE round + 1 < NumRounds
  <2>1. SetUp(round + 1) /\ round + 1 \in Nat /\ round' = round + 1
    BY <1>0, <1>1, Constants DEF RoundDone, TypeOK
  <2>2. Budgeted'
    BY <2>1, FreshLapNext
  <2>3. \A i \in Warrior : /\ head'[i] = Home(i) /\ tail'[i] = Home(i) + 1
                           /\ numprocesses'[i] = 1
    BY <2>1 DEF SetUp
  <2>4. \A i \in Warrior : Home(i) <= head'[i] /\ head'[i] <= Capacity
    BY <2>3, HomeInArray
  <2>5. HeadBound'
    BY <2>4 DEF HeadBound, Home, Capacity
  <2>6. TailBound'
    BY <2>3, Homes DEF TailBound
  <2>7. Stopped'
    BY <1>1, <2>1, Constants DEF Stopped
  <2> QED
    BY <2>2, <2>5, <2>6, <2>7 DEF IInv
<1>2. CASE ~(round + 1 < NumRounds)
  <2>1. UNCHANGED <<pqueue, head, tail, numprocesses, next, prev, pqinfo,
                    numalive, cycle>>
    BY <1>2 DEF RoundDone
  <2>2. HeadBound' /\ TailBound'
    BY <1>0, <2>1 DEF HeadBound, TailBound, Home, Capacity
  <2>3. Stopped'
    BY <2>1 DEF RoundDone, Stopped, running
  <2>4. Budgeted'
    BY <1>0, <2>1 DEF Budgeted, InLap, InBudget, FarAbove, Share, Ahead, living,
                      turns, Place, LongWords, Home, Capacity
  <2> QED
    BY <2>2, <2>3, <2>4 DEF IInv
<1> QED
  BY <1>1, <1>2

\* ... and every step.
LEMMA IInvStep == IInv /\ [Next]_vars => IInv'
<1> SUFFICES ASSUME IInv, [Next]_vars PROVE IInv'
  OBVIOUS
<1>0. /\ RingInv /\ RingInv'
      /\ TypeOK /\ HeadBound /\ TailBound /\ Stopped /\ Budgeted
  BY RingStep DEF IInv, RingInv
<1>1. CASE /\ pqinfo \in living /\ Turn(pqinfo) /\ Fetch(pqinfo)
           /\ GoesOn \/ Leaves(pqinfo)
  <2>1. Budgeted'
    BY <1>1, BudgetedTurn
  <2>2. HeadBound'
    BY <1>0, <1>1, HeadBoundTurn
  <2>3. TailBound'
    BY <1>0, <1>1, TailBoundTurn, LivingType
  <2>4. Stopped'
    <3>1. round # NumRounds /\ round' = round
      BY <1>0, <1>1 DEF Stopped, Fetch
    <3> QED
      BY <3>1 DEF Stopped
  <2> QED
    BY <1>0, <2>1, <2>2, <2>3, <2>4 DEF IInv
<1>2. CASE RoundDone
  BY <1>0, <1>2, IInvRound
<1>3. CASE UNCHANGED vars
  <2>1. UNCHANGED <<pqueue, head, tail, numprocesses, next, prev, pqinfo,
                    numalive, cycle, round>>
    BY <1>3 DEF vars
  <2>2. HeadBound' /\ TailBound' /\ Stopped'
    BY <1>0, <2>1 DEF HeadBound, TailBound, Stopped, running, Home, Capacity
  <2>3. Budgeted'
    BY <1>0, <2>1 DEF Budgeted, InLap, InBudget, FarAbove, Share, Ahead, living,
                      turns, Place, LongWords, Home, Capacity
  <2> QED
    BY <1>0, <2>2, <2>3 DEF IInv
<1> QED
  BY <1>0, <1>1, <1>2, <1>3, StepCases

\* The inductive invariant holds.
LEMMA Invariant == Spec => []IInv
  BY IInvInit, IInvStep, PTL DEF Spec

----------------------------------------------------------------------------

\* No living warrior is ever more than one turn ahead of another.
THEOREM TurnsAreFair == Spec => []FairTurns
<1>1. IInv => FairTurns
  <2> SUFFICES ASSUME IInv, NEW i \in living, NEW j \in living
               PROVE  turns(i) - turns(j) \in -1 .. 1
    BY DEF FairTurns
  <2>1. PICK s \in Warrior : InLap(s)
    BY DEF IInv, Budgeted
  <2>2. turns(pqinfo) \in Int
    BY TurnsType DEF IInv, RingInv, TypeOK
  <2> QED
    BY <2>1, <2>2 DEF InLap
<1> QED
  BY <1>1, Invariant, PTL

\* A queue ends before the one of a later warrior starts.
LEMMA OrderedDisjoint ==
  ASSUME TypeOK, FairTurns, NEW i \in living, NEW j \in living, i < j
  PROVE  Live(i) \cap Live(j) = {}
<1>1. /\ i \in Warrior /\ j \in Warrior
      /\ head[i] \in Nat /\ head[j] \in Nat
      /\ numprocesses[i] \in 0 .. MaxProcesses
      /\ numprocesses[j] \in 0 .. MaxProcesses
  BY LivingType DEF TypeOK
<1>2. /\ Home(i) \in Nat /\ Home(j) \in Nat
      /\ Home(j) >= Home(i) + MaxProcesses + 1
  BY <1>1, Homes
<1>3. (head[i] - Home(i)) - (head[j] - Home(j)) \in -1 .. 1
  BY DEF FairTurns, turns
<1>4. head[i] + numprocesses[i] - 1 < head[j]
  BY <1>1, <1>2, <1>3, Constants
<1> QED
  BY <1>1, <1>4, Constants DEF Live

\* Two living warriors never share a slot of the array, though each queue
\* moves over the slots where the next ones started.
THEOREM QueuesAreDisjoint == Spec => []QueuesDisjoint
<1>1. RingInv /\ FairTurns => QueuesDisjoint
  <2> SUFFICES ASSUME RingInv, FairTurns,
                      NEW i \in living, NEW j \in living, i # j
               PROVE  Live(i) \cap Live(j) = {}
    BY DEF QueuesDisjoint
  <2>1. i < j \/ j < i
    BY LivingType, Constants DEF Warrior
  <2> QED
    BY <2>1, OrderedDisjoint DEF RingInv
<1> QED
  BY <1>1, RingInvariant, TurnsAreFair, PTL

\* What the invariant says of the sizes.
LEMMA BudgetSizes ==
  ASSUME IInv, NEW s \in Warrior
  PROVE  /\ cycle \in Nat /\ numalive \in 1 .. NumWarriors
         /\ Cardinality(Ahead(s)) \in 0 .. numalive - 1
         /\ turns(pqinfo) \in Nat /\ turns(pqinfo) <= Capacity
         /\ \A limit \in Int : Share(s, limit) =
              numalive * (limit - turns(pqinfo)) - Cardinality(Ahead(s))
<1>1. RingInv /\ TypeOK /\ HeadBound /\ pqinfo \in Warrior
  BY DEF IInv, RingInv, TypeOK
<1>2. cycle \in Nat /\ numalive \in 1 .. NumWarriors
  BY <1>1, Constants DEF TypeOK, Word
<1>3. Cardinality(Ahead(s)) \in 0 .. numalive - 1
  BY <1>1, AheadCount
<1>4. turns(pqinfo) \in Nat /\ turns(pqinfo) <= Capacity
  BY <1>1, Homes, Constants DEF HeadBound, TypeOK, turns
<1> QED
  BY <1>2, <1>3, <1>4 DEF Share

\* A budget far above is one that has wrapped.
LEMMA FarIsWrapped ==
  ASSUME IInv, NEW s \in Warrior, FarAbove(s)
  PROVE  wrapped
<1> DEFINE t == turns(pqinfo)
           a == numalive
           b == Cardinality(Ahead(s))
           x == NumWarriors * MaxCycles
           z == 2 * Capacity - t
<1>1. /\ cycle \in Nat /\ a \in 1 .. NumWarriors /\ b \in 0 .. a - 1
      /\ t \in Nat /\ t <= Capacity
      /\ \A limit \in Int : Share(s, limit) = a * (limit - t) - b
  BY BudgetSizes
<1>2. /\ Capacity \in Nat /\ x \in Nat /\ NumWarriors \in Nat
      /\ Capacity >= x + NumWarriors
  BY Constants
<1>3. z \in Int /\ z >= Capacity
  BY <1>1, <1>2
<1>4. cycle >= a * z - b - (NumWarriors - a)
  BY <1>1, <1>2 DEF FarAbove
<1> HIDE DEF a, b, t, x, z
<1>5. a * z >= z /\ a * z \in Int
  BY <1>1, <1>2, <1>3
<1>6. cycle > x
  BY <1>1, <1>2, <1>3, <1>4, <1>5
<1> QED
  BY <1>6 DEF wrapped, x

\* A warrior that takes a turn from a budget that has not wrapped has had
\* fewer than MaxCycles of them.
LEMMA TurnsInBudget ==
  ASSUME IInv, LongWords, running, ~wrapped
  PROVE  turns(pqinfo) <= MaxCycles - 1
<1> DEFINE t == turns(pqinfo)
           a == numalive
<1>1. PICK s \in Warrior : InBudget(s) \/ FarAbove(s)
  BY DEF IInv, Budgeted
<1>2. InBudget(s)
  BY <1>1, FarIsWrapped
<1> DEFINE b == Cardinality(Ahead(s))
<1>3. /\ cycle \in Nat /\ cycle > 0 /\ a \in 1 .. NumWarriors
      /\ b \in 0 .. a - 1 /\ t \in Nat
      /\ NumWarriors \in Nat /\ MaxCycles \in Nat
  BY BudgetSizes, Constants DEF running
<1>4. cycle <= a * (MaxCycles - t) - b
  BY <1>2, <1>3, BudgetSizes DEF InBudget
<1> HIDE DEF a, b, t
<1>5. ASSUME t >= MaxCycles PROVE FALSE
  <2>1. a * (MaxCycles - t) <= 0 /\ a * (MaxCycles - t) \in Int
    BY <1>3, <1>5
  <2> QED
    BY <1>3, <1>4, <2>1
<1>6. t <= MaxCycles - 1
  BY <1>3, <1>5
<1> QED
  BY <1>6 DEF t

\* As long as the budget has not wrapped, the array is large enough.
LEMMA BudgetInArray == IInv /\ LongWords => NoOverrun
<1> SUFFICES ASSUME IInv, LongWords, running, ~wrapped
             PROVE  /\ head[pqinfo] < Capacity
                    /\ tail[pqinfo] < Capacity
                    /\ numprocesses[pqinfo] < MaxProcesses =>
                         tail[pqinfo] + 1 < Capacity
  BY DEF NoOverrun
<1> DEFINE i == pqinfo
           t == turns(i)
           x == NumWarriors * MaxCycles
           y == NumWarriors * MaxProcesses
<1>1. TypeOK /\ HeadBound /\ TailBound /\ i \in Warrior
  BY DEF IInv, RingInv, TypeOK
<1>2. t \in Nat /\ t <= MaxCycles - 1
  BY <1>1, BudgetSizes, TurnsInBudget
<1>3. Home(i) \in Nat /\ Home(i) <= y - MaxProcesses + NumWarriors - 1
  BY <1>1, Homes
<1>4. /\ head[i] = Home(i) + t
      /\ numprocesses[i] \in 0 .. MaxProcesses /\ tail[i] \in Nat
      /\ tail[i] <= head[i] + numprocesses[i]
  BY <1>1, <1>3 DEF TypeOK, TailBound, turns
<1>5. /\ Capacity = x + y /\ x \in Nat /\ y \in Nat
      /\ NumWarriors \in Nat /\ NumWarriors >= 2
      /\ MaxCycles \in Nat \ {0} /\ MaxProcesses \in Nat \ {0}
  BY Constants
<1>6. x >= NumWarriors + MaxCycles - 1
  <2>1. (NumWarriors - 1) * (MaxCycles - 1) >= 0
    BY <1>5
  <2>2. (NumWarriors - 1) * (MaxCycles - 1) =
          NumWarriors * MaxCycles - NumWarriors - MaxCycles + 1
    BY <1>5
  <2> QED
    BY <1>5, <2>1, <2>2
<1> HIDE DEF t, x, y, i
<1> QED
  BY <1>2, <1>3, <1>4, <1>5, <1>6 DEF i

\* numwarriors * (maxcycles + maxprocesses) slots are enough as long as the
\* cycle budget has not wrapped around zero.
THEOREM ArrayLargeEnough == LongWords /\ Spec => []NoOverrun
<1> SUFFICES ASSUME LongWords PROVE Spec => []NoOverrun
  OBVIOUS
<1>1. IInv => NoOverrun
  BY BudgetInArray
<1> QED
  BY <1>1, Invariant, PTL

\* A turn from a budget that has not wrapped is not one too many, and a budget
\* that has wrapped stays so until the round ends.
LEMMA ExtraTurnsStep ==
  ASSUME IInv, IInv', LongWords, [Next]_vars, wrapped \/ NoExtraTurns
  PROVE  (wrapped \/ NoExtraTurns)'
<1>1. RingInv /\ TypeOK /\ HeadBound
  BY DEF IInv, RingInv
<1>2. CASE Fetch(pqinfo) /\ (GoesOn \/ Leaves(pqinfo))
  <2>1. CASE wrapped
    <3>1. PICK s \in Warrior : InLap(s) /\ (InBudget(s) \/ FarAbove(s))
      BY DEF IInv, Budgeted
    <3>2. ~InBudget(s)
      <4> DEFINE z == MaxCycles - turns(pqinfo)
      <4>1. /\ cycle \in Nat /\ numalive \in 1 .. NumWarriors
            /\ Cardinality(Ahead(s)) \in Nat /\ z \in Int /\ z <= MaxCycles
            /\ Share(s, MaxCycles) = numalive * z - Cardinality(Ahead(s))
            /\ NumWarriors \in Nat /\ MaxCycles \in Nat
        BY BudgetSizes, Constants
      <4> HIDE DEF z
      <4>2. numalive * z <= numalive * MaxCycles
        BY <4>1
      <4>3. numalive * MaxCycles <= NumWarriors * MaxCycles
        BY <4>1
      <4>4. /\ numalive * z \in Int /\ numalive * MaxCycles \in Int
            /\ NumWarriors * MaxCycles \in Int
        BY <4>1
      <4>5. Share(s, MaxCycles) <= NumWarriors * MaxCycles
        BY <4>1, <4>2, <4>3, <4>4
      <4>6. cycle > NumWarriors * MaxCycles /\ Share(s, MaxCycles) \in Int
        BY <2>1, <4>1, <4>4 DEF wrapped
      <4> QED
        BY <4>1, <4>4, <4>5, <4>6 DEF InBudget
    <3>3. FarAbove(s)'
      BY <1>1, <1>2, <3>1, <3>2, BudgetGoesOn, BudgetLeaves
    <3>4. (IInv /\ s \in Warrior /\ FarAbove(s) => wrapped)'
      BY FarIsWrapped, PTL
    <3> QED
      BY <3>3, <3>4 DEF Warrior
  <2>2. CASE ~wrapped /\ NoExtraTurns
    <3>1. pqinfo \in Warrior /\ turns(pqinfo) \in Nat
      BY <1>1, BudgetSizes DEF TypeOK
    <3>2. turns(pqinfo) <= MaxCycles - 1
      BY <1>2, <2>2, TurnsInBudget DEF Fetch
    <3>3. \A i \in Warrior : turns(i)' = IF i = pqinfo THEN turns(i) + 1
                                         ELSE turns(i)
      <4> TAKE i \in Warrior
      <4>1. /\ head' = [head EXCEPT ![pqinfo] = @ + 1]
            /\ head \in [Warrior -> Nat] /\ Home(i) \in Nat
        BY <1>1, <1>2, Homes DEF Fetch, TypeOK
      <4>2. turns(i)' = head'[i] - Home(i)
        BY DEF turns, Home
      <4>3. head'[i] = IF i = pqinfo THEN head[i] + 1 ELSE head[i]
        BY <3>1, <4>1
      <4> QED
        BY <4>1, <4>2, <4>3 DEF turns
    <3>4. \A i \in Warrior : turns(i)' <= MaxCycles
      BY <2>2, <3>1, <3>2, <3>3, Constants DEF NoExtraTurns
    <3> QED
      BY <3>4 DEF NoExtraTurns, Warrior
  <2> QED
    BY <2>1, <2>2
<1>3. CASE RoundDone
  <2>1. CASE round + 1 < NumRounds
    <3>1. \A i \in Warrior : turns(i)' = 0
      BY <1>3, <2>1, Homes DEF RoundDone, SetUp, turns, Home
    <3> QED
      BY <3>1, Constants DEF NoExtraTurns, Warrior
  <2>2. CASE ~(round + 1 < NumRounds)
    BY <1>3, <2>2 DEF RoundDone, NoExtraTurns, wrapped, turns, Home, Warrior
  <2> QED
    BY <2>1, <2>2
<1>4. CASE UNCHANGED vars
  BY <1>4 DEF vars, NoExtraTurns, wrapped, turns, Home, Warrior
<1> QED
  BY <1>1, <1>2, <1>3, <1>4, StepCases

\* The only way to more than maxcycles turns is the wrap: without it no
\* warrior, living or dead, has more, whoever dies when.
THEOREM ExtraTurnsByWrap == LongWords /\ Spec => [](wrapped \/ NoExtraTurns)
<1> SUFFICES ASSUME LongWords PROVE Spec => [](wrapped \/ NoExtraTurns)
  OBVIOUS
<1>1. Init => NoExtraTurns
  <2> SUFFICES ASSUME Init PROVE NoExtraTurns
    OBVIOUS
  <2>1. \A i \in Warrior : turns(i) = 0
    BY Homes DEF Init, turns
  <2> QED
    BY <2>1, Constants DEF NoExtraTurns
<1>2. IInv /\ IInv' /\ (wrapped \/ NoExtraTurns) /\ [Next]_vars
        => (wrapped \/ NoExtraTurns)'
  BY ExtraTurnsStep
<1> QED
  BY <1>1, <1>2, Invariant, PTL DEF Spec

----------------------------------------------------------------------------

\* A turn adds one to what was executed, and nothing else does.
CountedOnce == executed' = IF round' = round THEN (executed + 1) % WordSize
                                             ELSE executed

\* Every step counts what it executes, as said above.
LEMMA TurnCounted ==
  IInv /\ IInv' /\ [Next]_vars => [CountedOnce]_vars
<1> DEFINE W == WordSize
           ic == insn_counter
           c  == cycle
<1>1. ASSUME IInv, IInv', [Next]_vars PROVE [CountedOnce]_vars
  <2>0. TypeOK /\ TypeOK' /\ Stopped
    BY <1>1 DEF IInv, RingInv
  <2>1. /\ c \in Int /\ c' \in Int /\ ic \in Int /\ ic' \in Int
        /\ W \in Nat \ {0} /\ NumWarriors * MaxCycles \in Int
    BY <2>0, Constants DEF TypeOK, Word
  <2>2. \A x, y \in Int : /\ (x - (y % W)) % W = (x - y) % W
                          /\ ((x % W) - y) % W = (x - y) % W
                          /\ ((x % W) + y) % W = (x + y) % W
                          /\ x % W \in Int
    <3> HIDE DEF W
    <3> TAKE x, y \in Int
    <3>1. x % W \in Int
      BY <2>1, Quotient
    <3> QED
      BY <2>1, <3>1, ModDifference
  <2>3. CASE /\ pqinfo \in living /\ Turn(pqinfo) /\ Fetch(pqinfo)
             /\ GoesOn \/ Leaves(pqinfo)
    <3>1. round # NumRounds /\ round' = round
      BY <2>0, <2>3 DEF Stopped, Fetch
    <3>2. executed = (ic - c) % W /\ executed' = (ic' - c') % W
      BY <3>1 DEF executed
    <3>3. (executed + 1) % W = (ic - c + 1) % W
      <4>1. ic - c \in Int /\ 1 \in Int
        BY <2>1
      <4>2. (((ic - c) % W) + 1) % W = (ic - c + 1) % W
        BY <2>2, <4>1
      <4> QED
        BY <3>2, <4>2
    <3>4. (ic' - c') % W = (ic - c + 1) % W
      <4>1. CASE GoesOn
        <5>1. ic' = ic /\ c' = (c - 1) % W
          BY <4>1 DEF GoesOn, Alive
        <5>2. (ic - ((c - 1) % W)) % W = (ic - (c - 1)) % W
          <6>1. c - 1 \in Int
            BY <2>1
          <6> QED
            BY <2>1, <2>2, <6>1
        <5>3. ic - (c - 1) = ic - c + 1
          BY <2>1
        <5> QED
          BY <5>1, <5>2, <5>3
      <4>2. CASE Leaves(pqinfo)
        <5> DEFINE d == adj
        <5>1. d \in Int
          <6>1. numalive \in Nat \ {0} /\ c - 1 \in Int
            BY <2>0, <2>1, Constants DEF TypeOK
          <6> QED
            BY <6>1, Quotient DEF adj
        <5>2. ic' = (ic - d) % W /\ c' = (c - d - 1) % W
          BY <4>2 DEF Leaves
        <5> HIDE DEF d
        <5>3. ic - d \in Int /\ c - d - 1 \in Int /\ (c - d - 1) % W \in Int
          BY <2>1, <2>2, <5>1
        <5>4. (((ic - d) % W) - ((c - d - 1) % W)) % W
                = ((ic - d) - ((c - d - 1) % W)) % W
          BY <2>2, <5>3
        <5>5. ((ic - d) - ((c - d - 1) % W)) % W = ((ic - d) - (c - d - 1)) % W
          BY <2>2, <5>3
        <5>6. (ic - d) - (c - d - 1) = ic - c + 1
          BY <2>1, <5>1
        <5> QED
          BY <5>2, <5>4, <5>5, <5>6
      <4> QED
        BY <2>3, <4>1, <4>2
    <3> QED
      BY <3>1, <3>2, <3>3, <3>4 DEF CountedOnce
  <2>4. CASE RoundDone
    <3>1. round \in Nat /\ NumRounds \in Nat
      BY <2>0, Constants DEF TypeOK
    <3>2. round' = round + 1 /\ round < NumRounds
      BY <2>4 DEF RoundDone
    <3>3. executed = (ic - c) % W /\ round' # round
      BY <3>1, <3>2 DEF executed
    <3>4. CASE round + 1 < NumRounds
      <4> DEFINE x == NumWarriors * MaxCycles
      <4>1. ic' = (ic - c + x) % W /\ c' = x
        BY <2>4, <3>4 DEF RoundDone, SetUp
      <4>2. executed' = (ic' - c') % W
        BY <3>1, <3>2, <3>4 DEF executed
      <4>3. x \in Int /\ ic - c + x \in Int
        BY <2>1
      <4> HIDE DEF x
      <4>4. (((ic - c + x) % W) - x) % W = ((ic - c + x) - x) % W
        BY <2>2, <4>3
      <4>5. (ic - c + x) - x = ic - c
        BY <2>1, <4>3
      <4> QED
        BY <3>3, <4>1, <4>2, <4>4, <4>5 DEF CountedOnce
    <3>5. CASE ~(round + 1 < NumRounds)
      <4>1. round' = NumRounds /\ ic' = (ic - c) % W
        BY <2>4, <3>1, <3>2, <3>5 DEF RoundDone
      <4> QED
        BY <3>3, <4>1 DEF executed, CountedOnce
    <3> QED
      BY <3>4, <3>5
  <2>5. CASE UNCHANGED vars
    BY <2>5
  <2>6. RingInv
    BY <1>1 DEF IInv
  <2> QED
    BY <1>1, <2>3, <2>4, <2>5, <2>6, StepCases
<1> QED
  BY <1>1

\* insn_counter counts every turn of every round once, though shares of the
\* dead are taken off it and both counters may wrap.
THEOREM EveryTurnCounts == Spec => CountsTurns
<1>1. Spec => [][CountedOnce]_vars
  BY TurnCounted, Invariant, PTL DEF Spec
<1> QED
  BY <1>1 DEF CountsTurns, CountedOnce

----------------------------------------------------------------------------
(* The sums over the rows and columns of results. *)

ColumnSum(r, k, S) == MapThenSumSet(LAMBDA i : r[i][k], S)
RowSum(r, i, S)    == MapThenSumSet(LAMBDA k : r[i][k], S)

Column(r, k, S)    == [i \in S |-> r[i][k]]

\* What the community module computes is a sum.
LEMMA ColumnIsSum ==
  ASSUME NEW S, IsFiniteSet(S), NEW r, NEW k
  PROVE  \E g : /\ IsSum(g, Column(r, k, S), S)
                /\ ColumnSum(r, k, S) = g[S]
<1> DEFINE Is(g) == g = [s \in SUBSET S |->
                           IF s = {} THEN 0
                           ELSE r[CHOOSE x \in s : TRUE][k]
                                  + g[s \ {CHOOSE x \in s : TRUE}]]
           w == Column(r, k, S)
<1>1. ColumnSum(r, k, S) = (CHOOSE g : Is(g))[S]
  BY DEF ColumnSum, MapThenSumSet, MapThenFoldSet
<1>2. \A s \in SUBSET S : s # {} => w[Picked(s)] = r[Picked(s)][k]
  BY DEF Picked, Column
<1>3. ASSUME NEW g PROVE Is(g) <=> IsSum(g, w, S)
  <2> DEFINE One(s) == IF s = {} THEN 0 ELSE r[Picked(s)][k] + g[s \ {Picked(s)}]
             Two(s) == IF s = {} THEN 0 ELSE w[Picked(s)] + g[s \ {Picked(s)}]
  <2>1. \A s \in SUBSET S : One(s) = Two(s)
    BY <1>2
  <2>2. Is(g) <=> g = [s \in SUBSET S |-> One(s)]
    BY DEF Picked
  <2>3. IsSum(g, w, S) <=> g = [s \in SUBSET S |-> Two(s)]
    BY DEF IsSum
  <2> HIDE DEF One, Two, Is, w
  <2>4. [s \in SUBSET S |-> One(s)] = [s \in SUBSET S |-> Two(s)]
    BY <2>1
  <2> QED
    BY <2>2, <2>3, <2>4
<1>4. \E g : Is(g)
  <2> HIDE DEF Is, w
  <2> QED
    BY <1>3, SumExists
<1>5. Is(CHOOSE g : Is(g))
  <2> HIDE DEF Is
  <2> QED
    BY <1>4
<1> HIDE DEF Is
<1> QED
  BY <1>1, <1>3, <1>5

\* The results of a warrior are summed over all their kinds.
LEMMA RowIsSum ==
  ASSUME NEW S, IsFiniteSet(S), NEW r, NEW i
  PROVE  \E g : /\ IsSum(g, r[i], S)
                /\ RowSum(r, i, S) = g[S]
<1> DEFINE Is(g) == g = [s \in SUBSET S |->
                           IF s = {} THEN 0
                           ELSE r[i][CHOOSE x \in s : TRUE]
                                  + g[s \ {CHOOSE x \in s : TRUE}]]
<1>1. RowSum(r, i, S) = (CHOOSE g : Is(g))[S]
  BY DEF RowSum, MapThenSumSet, MapThenFoldSet
<1>2. ASSUME NEW g PROVE Is(g) <=> IsSum(g, r[i], S)
  BY Zenon DEF IsSum, Picked
<1>3. \E g : Is(g)
  <2> HIDE DEF Is
  <2> QED
    BY <1>2, SumExists
<1>4. Is(CHOOSE g : Is(g))
  <2> HIDE DEF Is
  <2> QED
    BY <1>3
<1> HIDE DEF Is
<1> QED
  BY <1>1, <1>2, <1>4

\* The sums of the initial zeros.
LEMMA NothingCounted ==
  ASSUME NEW r, r = [i \in Warrior |-> [k \in 0 .. NumWarriors |-> 0]]
  PROVE  /\ \A k \in Warrior : ColumnSum(r, k, Warrior) = 0
         /\ \A i \in Warrior : RowSum(r, i, 0 .. NumWarriors) = 0
<1>1. /\ IsFiniteSet(Warrior) /\ IsFiniteSet(0 .. NumWarriors)
      /\ Warrior \subseteq 0 .. NumWarriors
  BY FS_Interval, Constants DEF Warrior
<1>2. ASSUME NEW k \in Warrior PROVE ColumnSum(r, k, Warrior) = 0
  <2> DEFINE w == Column(r, k, Warrior)
  <2>1. \A i \in Warrior : w[i] = 0
    BY <1>1 DEF Column
  <2>2. PICK g : IsSum(g, w, Warrior) /\ ColumnSum(r, k, Warrior) = g[Warrior]
    BY <1>1, ColumnIsSum
  <2> HIDE DEF w
  <2> QED
    BY <1>1, <2>1, <2>2, SumOfZeros
<1>3. ASSUME NEW i \in Warrior PROVE RowSum(r, i, 0 .. NumWarriors) = 0
  <2> DEFINE w == r[i]
  <2>1. \A k \in 0 .. NumWarriors : w[k] = 0
    OBVIOUS
  <2>2. PICK g : /\ IsSum(g, w, 0 .. NumWarriors)
                 /\ RowSum(r, i, 0 .. NumWarriors) = g[0 .. NumWarriors]
    BY <1>1, RowIsSum
  <2> HIDE DEF w
  <2> QED
    BY <1>1, <2>1, <2>2, SumOfZeros
<1> QED
  BY <1>2, <1>3

\* A column or a row grows by one in each place of T.
LEMMA ColumnGrows ==
  ASSUME NEW S, IsFiniteSet(S), NEW r, NEW q, NEW k, NEW T,
         OneMore(Column(q, k, S), Column(r, k, S), T, S)
  PROVE  /\ ColumnSum(r, k, S) \in Nat
         /\ ColumnSum(q, k, S) = ColumnSum(r, k, S) + Cardinality(T)
<1>1. PICK g : IsSum(g, Column(r, k, S), S) /\ ColumnSum(r, k, S) = g[S]
  BY ColumnIsSum
<1>2. PICK h : IsSum(h, Column(q, k, S), S) /\ ColumnSum(q, k, S) = h[S]
  BY ColumnIsSum
<1> QED
  BY <1>1, <1>2, SumGrows

\* The sum of a row grows by as many results as are counted in it.
LEMMA RowGrows ==
  ASSUME NEW S, IsFiniteSet(S), NEW r, NEW q, NEW i, NEW T,
         OneMore(q[i], r[i], T, S)
  PROVE  /\ RowSum(r, i, S) \in Nat
         /\ RowSum(q, i, S) = RowSum(r, i, S) + Cardinality(T)
<1>1. PICK g : IsSum(g, r[i], S) /\ RowSum(r, i, S) = g[S]
  BY RowIsSum
<1>2. PICK h : IsSum(h, q[i], S) /\ RowSum(q, i, S) = h[S]
  BY RowIsSum
<1> QED
  BY <1>1, <1>2, SumGrows

\* q is r with a round more, in which each warrior i is counted at rank[i].
OneRoundMore(q, r, rank) ==
  /\ r \in [Warrior -> [0 .. NumWarriors -> Nat]]
  /\ rank \in [Warrior -> 0 .. NumWarriors]
  /\ \A i \in Warrior : q[i] = [r[i] EXCEPT ![rank[i]] = @ + 1]

\* What a round adds.
LEMMA RoundCounted ==
  ASSUME NEW q, NEW r, NEW rank, OneRoundMore(q, r, rank)
  PROVE  /\ \A k \in Warrior :
              /\ ColumnSum(r, k, Warrior) \in Nat
              /\ ColumnSum(q, k, Warrior)
                   = ColumnSum(r, k, Warrior)
                       + Cardinality({i \in Warrior : rank[i] = k})
         /\ \A i \in Warrior :
              /\ RowSum(r, i, 0 .. NumWarriors) \in Nat
              /\ RowSum(q, i, 0 .. NumWarriors)
                   = RowSum(r, i, 0 .. NumWarriors) + 1
<1>1. /\ IsFiniteSet(Warrior) /\ IsFiniteSet(0 .. NumWarriors)
      /\ Warrior \subseteq 0 .. NumWarriors
  BY FS_Interval, Constants DEF Warrior
<1>2. ASSUME NEW k \in Warrior
      PROVE  OneMore(Column(q, k, Warrior), Column(r, k, Warrior),
                     {i \in Warrior : rank[i] = k}, Warrior)
  <2> DEFINE T == {i \in Warrior : rank[i] = k}
             w == Column(r, k, Warrior)
             v == Column(q, k, Warrior)
  <2>1. T \subseteq Warrior
    OBVIOUS
  <2>2. ASSUME NEW x \in Warrior
        PROVE  w[x] \in Nat /\ v[x] = IF x \in T THEN w[x] + 1 ELSE w[x]
    <3>1. w[x] = r[x][k] /\ v[x] = q[x][k]
      BY DEF Column
    <3>2. r[x] \in [0 .. NumWarriors -> Nat] /\ k \in 0 .. NumWarriors
      BY <1>1 DEF OneRoundMore
    <3>3. q[x] = [r[x] EXCEPT ![rank[x]] = @ + 1]
      BY DEF OneRoundMore
    <3> QED
      BY <3>1, <3>2, <3>3
  <2> HIDE DEF T, w, v
  <2>3. OneMore(v, w, T, Warrior)
    BY <2>1, <2>2 DEF OneMore
  <2> QED
    BY <2>3 DEF T, w, v
<1>3. ASSUME NEW i \in Warrior
      PROVE  OneMore(q[i], r[i], {rank[i]}, 0 .. NumWarriors)
  <2>1. r[i] \in [0 .. NumWarriors -> Nat] /\ rank[i] \in 0 .. NumWarriors
    BY DEF OneRoundMore
  <2>2. q[i] = [r[i] EXCEPT ![rank[i]] = @ + 1]
    BY DEF OneRoundMore
  <2>3. ASSUME NEW x \in 0 .. NumWarriors
        PROVE  /\ r[i][x] \in Nat
               /\ q[i][x] = IF x \in {rank[i]} THEN r[i][x] + 1 ELSE r[i][x]
    BY <2>1, <2>2
  <2> QED
    BY <2>1, <2>3 DEF OneMore
<1>4. ASSUME NEW i \in Warrior
      PROVE  Cardinality({rank[i]}) = 1
  BY FS_Singleton
<1>5. ASSUME NEW k \in Warrior
      PROVE  /\ ColumnSum(r, k, Warrior) \in Nat
             /\ ColumnSum(q, k, Warrior)
                  = ColumnSum(r, k, Warrior)
                      + Cardinality({i \in Warrior : rank[i] = k})
  <2> DEFINE T == {i \in Warrior : rank[i] = k}
  <2>1. OneMore(Column(q, k, Warrior), Column(r, k, Warrior), T, Warrior)
    BY <1>2
  <2> HIDE DEF T
  <2>2. /\ ColumnSum(r, k, Warrior) \in Nat
        /\ ColumnSum(q, k, Warrior) = ColumnSum(r, k, Warrior) + Cardinality(T)
    BY <1>1, <2>1, ColumnGrows
  <2> QED
    BY <2>2 DEF T
<1>6. ASSUME NEW i \in Warrior
      PROVE  /\ RowSum(r, i, 0 .. NumWarriors) \in Nat
             /\ RowSum(q, i, 0 .. NumWarriors)
                  = RowSum(r, i, 0 .. NumWarriors) + Cardinality({rank[i]})
  <2> DEFINE T == {rank[i]}
             S == 0 .. NumWarriors
  <2>1. OneMore(q[i], r[i], T, S) /\ IsFiniteSet(S)
    BY <1>1, <1>3
  <2> HIDE DEF T, S
  <2>2. RowSum(r, i, S) \in Nat /\ RowSum(q, i, S) = RowSum(r, i, S) + Cardinality(T)
    BY <2>1, RowGrows
  <2> QED
    BY <2>2 DEF T, S
<1> QED
  BY <1>4, <1>5, <1>6

\* ResultsAddUp in these terms.
Balanced ==
  /\ \A k \in Warrior : /\ ColumnSum(results, k, Warrior) \in Nat
                        /\ ColumnSum(results, k, Warrior) % (k + 1) = 0
  /\ \A i \in Warrior : RowSum(results, i, 0 .. NumWarriors) = round

\* The survivors of a round are counted where there are as many of them, so
\* that the sum grows by zero or by its divisor.
LEMMA BalancedRound ==
  ASSUME RingInv, Balanced, RoundDone
  PROVE  Balanced'
<1>1. /\ results \in [Warrior -> [0 .. NumWarriors -> Nat]]
      /\ numalive \in 1 .. NumWarriors /\ round \in Nat
      /\ numprocesses \in [Warrior -> 0 .. MaxProcesses]
      /\ numalive = Cardinality(living)
  BY DEF RingInv, TypeOK, Linked
<1> DEFINE rank == [i \in Warrior |-> Rank(i)]
<1>2. rank \in [Warrior -> 0 .. NumWarriors]
  BY <1>1, Constants DEF Rank
<1>3. /\ results' = [i \in Warrior |-> [results[i] EXCEPT ![rank[i]] = @ + 1]]
      /\ round' = round + 1
  BY DEF RoundDone
<1>4. /\ \A k \in Warrior :
           /\ ColumnSum(results, k, Warrior) \in Nat
           /\ ColumnSum(results', k, Warrior)
                = ColumnSum(results, k, Warrior)
                    + Cardinality({i \in Warrior : rank[i] = k})
      /\ \A i \in Warrior :
           /\ RowSum(results, i, 0 .. NumWarriors) \in Nat
           /\ RowSum(results', i, 0 .. NumWarriors)
                = RowSum(results, i, 0 .. NumWarriors) + 1
  <2> DEFINE q == results'
  <2>1. OneRoundMore(q, results, rank)
    <3>1. \A i \in Warrior : q[i] = [results[i] EXCEPT ![rank[i]] = @ + 1]
      BY <1>3
    <3> HIDE DEF rank, q
    <3> QED
      BY <1>1, <1>2, <3>1 DEF OneRoundMore
  <2> HIDE DEF rank, q
  <2>2. /\ \A k \in Warrior :
             /\ ColumnSum(results, k, Warrior) \in Nat
             /\ ColumnSum(q, k, Warrior)
                  = ColumnSum(results, k, Warrior)
                      + Cardinality({i \in Warrior : rank[i] = k})
        /\ \A i \in Warrior :
             /\ RowSum(results, i, 0 .. NumWarriors) \in Nat
             /\ RowSum(q, i, 0 .. NumWarriors)
                  = RowSum(results, i, 0 .. NumWarriors) + 1
    BY <2>1, RoundCounted
  <2> QED
    BY <2>2 DEF q
<1>5. ASSUME NEW k \in Warrior
      PROVE  {i \in Warrior : rank[i] = k}
                = IF k = numalive - 1 THEN living ELSE {}
  <2>1. k # NumWarriors
    BY Constants DEF Warrior
  <2> QED
    BY <1>1, <2>1, Constants DEF Rank, living
<1> HIDE DEF rank
<1>6. ASSUME NEW k \in Warrior
      PROVE  /\ ColumnSum(results', k, Warrior) \in Nat
             /\ ColumnSum(results', k, Warrior) % (k + 1) = 0
  <2> DEFINE old == ColumnSum(results, k, Warrior)
             new == ColumnSum(results', k, Warrior)
             n == Cardinality({i \in Warrior : rank[i] = k})
  <2>1. old \in Nat /\ old % (k + 1) = 0
    BY DEF Balanced
  <2>2. new = old + n
    BY <1>4
  <2>3. n = 0 \/ n = k + 1
    <3>1. k \in Int /\ numalive \in Int
      BY <1>1, Constants DEF Warrior
    <3>2. CASE k = numalive - 1
      <4>1. n = Cardinality(living)
        BY <1>5, <3>2
      <4> HIDE DEF n
      <4> QED
        BY <1>1, <3>1, <3>2, <4>1
    <3>3. CASE k # numalive - 1
      BY <1>5, <3>3, FS_EmptySet
    <3> QED
      BY <3>2, <3>3
  <2>4. k \in Nat /\ k + 1 \in Nat \ {0}
    BY Constants DEF Warrior
  <2> HIDE DEF old, new, n
  <2>5. CASE n = 0
    BY <2>1, <2>2, <2>5 DEF new
  <2>6. CASE n = k + 1
    <3>1. new = old + (k + 1) * 1 /\ new \in Nat
      BY <2>1, <2>2, <2>4, <2>6
    <3> DEFINE b == k + 1
               one == 1
    <3>2. old \in Int /\ b \in Nat \ {0} /\ one \in Int
      BY <2>1, <2>4
    <3>3. new = old + b * one
      BY <3>1
    <3> HIDE DEF b, one
    <3>4. (old + b * one) % b = old % b
      BY <3>2, Congruent
    <3> QED
      BY <2>1, <3>1, <3>3, <3>4 DEF b, new
  <2> QED
    BY <2>3, <2>5, <2>6
<1>7. ASSUME NEW i \in Warrior
      PROVE  RowSum(results', i, 0 .. NumWarriors) = round'
  BY <1>3, <1>4 DEF Balanced
<1> QED
  BY <1>6, <1>7 DEF Balanced

\* However the rounds end, the rows of results agree: a round that k + 1
\* warriors survived is counted by k + 1 of them, and every round once per
\* warrior.
THEOREM ResultsAgree == Spec => []ResultsAddUp
<1>1. Init => Balanced
  <2> SUFFICES ASSUME Init PROVE Balanced
    OBVIOUS
  <2>1. /\ \A k \in Warrior : ColumnSum(results, k, Warrior) = 0
        /\ \A i \in Warrior : RowSum(results, i, 0 .. NumWarriors) = 0
    BY NothingCounted DEF Init
  <2>2. \A k \in Warrior : 0 % (k + 1) = 0
    <3> SUFFICES ASSUME NEW k \in Warrior PROVE 0 % (k + 1) = 0
      OBVIOUS
    <3>1. k + 1 \in Nat \ {0} /\ 0 \in 0 .. (k + 1) - 1
      BY Constants DEF Warrior
    <3> QED
      BY <3>1, ModSmall
  <2>3. round = 0
    BY DEF Init
  <2> QED
    BY <2>1, <2>2, <2>3 DEF Balanced
<1>2. RingInv /\ Balanced /\ [Next]_vars => Balanced'
  <2> SUFFICES ASSUME RingInv, Balanced, [Next]_vars PROVE Balanced'
    OBVIOUS
  <2>1. CASE RoundDone
    BY <2>1, BalancedRound
  <2>2. CASE UNCHANGED <<results, round>>
    BY <2>2 DEF Balanced
  <2> QED
    BY <2>1, <2>2, StepCases DEF Fetch, vars
<1>3. Balanced => ResultsAddUp
  BY Zenon DEF Balanced, ResultsAddUp, ColumnSum, RowSum
<1> QED
  BY <1>1, <1>2, <1>3, RingInvariant, PTL DEF Spec

----------------------------------------------------------------------------
(* A fight of two warriors that drop no process implements Fight. *)

\* Two warriors, no JMZ that drops its process, and a word that counts the
\* instructions of all rounds.
PairOnly ==
  /\ NumWarriors = 2
  /\ "lost" \notin Outcomes
  /\ WordSize > NumRounds * (2 * MaxCycles)

\* The refinement mapping.
Queue(i) == [k \in 1 .. numprocesses[i] |-> pqueue[head[i] + k - 1]]
queues   == [w \in {1, 2} |-> [k \in 1 .. numprocesses[w - 1] |->
                                 pqueue[head[w - 1] + k - 1]]]
left     == IF running THEN cycle ELSE 0
score    == [r \in {"win", "loss", "tie"} |->
               results[0][IF r = "win" THEN 0 ELSE IF r = "loss" THEN 2 ELSE 1]]

\* Every queue is where head, tail and the process counter say, inside the
\* array and full of addresses.
QueuesFull ==
  \A i \in Warrior :
    /\ tail[i] = head[i] + numprocesses[i]
    /\ \A s \in head[i] .. tail[i] - 1 : s \in Slot /\ pqueue[s] \in Address

\* While two live, no share was taken off the budget, and what was executed
\* so far does not fill a word.
Counting ==
  /\ executed \in Nat
  /\ round < NumRounds => executed <= round * (2 * MaxCycles) + 2 * MaxCycles
  /\ round = NumRounds => executed <= NumRounds * (2 * MaxCycles)
  /\ running => executed + cycle <= round * (2 * MaxCycles) + 2 * MaxCycles

PairInv == IInv /\ QueuesFull /\ Counting

\* The constants, and the two warriors.
LEMMA Pair ==
  ASSUME PairOnly
  PROVE  /\ Warrior = {0, 1} /\ 0 \in Warrior /\ 1 \in Warrior
         /\ Home(0) = 0 /\ Home(1) = MaxProcesses + 1
         /\ NumWarriors * MaxCycles = 2 * MaxCycles
         /\ 2 * MaxCycles \in Nat
         /\ NumRounds * (2 * MaxCycles) \in Nat
         /\ NumRounds * (2 * MaxCycles) < WordSize
         /\ \A r \in 0 .. NumRounds - 1 :
              /\ r * (2 * MaxCycles) \in Nat
              /\ (r + 1) * (2 * MaxCycles) = r * (2 * MaxCycles) + 2 * MaxCycles
              /\ r * (2 * MaxCycles) + 2 * MaxCycles <= NumRounds * (2 * MaxCycles)
<1> DEFINE b == 2 * MaxCycles
<1>1. /\ MaxCycles \in Nat /\ MaxProcesses \in Nat /\ NumRounds \in Nat
      /\ WordSize \in Nat /\ b \in Nat
  BY Constants
<1>2. Warrior = {0, 1}
  BY DEF PairOnly, Warrior
<1>3. Home(0) = 0 /\ Home(1) = MaxProcesses + 1
  BY <1>1 DEF Home
<1>4. NumWarriors * MaxCycles = b
  BY DEF PairOnly
<1>5. NumRounds * b < WordSize
  BY <1>1 DEF PairOnly
<1> HIDE DEF b
<1>6. NumRounds * b \in Nat
  BY <1>1
<1>7. ASSUME NEW r \in 0 .. NumRounds - 1
      PROVE  /\ r * b \in Nat /\ (r + 1) * b = r * b + b
             /\ r * b + b <= NumRounds * b
  <2>1. r \in Nat /\ r + 1 <= NumRounds
    BY <1>1
  <2>2. (r + 1) * b = r * b + b
    BY <1>1, <2>1
  <2> DEFINE d == NumRounds - (r + 1)
  <2>3. d \in Nat /\ NumRounds = r + 1 + d
    BY <1>1, <2>1
  <2> HIDE DEF d
  <2>4. NumRounds * b = (r + 1) * b + d * b /\ d * b \in Nat /\ r * b \in Nat
    BY <1>1, <2>1, <2>3
  <2> QED
    BY <1>1, <2>2, <2>4
<1> QED
  BY <1>1, <1>2, <1>3, <1>4, <1>5, <1>6, <1>7 DEF b

\* While a turn is left both live, and each is the next of the other.
LEMMA BothLive ==
  ASSUME PairOnly, RingInv, running
  PROVE  /\ living = {0, 1} /\ numalive = 2
         /\ \A i \in Warrior : next[i] = 1 - i /\ numprocesses[i] >= 1
<1>1. numalive = 2 /\ numalive = Cardinality(living)
  BY Constants DEF running, RingInv, TypeOK, Linked, PairOnly
<1>2. living \subseteq {0, 1} /\ IsFiniteSet(living)
  BY Pair, LivingType
<1>3. living = {0, 1}
  <2>1. IsFiniteSet(Warrior) /\ Cardinality(Warrior) = NumWarriors
    BY FS_Interval, Constants DEF Warrior
  <2>2. Warrior = {0, 1} /\ living \subseteq Warrior
    BY <1>2, Pair
  <2>3. living = Warrior
    BY <1>1, <2>1, <2>2, FS_Subset DEF PairOnly
  <2> QED
    BY <2>2, <2>3
<1>4. ASSUME NEW i \in {0, 1} PROVE next[i] = 1 - i
  <2>1. next[i] \in {0, 1} /\ prev[next[i]] = i /\ Gap(i, next[i]) <= Gap(i, 1 - i)
    BY <1>3, <1>4 DEF RingInv, Linked
  <2>2. Gap(i, 1 - i) = 1 /\ Gap(i, i) = 2
    BY <1>4 DEF Gap, PairOnly
  <2> QED
    BY <1>4, <2>1, <2>2
<1>5. ASSUME NEW i \in Warrior PROVE next[i] = 1 - i /\ numprocesses[i] >= 1
  <2>1. i \in {0, 1} /\ i \in living
    BY <1>3, Pair
  <2>2. numprocesses[i] > 0 /\ numprocesses[i] \in Nat
    BY <2>1, Constants DEF living, RingInv, TypeOK
  <2> QED
    BY <1>4, <2>1, <2>2
<1> QED
  BY <1>1, <1>3, <1>5

\* While both live, the warrior on turn has had as many turns as the other,
\* or one less: its queue is clear of the other one, and of its own tail.
LEMMA PairApart ==
  ASSUME PairOnly, IInv, QueuesFull, running
  PROVE  LET i == pqinfo
             j == 1 - i
         IN  /\ i \in Warrior /\ j \in Warrior
             /\ head[i] \in Nat /\ head[j] \in Nat
             /\ numprocesses[i] \in 1 .. MaxProcesses
             /\ numprocesses[j] \in 1 .. MaxProcesses
             /\ tail[i] = head[i] + numprocesses[i]
             /\ tail[j] = head[j] + numprocesses[j]
             /\ \A s \in head[j] .. tail[j] - 1 :
                  s # tail[i] /\ (numprocesses[i] < MaxProcesses => s # tail[i] + 1)
<1> DEFINE i == pqinfo
           j == 1 - i
<1>1. /\ RingInv /\ TypeOK /\ living = {0, 1}
      /\ \A k \in Warrior : numprocesses[k] >= 1
  BY BothLive DEF IInv, RingInv
<1>2. i \in {0, 1} /\ j \in {0, 1} /\ Warrior = {0, 1}
  BY <1>1, Pair DEF TypeOK
<1>3. PICK s \in Warrior : InLap(s)
  BY DEF IInv, Budgeted
<1>4. turns(j) \in turns(i) .. turns(i) + 1
  <2>1. turns(i) \in Int /\ j \in living
    BY <1>1, <1>2, TurnsType
  <2> QED
    BY <1>3, <2>1 DEF InLap
<1>5. /\ head[i] \in Nat /\ head[j] \in Nat
      /\ numprocesses[i] \in 1 .. MaxProcesses
      /\ numprocesses[j] \in 1 .. MaxProcesses
      /\ tail[i] = head[i] + numprocesses[i]
      /\ tail[j] = head[j] + numprocesses[j]
  BY <1>1, <1>2, Constants DEF TypeOK, QueuesFull
<1>6. \/ i = 0 /\ j = 1 /\ head[j] - (MaxProcesses + 1) >= head[i]
      \/ /\ i = 1 /\ j = 0 /\ head[j] <= head[i] - (MaxProcesses + 1) + 1
  <2>1. CASE i = 0
    <3>1. j = 1 /\ turns(i) = head[i] /\ turns(j) = head[j] - (MaxProcesses + 1)
      BY <1>5, <2>1, Pair DEF turns
    <3> QED
      BY <1>4, <1>5, <2>1, <3>1, Constants
  <2>2. CASE i = 1
    <3>1. j = 0 /\ turns(j) = head[j] /\ turns(i) = head[i] - (MaxProcesses + 1)
      BY <1>5, <2>2, Pair DEF turns
    <3> QED
      BY <1>4, <1>5, <2>2, <3>1, Constants
  <2> QED
    BY <1>2, <2>1, <2>2
<1> HIDE DEF i, j
<1>7. ASSUME NEW t \in head[j] .. tail[j] - 1
      PROVE  t # tail[i] /\ (numprocesses[i] < MaxProcesses => t # tail[i] + 1)
  BY <1>5, <1>6, Constants
<1> QED
  BY <1>2, <1>5, <1>7 DEF i, j

\* A turn of warrior i that leaves k processes in place of the one that ran.
Serve(i, k) ==
  /\ numprocesses' = [numprocesses EXCEPT ![i] = @ - 1 + k]
  /\ head' = [head EXCEPT ![i] = @ + 1]
  /\ tail' = [tail EXCEPT ![i] = @ + k]
  /\ \A s \in Slot : s \notin tail[i] .. tail[i] + k - 1 => pqueue'[s] = pqueue[s]
  /\ \A s \in tail[i] .. tail[i] + k - 1 : s \in Slot /\ pqueue'[s] \in Address
  /\ k = 2 => numprocesses[i] < MaxProcesses

\* Only the warrior on turn moves, and the next one in the ring is next.
LEMMA PassesOn ==
  ASSUME PairOnly, NEW i \in Warrior, Turn(i)
  PROVE  i = pqinfo /\ pqinfo' = next[pqinfo]
BY DEF Turn, Continue, Split, Die, Lose, Fetch, Alive

\* What Continue, Split and Die do.
LEMMA OutcomesServe ==
  ASSUME PairOnly, IInv, QueuesFull, NEW i \in Warrior, Turn(i)
  PROVE  /\ i = pqinfo /\ running /\ ip(i) \in Address /\ IpIncMod(ip(i)) \in Address
         /\ round' = round /\ results' = results
         /\ \/ \E x \in Address :
                 /\ Serve(i, 1) /\ pqueue'[tail[i]] = x /\ Alive
            \/ \E x \in Address :
                 /\ numprocesses[i] < MaxProcesses
                 /\ Serve(i, 2) /\ pqueue'[tail[i]] = IpIncMod(ip(i))
                 /\ pqueue'[tail[i] + 1] = x /\ Alive
            \/ /\ ~(numprocesses[i] < MaxProcesses)
               /\ Serve(i, 1) /\ pqueue'[tail[i]] = IpIncMod(ip(i)) /\ Alive
            \/ /\ Serve(i, 0)
               /\ IF numprocesses[i] = 1 THEN numalive' = numalive - 1
                                         ELSE Alive
<1>1. TypeOK
  BY DEF IInv, RingInv
<1>2. Fetch(i)
  BY DEF Turn, Continue, Split, Die, Lose
<1>3. i = pqinfo /\ running
  BY <1>2 DEF Fetch
<1>4. /\ ip(i) \in Address /\ IpIncMod(ip(i)) \in Address
      /\ head' = [head EXCEPT ![i] = @ + 1]
      /\ round' = round /\ results' = results
  BY <1>1, <1>2, Fetched
<1>5. /\ head[i] \in Nat /\ tail[i] \in Nat /\ numprocesses[i] \in Nat
      /\ tail \in [Warrior -> Nat] /\ numprocesses \in [Warrior -> Nat]
      /\ pqueue \in [Slot -> Address \cup {NULL}]
  BY <1>1, Constants DEF TypeOK
<1>6. ASSUME NEW x \in Address, tail[i] \in Slot, Append1(i, x), UNCHANGED numprocesses
      PROVE  Serve(i, 1) /\ pqueue'[tail[i]] = x
  <2>1. tail[i] .. tail[i] + 1 - 1 = {tail[i]}
    BY <1>5
  <2>2. numprocesses' = [numprocesses EXCEPT ![i] = @ - 1 + 1]
    <3>1. numprocesses[i] - 1 + 1 = numprocesses[i]
      BY <1>5
    <3> QED
      BY <1>5, <1>6, <3>1
  <2>3. /\ pqueue'[tail[i]] = x /\ tail' = [tail EXCEPT ![i] = @ + 1]
        /\ \A s \in Slot : s # tail[i] => pqueue'[s] = pqueue[s]
    BY <1>5, <1>6 DEF Append1
  <2>4. \A s \in tail[i] .. tail[i] + 1 - 1 : s \in Slot /\ pqueue'[s] \in Address
    BY <1>6, <2>1, <2>3
  <2>5. \A s \in Slot : s \notin tail[i] .. tail[i] + 1 - 1 => pqueue'[s] = pqueue[s]
    BY <2>1, <2>3
  <2> QED
    BY <1>4, <2>2, <2>3, <2>4, <2>5 DEF Serve
<1>7. CASE \E x \in Address : Continue(i, x)
  BY <1>3, <1>4, <1>6, <1>7 DEF Continue
<1>8. CASE \E x \in Address : Split(i, x)
  <2>1. PICK x \in Address : Split(i, x)
    BY <1>8
  <2>2. CASE numprocesses[i] < MaxProcesses
    <3>1. /\ tail[i] \in Slot /\ tail[i] + 1 \in Slot
          /\ numprocesses' = [numprocesses EXCEPT ![i] = @ + 1]
          /\ pqueue' = [pqueue EXCEPT ![tail[i]] = IpIncMod(ip(i)), ![tail[i] + 1] = x]
          /\ tail' = [tail EXCEPT ![i] = @ + 2] /\ Alive
      BY <2>1, <2>2 DEF Split, Append2
    <3>2. tail[i] .. tail[i] + 2 - 1 = {tail[i], tail[i] + 1}
      BY <1>5
    <3>3. numprocesses' = [numprocesses EXCEPT ![i] = @ - 1 + 2]
      <4>1. numprocesses[i] - 1 + 2 = numprocesses[i] + 1
        BY <1>5
      <4> QED
        BY <3>1, <4>1
    <3>4. /\ pqueue'[tail[i]] = IpIncMod(ip(i)) /\ pqueue'[tail[i] + 1] = x
          /\ \A s \in Slot : s \notin {tail[i], tail[i] + 1} => pqueue'[s] = pqueue[s]
      BY <1>5, <3>1
    <3>5. Serve(i, 2)
      BY <1>4, <2>2, <3>1, <3>2, <3>3, <3>4 DEF Serve
    <3> QED
      BY <1>3, <1>4, <2>2, <3>1, <3>4, <3>5
  <2>3. CASE ~(numprocesses[i] < MaxProcesses)
    <3>1. /\ tail[i] \in Slot /\ Append1(i, IpIncMod(ip(i))) /\ Alive
          /\ UNCHANGED numprocesses
      BY <2>1, <2>3 DEF Split
    <3> QED
      BY <1>3, <1>4, <1>6, <2>3, <3>1
  <2> QED
    BY <2>2, <2>3
<1>9. CASE Die(i)
  <2>1. tail[i] .. tail[i] + 0 - 1 = {}
    BY <1>5
  <2>2. /\ numprocesses' = [numprocesses EXCEPT ![i] = @ - 1 + 0]
        /\ tail' = [tail EXCEPT ![i] = @ + 0] /\ pqueue' = pqueue
    <3>1. numprocesses[i] - 1 + 0 = numprocesses[i] - 1 /\ tail[i] + 0 = tail[i]
      BY <1>5
    <3>2. /\ numprocesses' = [numprocesses EXCEPT ![i] = @ - 1]
          /\ UNCHANGED <<pqueue, tail>>
      BY <1>9 DEF Die
    <3>3. tail = [tail EXCEPT ![i] = tail[i]]
      BY <1>5
    <3> QED
      BY <3>1, <3>2, <3>3
  <2>3. Serve(i, 0)
    BY <1>4, <2>1, <2>2 DEF Serve
  <2> QED
    BY <1>3, <1>4, <1>9, <2>3 DEF Die
<1> QED
  BY <1>3, <1>7, <1>8, <1>9 DEF Turn, Lose, PairOnly, Alive, Die

\* A turn keeps the queues full.
LEMMA ServeFull ==
  ASSUME PairOnly, IInv, QueuesFull, running, NEW k \in 0 .. 2, Serve(pqinfo, k)
  PROVE  QueuesFull'
<1> DEFINE i == pqinfo
           j == 1 - i
<1>1. /\ i \in Warrior /\ j \in Warrior /\ i # j /\ \A w \in Warrior : w = i \/ w = j
      /\ head[i] \in Nat /\ head[j] \in Nat
      /\ numprocesses[i] \in 1 .. MaxProcesses
      /\ numprocesses[j] \in 1 .. MaxProcesses
      /\ tail[i] = head[i] + numprocesses[i]
      /\ tail[j] = head[j] + numprocesses[j]
      /\ \A s \in head[j] .. tail[j] - 1 :
           s # tail[i] /\ (numprocesses[i] < MaxProcesses => s # tail[i] + 1)
  <2>1. Warrior = {0, 1}
    BY Pair
  <2> QED
    BY <2>1, PairApart
<1>2. /\ head \in [Warrior -> Nat] /\ tail \in [Warrior -> Nat]
      /\ numprocesses \in [Warrior -> 0 .. MaxProcesses]
  BY DEF IInv, RingInv, TypeOK
<1>3. /\ head'[i] = head[i] + 1 /\ head'[j] = head[j]
      /\ tail'[i] = tail[i] + k /\ tail'[j] = tail[j]
      /\ numprocesses'[i] = numprocesses[i] - 1 + k
      /\ numprocesses'[j] = numprocesses[j]
  BY <1>1, <1>2 DEF Serve
<1>4. /\ \A s \in Slot : s \notin tail[i] .. tail[i] + k - 1 => pqueue'[s] = pqueue[s]
      /\ \A s \in tail[i] .. tail[i] + k - 1 : s \in Slot /\ pqueue'[s] \in Address
      /\ k = 2 => numprocesses[i] < MaxProcesses
  BY DEF Serve
<1>5. /\ \A s \in head[i] .. tail[i] - 1 : s \in Slot /\ pqueue[s] \in Address
      /\ \A s \in head[j] .. tail[j] - 1 : s \in Slot /\ pqueue[s] \in Address
  BY <1>1 DEF QueuesFull
<1> HIDE DEF i, j
<1>6. ASSUME NEW s \in head'[i] .. tail'[i] - 1
      PROVE  s \in Slot /\ pqueue'[s] \in Address
  <2>1. CASE s \in tail[i] .. tail[i] + k - 1
    BY <1>4, <2>1
  <2>2. CASE s \notin tail[i] .. tail[i] + k - 1
    <3>1. s \in head[i] .. tail[i] - 1
      BY <1>1, <1>3, <2>2, Constants
    <3> QED
      BY <1>4, <1>5, <2>2, <3>1
  <2> QED
    BY <2>1, <2>2
<1>7. ASSUME NEW s \in head'[j] .. tail'[j] - 1
      PROVE  s \in Slot /\ pqueue'[s] \in Address
  <2>1. s \in head[j] .. tail[j] - 1
    BY <1>3
  <2>2. s # tail[i] /\ (k = 2 => s # tail[i] + 1) /\ s \in Int
    BY <1>1, <1>4, <2>1, Constants
  <2>3. s \notin tail[i] .. tail[i] + k - 1
    BY <1>1, <2>2, Constants
  <2> QED
    BY <1>4, <1>5, <2>1, <2>3
<1>8. tail'[i] = head'[i] + numprocesses'[i] /\ tail'[j] = head'[j] + numprocesses'[j]
  BY <1>1, <1>3, Constants
<1> QED
  BY <1>1, <1>6, <1>7, <1>8 DEF QueuesFull

\* The slots a round starts with.
LEMMA FreshSlots ==
  ASSUME PairOnly, NEW queue, NEW start \in [Warrior -> Address],
         NEW i \in Warrior
  PROVE  Home(i) \in Slot /\ Load(queue, start)[Home(i)] = start[i]
<1>1. Home(i) \in Slot
  BY Pair, Constants DEF Slot
<1>2. Home(i) \div (MaxProcesses + 1) = i
  BY Homes
<1> QED
  BY <1>1, <1>2 DEF Load

\* The invariants of a fight of two warriors hold at its start,
LEMMA PairInit ==
  ASSUME PairOnly, Init
  PROVE  QueuesFull /\ Counting
<1>1. PICK start \in [Warrior -> Address] :
        pqueue = Load([s \in Slot |-> NULL], start)
  BY DEF Init
<1>2. QueuesFull
  <2> SUFFICES ASSUME NEW i \in Warrior
               PROVE  /\ tail[i] = head[i] + numprocesses[i]
                      /\ \A s \in head[i] .. tail[i] - 1 :
                           s \in Slot /\ pqueue[s] \in Address
    BY DEF QueuesFull
  <2>1. head[i] = Home(i) /\ tail[i] = Home(i) + 1 /\ numprocesses[i] = 1
    BY DEF Init
  <2>2. Home(i) \in Nat /\ \A s \in Home(i) .. Home(i) + 1 - 1 : s = Home(i)
    BY Homes
  <2>3. Home(i) \in Slot /\ pqueue[Home(i)] \in Address
    BY <1>1, FreshSlots
  <2> QED
    BY <2>1, <2>2, <2>3
<1>3. Counting
  <2> DEFINE b == 2 * MaxCycles
  <2>1. /\ cycle = b /\ insn_counter = b /\ round = 0 /\ b \in Nat
        /\ NumRounds \in Nat /\ NumRounds >= 1 /\ WordSize \in Nat \ {0}
    BY Pair, Constants DEF Init
  <2> HIDE DEF b
  <2>2. executed = (b - b) % WordSize /\ b - b = 0
    BY <2>1 DEF executed
  <2>3. 0 % WordSize = 0
    BY <2>1, ModSmall
  <2>4. executed = 0
    BY <2>2, <2>3
  <2>5. executed \in Nat /\ executed <= 0 * b + b /\ executed + cycle <= 0 * b + b
    BY <2>1, <2>4
  <2> QED
    BY <2>1, <2>5 DEF Counting, b
<1> QED
  BY <1>2, <1>3

\* A turn is counted, and the word does not wrap.
LEMMA CountingTurn ==
  ASSUME PairOnly, IInv, IInv', Counting, NEW i \in Warrior, Turn(i)
  PROVE  Counting' /\ executed' = executed + 1
<1> DEFINE b == 2 * MaxCycles
<1>1. /\ RingInv /\ TypeOK /\ Stopped /\ pqinfo \in living
  BY DEF IInv, RingInv, Linked
<1>2. /\ i = pqinfo /\ Fetch(i) /\ (GoesOn \/ Leaves(pqinfo))
  <2>1. i = pqinfo
    BY DEF Turn, Continue, Split, Die, Lose, Fetch
  <2> QED
    BY <1>1, <2>1, TurnEnds
<1>3. running /\ cycle > 0 /\ round' = round
  BY <1>2 DEF Fetch, running
<1>4. round \in 0 .. NumRounds - 1 /\ round \in Nat /\ cycle \in Nat
  BY <1>1, <1>3, Constants DEF Stopped, TypeOK, Word
<1>5. head' # head
  BY <1>1, <1>2, Fetched DEF Fetch, TypeOK
<1>6. executed' = (executed + 1) % WordSize
  BY <1>3, <1>5, TurnCounted DEF Next, vars, CountedOnce
<1>7. /\ executed \in Nat /\ executed + cycle <= round * b + b
      /\ round * b \in Nat /\ b \in Nat
      /\ round * b + b <= NumRounds * b
      /\ NumRounds * b < WordSize /\ NumRounds * b \in Nat
  BY <1>3, <1>4, Pair DEF Counting
<1> HIDE DEF b
<1>8. executed' = executed + 1
  <2>1. executed + 1 \in 0 .. WordSize - 1 /\ WordSize \in Nat \ {0}
    BY <1>3, <1>4, <1>7, Constants
  <2> QED
    BY <1>6, <2>1, ModSmall
<1>9. executed' \in Nat /\ executed' <= round * b + b
  BY <1>3, <1>4, <1>7, <1>8
<1>10. running' => executed' + cycle' <= round * b + b
  <2>1. CASE GoesOn
    <3>1. cycle' = cycle - 1
      BY <1>1, <1>3, <2>1, AliveStep DEF GoesOn
    <3> QED
      BY <1>4, <1>7, <1>8, <3>1
  <2>2. CASE Leaves(pqinfo)
    <3>1. numalive = 2 /\ numalive' = numalive - 1
      BY <1>1, <1>3, <2>2, BothLive DEF Leaves
    <3> QED
      BY <3>1 DEF running
  <2> QED
    BY <1>2, <2>1, <2>2
<1> QED
  BY <1>3, <1>4, <1>8, <1>9, <1>10 DEF Counting, b

\* The end of a round counts nothing.
LEMMA CountingRound ==
  ASSUME PairOnly, IInv, IInv', Counting, RoundDone
  PROVE  Counting' /\ executed' = executed
<1> DEFINE b == 2 * MaxCycles
<1>1. TypeOK /\ ~running /\ round < NumRounds /\ round' = round + 1
  BY DEF IInv, RingInv, RoundDone
<1>2. round \in 0 .. NumRounds - 1 /\ round \in Nat /\ NumRounds \in Nat
  BY <1>1, Constants DEF TypeOK
<1>3. executed' = executed
  BY <1>1, <1>2, TurnCounted DEF Next, vars, CountedOnce
<1>4. /\ executed \in Nat /\ executed <= round * b + b
      /\ (round + 1) * b = round * b + b
      /\ round * b \in Nat /\ b \in Nat /\ NumWarriors * MaxCycles = b
  BY <1>1, <1>2, Pair DEF Counting
<1> HIDE DEF b
<1>5. CASE round + 1 < NumRounds
  <2>1. cycle' = b
    BY <1>4, <1>5 DEF RoundDone, SetUp
  <2> QED
    BY <1>1, <1>2, <1>3, <1>4, <1>5, <2>1 DEF Counting, b
<1>6. CASE ~(round + 1 < NumRounds)
  <2>1. round + 1 = NumRounds /\ ~running'
    BY <1>1, <1>2, <1>6 DEF RoundDone, running
  <2> QED
    BY <1>1, <1>2, <1>3, <1>4, <2>1 DEF Counting, b
<1> QED
  BY <1>5, <1>6

\* and are kept by every step.
LEMMA PairStep ==
  PairOnly /\ IInv /\ IInv' /\ QueuesFull /\ Counting /\ [Next]_vars
    => QueuesFull' /\ Counting'
<1> SUFFICES ASSUME PairOnly, IInv, IInv', QueuesFull, Counting, [Next]_vars
             PROVE  QueuesFull' /\ Counting'
  OBVIOUS
<1>1. ASSUME NEW i \in Warrior, Turn(i) PROVE QueuesFull' /\ Counting'
  <2>1. /\ running /\ i = pqinfo
        /\ \E k \in 0 .. 2 : Serve(i, k)
    BY <1>1, OutcomesServe
  <2> QED
    BY <1>1, <2>1, ServeFull, CountingTurn
<1>2. CASE RoundDone
  <2>1. CASE round + 1 < NumRounds
    <3>1. SetUp(round + 1) /\ \E start \in [Warrior -> Address] : pqueue' = Load(pqueue, start)
      BY <1>2, <2>1 DEF RoundDone
    <3>2. ASSUME NEW i \in Warrior
          PROVE  /\ tail'[i] = head'[i] + numprocesses'[i]
                 /\ \A s \in head'[i] .. tail'[i] - 1 :
                      s \in Slot /\ pqueue'[s] \in Address
      <4>1. head'[i] = Home(i) /\ tail'[i] = Home(i) + 1 /\ numprocesses'[i] = 1
        BY <3>1 DEF SetUp
      <4>2. Home(i) \in Nat /\ \A s \in Home(i) .. Home(i) + 1 - 1 : s = Home(i)
        BY Homes
      <4>3. Home(i) \in Slot /\ pqueue'[Home(i)] \in Address
        BY <3>1, FreshSlots
      <4> QED
        BY <4>1, <4>2, <4>3
    <3>3. QueuesFull'
      BY <3>2 DEF QueuesFull
    <3> QED
      BY <1>2, <3>3, CountingRound
  <2>2. CASE ~(round + 1 < NumRounds)
    <3>1. UNCHANGED <<pqueue, head, tail, numprocesses>>
      BY <1>2, <2>2 DEF RoundDone
    <3> QED
      BY <1>2, <3>1, CountingRound DEF QueuesFull
  <2> QED
    BY <2>1, <2>2
<1>3. CASE UNCHANGED vars
  BY <1>3 DEF vars, QueuesFull, Counting, executed, running
<1> QED
  BY <1>1, <1>2, <1>3 DEF Next


\* As sequences, the queues are as long as the counters say.
QueueIsSeq ==
  \A i \in Warrior :
    /\ Queue(i) \in Seq(Address)
    /\ Len(Queue(i)) = numprocesses[i]
    /\ \A n \in 1 .. numprocesses[i] : Queue(i)[n] = pqueue[head[i] + n - 1]

\* The queue of a warrior is a sequence of addresses.
LEMMA QueuesAreSeqs == TypeOK /\ QueuesFull => QueueIsSeq
<1> SUFFICES ASSUME TypeOK, QueuesFull, NEW i \in Warrior
             PROVE  /\ Queue(i) \in Seq(Address)
                    /\ Len(Queue(i)) = numprocesses[i]
                    /\ \A n \in 1 .. numprocesses[i] :
                         Queue(i)[n] = pqueue[head[i] + n - 1]
  BY DEF QueueIsSeq
<1>1. /\ head[i] \in Nat /\ numprocesses[i] \in Nat
      /\ tail[i] = head[i] + numprocesses[i]
      /\ \A s \in head[i] .. tail[i] - 1 : pqueue[s] \in Address
  BY Constants DEF TypeOK, QueuesFull
<1>2. \A n \in 1 .. numprocesses[i] : pqueue[head[i] + n - 1] \in Address
  <2> TAKE n \in 1 .. numprocesses[i]
  <2>1. head[i] + n - 1 \in head[i] .. tail[i] - 1
    BY <1>1
  <2> QED
    BY <1>1, <2>1
<1>3. Queue(i) \in [1 .. numprocesses[i] -> Address]
  BY <1>2 DEF Queue
<1>4. Queue(i) \in Seq(Address) /\ Len(Queue(i)) = numprocesses[i]
  BY <1>1, <1>3
<1> QED
  BY <1>4 DEF Queue

\* A turn takes the head off the queue of the warrior on turn, adds to its
\* end, and leaves the other queue alone.
LEMMA ServeShifts ==
  ASSUME PairOnly, IInv, QueuesFull, IInv', QueuesFull', running,
         NEW i \in Warrior, i = pqinfo, NEW k \in 0 .. 2, Serve(i, k)
  PROVE  LET j == 1 - i
             n == numprocesses[i]
         IN  /\ Queue(j)' = Queue(j)
             /\ Queue(i)' \in Seq(Address)
             /\ Len(Queue(i)') = n - 1 + k
             /\ \A m \in 1 .. n - 1 : Queue(i)'[m] = Queue(i)[m + 1]
             /\ k >= 1 => Queue(i)'[n] = pqueue'[tail[i]]
             /\ k = 2 => Queue(i)'[n + 1] = pqueue'[tail[i] + 1]
<1> DEFINE j == 1 - i
           n == numprocesses[i]
<1>1. /\ i \in Warrior /\ j \in Warrior /\ i # j
      /\ head[i] \in Nat /\ head[j] \in Nat
      /\ n \in 1 .. MaxProcesses /\ n \in Nat
      /\ numprocesses[j] \in 1 .. MaxProcesses
      /\ tail[i] = head[i] + n
      /\ tail[j] = head[j] + numprocesses[j]
      /\ \A s \in head[j] .. tail[j] - 1 :
           s # tail[i] /\ (n < MaxProcesses => s # tail[i] + 1)
  <2>1. Warrior = {0, 1}
    BY Pair
  <2> QED
    BY <2>1, PairApart, Constants
<1>2. /\ head \in [Warrior -> Nat] /\ numprocesses \in [Warrior -> 0 .. MaxProcesses]
      /\ TypeOK /\ TypeOK'
  BY DEF IInv, RingInv, TypeOK
<1>3. /\ head'[i] = head[i] + 1 /\ head'[j] = head[j]
      /\ numprocesses'[i] = n - 1 + k
      /\ numprocesses'[j] = numprocesses[j]
  BY <1>1, <1>2 DEF Serve
<1>4. /\ \A s \in Slot : s \notin tail[i] .. tail[i] + k - 1 => pqueue'[s] = pqueue[s]
      /\ k = 2 => n < MaxProcesses
  BY DEF Serve
<1>5. QueueIsSeq /\ QueueIsSeq'
  <2>1. QueueIsSeq
    BY <1>2, QueuesAreSeqs
  <2>2. QueueIsSeq'
    BY <1>2, QueuesAreSeqs, PTL
  <2> QED
    BY <2>1, <2>2
<1>6. /\ \A m \in 1 .. n : Queue(i)[m] = pqueue[head[i] + m - 1]
      /\ Queue(i)' \in Seq(Address)
      /\ Len(Queue(i)') = n - 1 + k
      /\ \A m \in 1 .. n - 1 + k : Queue(i)'[m] = pqueue'[head[i] + 1 + m - 1]
  <2>1. \A m \in 1 .. n : Queue(i)[m] = pqueue[head[i] + m - 1]
    BY <1>1, <1>5 DEF QueueIsSeq
  <2>2. /\ Queue(i)' \in Seq(Address)
        /\ Len(Queue(i)') = numprocesses'[i]
        /\ \A m \in 1 .. numprocesses'[i] : Queue(i)'[m] = pqueue'[head'[i] + m - 1]
    BY <1>1, <1>5 DEF QueueIsSeq
  <2> QED
    BY <1>3, <2>1, <2>2
<1>7. /\ \A s \in head[i] .. tail[i] - 1 : s \in Slot
      /\ \A s \in head[j] .. tail[j] - 1 : s \in Slot
  BY <1>1 DEF QueuesFull
<1>8. Queue(j)' = [m \in 1 .. numprocesses'[j] |-> pqueue'[head'[j] + m - 1]]
  BY DEF Queue
<1>9. Queue(j) = [m \in 1 .. numprocesses[j] |-> pqueue[head[j] + m - 1]]
  BY DEF Queue
<1> HIDE DEF j, n
<1>10. Queue(j)' = Queue(j)
  <2>1. ASSUME NEW m \in 1 .. numprocesses[j]
        PROVE  pqueue'[head[j] + m - 1] = pqueue[head[j] + m - 1]
    <3> DEFINE s == head[j] + m - 1
    <3>1. s \in head[j] .. tail[j] - 1 /\ s \in Int
      BY <1>1, Constants
    <3> HIDE DEF s
    <3>2. s # tail[i] /\ (k = 2 => s # tail[i] + 1) /\ s \in Slot
      BY <1>1, <1>4, <1>7, <3>1
    <3>3. s \notin tail[i] .. tail[i] + k - 1
      BY <1>1, <3>1, <3>2
    <3>4. pqueue'[s] = pqueue[s]
      BY <1>4, <3>2, <3>3
    <3> QED
      BY <3>4 DEF s
  <2> QED
    BY <1>3, <1>8, <1>9, <2>1
<1>11. ASSUME NEW m \in 1 .. n - 1 PROVE Queue(i)'[m] = Queue(i)[m + 1]
  <2>1. m \in 1 .. n - 1 + k /\ m + 1 \in 1 .. n
    BY <1>1
  <2>2. head[i] + 1 + m - 1 = head[i] + m /\ head[i] + (m + 1) - 1 = head[i] + m
    BY <1>1
  <2>3. head[i] + m \in head[i] .. tail[i] - 1
    BY <1>1
  <2>4. head[i] + m \notin tail[i] .. tail[i] + k - 1
    BY <1>1
  <2>5. pqueue'[head[i] + m] = pqueue[head[i] + m]
    BY <1>4, <1>7, <2>3, <2>4
  <2> QED
    BY <1>6, <2>1, <2>2, <2>5
<1>12. k >= 1 => Queue(i)'[n] = pqueue'[tail[i]]
  <2>1. k >= 1 => n \in 1 .. n - 1 + k
    BY <1>1
  <2>2. head[i] + 1 + n - 1 = tail[i]
    BY <1>1
  <2> QED
    BY <1>6, <2>1, <2>2
<1>13. k = 2 => Queue(i)'[n + 1] = pqueue'[tail[i] + 1]
  <2>1. k = 2 => n + 1 \in 1 .. n - 1 + k
    BY <1>1
  <2>2. head[i] + 1 + (n + 1) - 1 = tail[i] + 1
    BY <1>1
  <2> QED
    BY <1>6, <2>1, <2>2
<1> QED
  BY <1>6, <1>10, <1>11, <1>12, <1>13 DEF j, n

\* The queues of Fight are those of the two warriors.
LEMMA MappedQueues ==
  ASSUME PairOnly
  PROVE  \A w \in {1, 2} : queues[w] = Queue(w - 1)
BY DEF queues, Queue

\* The turns left: none if the turn ended the round, or else one less.
LEMMA LeftFalls ==
  ASSUME PairOnly, IInv, running
  PROVE  /\ left = cycle /\ cycle > 0
         /\ Alive => left' = left - 1
         /\ numalive' = numalive - 1 => left' = 0
<1>1. TypeOK /\ cycle \in Nat /\ cycle > 0 /\ numalive = 2
  <2>1. RingInv /\ TypeOK
    BY DEF IInv, RingInv
  <2>2. cycle \in Nat /\ cycle > 0
    BY <2>1, Constants DEF TypeOK, Word, running
  <2> QED
    BY <2>1, <2>2, BothLive
<1>2. left = cycle
  BY DEF left
<1>3. ASSUME Alive PROVE left' = left - 1
  <2>1. cycle' = cycle - 1 /\ numalive' = 2
    BY <1>1, <1>3, AliveStep
  <2> QED
    BY <1>1, <1>2, <2>1 DEF left, running
<1>4. ASSUME numalive' = numalive - 1 PROVE left' = 0
  <2>1. numalive' = 1
    BY <1>1, <1>4
  <2> QED
    BY <2>1 DEF left, running
<1> QED
  BY <1>1, <1>2, <1>3, <1>4

\* What a turn of warrior i of the loop does to Fight's queues and counters.
LEMMA TurnImplements ==
  ASSUME PairOnly, PairInv, PairInv', NEW i \in Warrior, Turn(i)
  PROVE  \E w \in F!Warrior : F!Continue(w) \/ F!Split(w) \/ F!Die(w)
<1> DEFINE w == i + 1
           q == Queue(i)
           y == IpIncMod(ip(i))
           n == numprocesses[i]
<1>1. IInv /\ QueuesFull /\ Counting /\ IInv' /\ QueuesFull' /\ Counting'
  BY DEF PairInv
<1>2. /\ i = pqinfo /\ pqinfo' = next[pqinfo] /\ running
      /\ ip(i) \in Address /\ y \in Address
      /\ round' = round /\ results' = results
  BY <1>1, PassesOn, OutcomesServe
<1>3. /\ i \in {0, 1} /\ w \in {1, 2} /\ w \in F!Warrior
      /\ i = w - 1 /\ next[i] = 1 - i /\ n \in Nat /\ n >= 1
  <2>1. Warrior = {0, 1} /\ next[i] = 1 - i /\ n >= 1
    BY <1>1, <1>2, Pair, BothLive DEF IInv
  <2>2. n \in Nat
    BY <1>1, Constants DEF IInv, RingInv, TypeOK
  <2> QED
    BY <2>1, <2>2 DEF F!Warrior
<1>4. executed' = executed + 1
  BY <1>1, CountingTurn
<1>5. F!Turn(w)
  <2>1. left > 0
    BY <1>1, <1>2, LeftFalls
  <2>2. pqinfo + 1 = w /\ pqinfo' + 1 = 3 - w
    BY <1>2, <1>3
  <2>3. score' = score
    BY <1>2 DEF score
  <2> QED
    BY <1>2, <1>4, <2>1, <2>2, <2>3 DEF F!Turn, F!Opponent, left, score
<1>6. /\ q \in Seq(Address) /\ Len(q) = n /\ q # <<>> /\ Head(q) = ip(i)
  <2>1. QueueIsSeq
    BY <1>1, QueuesAreSeqs DEF IInv, RingInv
  <2>2. q \in Seq(Address) /\ Len(q) = n /\ q[1] = pqueue[head[i] + 1 - 1]
    <3>1. 1 \in 1 .. numprocesses[i]
      BY <1>3
    <3> QED
      BY <2>1, <3>1 DEF QueueIsSeq
  <2>3. head[i] + 1 - 1 = head[i]
    BY <1>1, Constants DEF IInv, RingInv, TypeOK
  <2> QED
    BY <1>3, <2>2, <2>3 DEF ip
<1>7. y = F!Successor(Head(q))
  BY <1>6 DEF IpIncMod, F!Successor
<1>8. queues[w] = q
  BY <1>3, MappedQueues
<1>9. ASSUME NEW k \in 0 .. 2, Serve(i, k)
      PROVE  /\ queues' = [queues EXCEPT ![w] = Queue(i)']
             /\ Queue(i)' \in Seq(Address)
             /\ Len(Queue(i)') = n - 1 + k
             /\ \A m \in 1 .. n - 1 : Queue(i)'[m] = q[m + 1]
             /\ k >= 1 => Queue(i)'[n] = pqueue'[tail[i]]
             /\ k = 2 => Queue(i)'[n + 1] = pqueue'[tail[i] + 1]
  <2>1. /\ Queue(1 - i)' = Queue(1 - i)
        /\ Queue(i)' \in Seq(Address)
        /\ Len(Queue(i)') = n - 1 + k
        /\ \A m \in 1 .. n - 1 : Queue(i)'[m] = q[m + 1]
        /\ k >= 1 => Queue(i)'[n] = pqueue'[tail[i]]
        /\ k = 2 => Queue(i)'[n + 1] = pqueue'[tail[i] + 1]
    BY <1>1, <1>2, <1>9, ServeShifts
  <2>2. \A v \in {1, 2} : queues[v] = Queue(v - 1) /\ queues'[v] = Queue(v - 1)'
    BY DEF queues, Queue
  <2>3. \A v \in {1, 2} : v # w => v - 1 = 1 - i
    BY <1>3
  <2>4. /\ queues = [v \in {1, 2} |-> queues[v]]
        /\ queues' = [v \in {1, 2} |-> queues'[v]]
    BY DEF queues
  <2>5. \A v \in {1, 2} : queues'[v] = IF v = w THEN Queue(i)' ELSE queues[v]
    BY <1>3, <2>1, <2>2, <2>3
  <2> HIDE DEF w, q, n
  <2>6. queues' = [queues EXCEPT ![w] = Queue(i)']
    BY <1>3, <2>4, <2>5
  <2> QED
    BY <2>1, <2>6
<1> HIDE DEF w, q, y, n
<1>10. CASE \E x \in Address : Serve(i, 1) /\ pqueue'[tail[i]] = x /\ Alive
  <2>1. PICK x \in Address : Serve(i, 1) /\ pqueue'[tail[i]] = x /\ Alive
    BY <1>10
  <2>2. Queue(i)' = Append(Tail(q), x)
    BY <1>3, <1>6, <1>9, <2>1, ShiftAppend
  <2>3. queues' = [queues EXCEPT ![w] = Append(Tail(@), x)]
    BY <1>8, <1>9, <2>1, <2>2
  <2>4. left' = left - 1
    BY <1>1, <1>2, <2>1, LeftFalls
  <2>5. F!Continue(w)
    BY <1>5, <2>3, <2>4 DEF F!Continue, F!Address, Address, queues, left
  <2> QED
    BY <1>3, <2>5
<1>11. CASE \E x \in Address :
              /\ n < MaxProcesses
              /\ Serve(i, 2) /\ pqueue'[tail[i]] = y
              /\ pqueue'[tail[i] + 1] = x /\ Alive
  <2>1. PICK x \in Address : /\ n < MaxProcesses
                             /\ Serve(i, 2) /\ pqueue'[tail[i]] = y
                             /\ pqueue'[tail[i] + 1] = x /\ Alive
    BY <1>11
  <2>2. Queue(i)' = Append(Append(Tail(q), y), x)
    <3>1. n - 1 + 2 = n + 1
      BY <1>3
    <3> QED
      BY <1>2, <1>3, <1>6, <1>9, <2>1, <3>1, ShiftAppendTwo
  <2>3. queues' = [queues EXCEPT ![w] = Append(Append(Tail(q), y), x)]
    BY <1>9, <2>1, <2>2
  <2>4. left' = left - 1
    BY <1>1, <1>2, <2>1, LeftFalls
  <2>5. F!Split(w)
    BY <1>5, <1>6, <1>7, <1>8, <2>1, <2>3, <2>4
       DEF F!Split, F!Address, Address, queues, left
  <2> QED
    BY <1>3, <2>5
<1>12. CASE /\ ~(n < MaxProcesses)
            /\ Serve(i, 1) /\ pqueue'[tail[i]] = y /\ Alive
  <2>1. Queue(i)' = Append(Tail(q), y)
    BY <1>2, <1>3, <1>6, <1>9, <1>12, ShiftAppend
  <2>2. queues' = [queues EXCEPT ![w] = Append(Tail(q), y)]
    BY <1>9, <1>12, <2>1
  <2>3. left' = left - 1
    BY <1>1, <1>2, <1>12, LeftFalls
  <2>4. F!Split(w)
    <3>1. ip(i) \in F!Address
      BY <1>2 DEF F!Address, Address
    <3> QED
      BY <1>5, <1>6, <1>7, <1>8, <1>12, <2>2, <2>3, <3>1
         DEF F!Split, queues, left
  <2> QED
    BY <1>3, <2>4
<1>13. CASE /\ Serve(i, 0)
            /\ IF n = 1 THEN numalive' = numalive - 1 ELSE Alive
  <2>1. Queue(i)' = Tail(q)
    <3>1. n - 1 + 0 = n - 1
      BY <1>3
    <3> QED
      BY <1>3, <1>6, <1>9, <1>13, <3>1, ShiftTail
  <2>2. queues' = [queues EXCEPT ![w] = Tail(@)]
    <3>1. Serve(i, 0) /\ 0 \in 0 .. 2
      BY <1>13
    <3>2. queues' = [queues EXCEPT ![w] = Queue(i)']
      BY <1>9, <3>1
    <3> QED
      BY <1>8, <2>1, <3>2
  <2>3. left' = IF n = 1 THEN 0 ELSE left - 1
    BY <1>1, <1>2, <1>13, LeftFalls
  <2>4. F!Die(w)
    BY <1>5, <1>6, <1>8, <2>2, <2>3 DEF F!Die, queues, left
  <2> QED
    BY <1>3, <2>4
<1> QED
  BY <1>1, <1>10, <1>11, <1>12, <1>13, OutcomesServe DEF y, n

----------------------------------------------------------------------------

\* The queues a round starts with.
LEMMA FreshQueues ==
  ASSUME PairOnly, NEW queue, NEW start \in [Warrior -> Address],
         NEW i \in Warrior, pqueue = Load(queue, start),
         head[i] = Home(i), numprocesses[i] = 1
  PROVE  Queue(i) = <<start[i]>>
<1>1. pqueue[Home(i)] = start[i]
  BY FreshSlots
<1>2. Home(i) \in Nat
  BY Homes
<1>3. \A n \in 1 .. 1 : head[i] + n - 1 = Home(i)
  BY <1>2
<1>4. Queue(i) = [n \in 1 .. 1 |-> start[i]]
  BY <1>1, <1>3 DEF Queue
<1> QED
  BY <1>4

\* A round starts with one process per warrior.
FreshState ==
  /\ \E queue : \E start \in [Warrior -> Address] : pqueue = Load(queue, start)
  /\ head = [i \in Warrior |-> Home(i)]
  /\ numprocesses = [i \in Warrior |-> 1]

Started == F!Start(queues)

\* A round starts with queues of one process.
LEMMA FreshStart == PairOnly /\ FreshState => Started
<1> SUFFICES ASSUME PairOnly, FreshState PROVE Started
  OBVIOUS
<1>0. PICK queue : \E start \in [Warrior -> Address] : pqueue = Load(queue, start)
  BY DEF FreshState
<1>1. PICK start \in [Warrior -> Address] : pqueue = Load(queue, start)
  BY <1>0
<1>2. \A i \in Warrior : Queue(i) = <<start[i]>>
  <2> TAKE i \in Warrior
  <2>1. head[i] = Home(i) /\ numprocesses[i] = 1
    BY DEF FreshState
  <2> QED
    BY <1>1, <2>1, FreshQueues
<1> DEFINE s == [w \in {1, 2} |-> start[w - 1]]
<1>3. \A w \in {1, 2} : w - 1 \in Warrior
  BY Pair
<1>4. s \in [{1, 2} -> Address]
  BY <1>3
<1>5. queues = [w \in {1, 2} |-> <<s[w]>>]
  <2>1. \A w \in {1, 2} : queues[w] = <<s[w]>>
    BY <1>2, <1>3, MappedQueues
  <2> HIDE DEF s
  <2>2. queues = [w \in {1, 2} |-> queues[w]]
    BY DEF queues
  <2> QED
    BY <2>1, <2>2
<1> HIDE DEF s
<1> QED
  BY <1>4, <1>5 DEF Started, F!Start, F!Warrior, F!Address, Address, queues

\* A fight of two starts as the abstract one does.
LEMMA InitImplements == PairOnly /\ Init => F!Init
<1> SUFFICES ASSUME PairOnly, Init PROVE F!Init
  OBVIOUS
<1>1. Started
  BY FreshStart DEF Init, FreshState
<1>2. pqinfo + 1 = 1 /\ round = 0
  BY DEF Init
<1>3. left = 2 * MaxCycles
  BY Pair, Constants DEF Init, left, running, PairOnly
<1>4. executed = 0
  <2> DEFINE b == 2 * MaxCycles
  <2>1. cycle = b /\ insn_counter = b /\ b \in Nat /\ WordSize \in Nat \ {0}
    BY Pair, Constants DEF Init
  <2> HIDE DEF b
  <2>2. executed = 0 % WordSize
    BY <1>2, <2>1, Constants DEF executed
  <2> QED
    BY <2>1, <2>2, ModSmall
<1>5. score = [r \in {"win", "loss", "tie"} |-> 0]
  BY Pair, Constants DEF Init, score
<1> QED
  BY <1>1, <1>2, <1>3, <1>4, <1>5 DEF F!Init, F!First, F!Result, Started,
     queues, left, score

\* The warrior that lost has rank 2, a winner 0, and both have 1 in a tie.
LEMMA RankIsVerdict ==
  ASSUME PairOnly, PairInv
  PROVE  Rank(0) = IF F!Verdict = "win" THEN 0
                   ELSE IF F!Verdict = "loss" THEN 2 ELSE 1
<1>1. RingInv /\ TypeOK /\ QueueIsSeq
  BY QueuesAreSeqs DEF PairInv, IInv, RingInv
<1>2. /\ Len(queues[1]) = numprocesses[0] /\ numprocesses[0] \in Nat
      /\ Len(queues[2]) = numprocesses[1] /\ numprocesses[1] \in Nat
  <2>1. 1 \in {1, 2} /\ 2 \in {1, 2} /\ 0 \in Warrior /\ 1 \in Warrior
    BY Pair
  <2>2. queues[1] = Queue(0) /\ queues[2] = Queue(1)
    BY <2>1, MappedQueues
  <2> QED
    BY <1>1, <2>1, <2>2, Constants DEF QueueIsSeq, TypeOK
<1>3. numprocesses[0] > 0 => numalive = IF numprocesses[1] = 0 THEN 1 ELSE 2
  <2>1. numalive = Cardinality(living) /\ Warrior = {0, 1}
    BY <1>1, Pair DEF RingInv, Linked
  <2>2. CASE numprocesses[0] > 0 /\ numprocesses[1] = 0
    <3>1. living = {0}
      BY <2>1, <2>2 DEF living
    <3> QED
      BY <2>1, <2>2, <3>1, FS_Singleton
  <2>3. CASE numprocesses[0] > 0 /\ numprocesses[1] > 0
    <3>1. living = Warrior
      BY <2>1, <2>3 DEF living
    <3>2. Cardinality(Warrior) = NumWarriors
      BY FS_Interval, Constants DEF Warrior
    <3> QED
      BY <2>1, <2>3, <3>1, <3>2 DEF PairOnly
  <2> QED
    BY <1>2, <2>2, <2>3
<1>4. Rank(0) = IF numprocesses[0] = 0 THEN 2 ELSE numalive - 1
  BY DEF Rank, PairOnly
<1>5. F!Verdict = IF numprocesses[0] = 0 THEN "loss"
                  ELSE IF numprocesses[1] = 0 THEN "win" ELSE "tie"
  BY <1>2 DEF F!Verdict, queues
<1> QED
  BY <1>2, <1>3, <1>4, <1>5

\* The result is counted for the right warrior, and the next round starts
\* with the other one.
LEMMA RoundDoneImplements ==
  ASSUME PairOnly, PairInv, PairInv', RoundDone
  PROVE  F!EndRound
<1>1. IInv /\ IInv' /\ TypeOK /\ Counting
  BY DEF PairInv, IInv, RingInv
<1>2. /\ left = 0 /\ round < NumRounds /\ round' = round + 1
      /\ round \in Nat /\ NumRounds \in Nat
  BY <1>1, Constants DEF RoundDone, left, TypeOK
<1>3. executed' = executed
  BY <1>1, CountingRound
<1>4. score' = [score EXCEPT ![F!Verdict] = @ + 1]
  <2>1. results'[0] = [results[0] EXCEPT ![Rank(0)] = @ + 1]
    BY Pair DEF RoundDone
  <2>2. results[0] \in [0 .. 2 -> Nat]
    BY <1>1, Pair DEF TypeOK, PairOnly
  <2>3. F!Verdict \in {"win", "loss", "tie"}
    BY DEF F!Verdict
  <2>4. Rank(0) = IF F!Verdict = "win" THEN 0
                   ELSE IF F!Verdict = "loss" THEN 2 ELSE 1
    BY RankIsVerdict
  <2> DEFINE v == F!Verdict
  <2> HIDE DEF v
  <2>5. \A k \in {0, 1, 2} : results'[0][k] =
          IF k = (IF v = "win" THEN 0 ELSE IF v = "loss" THEN 2 ELSE 1)
            THEN results[0][k] + 1 ELSE results[0][k]
    BY <2>1, <2>2, <2>4 DEF v
  <2>6. score' = [score EXCEPT ![v] = @ + 1]
    <3>1. /\ score = [r \in {"win", "loss", "tie"} |-> score[r]]
          /\ score' = [r \in {"win", "loss", "tie"} |-> score'[r]]
      BY DEF score
    <3>2. /\ score["win"] = results[0][0] /\ score'["win"] = results'[0][0]
          /\ score["tie"] = results[0][1] /\ score'["tie"] = results'[0][1]
          /\ score["loss"] = results[0][2] /\ score'["loss"] = results'[0][2]
      BY DEF score
    <3>3. \A r \in {"win", "loss", "tie"} :
            score'[r] = IF r = v THEN score[r] + 1 ELSE score[r]
      BY <2>3, <2>5, <3>2 DEF v
    <3> QED
      BY <2>3, <3>1, <3>3 DEF v
  <2> QED
    BY <2>6 DEF v
<1>5. CASE round + 1 < NumRounds
  <2>1. /\ SetUp(round + 1)
        /\ \E start \in [Warrior -> Address] : pqueue' = Load(pqueue, start)
    BY <1>5 DEF RoundDone
  <2>2. Started'
    <3>1. FreshState'
      BY <2>1 DEF SetUp, FreshState
    <3> QED
      BY <3>1, FreshStart, PTL
  <2>3. pqinfo' + 1 = F!First(round + 1)
    BY <1>2, <2>1 DEF SetUp, F!First, F!Opponent, PairOnly
  <2>4. left' = 2 * MaxCycles
    BY <2>1, Pair, Constants DEF SetUp, left, running, PairOnly
  <2> QED
    BY <1>2, <1>3, <1>4, <1>5, <2>2, <2>3, <2>4
       DEF F!EndRound, F!Start, Started, queues, left, score
<1>6. CASE ~(round + 1 < NumRounds)
  <2>1. UNCHANGED <<pqueue, head, numprocesses, pqinfo, numalive, cycle>>
    BY <1>6 DEF RoundDone
  <2>2. queues' = queues /\ left' = left
    BY <2>1 DEF queues, left, running
  <2> QED
    BY <1>2, <1>3, <1>4, <1>6, <2>1, <2>2 DEF F!EndRound, queues, left, score
<1> QED
  BY <1>5, <1>6

\* Two warriors of mw_run_88 fight as in run_88: unless a process is lost,
\* the loop for many warriors implements the promise of the one for two.
THEOREM PairImplementsFight == ASSUME PairOnly PROVE Spec => Implements
<1>2. Spec => []PairInv
  <2>1. Init /\ IInv => PairInv
    BY PairInit DEF PairInv
  <2>2. PairInv /\ IInv' /\ [Next]_vars => PairInv'
    BY PairStep DEF PairInv
  <2> QED
    BY <2>1, <2>2, Invariant, PTL DEF Spec
<1>3. PairInv /\ PairInv' /\ [Next]_vars => [F!Next]_(F!vars)
  <2> SUFFICES ASSUME PairInv, PairInv', [Next]_vars PROVE [F!Next]_(F!vars)
    OBVIOUS
  <2>1. CASE RoundDone
    BY <2>1, RoundDoneImplements DEF F!Next
  <2>2. ASSUME NEW i \in Warrior, Turn(i) PROVE F!Next
    BY <2>2, TurnImplements DEF F!Next
  <2>3. CASE UNCHANGED vars
    BY <2>3 DEF vars, F!vars, running, executed
  <2> QED
    BY <2>1, <2>2, <2>3 DEF Next
<1> QED
  BY <1>2, <1>3, InitImplements, PTL DEF Spec, Implements, F!Spec

----------------------------------------------------------------------------
(* How far mw_run_88 is from its return *)

\* Rounds to fight, warriors that live, and turns the budget has left.
Distance == <<NumRounds - round, numalive, cycle>>

\* Every step brings mw_run_88 nearer to its return, also where a death in
\* the last turn makes the budget wrap around zero and the round goes on for
\* nearly a word of turns: then there is a warrior less.  No sequence of
\* distances gets nearer without end.
THEOREM RunGetsNearer ==
  /\ IsWellFoundedOn(Nearer(3), Distances(3))
  /\ Spec => [][(<<Distance', Distance>> \in Nearer(3))]_vars
<1>1. IsWellFoundedOn(Nearer(3), Distances(3))
  BY NearerIsWellFounded
<1>2. TypeOK => Distance \in [1 .. 3 -> Nat]
  BY MultiAssumption DEF TypeOK, Distance, Word
<1>3. TypeOK /\ TypeOK' /\ [Next]_vars
        => [(<<Distance', Distance>> \in Nearer(3))]_vars
  <2> SUFFICES ASSUME TypeOK, TypeOK', Next
               PROVE  <<Distance', Distance>> \in Nearer(3)
    OBVIOUS
  <2>1. Distance \in [1 .. 3 -> Nat] /\ Distance' \in [1 .. 3 -> Nat]
    <3>1. (TypeOK => Distance \in [1 .. 3 -> Nat])'
      BY <1>2, PTL
    <3> QED
      BY <1>2, <3>1
  <2>2. /\ round \in Nat /\ NumRounds \in Nat /\ numalive \in Nat
        /\ cycle \in Nat /\ cycle < WordSize /\ WordSize \in Nat
    BY MultiAssumption DEF TypeOK, Word
  <2>3. \/ NumRounds - round' < NumRounds - round
        \/ round' = round /\ numalive' < numalive
        \/ round' = round /\ numalive' = numalive /\ cycle' < cycle
    <3>1. CASE RoundDone
      BY <2>2, <3>1 DEF RoundDone
    <3>2. ASSUME NEW i \in Warrior, Turn(i)
          PROVE  /\ round' = round
                 /\ numalive' < numalive \/ (numalive' = numalive /\ cycle' < cycle)
      <4>1. cycle > 0 /\ round' = round
        BY <3>2 DEF Turn, Continue, Split, Die, Lose, Fetch, running
      <4>2. (cycle - 1) % WordSize = cycle - 1
        BY <2>2, <4>1, MultiAssumption
      <4>3. Alive => numalive' = numalive /\ cycle' < cycle
        BY <2>2, <4>2 DEF Alive
      <4>4. CASE Die(i)
        BY <2>2, <4>1, <4>3, <4>4 DEF Die
      <4>5. CASE (\E x \in Address : Continue(i, x) \/ Split(i, x)) \/ Lose(i)
        BY <4>1, <4>3, <4>5 DEF Continue, Split, Lose
      <4> QED
        BY <3>2, <4>4, <4>5 DEF Turn
    <3> QED
      BY <3>1, <3>2 DEF Next
  <2>4. /\ Distance[1] = NumRounds - round /\ Distance[2] = numalive
        /\ Distance[3] = cycle
    BY DEF Distance
  <2>5. /\ Distance'[1] = NumRounds - round' /\ Distance'[2] = numalive'
        /\ Distance'[3] = cycle'
    BY DEF Distance
  <2> QED
    BY <2>1, <2>3, <2>4, <2>5, NearerOfThree
<1> QED
  BY <1>1, <1>3, TypeCorrect, PTL DEF Spec
=============================================================================
