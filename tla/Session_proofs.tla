--------------------------- MODULE Session_proofs ---------------------------
(***************************************************************************)
(* Proofs about Session, for all sizes, calls and seeds: the functions     *)
(* that run fights get only arguments they can work with, the warriors     *)
(* that fight a round of any of them do not overlap, p_run fights at every *)
(* position, and what a call allocates is given back.  A shuffle that stays *)
(* in its array permutes, and every step of a call brings its end nearer.  *)
(***************************************************************************)
EXTENDS Session, Lemmas

\* What the checks of new, run, p_run and mw_run leave of the arguments.
Arguments ==
  /\ numwarriors \in Nat /\ numwarriors >= 2
  /\ mindistance \in Nat \ {0}
  /\ coresize \in Nat /\ coresize >= numwarriors * mindistance

\* Seeds are far from the end of an u32_t, so that rng never wraps.
SmallSeed(s) == s \in Nat /\ s \div 4 < 1073741824

\* The first n - 1 warriors behind the one at address 0 have their places.
Placed(n) ==
  /\ \A i \in 1 .. n - 1 : positions[i] \in mindistance .. coresize - mindistance
  /\ \A i \in 1 .. n - 1, j \in 1 .. n - 1 :
       i # j => Apart(positions[i], positions[j])

\* The first n - 1 offsets of calc_pos_backup are sorted.
Sorted(n) ==
  /\ \A i \in 1 .. n - 1 : positions[i] \in 0 .. SpaceBackup - 1
  /\ \A i \in 1 .. n - 1, j \in 1 .. n - 1 : i <= j => positions[i] <= positions[j]

\* What holds in each loop of BenchPositioning.c.
Placing ==
  /\ phase \in {"calc", "choose", "spread", "permute", "done"}
  /\ SmallSeed(seed)
  /\ positions \in [Index -> Nat] /\ positions[0] = 0
  /\ phase # "done" => pos \in Others
  /\ phase = "calc" => Placed(pos)
  /\ phase = "choose" => Sorted(pos)
  /\ phase = "spread" => Sorted(numwarriors)
  /\ phase \in {"permute", "done"} /\ inside => Positioned

----------------------------------------------------------------------------
(* Arithmetic *)

\* Products of numbers are monotonic.
LEMMA Products ==
  ASSUME NEW a \in Nat, NEW b \in Nat, NEW m \in Nat
  PROVE  /\ a * m \in Nat
         /\ a <= b => a * m <= b * m
         /\ a < b => a * m + m <= b * m
  OBVIOUS

\* rng stays below 2^31 and does not wrap below zero.
LEMMA RngSmall ==
  ASSUME NEW s, SmallSeed(s)
  PROVE  SmallSeed(Rng(s)) /\ Rng(s) \in Nat
  BY SMTT(30) DEF SmallSeed, Rng

\* Neither of the two random spaces is empty.
LEMMA Spaces ==
  ASSUME Arguments
  PROVE  /\ Space \in Nat /\ Space >= 1
         /\ SpaceBackup \in Nat /\ SpaceBackup >= 1
         /\ Others \subseteq Index /\ 0 \in Index /\ 1 \in Others
         /\ Others \subseteq Nat /\ 0 \notin Others
         /\ numwarriors * mindistance \in Nat
<1>1. 2 * mindistance <= numwarriors * mindistance
  BY Products DEF Arguments
<1>2. numwarriors * mindistance \in Nat
  BY Products DEF Arguments
<1> QED
  BY <1>1, <1>2 DEF Arguments, Space, SpaceBackup, Others, Index

----------------------------------------------------------------------------
(* calc_pos and calc_pos_backup *)

\* A passing draw, whether it succeeds or not, keeps the warriors placed
\* before it.
LEMMA DrawKeeps ==
  ASSUME Arguments, Placing, Draw
  PROVE  /\ Arguments' /\ SmallSeed(seed')
         /\ positions' \in [Index -> Nat] /\ positions'[0] = 0
         /\ pos \in Others
         /\ positions'[pos] = Candidate
         /\ Candidate \in mindistance .. coresize - mindistance
         /\ \A i \in 1 .. pos - 1 : /\ positions'[i] = positions[i]
                                    /\ i \in Others
         /\ Placed(pos)
         /\ UNCHANGED <<inside, mindistance, coresize, numwarriors>>
<1>1. /\ pos \in Others /\ Placed(pos) /\ SmallSeed(seed')
      /\ UNCHANGED <<arguments, inside>>
      /\ positions' = [positions EXCEPT ![pos] = Candidate]
      /\ positions \in [Index -> Nat] /\ positions[0] = 0
  BY RngSmall DEF Placing, Draw
<1>2. Candidate \in mindistance .. coresize - mindistance
  <2>1. Rng(seed) \in Nat
    BY RngSmall DEF Placing
  <2>2. Rng(seed) % Space \in 0 .. Space - 1
    BY <2>1, Spaces
  <2> QED
    BY <2>2, Spaces DEF Candidate, Space, Arguments
<1>3. \A i \in 1 .. pos - 1 : i \in Others /\ i # pos
  BY <1>1 DEF Others, Arguments
<1>4. UNCHANGED <<mindistance, coresize, numwarriors>>
  BY <1>1 DEF arguments
<1>5. Candidate \in Nat
  BY <1>2 DEF Arguments
<1>6. positions' \in [Index -> Nat]
  BY <1>1, <1>5
<1> QED
  BY <1>1, <1>2, <1>3, <1>4, <1>6, Spaces DEF Arguments

\* Placing a warrior keeps the invariant.
LEMMA PlaceKeeps ==
  ASSUME Arguments, Placing, Place
  PROVE  Placing'
<1>1. /\ Draw /\ Clashes = {} /\ pos' = pos + 1
      /\ phase' = IF pos + 1 < numwarriors THEN "calc" ELSE "done"
  BY DEF Place
<1>2. pos \in Nat /\ pos >= 1 /\ pos <= numwarriors - 1
  BY <1>1, DrawKeeps DEF Others, Arguments
<1>3. \A i \in 1 .. pos :
        positions'[i] \in mindistance .. coresize - mindistance
  BY <1>1, <1>2, DrawKeeps DEF Placed
<1>4. \A i \in 1 .. pos - 1 : Apart(Candidate, positions[i])
  BY <1>1 DEF Clashes
<1>5. \A i \in 1 .. pos, j \in 1 .. pos :
        i # j => Apart(positions'[i], positions'[j])
  <2> SUFFICES ASSUME NEW i \in 1 .. pos, NEW j \in 1 .. pos, i # j
               PROVE  Apart(positions'[i], positions'[j])
    OBVIOUS
  <2>1. CASE i # pos /\ j # pos
    BY <1>1, <1>2, <2>1, DrawKeeps DEF Placed
  <2>2. CASE i = pos
    <3>1. j \in 1 .. pos - 1
      BY <1>2, <2>2
    <3> QED
      BY <1>1, <1>4, <2>2, <3>1, DrawKeeps
  <2>3. CASE j = pos
    <3>1. i \in 1 .. pos - 1
      BY <1>2, <2>3
    <3> QED
      BY <1>1, <1>4, <2>3, <3>1, DrawKeeps DEF Apart
  <2> QED
    BY <2>1, <2>2, <2>3
<1>6. UNCHANGED <<mindistance, coresize, numwarriors, inside>>
  BY <1>1, DrawKeeps
<1>7. Placed(pos)'
  <2>1. pos' - 1 = pos
    BY <1>1, <1>2
  <2> QED
    BY <1>3, <1>5, <1>6, <2>1 DEF Placed, Apart
<1>8. CASE pos + 1 < numwarriors
  <2>1. pos' \in Others'
    BY <1>1, <1>2, <1>6, <1>8 DEF Others, Arguments
  <2> QED
    BY <1>1, <1>6, <1>7, <1>8, <2>1, DrawKeeps DEF Placing, Index
<1>9. CASE ~(pos + 1 < numwarriors)
  <2>1. numwarriors = pos + 1
    BY <1>2, <1>9 DEF Arguments
  <2>2. Positioned'
    BY <1>1, <1>2, <1>3, <1>5, <1>6, <2>1, DrawKeeps
       DEF Positioned, Others, Apart
  <2> QED
    BY <1>1, <1>6, <1>9, <2>2, DrawKeeps DEF Placing, Index
<1> QED
  BY <1>8, <1>9

\* Retries and backtracks forget positions, but never disturb those kept.
LEMMA GoingBackKeeps ==
  ASSUME Arguments, Placing, Retry \/ Backtrack \/ GiveUp
  PROVE  Placing'
<1>1. Draw /\ phase = "calc"
  BY DEF Retry, Backtrack, GiveUp, Draw
<1>2. pos \in Nat /\ pos >= 1
  BY <1>1, DrawKeeps DEF Others, Arguments
<1>3. ASSUME NEW n \in 1 .. pos
      PROVE  /\ \A i \in 1 .. n - 1 : positions'[i] = positions[i]
             /\ n \in Others
             /\ n = pos' => Placed(pos)'
  <2>1. \A i \in 1 .. n - 1 : i \in 1 .. pos - 1
    BY <1>2
  <2>2. \A i \in 1 .. n - 1 : positions'[i] = positions[i]
    BY <1>1, <2>1, DrawKeeps
  <2>3. n \in Others
    BY <1>1, <1>2, DrawKeeps DEF Others, Arguments
  <2>4. n = pos' => Placed(pos)'
    BY <1>1, <2>1, <2>2, DrawKeeps DEF Placed, Apart
  <2> QED
    BY <2>2, <2>3, <2>4
<1>4. /\ UNCHANGED <<mindistance, coresize, numwarriors, inside>>
      /\ Others' = Others /\ Index' = Index
  BY <1>1, DrawKeeps DEF Others, Index
<1>5. CASE Retry \/ Backtrack
  <2>1. pos' \in 1 .. pos /\ phase' = "calc"
    BY <1>1, <1>2, <1>5 DEF Retry, Backtrack, Clashes
  <2> QED
    BY <1>1, <1>3, <1>4, <2>1, DrawKeeps DEF Placing
<1>6. CASE GiveUp
  <2>1. pos' = 1 /\ phase' = "choose"
    BY <1>6 DEF GiveUp
  <2>2. Sorted(1)'
    BY DEF Sorted
  <2>3. 1 \in Others
    BY Spaces
  <2> QED
    BY <1>1, <1>4, <2>1, <2>2, <2>3, DrawKeeps DEF Placing, Sorted
<1> QED
  BY <1>5, <1>6

\* Inserting into sorted numbers keeps them sorted.
LEMMA InsertedSorted ==
  ASSUME Arguments, Placing, phase = "choose", NEW x \in 0 .. SpaceBackup - 1
  PROVE  /\ Inserted(x) \in [Index -> Nat]
         /\ Inserted(x)[0] = 0
         /\ \A i \in 1 .. pos : Inserted(x)[i] \in 0 .. SpaceBackup - 1
         /\ \A i \in 1 .. pos, j \in 1 .. pos :
              i <= j => Inserted(x)[i] <= Inserted(x)[j]
<1> DEFINE smaller == {j \in 1 .. pos - 1 : positions[j] < x}
           IsSlot(k) == /\ k - 1 \in smaller \cup {0}
                        /\ \A j \in smaller : j < k
           slot == CHOOSE k \in 1 .. pos : IsSlot(k)
           new  == Inserted(x)
<1>1. /\ pos \in Nat /\ pos >= 1 /\ pos <= numwarriors - 1
      /\ Sorted(pos) /\ x \in Nat
      /\ positions \in [Index -> Nat] /\ positions[0] = 0
      /\ \A i \in 1 .. pos : i \in Index
  BY Spaces DEF Placing, Others, Index, Arguments
<1>2. \E k \in 1 .. pos : IsSlot(k)
  <2> DEFINE behind == {k \in 1 .. pos : \A j \in smaller : j < k}
  <2>1. pos \in behind /\ behind \subseteq Nat
    BY <1>1
  <2>2. PICK k \in behind : \A l \in behind : k <= l
    BY <2>1, LeastOf
  <2>3. CASE k = 1
    BY <2>2, <2>3
  <2>4. CASE k # 1
    <3>1. k - 1 \in 1 .. pos /\ k - 1 \notin behind
      BY <1>1, <2>2, <2>4
    <3>2. PICK j \in smaller : ~(j < k - 1)
      BY <3>1
    <3>3. j = k - 1
      BY <1>1, <2>2, <3>1, <3>2
    <3> QED
      BY <2>2, <3>2, <3>3
  <2> QED
    BY <2>3, <2>4
<1>3. slot \in 1 .. pos /\ IsSlot(slot)
  BY <1>2
<1>4. new = [j \in Index |-> IF j = slot THEN x
                             ELSE IF j \in slot + 1 .. pos THEN positions[j - 1]
                             ELSE positions[j]]
  BY DEF Inserted
<1> HIDE DEF slot, new
<1>5. \A j \in slot + 1 .. pos : j - 1 \in Index /\ j - 1 \in slot .. pos - 1
  BY <1>1, <1>3 DEF Index, Arguments
<1>6. new \in [Index -> Nat]
  BY <1>1, <1>4, <1>5
<1>7. new[0] = 0
  BY <1>1, <1>3, <1>4, Spaces
<1>8. \A j \in 1 .. pos :
        /\ j < slot => new[j] = positions[j] /\ j \in 1 .. pos - 1
        /\ j = slot => new[j] = x
        /\ j > slot => /\ new[j] = positions[j - 1]
                       /\ j - 1 \in 1 .. pos - 1 /\ j - 1 >= slot
  BY <1>1, <1>3, <1>4
<1>9. \A j \in 1 .. pos - 1 : j < slot => positions[j] <= x
  <2> SUFFICES ASSUME NEW j \in 1 .. pos - 1, j < slot
               PROVE  positions[j] <= x
    OBVIOUS
  <2>1. slot - 1 \in smaller
    BY <1>3
  <2>2. slot - 1 \in 1 .. pos - 1 /\ positions[slot - 1] < x
    BY <2>1
  <2>3. positions[j] <= positions[slot - 1]
    BY <1>1, <1>3, <2>2 DEF Sorted
  <2>4. j \in Index /\ slot - 1 \in Index
    BY <1>1, <2>2
  <2> QED
    BY <1>1, <2>2, <2>3, <2>4
<1>10. \A j \in 1 .. pos - 1 : j >= slot => x <= positions[j]
  <2> SUFFICES ASSUME NEW j \in 1 .. pos - 1, j >= slot
               PROVE  x <= positions[j]
    OBVIOUS
  <2>1. j \notin smaller
    BY <1>1, <1>3
  <2>2. positions[j] \in Nat
    BY <1>1
  <2> QED
    BY <1>1, <2>1, <2>2
<1>11. \A i \in 1 .. pos : new[i] \in 0 .. SpaceBackup - 1
  BY <1>1, <1>3, <1>8 DEF Sorted
<1>12. \A i \in 1 .. pos, j \in 1 .. pos : i <= j => new[i] <= new[j]
  <2> SUFFICES ASSUME NEW i \in 1 .. pos, NEW j \in 1 .. pos, i <= j
               PROVE  new[i] <= new[j]
    OBVIOUS
  <2>1. new[i] \in Nat /\ new[j] \in Nat
    BY <1>1, <1>6
  <2>2. CASE i = j
    BY <2>1, <2>2
  <2>3. CASE i < j /\ j < slot
    BY <1>1, <1>3, <1>8, <2>3 DEF Sorted
  <2>4. CASE i < j /\ j = slot
    BY <1>1, <1>3, <1>8, <1>9, <2>4
  <2>5. CASE i < slot /\ slot < j
    <3>1. positions[i] <= x /\ x <= positions[j - 1]
      BY <1>1, <1>8, <1>9, <1>10, <2>5
    <3>2. new[i] = positions[i] /\ new[j] = positions[j - 1]
      BY <1>8, <2>5
    <3> QED
      BY <1>1, <2>1, <3>1, <3>2
  <2>6. CASE i = slot /\ slot < j
    BY <1>1, <1>8, <1>10, <2>6
  <2>7. CASE slot < i /\ i < j
    <3>1. positions[i - 1] <= positions[j - 1]
      BY <1>1, <1>3, <1>8, <2>7 DEF Sorted
    <3> QED
      BY <1>1, <1>3, <1>8, <2>7, <3>1
  <2> QED
    BY <1>1, <1>3, <2>2, <2>3, <2>4, <2>5, <2>6, <2>7
<1> QED
  BY <1>6, <1>7, <1>11, <1>12 DEF new

\* So does choosing its address.
LEMMA ChooseKeeps ==
  ASSUME Arguments, Placing, Choose
  PROVE  Placing'
<1> DEFINE x == Rng(seed) % SpaceBackup
<1>1. /\ phase = "choose" /\ SmallSeed(seed') /\ positions' = Inserted(x)
      /\ Advance("spread") /\ UNCHANGED <<arguments, inside>>
  BY RngSmall DEF Choose, Placing
<1>2. x \in 0 .. SpaceBackup - 1
  <2>1. Rng(seed) \in Nat
    BY RngSmall DEF Placing
  <2> QED
    BY <2>1, Spaces
<1> HIDE DEF x
<1>3. /\ UNCHANGED <<mindistance, coresize, numwarriors>>
      /\ Others' = Others /\ Index' = Index /\ SpaceBackup' = SpaceBackup
  BY <1>1 DEF arguments, Others, Index, SpaceBackup
<1>4. pos \in Nat /\ pos >= 1 /\ pos <= numwarriors - 1
  BY <1>1 DEF Placing, Others, Arguments
<1>5. CASE pos + 1 < numwarriors
  <2>1. pos' = pos + 1 /\ phase' = "choose"
    BY <1>1, <1>5 DEF Advance
  <2>2. pos' \in Others' /\ pos' - 1 = pos
    BY <1>3, <1>4, <1>5, <2>1 DEF Others, Arguments
  <2>3. Sorted(pos)'
    BY <1>1, <1>2, <1>3, <2>2, InsertedSorted DEF Sorted
  <2> QED
    BY <1>1, <1>2, <1>3, <2>1, <2>2, <2>3, InsertedSorted DEF Placing
<1>6. CASE ~(pos + 1 < numwarriors)
  <2>1. pos' = 1 /\ phase' = "spread"
    BY <1>1, <1>6 DEF Advance
  <2>2. pos' \in Others' /\ numwarriors' - 1 = pos
    BY <1>3, <1>4, <1>6, <2>1, Spaces DEF Arguments
  <2>3. Sorted(numwarriors)'
    BY <1>1, <1>2, <1>3, <2>2, InsertedSorted DEF Sorted
  <2> QED
    BY <1>1, <1>2, <1>3, <2>1, <2>2, <2>3, InsertedSorted DEF Placing
<1> QED
  BY <1>5, <1>6

\* Sorted numbers, mindistance instructions apart, leave room for each
\* warrior, the last one included.
LEMMA SpreadKeeps ==
  ASSUME Arguments, Placing, Spread
  PROVE  Placing'
<1>1. /\ phase = "spread" /\ phase' = "permute" /\ Sorted(numwarriors)
      /\ positions' = [i \in Index |-> positions[i] + i * mindistance]
      /\ positions \in [Index -> Nat] /\ positions[0] = 0
      /\ pos \in Others
      /\ UNCHANGED <<arguments, seed, pos, inside>>
  BY DEF Spread, Placing
<1>2. /\ UNCHANGED <<mindistance, coresize, numwarriors>>
      /\ Others' = Others /\ Index' = Index
  BY <1>1 DEF arguments, Others, Index
<1>3. /\ mindistance \in Nat /\ mindistance >= 1 /\ numwarriors \in Nat
      /\ coresize \in Nat /\ numwarriors >= 2
  BY DEF Arguments
<1>4. \A i \in Index : /\ i \in Nat /\ i * mindistance \in Nat
                       /\ positions[i] \in Nat
                       /\ positions'[i] = positions[i] + i * mindistance
  <2> SUFFICES ASSUME NEW i \in Index
               PROVE  /\ i \in Nat /\ i * mindistance \in Nat
                      /\ positions[i] \in Nat
                      /\ positions'[i] = positions[i] + i * mindistance
    OBVIOUS
  <2>1. i \in Nat
    BY <1>3 DEF Index
  <2>2. i * mindistance \in Nat
    BY <1>3, <2>1, Products
  <2> QED
    BY <1>1, <2>1, <2>2
<1>5. positions' \in [Index -> Nat]
  BY <1>1, <1>4
<1>6. positions'[0] = 0
  BY <1>1, <1>3, Spaces
<1>7. \A i \in Others : positions'[i] \in mindistance .. coresize - mindistance
  <2> SUFFICES ASSUME NEW i \in Others
               PROVE  positions'[i] \in mindistance .. coresize - mindistance
    OBVIOUS
  <2>1. i \in Index /\ i \in 1 .. numwarriors - 1
    BY Spaces DEF Others
  <2>2. 1 * mindistance <= i * mindistance
    BY <1>3, <2>1, Products
  <2>3. i * mindistance + mindistance <= numwarriors * mindistance
    BY <1>3, <2>1, Products
  <2>4. positions[i] \in 0 .. SpaceBackup - 1
    BY <1>1, <2>1 DEF Sorted
  <2>5. numwarriors * mindistance \in Nat
    BY Spaces
  <2> QED
    BY <1>3, <1>4, <2>1, <2>2, <2>3, <2>4, <2>5 DEF SpaceBackup
<1>8. \A i \in Others, j \in Others :
        i < j => positions'[j] - positions'[i] >= mindistance
  <2> SUFFICES ASSUME NEW i \in Others, NEW j \in Others, i < j
               PROVE  positions'[j] - positions'[i] >= mindistance
    OBVIOUS
  <2>1. i \in Index /\ j \in Index /\ {i, j} \subseteq 1 .. numwarriors - 1
    BY Spaces DEF Others
  <2>2. i * mindistance + mindistance <= j * mindistance
    BY <1>3, <1>4, <2>1, Products
  <2>3. positions[i] <= positions[j]
    BY <1>1, <1>3, <2>1 DEF Sorted
  <2> QED
    BY <1>3, <1>4, <2>1, <2>2, <2>3
<1>9. Positioned'
  <2> SUFFICES ASSUME NEW i \in Others, NEW j \in Others, i # j
               PROVE  Apart(positions'[i], positions'[j])
    BY <1>2, <1>6, <1>7 DEF Positioned, Apart
  <2>1. i \in Nat /\ j \in Nat
    BY Spaces
  <2> QED
    BY <1>8, <2>1 DEF Apart
<1> QED
  BY <1>1, <1>2, <1>5, <1>6, <1>9 DEF Placing

\* A swap inside the array moves warriors to each other's places.
LEMMA PermuteKeeps ==
  ASSUME Arguments, Placing, Permute
  PROVE  Placing'
<1> DEFINE j == (Rng(seed) % (numwarriors - 1)) + pos
<1>1. /\ phase = "permute" /\ SmallSeed(seed') /\ pos \in Others
      /\ Advance("done") /\ UNCHANGED arguments
      /\ positions \in [Index -> Nat] /\ positions[0] = 0
  BY RngSmall DEF Permute, Placing
<1>2. /\ UNCHANGED <<mindistance, coresize, numwarriors>>
      /\ Others' = Others /\ Index' = Index
  BY <1>1 DEF arguments, Others, Index
<1>3. j \in Nat /\ j >= 1
  <2>1. Rng(seed) \in Nat
    BY RngSmall DEF Placing
  <2>2. Rng(seed) % (numwarriors - 1) \in Nat
    BY <2>1 DEF Arguments
  <2> QED
    BY <1>1, <2>2 DEF Others, Arguments
<1>4. \/ /\ j < numwarriors /\ UNCHANGED inside
         /\ positions' = [positions EXCEPT ![j] = positions[pos],
                                           ![pos] = positions[j]]
      \/ /\ inside' = FALSE
         /\ \E x \in Behind : positions' = [positions EXCEPT ![pos] = x]
  BY DEF Permute
<1> HIDE DEF j
<1>5. pos' \in Others /\ phase' \in {"permute", "done"}
  BY <1>1, Spaces DEF Advance, Others, Arguments
<1>6. CASE j < numwarriors /\ UNCHANGED inside
           /\ positions' = [positions EXCEPT ![j] = positions[pos],
                                             ![pos] = positions[j]]
  <2>1. j \in Others
    BY <1>3, <1>6 DEF Others, Arguments
  <2>2. j \in Index /\ pos \in Index
    BY <1>1, <2>1, Spaces
  <2>3. positions' \in [Index -> Nat]
    BY <1>1, <1>6, <2>2
  <2>4. positions'[0] = 0
    BY <1>1, <1>6, <2>1, <2>2, Spaces
  <2> DEFINE from(i) == IF i = pos THEN j ELSE IF i = j THEN pos ELSE i
  <2>5. \A i \in Others : /\ positions'[i] = positions[from(i)]
                          /\ from(i) \in Others
    BY <1>1, <1>6, <2>1, <2>2, Spaces
  <2>6. \A i \in Others, k \in Others : i # k => from(i) # from(k)
    OBVIOUS
  <2> HIDE DEF from
  <2>7. Positioned => Positioned'
    BY <1>2, <2>4, <2>5, <2>6 DEF Positioned, Apart
  <2> QED
    BY <1>1, <1>2, <1>5, <1>6, <2>3, <2>4, <2>7 DEF Placing
<1>7. CASE inside' = FALSE
           /\ \E x \in Behind : positions' = [positions EXCEPT ![pos] = x]
  <2>1. PICK x \in Nat : positions' = [positions EXCEPT ![pos] = x]
    BY <1>7, RetriesAssumption
  <2>2. positions' \in [Index -> Nat] /\ positions'[0] = 0
    BY <1>1, <2>1, Spaces
  <2> QED
    BY <1>1, <1>2, <1>5, <1>7, <2>2 DEF Placing
<1> QED
  BY <1>4, <1>6, <1>7

\* So does positioning all the warriors.
LEMMA PositionKeeps ==
  ASSUME Arguments, Placing, Position
  PROVE  Placing' /\ UNCHANGED arguments
<1>1. UNCHANGED arguments
  BY DEF Position, Place, Retry, Backtrack, GiveUp, Draw, Choose, Spread,
     Permute
<1> QED
  BY <1>1, PlaceKeeps, GoingBackKeeps, ChooseKeeps, SpreadKeeps, PermuteKeeps
     DEF Position

----------------------------------------------------------------------------
(* Sessions *)

\* What MARS_88_new and MARS_94nop_new have checked.
MarsSound ==
  mars # NoMars =>
    /\ mars.mindistance \in Nat \ {0}
    /\ mars.maxlength \in Nat /\ mars.maxlength <= mars.mindistance
    /\ mars.coresize \in Nat /\ mars.coresize >= 2 * mars.mindistance
    /\ mars.maxprocesses \in Nat \ {0} /\ mars.maxcycles \in Nat \ {0}

\* What run, p_run and mw_run have checked and loaded.
CallSound ==
  pc # "idle" =>
    /\ call \in Calls /\ mars # NoMars
    /\ Arguments /\ mindistance = mars.mindistance
    /\ numwarriors = Len(call.warriors)
    /\ call.method # "mw_run" => numwarriors = 2
    /\ call.method # "p_run" => /\ Long(call.rounds) \in Nat \ {0}
                                /\ SmallSeed(Long(call.seed) - mindistance)
    /\ loaded \in 0 .. numwarriors
    /\ \A i \in 1 .. loaded : call.warriors[i] \in 1 .. mindistance

\* What the functions that run fights keep.
FightSound ==
  /\ pc \in {"idle", "load", "crash"} => phase = "none"
  /\ pc \in {"fight", "answer"} =>
       /\ Placing
       /\ loaded = numwarriors
       /\ round \in Nat /\ numrounds \in Nat \ {0}
       /\ pc = "fight" => round < numrounds
       /\ call.method = "p_run" => numrounds = 2 * Space

SessionInv ==
  /\ pc \in {"idle", "load", "fight", "answer", "crash"}
  /\ MarsSound /\ CallSound /\ FightSound

\* The arguments a program passes, as far as the proofs need them.
LEMMA Passed ==
  /\ IntRange \in Nat \ {0}
  /\ \A s \in Sizes : /\ s.coresize \in -IntRange .. IntRange - 1
                      /\ s.maxprocesses \in -IntRange .. IntRange - 1
                      /\ s.maxcycles \in -IntRange .. IntRange - 1
                      /\ s.mindistance \in -IntRange .. IntRange - 1
                      /\ s.maxlength \in -IntRange .. IntRange - 1
  /\ \A c \in Calls : /\ c.method \in Method /\ c.warriors \in Seq(Nat)
                      /\ c.rounds \in -IntRange .. IntRange - 1
                      /\ c.seed \in -IntRange .. IntRange - 1
  BY SessionAssumption, SMT

\* A negative int comes out as a natural number of the range of an u32_t.
LEMMA LongSmall ==
  ASSUME NEW x \in -IntRange .. IntRange - 1
  PROVE  Long(x) \in 0 .. IntRange - 1 /\ Long(x) \in Nat
  BY Passed DEF Long

\* The seed that is checked against mindistance does not wrap below zero.
LEMMA SeedSmall ==
  ASSUME NEW x \in -IntRange .. IntRange - 1, NEW d \in Nat, Long(x) >= d
  PROVE  SmallSeed(Long(x) - d)
<1> DEFINE s == Long(x) - d
<1> DEFINE last == IntRange - 1
<1>1. last \in Nat /\ last \div 4 < 1073741824
  BY SessionAssumption, SMT
<1>2. s \in Nat /\ s <= last
  BY LongSmall, Passed
<1> HIDE DEF s, last
<1>3. s \div 4 <= last \div 4 /\ s \div 4 \in Int /\ last \div 4 \in Int
  BY <1>1, <1>2, SMT
<1>4. s \div 4 < 1073741824
  BY <1>1, <1>3, SMT
<1> QED
  BY <1>2, <1>4, SMT DEF SmallSeed, s

\* The invariant holds before the first call,
LEMMA InitSound ==
  Init => SessionInv
  BY DEF Init, SessionInv, MarsSound, CallSound, FightSound

\* and is kept by the constructor,
LEMMA NewKeeps ==
  ASSUME SessionInv, NEW kind \in Kind, NEW s \in Sizes, New(kind, s)
  PROVE  SessionInv'
<1> DEFINE m == [kind |-> kind, coresize |-> Long(s.coresize),
                 maxprocesses |-> Long(s.maxprocesses),
                 maxcycles |-> Long(s.maxcycles),
                 mindistance |-> Long(s.mindistance),
                 maxlength |-> Long(s.maxlength)]
<1>1. /\ pc = "idle" /\ pc' = "idle" /\ SizesChecked(s)
      /\ mars' \in {m, mars} /\ phase' = phase
  BY DEF New, Locals, pvars
<1>2. /\ Long(s.coresize) \in Nat /\ Long(s.maxprocesses) \in Nat
      /\ Long(s.maxcycles) \in Nat /\ Long(s.mindistance) \in Nat
      /\ Long(s.maxlength) \in Nat
  BY LongSmall, Passed
<1>3. MarsSound'
  <2>1. CASE mars' = m
    BY <1>1, <1>2, <2>1 DEF SizesChecked, MarsSound
  <2>2. CASE mars' = mars
    BY <2>2 DEF SessionInv, MarsSound
  <2> QED
    BY <1>1, <2>1, <2>2
<1> QED
  BY <1>1, <1>3 DEF SessionInv, CallSound, FightSound

\* by a call,
LEMMA CallKeeps ==
  ASSUME SessionInv, NEW c \in Calls, Call(c)
  PROVE  SessionInv'
<1>1. /\ pc = "idle" /\ pc' = "load" /\ mars # NoMars /\ mars' = mars
      /\ call' = c /\ loaded' = 0 /\ phase' = phase
      /\ numwarriors' = Len(c.warriors) /\ coresize' = mars.coresize
      /\ mindistance' = mars.mindistance /\ ArgumentsChecked(c)
  BY DEF Call
<1>2. /\ c.method \in Method /\ Len(c.warriors) \in Nat
      /\ c.rounds \in -IntRange .. IntRange - 1
      /\ c.seed \in -IntRange .. IntRange - 1
  BY Passed
<1>3. /\ mars.mindistance \in Nat \ {0} /\ mars.coresize \in Nat
      /\ mars.coresize >= 2 * mars.mindistance
  BY <1>1 DEF SessionInv, MarsSound
<1>4. Arguments'
  <2>1. CASE c.method = "mw_run"
    BY <1>1, <1>2, <1>3, <2>1 DEF ArgumentsChecked, Arguments
  <2>2. CASE c.method # "mw_run"
    <3>1. Len(c.warriors) = 2
      BY <1>1, <2>2 DEF ArgumentsChecked
    <3> QED
      BY <1>1, <1>3, <3>1 DEF Arguments
  <2> QED
    BY <2>1, <2>2
<1>5. c.method # "p_run" => /\ Long(c.rounds) \in Nat \ {0}
                            /\ SmallSeed(Long(c.seed) - mars.mindistance)
  <2> SUFFICES ASSUME c.method # "p_run"
               PROVE  /\ Long(c.rounds) \in Nat \ {0}
                      /\ SmallSeed(Long(c.seed) - mars.mindistance)
    OBVIOUS
  <2>1. Long(c.rounds) >= 1 /\ Long(c.seed) >= mars.mindistance
    BY <1>1 DEF ArgumentsChecked
  <2>2. Long(c.rounds) \in Nat
    BY <1>2, LongSmall
  <2> QED
    BY <1>2, <1>3, <2>1, <2>2, SeedSmall
<1>6. c.method # "mw_run" => Len(c.warriors) = 2
  BY <1>1 DEF ArgumentsChecked
<1>7. CallSound'
  BY <1>1, <1>2, <1>4, <1>5, <1>6 DEF CallSound, SmallSeed, Long
<1> QED
  BY <1>1, <1>7 DEF SessionInv, MarsSound, FightSound

\* by the loading of a warrior,
LEMMA LoadKeeps ==
  ASSUME SessionInv, LoadWarrior
  PROVE  SessionInv'
<1>1. /\ pc = "load" /\ pc' = "load" /\ loaded < numwarriors
      /\ call.warriors[loaded + 1] \in 1 .. mars.maxlength
      /\ loaded' = loaded + 1
      /\ UNCHANGED <<pvars, mars, call>>
  BY DEF LoadWarrior
<1>2. /\ numwarriors \in Nat /\ loaded \in 0 .. numwarriors
      /\ \A i \in 1 .. loaded : call.warriors[i] \in 1 .. mindistance
      /\ mindistance = mars.mindistance /\ mars.maxlength <= mindistance
      /\ mindistance \in Nat /\ mars.maxlength \in Nat
  BY <1>1 DEF SessionInv, CallSound, MarsSound, Arguments
<1>3. loaded' \in 0 .. numwarriors
  BY <1>1, <1>2
<1>4. \A i \in 1 .. loaded' : call.warriors[i] \in 1 .. mindistance
  BY <1>1, <1>2
<1>5. UNCHANGED <<numwarriors, coresize, mindistance, phase>>
  BY <1>1 DEF pvars, arguments
<1> QED
  BY <1>1, <1>3, <1>4, <1>5
     DEF SessionInv, MarsSound, CallSound, FightSound, Arguments, SmallSeed

\* Two warriors are placed with one addition.
LEMMA PlaceTwoSound ==
  ASSUME Arguments, numwarriors = 2, NEW n \in 0 .. Space - 1,
         PlaceTwo(mindistance + n), SmallSeed(seed'), UNCHANGED arguments
  PROVE  Placing'
<1>1. /\ positions' = [i \in 0 .. 1 |-> IF i = 0 THEN 0 ELSE mindistance + n]
      /\ phase' = "done"
  BY DEF PlaceTwo
<1>2. UNCHANGED <<mindistance, coresize, numwarriors>>
  BY DEF arguments
<1>3. Index' = 0 .. 1 /\ Others' = {1}
  BY <1>2 DEF Index, Others
<1>4. mindistance + n \in mindistance .. coresize - mindistance
  BY DEF Space, Arguments
<1>5. positions'[0] = 0 /\ positions'[1] = mindistance + n
  BY <1>1
<1>6. positions' \in [0 .. 1 -> Nat]
  BY <1>1, <1>4 DEF Arguments
<1>7. Positioned'
  BY <1>2, <1>3, <1>4, <1>5 DEF Positioned
<1> QED
  BY <1>1, <1>3, <1>5, <1>6, <1>7 DEF Placing

\* Each round starts with positions calc_pos can go on with, or with good
\* ones.
LEMMA SetUpSound ==
  ASSUME Arguments, UNCHANGED <<arguments, call>>, call.method \in Method,
         call.method # "mw_run" => numwarriors = 2,
         NEW r \in Nat, call.method = "p_run" => r < 2 * Space,
         NEW s, SmallSeed(s),
         NEW old \in [Index -> Nat], old[0] = 0,
         SetUp(r, s, old)
  PROVE  Placing'
<1>1. CASE call.method = "run"
  <2>1. PlaceTwo(mindistance + (s % Space)) /\ seed' = Rng(s)
    BY <1>1 DEF SetUp
  <2>2. s % Space \in 0 .. Space - 1
    BY Spaces DEF SmallSeed
  <2> QED
    BY <1>1, <2>1, <2>2, RngSmall, PlaceTwoSound
<1>2. CASE call.method = "p_run"
  <2>1. PlaceTwo(mindistance + (r \div 2)) /\ seed' = s
    BY <1>2 DEF SetUp
  <2>2. r \div 2 \in 0 .. Space - 1
    BY <1>2, Spaces
  <2> QED
    BY <1>2, <2>1, <2>2, PlaceTwoSound
<1>3. CASE call.method = "mw_run"
  <2>1. Begin /\ seed' = s /\ positions' = old
    BY <1>3 DEF SetUp
  <2>2. pos' = 1 /\ phase' = "calc"
    BY <2>1 DEF Begin
  <2>3. Index' = Index /\ Others' = Others /\ Placed(1)'
    BY DEF arguments, Index, Others, Placed
  <2>4. 1 \in Others
    BY Spaces
  <2> QED
    BY <2>1, <2>2, <2>3, <2>4 DEF Placing, Placed
<1> QED
  BY <1>1, <1>2, <1>3 DEF Method

\* by the start of a fight,
LEMMA StartKeeps ==
  ASSUME SessionInv, Start
  PROVE  SessionInv'
<1>1. /\ pc = "load" /\ pc' = "fight" /\ loaded = numwarriors
      /\ round' = 0
      /\ numrounds' = IF call.method = "p_run" THEN 2 * Space
                      ELSE Long(call.rounds)
      /\ SetUp(0, IF call.method = "p_run" THEN 0
                  ELSE Long(call.seed) - mindistance, [i \in Index |-> 0])
      /\ UNCHANGED <<arguments, mars, call, loaded>>
  BY DEF Start
<1>2. CallSound /\ Arguments /\ call.method \in Method
  BY <1>1, Passed DEF SessionInv, CallSound
<1>3. SmallSeed(IF call.method = "p_run" THEN 0
                ELSE Long(call.seed) - mindistance)
  BY <1>1, <1>2 DEF CallSound, SmallSeed
<1>4. UNCHANGED <<numwarriors, coresize, mindistance>>
  BY <1>1 DEF arguments
<1>5. Placing'
  <2>1. [i \in Index |-> 0] \in [Index -> Nat] /\ [i \in Index |-> 0][0] = 0
    BY <1>2, Spaces
  <2>2. call.method = "p_run" => 0 < 2 * Space
    BY <1>2, Spaces
  <2>3. call.method # "mw_run" => numwarriors = 2
    BY <1>1, <1>2 DEF CallSound
  <2> QED
    BY <1>1, <1>2, <1>3, <2>1, <2>2, <2>3, SetUpSound
<1>6. numrounds' \in Nat \ {0}
  BY <1>1, <1>2, Spaces DEF CallSound
<1>7. Space' = Space
  BY <1>4 DEF Space
<1>8. FightSound'
  BY <1>1, <1>4, <1>5, <1>6, <1>7 DEF FightSound
<1>9. CallSound'
  BY <1>1, <1>2, <1>4 DEF CallSound, Arguments, SmallSeed
<1> QED
  BY <1>1, <1>8, <1>9 DEF SessionInv, MarsSound

\* by the positioning of the warriors,
LEMMA PositionWarriorsKeeps ==
  ASSUME SessionInv, PositionWarriors
  PROVE  SessionInv'
<1>1. /\ pc = "fight" /\ Placing /\ Arguments
      /\ Position /\ UNCHANGED svars
  BY DEF PositionWarriors, SessionInv, CallSound, FightSound
<1>2. Placing' /\ UNCHANGED arguments
  BY <1>1, PositionKeeps
<1>3. UNCHANGED <<numwarriors, coresize, mindistance, Space>>
  BY <1>2 DEF arguments, Space
<1>4. UNCHANGED <<mars, pc, call, loaded, round, numrounds>>
  BY <1>1 DEF svars
<1>5. FightSound'
  BY <1>1, <1>2, <1>3, <1>4 DEF SessionInv, FightSound
<1>6. CallSound'
  BY <1>1, <1>3, <1>4 DEF SessionInv, CallSound, Arguments, SmallSeed
<1> QED
  BY <1>4, <1>5, <1>6 DEF SessionInv, MarsSound

\* by a round,
LEMMA FightRoundKeeps ==
  ASSUME SessionInv, FightRound
  PROVE  SessionInv'
<1>1. /\ pc = "fight" /\ phase = "done" /\ Placing /\ CallSound /\ Arguments
      /\ call.method \in Method /\ loaded = numwarriors
      /\ round \in Nat /\ numrounds \in Nat \ {0} /\ round < numrounds
      /\ call.method = "p_run" => numrounds = 2 * Space
      /\ call.method # "mw_run" => numwarriors = 2
  BY Passed DEF FightRound, SessionInv, CallSound, FightSound
<1>2. /\ round' = round + 1 /\ UNCHANGED <<arguments, mars, call, loaded, numrounds>>
      /\ \/ /\ round + 1 < numrounds /\ SetUp(round + 1, seed, positions)
            /\ UNCHANGED pc
         \/ /\ pc' = "answer"
            /\ UNCHANGED <<seed, positions, pos, phase, inside>>
  BY DEF FightRound
<1>3. UNCHANGED <<numwarriors, coresize, mindistance, Space>>
  BY <1>2 DEF arguments, Space
<1>4. Placing' /\ pc' \in {"fight", "answer"}
      /\ (pc' = "fight" => round' < numrounds')
  <2>1. CASE round + 1 < numrounds /\ SetUp(round + 1, seed, positions)
             /\ UNCHANGED pc
    <3>1. SmallSeed(seed) /\ positions \in [Index -> Nat] /\ positions[0] = 0
      BY <1>1 DEF Placing
    <3>2. Placing'
      BY <1>1, <1>2, <2>1, <3>1, SetUpSound
    <3> QED
      BY <1>1, <1>2, <2>1, <3>2
  <2>2. CASE pc' = "answer" /\ UNCHANGED <<seed, positions, pos, phase, inside>>
    <3>1. Index' = Index /\ Positioned' = Positioned
      BY <1>3, <2>2 DEF Index, Positioned, Others, Apart
    <3> QED
      BY <1>1, <2>2, <3>1 DEF Placing, SmallSeed
  <2> QED
    BY <1>2, <2>1, <2>2
<1>5. FightSound'
  BY <1>1, <1>2, <1>3, <1>4 DEF FightSound
<1>6. CallSound'
  BY <1>1, <1>2, <1>3 DEF CallSound, Arguments, SmallSeed
<1> QED
  BY <1>2, <1>4, <1>5, <1>6 DEF SessionInv, MarsSound

\* The end of a call forgets everything but the MARS.
LEMMA LeaveKeeps ==
  ASSUME SessionInv, Leave, pc' = "idle",
         mars' = mars
  PROVE  SessionInv'
  BY DEF SessionInv, Leave, MarsSound, CallSound, FightSound

\* and so by every step.
LEMMA NextKeeps ==
  SessionInv /\ [Next]_allvars => SessionInv'
<1> SUFFICES ASSUME SessionInv, [Next]_allvars
             PROVE  SessionInv'
  OBVIOUS
<1>1. CASE \E kind \in Kind, s \in Sizes : New(kind, s)
  BY <1>1, NewKeeps
<1>2. CASE Dealloc
  BY <1>2 DEF Dealloc, Locals, pvars, SessionInv, MarsSound, CallSound,
     FightSound
<1>3. CASE \E c \in Calls : Call(c)
  BY <1>3, CallKeeps
<1>4. CASE LoadWarrior
  BY <1>4, LoadKeeps
<1>5. CASE LoadFails
  BY <1>5, LeaveKeeps DEF LoadFails
<1>6. CASE Crash
  BY <1>6 DEF Crash, pvars, arguments, SessionInv, MarsSound, CallSound,
              FightSound, Arguments, SmallSeed
<1>7. CASE Start
  BY <1>7, StartKeeps
<1>8. CASE PositionWarriors
  BY <1>8, PositionWarriorsKeeps
<1>9. CASE FightRound
  BY <1>9, FightRoundKeeps
<1>10. CASE Answer
  BY <1>10, LeaveKeeps DEF Answer
<1>11. CASE UNCHANGED allvars
  <2>1. UNCHANGED <<mars, pc, call, loaded, round, numrounds, numwarriors,
                    coresize, mindistance, seed, positions, pos, phase, inside>>
    BY <1>11 DEF allvars, pvars, svars, arguments
  <2>2. UNCHANGED <<Index, Others, Space, SpaceBackup>>
    BY <2>1 DEF Index, Others, Space, SpaceBackup
  <2> QED
    BY <2>1, <2>2 DEF SessionInv, MarsSound, CallSound, FightSound, Arguments,
                      SmallSeed, Placing, Placed, Sorted, Positioned, Apart
<1> QED
  BY <1>1, <1>2, <1>3, <1>4, <1>5, <1>6, <1>7, <1>8, <1>9, <1>10, <1>11
     DEF Next, Work

\* The invariant holds always.
LEMMA SessionSound ==
  Spec => []SessionInv
  BY InitSound, NextKeeps, PTL DEF Spec

\* Whatever the program passes to run, p_run and mw_run, the functions that
\* run fights, which check nothing, get arguments they can work with: two or
\* more warriors no longer than their places, at least one round and cycle,
\* random spaces that are not empty, and a seed that does not wrap.
THEOREM ArgumentsPlausible == Spec => []Plausible
<1>1. SessionInv => Plausible
  <2> SUFFICES ASSUME SessionInv, pc = "fight" PROVE Plausible
    BY DEF Plausible
  <2>1. Arguments /\ CallSound /\ FightSound /\ MarsSound /\ Placing
    BY DEF SessionInv, CallSound, FightSound
  <2>2. Space >= 1 /\ SpaceBackup >= 1
    BY <2>1, Spaces
  <2> QED
    BY <2>1, <2>2 DEF Plausible, CallSound, FightSound, MarsSound, Placing,
                      SmallSeed, Arguments
<1> QED
  BY <1>1, SessionSound, PTL

\* The warriors that fight a round of run, p_run or mw_run do not overlap
\* and do not reach over the end of the core, however calc_pos drew, went
\* back and gave up, unless the shuffle has left its array.
THEOREM WarriorsNeverOverlap == Spec => []NoOverlap
<1>1. SessionInv => NoOverlap
  BY DEF SessionInv, FightSound, Placing, NoOverlap
<1> QED
  BY <1>1, SessionSound, PTL
----------------------------------------------------------------------------
(* The shuffle *)

\* A swap inside the array only changes who is where.
LEMMA SwapPermutes ==
  ASSUME Arguments, Placing, Permute, inside'
  PROVE  {positions'[i] : i \in Others} = {positions[i] : i \in Others}
<1> DEFINE j == (Rng(seed) % (numwarriors - 1)) + pos
<1>1. pos \in Others /\ positions \in [Index -> Nat] /\ Others \subseteq Index
  BY Spaces DEF Permute, Placing
<1>2. Rng(seed) % (numwarriors - 1) \in Nat
  BY RngSmall DEF Placing, Arguments
<1>3. /\ j < numwarriors
      /\ positions' = [positions EXCEPT ![j] = positions[pos],
                                        ![pos] = positions[j]]
  BY DEF Permute
<1>4. j \in Others
  BY <1>1, <1>2, <1>3 DEF Others, Arguments
<1> HIDE DEF j
<1> DEFINE from(i) == IF i = pos THEN j ELSE IF i = j THEN pos ELSE i
<1>5. \A i \in Others : from(i) \in Others /\ from(from(i)) = i
  BY <1>1, <1>4
<1>6. \A i \in Others : positions'[i] = positions[from(i)]
  BY <1>1, <1>3, <1>4
<1> HIDE DEF from
<1>7. \A i \in Others : positions[i] = positions'[from(i)]
  BY <1>5, <1>6
<1> QED
  BY <1>5, <1>6, <1>7

\* For the warrior at index 1 the element to swap with is always in the array.
LEMMA FirstSwapInside ==
  ASSUME Arguments, Placing, Permute, pos = 1
  PROVE  inside' = inside
<1>1. Rng(seed) \in Nat /\ numwarriors \in Nat /\ numwarriors >= 2
  BY RngSmall DEF Placing, Arguments
<1>2. (Rng(seed) % (numwarriors - 1)) + 1 < numwarriors
  BY <1>1
<1> QED
  BY <1>2 DEF Permute

\* Outside of fights nothing is behind any array, and with two warriors
\* there is but one swap.
InsideInv ==
  /\ pc \notin {"fight", "answer"} => inside
  /\ pc = "answer" => phase = "done"
  /\ numwarriors = 2 => inside

\* Every step keeps this.
LEMMA InsideKeeps ==
  SessionInv /\ InsideInv /\ [Next]_allvars => InsideInv'
<1> SUFFICES ASSUME SessionInv, InsideInv, [Next]_allvars PROVE InsideInv'
  OBVIOUS
<1>1. CASE \/ \E kind \in Kind, s \in Sizes : New(kind, s)
           \/ Dealloc \/ LoadWarrior \/ Crash \/ UNCHANGED allvars
  <2>1. /\ UNCHANGED <<phase, inside, numwarriors>>
        /\ pc' = pc \/ (pc = "load" /\ pc' = "crash")
    BY <1>1 DEF New, Dealloc, LoadWarrior, Crash, Locals, pvars, allvars,
                svars, arguments
  <2> QED
    BY <2>1 DEF InsideInv
<1>2. CASE \E c \in Calls : Call(c)
  BY <1>2 DEF Call, InsideInv
<1>3. CASE LoadFails \/ Answer
  BY <1>3 DEF LoadFails, Answer, Leave, InsideInv
<1>4. CASE Start
  <2>1. call.method \in Method /\ UNCHANGED numwarriors
    BY <1>4, Passed DEF Start, SessionInv, CallSound, arguments
  <2>2. inside' = inside
    BY <1>4, <2>1 DEF Start, SetUp, PlaceTwo, Begin, Method
  <2> QED
    BY <1>4, <2>1, <2>2 DEF Start, InsideInv
<1>5. CASE PositionWarriors
  <2>1. /\ pc = "fight" /\ pc' = "fight" /\ Placing /\ Arguments /\ Position
        /\ UNCHANGED numwarriors
    BY <1>5 DEF PositionWarriors, SessionInv, CallSound, FightSound, svars,
                Position, Place, Retry, Backtrack, GiveUp, Draw, Choose,
                Spread, Permute, arguments
  <2>2. CASE Permute
    <3>1. numwarriors = 2 => pos = 1
      BY <2>1, <2>2 DEF Permute, Placing, Others
    <3> QED
      BY <2>1, <2>2, <3>1, FirstSwapInside DEF InsideInv
  <2>3. CASE ~Permute
    <3>1. inside' = inside
      BY <2>1, <2>3 DEF Position, Place, Retry, Backtrack, GiveUp, Draw,
                        Choose, Spread
    <3> QED
      BY <2>1, <3>1 DEF InsideInv
  <2> QED
    BY <2>2, <2>3
<1>6. CASE FightRound
  <2>1. call.method \in Method /\ UNCHANGED numwarriors /\ phase = "done"
    BY <1>6, Passed DEF FightRound, SessionInv, CallSound, arguments
  <2>2. inside' = inside
    BY <1>6, <2>1 DEF FightRound, SetUp, PlaceTwo, Begin, Method
  <2>3. pc = "fight" /\ pc' \in {"fight", "answer"}
        /\ (pc' = "answer" => phase' = phase)
    BY <1>6 DEF FightRound
  <2> QED
    BY <2>1, <2>2, <2>3 DEF InsideInv
<1> QED
  BY <1>1, <1>2, <1>3, <1>4, <1>5, <1>6 DEF Next, Work

\* As long as calc_pos_backup uses no element behind its array, its shuffle
\* is the permutation its comment promises; with two warriors it never uses
\* one.
THEOREM ShufflePermutes ==
  Spec => /\ [](numwarriors = 2 => inside)
          /\ [][phase = "permute" /\ inside'
                  => {positions'[i] : i \in Others}
                       = {positions[i] : i \in Others}]_pvars
<1>1. Init => InsideInv
  BY DEF Init, InsideInv
<1>2. InsideInv => (numwarriors = 2 => inside)
  BY DEF InsideInv
<1>3. SessionInv /\ InsideInv /\ [Next]_allvars
        => [phase = "permute" /\ inside'
              => {positions'[i] : i \in Others}
                   = {positions[i] : i \in Others}]_pvars
  <2> SUFFICES ASSUME SessionInv, InsideInv, [Next]_allvars,
                      phase = "permute", inside', ~UNCHANGED pvars
               PROVE  {positions'[i] : i \in Others}
                        = {positions[i] : i \in Others}
    OBVIOUS
  <2>1. pc = "fight" /\ Placing /\ Arguments
    BY DEF SessionInv, FightSound, CallSound, InsideInv
  <2>2. Position
    <3>1. ~UNCHANGED allvars
      BY DEF allvars
    <3> QED
      BY <2>1, <3>1 DEF Next, Work, New, Dealloc, Call, LoadWarrior, LoadFails,
                        Crash, Start, PositionWarriors, FightRound, Answer
  <2>3. Permute
    BY <2>2 DEF Position, Place, Retry, Backtrack, GiveUp, Draw, Choose, Spread
  <2> QED
    BY <2>1, <2>3, SwapPermutes
<1> QED
  BY <1>1, <1>2, <1>3, SessionSound, InsideKeeps, PTL DEF Spec

----------------------------------------------------------------------------
(* Memory *)

\* What a call has allocated and not yet given back, beside the MARS.
Held == CASE pc = "load"   -> {<<"wlist">>} \cup Insns(loaded)
          [] pc = "fight"  -> {<<"wlist">>} \cup Insns(loaded)
                                \cup Results \cup Temporary
          [] pc = "answer" -> {<<"wlist">>} \cup Insns(loaded) \cup Results
          [] OTHER         -> {}

\* A call starts with memory in order, whatever was lost before: what an
\* earlier call has lost is out of its reach.
MemorySound ==
  /\ pc \in {"load", "fight", "answer"} => fault = "none"
  /\ pc # "crash" /\ fault = "none" => blocks = Owned(mars) \cup Held

\* Every kind of block has a tag of its own.
LEMMA BlocksApart ==
  /\ \A m : Owned(m) \cap Held = {}
  /\ <<"wlist">> \notin Insns(loaded) \cup Results \cup Temporary
  /\ \A n : <<"insns", n>> \notin Results \cup Temporary
  /\ (Results \cup {<<"wlist">>} \cup Insns(loaded)) \cap Temporary = {}
<1>1. <<"core">> # <<"info">> /\ <<"core">> # <<"wlist">>
  OBVIOUS
<1>2. \A m : \A b \in Owned(m) : b \in {<<"core">>, <<"info">>}
  BY DEF Owned
<1>3. \A b \in Insns(loaded) : b \notin {<<"core">>, <<"info">>, <<"wlist">>,
                            <<"results">>, <<"pqueue">>, <<"pq_infos">>,
                            <<"positions">>}
  BY DEF Insns
<1>4. \A b \in Temporary : b \in {<<"pqueue">>, <<"pq_infos">>, <<"positions">>}
  BY DEF Temporary
<1>5. \A b \in Held : \/ b \in {<<"wlist">>, <<"results">>, <<"pqueue">>,
                               <<"pq_infos">>, <<"positions">>}
                      \/ b \in Insns(loaded)
  BY <1>4 DEF Held, Results
<1>6. \A m : Owned(m) \cap Held = {}
  BY <1>2, <1>3, <1>5
<1>7. <<"wlist">> \notin Insns(loaded) \cup Results \cup Temporary
  BY <1>3, <1>4 DEF Results
<1>8. \A n : <<"insns", n>> \notin Results \cup Temporary
  BY <1>4 DEF Results
<1>9. (Results \cup {<<"wlist">>} \cup Insns(loaded)) \cap Temporary = {}
  BY <1>3, <1>4 DEF Results
<1> QED
  BY <1>6, <1>7, <1>8, <1>9

\* Nothing is allocated before the first call,
LEMMA MemoryStarts ==
  Init => MemorySound
  BY DEF Init, MemorySound, Held, Owned

\* What New allocates is all the new MARS owns, and Dealloc gives it back.
LEMMA MarsMemory ==
  ASSUME MemorySound,
         \/ \E kind \in Kind, s \in Sizes : New(kind, s)
         \/ Dealloc
  PROVE  MemorySound'
<1>1. pc = "idle" /\ pc' = "idle"
  BY DEF New, Dealloc
<1>2. Held = {} /\ Held' = {}
  BY <1>1 DEF Held
<1>3. CASE Dealloc
  BY <1>1, <1>2, <1>3 DEF Dealloc, MemorySound, Owned
<1>4. CASE \E kind \in Kind, s \in Sizes : New(kind, s)
  <2>1. PICK kind \in Kind, s \in Sizes : New(kind, s)
    BY <1>4
  <2> DEFINE m == [kind |-> kind, coresize |-> Long(s.coresize),
                   maxprocesses |-> Long(s.maxprocesses),
                   maxcycles |-> Long(s.maxcycles),
                   mindistance |-> Long(s.mindistance),
                   maxlength |-> Long(s.maxlength)]
  <2>2. /\ mars = NoMars
        /\ blocks' = blocks \cup Owned(m)
        /\ \/ mars' = m /\ fault' = fault
           \/ fault' = "object" /\ mars' = mars
    BY <2>1 DEF New
  <2> HIDE DEF m
  <2>3. Owned(mars) = {}
    BY <2>2 DEF Owned
  <2> QED
    BY <1>1, <1>2, <2>2, <2>3 DEF MemorySound
<1> QED
  BY <1>3, <1>4

\* A call takes over what is in order, and the loading of its warriors adds
\* one block each.
LEMMA LoadMemory ==
  ASSUME SessionInv, MemorySound,
         (\E c \in Calls : Call(c)) \/ LoadWarrior \/ LoadFails
  PROVE  MemorySound'
<1>1. CASE \E c \in Calls : Call(c)
  <2>1. /\ pc' = "load" /\ loaded' = 0 /\ mars' = mars /\ fault' = "none"
        /\ blocks' = Owned(mars) \cup {<<"wlist">>}
    BY <1>1 DEF Call
  <2>2. Insns(0) = {}
    BY DEF Insns
  <2> QED
    BY <2>1, <2>2 DEF MemorySound, Held
<1>2. CASE LoadWarrior
  <2>1. /\ pc = "load" /\ pc' = "load" /\ loaded' = loaded + 1
        /\ mars' = mars /\ fault' = fault
        /\ blocks' = blocks \cup {<<"insns", loaded + 1>>}
    BY <1>2 DEF LoadWarrior
  <2>2. loaded \in Nat
    BY <2>1 DEF SessionInv, CallSound, Arguments
  <2>3. Insns(loaded + 1) = Insns(loaded) \cup {<<"insns", loaded + 1>>}
    <3>1. 1 .. loaded + 1 = (1 .. loaded) \cup {loaded + 1}
      BY <2>2
    <3> QED
      BY <3>1 DEF Insns
  <2>4. blocks = Owned(mars) \cup {<<"wlist">>} \cup Insns(loaded)
    BY <2>1 DEF MemorySound, Held
  <2>5. Held' = {<<"wlist">>} \cup Insns(loaded + 1)
    BY <2>1 DEF Held
  <2> QED
    BY <2>1, <2>3, <2>4, <2>5 DEF MemorySound
<1>3. CASE LoadFails
  <2>1. /\ pc = "load" /\ pc' = "idle" /\ mars' = mars
        /\ fault' = IF loaded > 0 THEN "load" ELSE fault
        /\ blocks' = blocks \ {<<"wlist">>, <<"insns", loaded + 1>>}
    BY <1>3 DEF LoadFails
  <2>2. loaded \in Nat
    BY <2>1 DEF SessionInv, CallSound, Arguments
  <2>3. Held' = {} /\ Held = {<<"wlist">>} \cup Insns(loaded)
    BY <2>1 DEF Held
  <2>4. CASE loaded > 0
    BY <2>1, <2>4 DEF MemorySound
  <2>5. CASE loaded = 0
    <3>1. Insns(loaded) = {}
      BY <2>5 DEF Insns
    <3>2. blocks = Owned(mars) \cup {<<"wlist">>}
      BY <2>1, <2>3, <3>1 DEF MemorySound
    <3>3. <<"wlist">> \notin Owned(mars) /\ <<"insns", loaded + 1>> \notin Owned(mars)
      BY DEF Owned
    <3>4. blocks' = Owned(mars)
      BY <2>1, <3>2, <3>3
    <3> QED
      BY <2>1, <2>3, <3>4 DEF MemorySound
  <2> QED
    BY <2>2, <2>4, <2>5
<1> QED
  BY <1>1, <1>2, <1>3

\* The functions that run fights leave nothing behind but the results, and
\* the method that called them frees those with the warriors.
LEMMA FightMemory ==
  ASSUME SessionInv, MemorySound,
         Crash \/ Start \/ PositionWarriors \/ FightRound \/ Answer
  PROVE  MemorySound'
<1>1. CASE Crash
  BY <1>1 DEF Crash, MemorySound
<1>2. CASE Start
  <2>1. /\ pc = "load" /\ pc' = "fight"
        /\ UNCHANGED <<mars, call, loaded, fault>>
        /\ blocks' = blocks \cup Results \cup Temporary
    BY <1>2 DEF Start
  <2>2. blocks = Owned(mars) \cup {<<"wlist">>} \cup Insns(loaded)
    BY <2>1 DEF MemorySound, Held
  <2>3. Held' = {<<"wlist">>} \cup Insns(loaded) \cup Results \cup Temporary
    BY <2>1 DEF Held, Results, Temporary
  <2> QED
    BY <2>1, <2>2, <2>3 DEF MemorySound
<1>3. CASE PositionWarriors
  <2>1. UNCHANGED <<mars, pc, call, loaded, blocks, fault>>
    BY <1>3 DEF PositionWarriors, svars
  <2>2. Held' = Held
    BY <2>1 DEF Held, Temporary, Results
  <2> QED
    BY <2>1, <2>2 DEF MemorySound
<1>4. CASE FightRound
  <2>1. /\ pc = "fight" /\ UNCHANGED <<mars, call, loaded, fault>>
        /\ \/ UNCHANGED <<pc, blocks>>
           \/ blocks' = blocks \ Temporary /\ pc' = "answer"
    BY <1>4 DEF FightRound
  <2>2. CASE UNCHANGED <<pc, blocks>>
    <3>1. Held' = Held
      BY <2>1, <2>2 DEF Held, Temporary, Results
    <3> QED
      BY <2>1, <2>2, <3>1 DEF MemorySound
  <2>3. CASE blocks' = blocks \ Temporary /\ pc' = "answer"
    <3>1. Held = {<<"wlist">>} \cup Insns(loaded) \cup Results \cup Temporary
      BY <2>1 DEF Held
    <3>2. Held' = {<<"wlist">>} \cup Insns(loaded) \cup Results
      BY <2>1, <2>3 DEF Held, Results
    <3>3. blocks = Owned(mars) \cup Held
      BY <2>1 DEF MemorySound
    <3>4. Owned(mars) \cap Held = {}
      BY BlocksApart
    <3>5. blocks' = Owned(mars) \cup Held'
      BY <2>3, <3>1, <3>2, <3>3, <3>4, BlocksApart
    <3> QED
      BY <2>1, <2>3, <3>5 DEF MemorySound
  <2> QED
    BY <2>1, <2>2, <2>3
<1>5. CASE Answer
  <2>1. /\ pc = "answer" /\ pc' = "idle" /\ mars' = mars /\ fault' = fault
        /\ blocks' = blocks \ (Results \cup {<<"wlist">>} \cup Insns(loaded))
    BY <1>5 DEF Answer
  <2>2. /\ Held = {<<"wlist">>} \cup Insns(loaded) \cup Results
        /\ Held' = {}
    BY <2>1 DEF Held
  <2>3. blocks = Owned(mars) \cup Held
    BY <2>1 DEF MemorySound
  <2>4. Owned(mars) \cap Held = {}
    BY BlocksApart
  <2>5. blocks' = Owned(mars)
    BY <2>1, <2>2, <2>3, <2>4
  <2> QED
    BY <2>1, <2>2, <2>5 DEF MemorySound
<1> QED
  BY <1>1, <1>2, <1>3, <1>4, <1>5

\* and every step keeps account of what is.
LEMMA MemoryKeeps ==
  SessionInv /\ MemorySound /\ [Next]_allvars => MemorySound'
<1>1. UNCHANGED allvars /\ MemorySound => MemorySound'
  BY DEF allvars, svars, MemorySound, Held, Temporary, Results
<1> QED
  BY <1>1, MarsMemory, LoadMemory, FightMemory DEF Next, Work

\* Between two calls no memory is allocated but that of the MARS, whatever
\* the program called and however the calls ended, unless a warrior behind
\* the first was refused or an object could not be made: get_warriors,
\* the methods and the functions that run fights free what they allocate.
THEOREM NothingLeft == Spec => []Cleaned
<1>1. MemorySound => Cleaned
  BY DEF MemorySound, Cleaned, Held
<1> QED
  BY <1>1, MemoryStarts, MemoryKeeps, SessionSound, PTL DEF Spec
----------------------------------------------------------------------------
(* The rounds of p_run *)

\* The warrior that moves first in the rounds with an even number, and the
\* number of the round that is fought at x with w moving first.
Early      == IF mars.kind = "opt" THEN 2 ELSE 1
Turn(x, w) == 2 * (x - mindistance) + (IF w = Early THEN 0 ELSE 1)

\* What has been fought so far.
RoundsFought ==
  pc \in {"fight", "answer"} /\ call.method = "p_run" =>
    /\ fought = [f \in (mindistance .. coresize - mindistance) \X (1 .. 2) |->
                   IF Turn(f[1], f[2]) < round THEN 1 ELSE 0]
    /\ phase = "done"
    /\ pc = "fight"  => positions[1] = mindistance + (round \div 2)
    /\ pc = "answer" => round = numrounds

\* Round r is fought at one position with one order, and every position and
\* order has its round.
LEMMA OneTurn ==
  ASSUME Arguments, mars.kind \in Kind, call.method = "p_run",
         round \in Nat, round < 2 * Space
  PROVE  /\ <<mindistance + (round \div 2), Mover>>
              \in (mindistance .. coresize - mindistance) \X (1 .. 2)
         /\ \A x \in mindistance .. coresize - mindistance, w \in 1 .. 2 :
              /\ Turn(x, w) \in 0 .. 2 * Space - 1
              /\ Turn(x, w) = round
                   <=> x = mindistance + (round \div 2) /\ w = Mover
<1>1. /\ mindistance \in Nat /\ coresize \in Nat /\ Space \in Nat
      /\ Space = coresize - 2 * mindistance + 1
  BY Spaces DEF Arguments, Space
<1> DEFINE half == round \div 2
<1>2. /\ half \in 0 .. Space - 1
      /\ round = 2 * half \/ round = 2 * half + 1
      /\ round % 2 = 0 <=> round = 2 * half
  BY <1>1, SMT
<1> HIDE DEF half
<1>3. /\ Early \in 1 .. 2
      /\ round = 2 * half => Mover = Early
      /\ round = 2 * half + 1 => Mover = 3 - Early
  BY <1>1, <1>2 DEF Early, Mover
<1>4. mindistance + half \in mindistance .. coresize - mindistance
  BY <1>1, <1>2
<1>5. Mover \in 1 .. 2
  BY <1>2, <1>3
<1>6. ASSUME NEW x \in mindistance .. coresize - mindistance, NEW w \in 1 .. 2
      PROVE  /\ Turn(x, w) \in 0 .. 2 * Space - 1
             /\ Turn(x, w) = round <=> x = mindistance + half /\ w = Mover
  <2> DEFINE bit == IF w = Early THEN 0 ELSE 1
  <2>1. Turn(x, w) = 2 * (x - mindistance) + bit /\ bit \in 0 .. 1
    BY DEF Turn
  <2>2. bit = 0 <=> w = Early
    OBVIOUS
  <2> HIDE DEF bit
  <2>3. Turn(x, w) \in 0 .. 2 * Space - 1
    BY <1>1, <2>1
  <2>4. ASSUME round = 2 * half
        PROVE  Turn(x, w) = round <=> x = mindistance + half /\ w = Mover
    BY <1>1, <1>2, <1>3, <2>1, <2>2, <2>4
  <2>5. ASSUME round = 2 * half + 1
        PROVE  Turn(x, w) = round <=> x = mindistance + half /\ w = Mover
    BY <1>1, <1>2, <1>3, <2>1, <2>2, <2>5
  <2> QED
    BY <1>2, <2>3, <2>4, <2>5
<1> QED
  BY <1>4, <1>5, <1>6 DEF half

\* When p_run starts, it has fought no position.
LEMMA RoundsStart ==
  ASSUME SessionInv, Start
  PROVE  RoundsFought'
<1> SUFFICES ASSUME call.method = "p_run", call' = call
             PROVE  RoundsFought'
  BY DEF Start, RoundsFought
<1>1. /\ pc = "load" /\ pc' = "fight" /\ round' = 0 /\ UNCHANGED <<arguments, mars>>
      /\ PlaceTwo(mindistance + (0 \div 2))
      /\ fought' = [fight \in (mindistance .. coresize - mindistance) \X (1 .. 2) |-> 0]
  BY DEF Start, SetUp
<1>2. UNCHANGED <<numwarriors, coresize, mindistance>>
  BY <1>1 DEF arguments
<1>3. /\ mindistance \in Nat /\ coresize \in Nat
  BY <1>1 DEF SessionInv, CallSound, Arguments
<1>4. phase' = "done" /\ positions'[1] = mindistance + (0 \div 2)
  BY <1>1 DEF PlaceTwo
<1>5. \A f \in (mindistance .. coresize - mindistance) \X (1 .. 2) :
        ~(Turn(f[1], f[2])' < 0)
  <2> SUFFICES ASSUME NEW f \in (mindistance .. coresize - mindistance) \X (1 .. 2)
               PROVE  ~(Turn(f[1], f[2])' < 0)
    OBVIOUS
  <2>1. f[1] \in mindistance .. coresize - mindistance
    OBVIOUS
  <2>2. f[1] \in Int /\ f[1] >= mindistance
    BY <1>3, <2>1
  <2> QED
    BY <1>2, <1>3, <2>2 DEF Turn
<1> QED
  BY <1>1, <1>2, <1>4, <1>5 DEF RoundsFought

\* A round of p_run adds one to what has been fought.
LEMMA RoundCounts ==
  ASSUME SessionInv, mars.kind \in Kind, RoundsFought, FightRound
  PROVE  RoundsFought'
<1> SUFFICES ASSUME call.method = "p_run", call' = call
             PROVE  RoundsFought'
  BY DEF FightRound, RoundsFought
<1> DEFINE F == (mindistance .. coresize - mindistance) \X (1 .. 2)
           x == mindistance + (round \div 2)
<1>1. /\ pc = "fight" /\ round' = round + 1 /\ UNCHANGED <<arguments, mars, numrounds>>
      /\ fought' = [fought EXCEPT ![<<positions[1], Mover>>] = @ + 1]
      /\ \/ /\ round + 1 < numrounds /\ pc' = "fight"
            /\ PlaceTwo(mindistance + ((round + 1) \div 2))
         \/ /\ ~(round + 1 < numrounds) /\ pc' = "answer"
            /\ phase' = phase
  BY DEF FightRound, SetUp
<1>2. /\ Arguments /\ round \in Nat /\ numrounds \in Nat /\ round < numrounds
      /\ numrounds = 2 * Space
  BY <1>1 DEF SessionInv, CallSound, FightSound
<1>3. UNCHANGED <<coresize, mindistance>>
  BY <1>1 DEF arguments
<1>4. /\ phase = "done" /\ positions[1] = x
      /\ fought = [f \in F |-> IF Turn(f[1], f[2]) < round THEN 1 ELSE 0]
  BY <1>1 DEF RoundsFought
<1>5. /\ <<x, Mover>> \in F
      /\ \A f \in F : /\ Turn(f[1], f[2]) \in Nat
                      /\ Turn(f[1], f[2]) = round <=> f = <<x, Mover>>
  <2>1. <<x, Mover>> \in F
    BY <1>2, OneTurn
  <2>2. ASSUME NEW f \in F
        PROVE  /\ Turn(f[1], f[2]) \in Nat
               /\ Turn(f[1], f[2]) = round <=> f = <<x, Mover>>
    <3>1. /\ f[1] \in mindistance .. coresize - mindistance /\ f[2] \in 1 .. 2
          /\ f = <<f[1], f[2]>>
      OBVIOUS
    <3>2. Turn(f[1], f[2]) \in 0 .. 2 * Space - 1
      BY <1>2, <3>1, OneTurn
    <3>3. Turn(f[1], f[2]) = round <=> f[1] = x /\ f[2] = Mover
      BY <1>2, <3>1, OneTurn
    <3>4. f = <<x, Mover>> <=> f[1] = x /\ f[2] = Mover
      BY <3>1
    <3> QED
      BY <3>2, <3>3, <3>4
  <2> QED
    BY <2>1, <2>2
<1> HIDE DEF x
<1>6. fought' = [f \in F |-> IF Turn(f[1], f[2]) < round + 1 THEN 1 ELSE 0]
  <2>1. fought' = [f \in F |-> IF f = <<x, Mover>> THEN fought[f] + 1
                               ELSE fought[f]]
    BY <1>1, <1>4
  <2>2. ASSUME NEW f \in F
        PROVE  (IF f = <<x, Mover>> THEN fought[f] + 1 ELSE fought[f])
                 = IF Turn(f[1], f[2]) < round + 1 THEN 1 ELSE 0
    <3>1. fought[f] = IF Turn(f[1], f[2]) < round THEN 1 ELSE 0
      BY <1>4
    <3> QED
      BY <1>2, <1>5, <3>1
  <2> HIDE DEF F
  <2> QED
    BY <2>1, <2>2
<1>7. \A f : Turn(f[1], f[2])' = Turn(f[1], f[2])
  BY <1>1, <1>3 DEF Turn, Early
<1>8. phase' = "done" /\ (pc' = "fight" => positions'[1] = mindistance + (round' \div 2))
  BY <1>1, <1>4 DEF PlaceTwo
<1>9. pc' = "answer" => round' = numrounds'
  BY <1>1, <1>2
<1>10. fought' = [f \in (mindistance' .. coresize' - mindistance') \X (1 .. 2) |->
                    IF Turn(f[1], f[2])' < round' THEN 1 ELSE 0]
  <2>1. (mindistance' .. coresize' - mindistance') \X (1 .. 2) = F
    BY <1>3
  <2>2. \A f \in F : (IF Turn(f[1], f[2])' < round' THEN 1 ELSE 0)
                     = IF Turn(f[1], f[2]) < round + 1 THEN 1 ELSE 0
    BY <1>1, <1>7
  <2> HIDE DEF F
  <2> QED
    BY <1>6, <2>1, <2>2, Zenon
<1> QED
  BY <1>3, <1>8, <1>9, <1>10 DEF RoundsFought

\* The kind of a MARS.
KindKnown == mars # NoMars => mars.kind \in Kind

\* A MARS stays of its kind.
LEMMA KindKeeps ==
  KindKnown /\ [Next]_allvars => KindKnown'
<1>1. ASSUME NEW kind \in Kind, NEW s \in Sizes, New(kind, s), KindKnown
      PROVE  KindKnown'
  BY <1>1 DEF New, KindKnown
<1>2. ASSUME UNCHANGED mars, KindKnown
      PROVE  KindKnown'
  BY <1>2 DEF KindKnown
<1>3. Dealloc => KindKnown'
  BY DEF Dealloc, KindKnown
<1>4. ASSUME \/ (\E c \in Calls : Call(c)) \/ Work \/ UNCHANGED allvars
      PROVE  UNCHANGED mars
  BY <1>4 DEF Work, Call, LoadWarrior, LoadFails, Crash, Start,
              PositionWarriors, FightRound, Answer, allvars, svars
<1> QED
  BY <1>1, <1>2, <1>3, <1>4 DEF Next

\* Every step keeps account of the rounds.
LEMMA RoundsKeep ==
  SessionInv /\ KindKnown /\ RoundsFought /\ [Next]_allvars => RoundsFought'
<1> SUFFICES ASSUME SessionInv, KindKnown, RoundsFought, [Next]_allvars
             PROVE  RoundsFought'
  OBVIOUS
<1>1. CASE Start
  BY <1>1, RoundsStart
<1>2. CASE FightRound
  <2>1. mars.kind \in Kind
    BY <1>2 DEF FightRound, SessionInv, CallSound, KindKnown
  <2> QED
    BY <1>2, <2>1, RoundCounts
<1>3. CASE PositionWarriors
  <2> SUFFICES ASSUME pc = "fight", call.method = "p_run"
               PROVE  FALSE
    BY <1>3 DEF PositionWarriors, svars, RoundsFought
  <2>1. phase = "done"
    BY DEF RoundsFought
  <2> QED
    BY <1>3, <2>1 DEF PositionWarriors, Position, Place, Retry, Backtrack,
                      GiveUp, Draw, Choose, Spread, Permute
<1>4. CASE UNCHANGED allvars
  BY <1>4 DEF allvars, pvars, svars, arguments, RoundsFought, Turn, Early
<1>5. CASE \/ \E kind \in Kind, s \in Sizes : New(kind, s)
           \/ Dealloc
           \/ \E c \in Calls : Call(c)
           \/ LoadWarrior \/ LoadFails \/ Crash \/ Answer
  <2>1. pc' \notin {"fight", "answer"}
    BY <1>5 DEF New, Dealloc, Call, LoadWarrior, LoadFails, Crash, Answer
  <2> QED
    BY <2>1 DEF RoundsFought
<1> QED
  BY <1>1, <1>2, <1>3, <1>4, <1>5 DEF Next, Work

\* When p_run answers, every position the second warrior can have has been
\* fought once with either warrior moving first, in all three types.
THEOREM EveryPositionFought == Spec => []AllPositions
<1>1. Init => KindKnown /\ RoundsFought
  BY DEF Init, KindKnown, RoundsFought
<1>2. SessionInv /\ RoundsFought => AllPositions
  <2> SUFFICES ASSUME SessionInv, RoundsFought, pc = "answer",
                      call.method = "p_run",
                      NEW x \in mindistance .. coresize - mindistance,
                      NEW w \in 1 .. 2
               PROVE  fought[<<x, w>>] = 1
    BY DEF AllPositions
  <2>1. Arguments /\ round = 2 * Space
    BY DEF SessionInv, CallSound, FightSound, RoundsFought
  <2>2. mindistance \in Nat /\ coresize \in Nat
    BY <2>1 DEF Arguments
  <2>3. Turn(x, w) < round
    BY <2>1, <2>2 DEF Turn, Space
  <2> QED
    BY <2>3 DEF RoundsFought
<1> QED
  BY <1>1, <1>2, KindKeeps, RoundsKeep, SessionSound, PTL DEF Spec

----------------------------------------------------------------------------
(* How far a call is from its end *)

\* What is still to be done: parts of the call, warriors to load or rounds
\* to fight, loops of BenchPositioning.c before the round can be fought, and
\* warriors the present loop has not come to.  Between the last two are the
\* backtracks and the retries that are left.
Parts == CASE pc = "load"   -> 3
           [] pc = "fight"  -> 2
           [] pc = "answer" -> 1
           [] OTHER         -> 0

Left == CASE pc = "load"  -> numwarriors - loaded
          [] pc = "fight" -> numrounds - round
          [] OTHER        -> 0

Loops == CASE pc = "fight" /\ phase = "calc"    -> 4
           [] pc = "fight" /\ phase = "choose"  -> 3
           [] pc = "fight" /\ phase = "spread"  -> 2
           [] pc = "fight" /\ phase = "permute" -> 1
           [] OTHER                             -> 0

Ahead == IF Loops = 0 THEN 0 ELSE numwarriors - pos

Distance == <<Parts, Left, Loops, retries2, retries1, Ahead>>

RetriesKnown == retries1 \in Nat /\ retries2 \in Nat

\* The numbers of retries never go below zero.
LEMMA RetriesKeep ==
  ASSUME SessionInv, RetriesKnown, [Next]_allvars
  PROVE  RetriesKnown'
<1>1. CASE Position
  BY <1>1, RetriesAssumption
     DEF Position, Place, Retry, Backtrack, GiveUp, Choose, Spread, Permute,
         RetriesKnown
<1>2. CASE Leave
  BY <1>2 DEF Leave, RetriesKnown
<1>3. ASSUME NEW r, NEW s, NEW old, SetUp(r, s, old), pc # "idle"
      PROVE  RetriesKnown'
  <2>1. call.method \in Method
    BY <1>3, Passed DEF SessionInv, CallSound
  <2> QED
    BY <1>3, <2>1, RetriesAssumption
       DEF SetUp, PlaceTwo, Begin, RetriesKnown, Method
<1>4. CASE UNCHANGED <<retries1, retries2>>
  BY <1>4 DEF RetriesKnown
<1>5. CASE (\E kind \in Kind, s \in Sizes : New(kind, s)) \/ Dealloc
  BY <1>4, <1>5 DEF New, Dealloc, Locals, pvars
<1>6. CASE \E c \in Calls : Call(c)
  BY <1>4, <1>6 DEF Call
<1>7. CASE LoadWarrior \/ Crash \/ UNCHANGED allvars
  BY <1>4, <1>7 DEF LoadWarrior, Crash, allvars, pvars
<1>8. CASE LoadFails \/ Answer
  BY <1>2, <1>8 DEF LoadFails, Answer
<1>9. CASE Start
  BY <1>3, <1>9 DEF Start
<1>10. CASE PositionWarriors
  BY <1>1, <1>10 DEF PositionWarriors
<1>11. CASE FightRound
  BY <1>3, <1>4, <1>11 DEF FightRound
<1> QED
  BY <1>5, <1>6, <1>7, <1>8, <1>9, <1>10, <1>11 DEF Next, Work

\* A distance is six natural numbers.
LEMMA DistanceKnown ==
  SessionInv /\ RetriesKnown => Distance \in [1 .. 6 -> Nat]
<1> SUFFICES ASSUME SessionInv, RetriesKnown
             PROVE  Distance \in [1 .. 6 -> Nat]
  OBVIOUS
<1>1. Parts \in Nat /\ Loops \in Nat
  BY DEF Parts, Loops
<1>2. Left \in Nat
  BY DEF Left, SessionInv, CallSound, FightSound, Arguments
<1>3. Ahead \in Nat
  <2>1. CASE Loops = 0
    BY <2>1 DEF Ahead
  <2>2. CASE Loops # 0
    <3>1. pc = "fight" /\ phase # "done"
      BY <2>2 DEF Loops
    <3>2. pos \in Others /\ numwarriors \in Nat
      BY <3>1 DEF SessionInv, FightSound, CallSound, Placing, Arguments
    <3> QED
      BY <2>2, <3>2 DEF Ahead, Others
  <2> QED
    BY <2>1, <2>2
<1> QED
  BY <1>1, <1>2, <1>3 DEF Distance, RetriesKnown

\* The first part of the distance that changes must fall.
LEMMA NearerIf ==
  ASSUME Distance \in [1 .. 6 -> Nat], Distance' \in [1 .. 6 -> Nat],
         \/ Parts' < Parts
         \/ /\ UNCHANGED Parts
            /\ Left' < Left
         \/ /\ UNCHANGED <<Parts, Left>>
            /\ Loops' < Loops
         \/ /\ UNCHANGED <<Parts, Left, Loops>>
            /\ retries2' < retries2
         \/ /\ UNCHANGED <<Parts, Left, Loops, retries2>>
            /\ retries1' < retries1
         \/ /\ UNCHANGED <<Parts, Left, Loops, retries2, retries1>>
            /\ Ahead' < Ahead
  PROVE  <<Distance', Distance>> \in Nearer(6)
<1>1. /\ Distance[1] = Parts /\ Distance[2] = Left /\ Distance[3] = Loops
      /\ Distance[4] = retries2 /\ Distance[5] = retries1 /\ Distance[6] = Ahead
  BY DEF Distance
<1>2. /\ Distance'[1] = Parts' /\ Distance'[2] = Left' /\ Distance'[3] = Loops'
      /\ Distance'[4] = retries2' /\ Distance'[5] = retries1'
      /\ Distance'[6] = Ahead'
  BY DEF Distance
<1>3. PICK j \in 1 .. 6 :
        /\ Distance'[j] < Distance[j]
        /\ 1 < j => Distance'[1] = Distance[1]
        /\ 2 < j => Distance'[2] = Distance[2]
        /\ 3 < j => Distance'[3] = Distance[3]
        /\ 4 < j => Distance'[4] = Distance[4]
        /\ 5 < j => Distance'[5] = Distance[5]
  BY <1>1, <1>2
<1> QED
  BY <1>3, NearerOfSix

\* Every pass through a loop of BenchPositioning.c brings it nearer to its
\* end: a warrior is placed, or a retry or a backtrack is spent, or the loop
\* is over.
LEMMA PositionNearer ==
  ASSUME SessionInv, RetriesKnown, PositionWarriors,
         Distance \in [1 .. 6 -> Nat], Distance' \in [1 .. 6 -> Nat]
  PROVE  <<Distance', Distance>> \in Nearer(6)
<1>1. pc = "fight" /\ Position /\ UNCHANGED svars
  BY DEF PositionWarriors
<1>2. UNCHANGED <<pc, numrounds, round, loaded, numwarriors>>
  BY <1>1 DEF svars, Position, Place, Retry, Backtrack, GiveUp, Draw, Choose,
              Spread, Permute, arguments
<1>3. UNCHANGED <<Parts, Left>>
  BY <1>1, <1>2 DEF Parts, Left
<1>4. phase # "done"
  BY <1>1 DEF Position, Place, Retry, Backtrack, GiveUp, Draw, Choose, Spread,
              Permute
<1>5. pos \in Nat /\ numwarriors \in Nat
  BY <1>1, <1>4 DEF SessionInv, FightSound, CallSound, Placing, Arguments, Others
<1>6. CASE Place
  <2>1. CASE pos + 1 < numwarriors
    <3>1. UNCHANGED <<phase, Loops, retries2, retries1>> /\ Loops = 4
      BY <1>1, <1>2, <1>6, <2>1 DEF Place, Draw, Loops
    <3>2. Ahead' < Ahead
      BY <1>2, <1>5, <1>6, <3>1 DEF Place, Ahead
    <3> QED
      BY <1>3, <3>1, <3>2, NearerIf
  <2>2. CASE ~(pos + 1 < numwarriors)
    <3>1. Loops' < Loops
      BY <1>1, <1>2, <1>6, <2>2 DEF Place, Draw, Loops
    <3> QED
      BY <1>3, <3>1, NearerIf
  <2> QED
    BY <2>1, <2>2
<1>7. CASE Retry
  <2>1. UNCHANGED <<Loops, retries2>> /\ retries1' < retries1
    BY <1>2, <1>7 DEF Retry, Loops, RetriesKnown
  <2> QED
    BY <1>3, <2>1, NearerIf
<1>8. CASE Backtrack
  <2>1. UNCHANGED Loops /\ retries2' < retries2
    BY <1>2, <1>8 DEF Backtrack, Loops, RetriesKnown
  <2> QED
    BY <1>3, <2>1, NearerIf
<1>9. CASE GiveUp \/ Spread
  <2>1. Loops' < Loops
    BY <1>1, <1>2, <1>9 DEF GiveUp, Draw, Spread, Loops
  <2> QED
    BY <1>3, <2>1, NearerIf
<1>10. ASSUME NEW following \in {"spread", "done"}, Advance(following),
              UNCHANGED <<retries1, retries2>>,
              phase = IF following = "spread" THEN "choose" ELSE "permute"
       PROVE  <<Distance', Distance>> \in Nearer(6)
  <2>1. CASE pos + 1 < numwarriors
    <3>1. UNCHANGED <<phase, Loops>> /\ Loops # 0 /\ pos' = pos + 1
      BY <1>1, <1>2, <1>10, <2>1 DEF Advance, Loops
    <3>2. Ahead' < Ahead
      BY <1>2, <1>5, <3>1 DEF Ahead
    <3> QED
      BY <1>3, <1>10, <3>1, <3>2, NearerIf
  <2>2. CASE ~(pos + 1 < numwarriors)
    <3>1. Loops' < Loops
      BY <1>1, <1>2, <1>10, <2>2 DEF Advance, Loops
    <3> QED
      BY <1>3, <3>1, NearerIf
  <2> QED
    BY <2>1, <2>2
<1>11. CASE Choose
  BY <1>10, <1>11 DEF Choose
<1>12. CASE Permute
  BY <1>10, <1>12 DEF Permute
<1> QED
  BY <1>1, <1>6, <1>7, <1>8, <1>9, <1>11, <1>12 DEF Position

\* So does every other step of a call.
LEMMA WorkNearer ==
  ASSUME SessionInv, RetriesKnown, Work,
         Distance \in [1 .. 6 -> Nat], Distance' \in [1 .. 6 -> Nat]
  PROVE  <<Distance', Distance>> \in Nearer(6)
<1>1. CASE LoadWarrior
  <2>1. /\ pc = "load" /\ pc' = "load" /\ loaded' = loaded + 1
        /\ numwarriors' = numwarriors
    BY <1>1 DEF LoadWarrior, pvars, arguments
  <2>2. loaded \in Nat /\ numwarriors \in Nat
    BY <2>1 DEF SessionInv, CallSound, Arguments
  <2>3. UNCHANGED Parts /\ Left' < Left
    BY <2>1, <2>2 DEF Parts, Left
  <2> QED
    BY <2>3, NearerIf
<1>2. CASE LoadFails \/ Crash \/ Start \/ Answer
  <2>1. Parts' < Parts
    BY <1>2 DEF LoadFails, Crash, Start, Answer, Parts
  <2> QED
    BY <2>1, NearerIf
<1>3. CASE PositionWarriors
  BY <1>3, PositionNearer
<1>4. CASE FightRound
  <2>1. /\ pc = "fight" /\ round' = round + 1 /\ numrounds' = numrounds
        /\ \/ pc' = "fight"
           \/ pc' = "answer"
    BY <1>4 DEF FightRound
  <2>2. round \in Nat /\ numrounds \in Nat
    BY <2>1 DEF SessionInv, FightSound
  <2>3. CASE pc' = "fight"
    <3>1. UNCHANGED Parts /\ Left' < Left
      BY <2>1, <2>2, <2>3 DEF Parts, Left
    <3> QED
      BY <3>1, NearerIf
  <2>4. CASE pc' = "answer"
    <3>1. Parts' < Parts
      BY <2>1, <2>4 DEF Parts
    <3> QED
      BY <3>1, NearerIf
  <2> QED
    BY <2>1, <2>3, <2>4
<1> QED
  BY <1>1, <1>2, <1>3, <1>4 DEF Work

\* No call goes on without end, whatever seeds are drawn and however many
\* retries and backtracks the positions take: each step of it, from the
\* first get_warrior to the answer, brings it nearer to its end, and no
\* sequence of distances gets nearer without end.  (That a call in progress
\* has a next step is what the fairness of Answers adds.)
THEOREM CallsGetNearer ==
  /\ IsWellFoundedOn(Nearer(6), Distances(6))
  /\ Spec => [][Work => <<Distance', Distance>> \in Nearer(6)]_allvars
<1>1. IsWellFoundedOn(Nearer(6), Distances(6))
  BY NearerIsWellFounded
<1>2. Init => RetriesKnown
  BY DEF Init, RetriesKnown
<1>3. SessionInv /\ RetriesKnown /\ [Next]_allvars => RetriesKnown'
  BY RetriesKeep
<1>4. /\ SessionInv /\ RetriesKnown /\ SessionInv' /\ RetriesKnown'
      /\ [Next]_allvars
      => [Work => <<Distance', Distance>> \in Nearer(6)]_allvars
  <2>1. (SessionInv /\ RetriesKnown => Distance \in [1 .. 6 -> Nat])'
    BY DistanceKnown, PTL
  <2> QED
    BY <2>1, DistanceKnown, WorkNearer
<1> QED
  BY <1>1, <1>2, <1>3, <1>4, SessionSound, PTL DEF Spec
=============================================================================
