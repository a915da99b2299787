------------------------- MODULE RunLoopRing_proofs -------------------------
(***************************************************************************)
(* Proofs about the shared ring of OptMARS94nop.c, for every core size,    *)
(* process limit, cycle limit and number of rounds.                        *)
(*                                                                         *)
(* Why the ring is large enough: the heads advance in lockstep, so that    *)
(* warrior 2's head stays half a ring, give or take one slot, behind       *)
(* warrior 1's, and no queue is longer than maxprocesses.  That much is    *)
(* true of all instructions; that the counters describe the queues is true *)
(* if no instruction loses a process (NoLoss).  Then the loop implements   *)
(* Fight, what is proved of Fight holds of it, and whatever the            *)
(* instructions do each turn brings the end of the call nearer (Distance). *)
(***************************************************************************)
EXTENDS RunLoopRing, Lemmas

NoLoss == "lost" \notin Outcomes

\* Warrior 2's head is half a ring behind warrior 1's; the warrior that
\* moved last may be one slot further.
Gap ==
  \E d \in {MaxProcesses, MaxProcesses + 1, MaxProcesses + 2} :
    /\ head[2] = Behind(head[1], d)
    /\ d = MaxProcesses => pqinfo = 1
    /\ d = MaxProcesses + 2 => pqinfo = 2

LiveSlots ==
  \A w \in Warrior : \A k \in 0 .. numprocesses[w] - 1 :
    pqueue[Behind(head[w], k)] \in Address

Counted ==
  /\ \A w \in Warrior : tail[w] = Behind(head[w], numprocesses[w])
  /\ cycle > 0 => \A w \in Warrior : numprocesses[w] > 0
  /\ \E w \in Warrior : numprocesses[w] > 0

\* What holds of all instructions,
Sound ==
  /\ TypeOK
  /\ Gap
  /\ cycle > 0 => \A w \in Warrior : numprocesses[w] > 0
  /\ cycle <= insn_counter

\* and what holds when no process is lost.
IInv ==
  /\ Sound
  /\ Counted
  /\ LiveSlots

----------------------------------------------------------------------------
(* Places on the ring *)

\* A word behind another one is in the ring,
LEMMA BehindInRing ==
  ASSUME NEW i \in Slot, NEW k \in 0 .. RingSize - 1
  PROVE  Behind(i, k) \in Slot
BY RingAssumption DEF Behind, Slot, RingSize

\* distances behind it add up,
LEMMA BehindAdds ==
  ASSUME NEW i \in Slot, NEW j \in Nat, NEW k \in Nat, j + k <= RingSize - 1
  PROVE  Behind(Behind(i, j), k) = Behind(i, j + k)
BY RingAssumption DEF Behind, Slot, RingSize

\* and words at different distances are different.
LEMMA BehindInjective ==
  ASSUME NEW i \in Slot, NEW j \in 0 .. RingSize - 1, NEW k \in 0 .. RingSize - 1,
         Behind(i, j) = Behind(i, k)
  PROVE  j = k
BY RingAssumption DEF Behind, Slot, RingSize

\* The wrap of a pointer leads to the next word.
LEMMA WrapIsBehind ==
  ASSUME NEW i \in Slot
  PROVE  Wrap(i) = Behind(i, 1) /\ Wrap(i) \in Slot /\ Behind(i, 0) = i
BY RingAssumption DEF Wrap, Behind, Slot, RingSize

\* Seen from head[1] the places of warrior 2 lie d further.
LEMMA AcrossTheRing ==
  ASSUME NEW i \in Slot,
         NEW d \in {MaxProcesses, MaxProcesses + 1, MaxProcesses + 2},
         NEW j \in 0 .. MaxProcesses, NEW k \in 0 .. MaxProcesses,
         j < d, d + k <= RingSize - 1
  PROVE  Behind(i, j) # Behind(Behind(i, d), k)
<1>1. Behind(Behind(i, d), k) = Behind(i, d + k)
  BY BehindAdds, RingAssumption DEF RingSize
<1>2. j # d + k /\ j \in 0 .. RingSize - 1 /\ d + k \in 0 .. RingSize - 1
  BY RingAssumption DEF RingSize
<1> QED
  BY <1>1, <1>2, BehindInjective

----------------------------------------------------------------------------

\* The invariant holds when a fight starts.
LEMMA InitIInv == Init => IInv
<1> SUFFICES ASSUME Init PROVE IInv
  OBVIOUS
<1> USE RingAssumption
<1>1. PICK start \in [Warrior -> Address] :
        pqueue = [i \in Slot |-> IF i = Home(1) THEN start[1]
                                 ELSE IF i = Home(2) THEN start[2] ELSE NULL]
  BY DEF Init
<1>2. \A w \in Warrior : Home(w) \in Slot /\ Home(w) + 1 \in Slot
                         /\ pqueue[Home(w)] \in Address
  BY <1>1 DEF Slot, RingSize, Home, Warrior
<1>3. pqueue \in [Slot -> Address \cup {NULL}]
  BY <1>1 DEF Warrior
<1>4. TypeOK
  BY <1>2, <1>3 DEF Init, TypeOK, Warrior, Other, First
<1>5. Gap
  <2>1. head[2] = Behind(head[1], MaxProcesses + 1)
    BY DEF Init, Behind, Home, Warrior, RingSize
  <2> QED
    BY <2>1 DEF Gap
<1>6. Counted /\ Sound
  BY <1>4, <1>5 DEF Init, Sound, Counted, Behind, Home, Warrior, RingSize
<1>7. LiveSlots
  BY <1>2, WrapIsBehind DEF Init, LiveSlots
<1> QED
  BY <1>6, <1>7 DEF IInv

\* The heads stay half a ring apart: the warrior that catches up by one slot
\* is the one that lagged behind.
LEMMA FetchGap ==
  ASSUME Sound, NEW w \in Warrior, Fetch(w)
  PROVE  Gap'
<1> USE RingAssumption
<1>1. /\ \A v \in Warrior : head[v] \in Slot /\ head'[v] \in Slot
      /\ head'[w] = Behind(head[w], 1)
      /\ \A v \in Warrior : v # w => head'[v] = head[v]
  <2>1. head \in [Warrior -> Slot]
    BY DEF Sound, TypeOK
  <2> QED
    BY <2>1, WrapIsBehind DEF Fetch
<1>2. w = Other(pqinfo) /\ pqinfo \in Warrior /\ pqinfo' = w
  BY DEF Fetch, Sound, TypeOK
<1>3. PICK d \in {MaxProcesses, MaxProcesses + 1, MaxProcesses + 2} :
        /\ head[2] = Behind(head[1], d)
        /\ d = MaxProcesses => pqinfo = 1
        /\ d = MaxProcesses + 2 => pqinfo = 2
  BY DEF Sound, Gap
<1>4. CASE w = 1
  <2>1. /\ head'[1] = Behind(head[1], 1) /\ head'[2] = head[2]
        /\ head[1] \in Slot /\ pqinfo' = 1
        /\ d \in {MaxProcesses + 1, MaxProcesses + 2}
    BY <1>1, <1>2, <1>3, <1>4 DEF Warrior, Other
  <2>2. 1 \in Nat /\ d - 1 \in Nat /\ 1 + (d - 1) = d /\ d <= RingSize - 1
    BY <2>1 DEF RingSize
  <2>3. Behind(Behind(head[1], 1), d - 1) = Behind(head[1], d)
    BY <2>1, <2>2, BehindAdds
  <2>4. head'[2] = Behind(head'[1], d - 1)
    BY <1>3, <2>1, <2>3
  <2>5. /\ d - 1 \in {MaxProcesses, MaxProcesses + 1, MaxProcesses + 2}
        /\ d - 1 # MaxProcesses + 2
    BY <2>1
  <2> QED
    BY <2>1, <2>4, <2>5 DEF Gap, Behind
<1>5. CASE w = 2
  <2>1. /\ head'[2] = Behind(head[2], 1) /\ head'[1] = head[1]
        /\ head[1] \in Slot /\ pqinfo' = 2
        /\ d \in {MaxProcesses, MaxProcesses + 1}
    BY <1>1, <1>2, <1>3, <1>5 DEF Warrior, Other
  <2>2. 1 \in Nat /\ d \in Nat /\ d + 1 <= RingSize - 1
    BY <2>1 DEF RingSize
  <2>3. Behind(Behind(head[1], d), 1) = Behind(head[1], d + 1)
    BY <2>1, <2>2, BehindAdds
  <2>4. head'[2] = Behind(head'[1], d + 1)
    BY <1>3, <2>1, <2>3
  <2>5. /\ d + 1 \in {MaxProcesses, MaxProcesses + 1, MaxProcesses + 2}
        /\ d + 1 # MaxProcesses
    BY <2>1
  <2> QED
    BY <2>1, <2>4, <2>5 DEF Gap, Behind
<1> QED
  BY <1>4, <1>5 DEF Warrior

\* Every turn keeps what holds of all instructions.
LEMMA TurnSound ==
  ASSUME Sound, NEW w \in Warrior, Turn(w)
  PROVE  Sound'
<1> USE RingAssumption
<1>1. /\ pqueue \in [Slot -> Address \cup {NULL}]
      /\ head \in [Warrior -> Slot] /\ tail \in [Warrior -> Slot]
      /\ numprocesses \in [Warrior -> 0 .. MaxProcesses]
      /\ cycle \in 0 .. 2 * MaxCycles /\ insn_counter \in Nat
      /\ cycle <= insn_counter
      /\ cycle > 0 => \A v \in Warrior : numprocesses[v] > 0
  BY DEF Sound, TypeOK
<1>2. Fetch(w)
  BY DEF Turn, Continue, Split, Die, Lose
<1>3. /\ cycle > 0 /\ pqinfo' = w /\ UNCHANGED <<results, round>>
      /\ head' = [head EXCEPT ![w] = Wrap(@)]
      /\ IpIncMod(ip(w)) \in Address
  <2>1. ip(w) \in Address
    BY <1>1, <1>2 DEF Fetch, ip
  <2> QED
    BY <1>2, <2>1 DEF Fetch, IpIncMod, Address
<1>4. Gap'
  BY <1>2, FetchGap
<1>5. head' \in [Warrior -> Slot]
  <2>1. Wrap(head[w]) \in Slot
    BY <1>1, WrapIsBehind
  <2> QED
    BY <1>1, <1>3, <2>1
<1>6. /\ tail[w] \in Slot /\ Wrap(tail[w]) \in Slot
      /\ Wrap(Wrap(tail[w])) \in Slot
  BY <1>1, WrapIsBehind
<1>7. ASSUME NEW x \in Address, Append1(w, x)
      PROVE  pqueue' \in [Slot -> Address \cup {NULL}] /\ tail' \in [Warrior -> Slot]
  BY <1>1, <1>6, <1>7 DEF Append1
<1>8. ASSUME NEW x \in Address, NEW y \in Address, Append2(w, x, y)
      PROVE  pqueue' \in [Slot -> Address \cup {NULL}] /\ tail' \in [Warrior -> Slot]
  <2>1. tail' = [tail EXCEPT ![w] = Wrap(Wrap(tail[w]))]
    BY <1>8 DEF Append2
  <2> QED
    BY <1>1, <1>6, <1>8, <2>1 DEF Append2
<1> DEFINE Effect ==
      /\ pqueue' \in [Slot -> Address \cup {NULL}] /\ tail' \in [Warrior -> Slot]
      /\ numprocesses' \in [Warrior -> 0 .. MaxProcesses]
      /\ \A v \in Warrior : v # w => numprocesses'[v] = numprocesses[v]
      /\ numprocesses'[w] = 0 => cycle' = 0
      /\ cycle' \in {0, cycle - 1} /\ insn_counter' \in Nat
      /\ cycle' <= insn_counter'
<1>9. Effect
  <2>1. ASSUME NEW x \in Address, Continue(w, x)
        PROVE  Effect
    BY <1>1, <1>3, <1>7, <2>1 DEF Continue
  <2>2. ASSUME NEW x \in Address, Split(w, x)
        PROVE  Effect
    BY <1>1, <1>3, <1>7, <1>8, <2>2 DEF Split
  <2>3. CASE Die(w)
    BY <1>1, <1>3, <2>3 DEF Die
  <2>4. CASE Lose(w)
    BY <1>1, <1>3, <2>4 DEF Lose
  <2> QED
    BY <2>1, <2>2, <2>3, <2>4 DEF Turn
<1>10. TypeOK'
  BY <1>1, <1>3, <1>5, <1>9 DEF Sound, TypeOK
<1>11. cycle' > 0 => \A v \in Warrior : numprocesses'[v] > 0
  <2>1. \A v \in Warrior : v # w => numprocesses'[v] > 0
    BY <1>1, <1>3, <1>9
  <2>2. numprocesses'[w] \in Nat
    BY <1>9
  <2> QED
    BY <1>9, <2>1, <2>2
<1> QED
  BY <1>4, <1>9, <1>10, <1>11 DEF Sound

\* A turn takes one process of warrior w away and appends k new ones.
Serve(w, k) ==
  /\ Fetch(w)
  /\ numprocesses' \in [Warrior -> 0 .. MaxProcesses]
  /\ numprocesses'[w] = numprocesses[w] - 1 + k
  /\ tail'[w] = Behind(tail[w], k)
  /\ \A v \in Warrior : v # w => /\ numprocesses'[v] = numprocesses[v]
                                 /\ tail'[v] = tail[v]
  /\ pqueue' \in [Slot -> Address \cup {NULL}]
  /\ \A i \in Slot : (\A j \in 0 .. k - 1 : i # Behind(tail[w], j))
                         => pqueue'[i] = pqueue[i]
  /\ \A j \in 0 .. k - 1 : pqueue'[Behind(tail[w], j)] \in Address

\* Where a turn of warrior w reads and appends.
LEMMA TurnPlaces ==
  ASSUME IInv, NEW w \in Warrior, NEW k \in 0 .. 2, Serve(w, k)
  PROVE  /\ \A v \in Warrior : /\ head[v] \in Slot /\ head'[v] \in Slot
                               /\ numprocesses[v] \in 1 .. MaxProcesses
                               /\ tail[v] = Behind(head[v], numprocesses[v])
         /\ cycle \in Nat /\ cycle > 0
         /\ head'[w] = Behind(head[w], 1)
         /\ \A v \in Warrior : v # w => head'[v] = head[v]
         /\ \A j \in 0 .. k : /\ numprocesses[w] + j <= MaxProcesses + 1
                              /\ Behind(tail[w], j) = Behind(head[w], numprocesses[w] + j)
<1>1. Fetch(w)
  BY DEF Serve
<1>2. head \in [Warrior -> Slot]
  BY DEF IInv, Sound, TypeOK
<1>3. \A v \in Warrior : /\ head[v] \in Slot
                         /\ numprocesses[v] \in 1 .. MaxProcesses
                         /\ tail[v] = Behind(head[v], numprocesses[v])
  BY <1>1, RingAssumption DEF Fetch, IInv, Sound, TypeOK, Counted
<1>4. head'[w] = Behind(head[w], 1) /\ head' \in [Warrior -> Slot]
  BY <1>1, <1>2, WrapIsBehind DEF Fetch
<1>5. \A v \in Warrior : v # w => head'[v] = head[v]
  BY <1>1, <1>2 DEF Fetch
<1>6. \A j \in 0 .. k : numprocesses[w] + j <= MaxProcesses + 1
  BY <1>3, RingAssumption DEF Serve
<1>7. ASSUME NEW j \in 0 .. k
      PROVE  Behind(tail[w], j) = Behind(head[w], numprocesses[w] + j)
  <2>1. numprocesses[w] + j <= RingSize - 1
    BY <1>3, <1>6, RingAssumption DEF RingSize
  <2> QED
    BY <1>3, <2>1, BehindAdds
<1>8. cycle \in Nat /\ cycle > 0
  BY <1>1 DEF Fetch, IInv, Sound, TypeOK
<1> QED
  BY <1>3, <1>4, <1>5, <1>6, <1>7, <1>8

\* No append hits a process of the other warrior.
LEMMA NoClobber ==
  ASSUME IInv, NEW w \in Warrior, NEW k \in 0 .. 2, Serve(w, k),
         NEW v \in Warrior, v # w,
         NEW m \in 0 .. numprocesses[v] - 1, NEW j \in 0 .. k - 1
  PROVE  Behind(head[v], m) # Behind(tail[w], j)
<1> USE RingAssumption
<1>1. /\ head[1] \in Slot
      /\ m \in 0 .. MaxProcesses - 1
      /\ numprocesses[w] + j \in 0 .. MaxProcesses
      /\ Behind(tail[w], j) = Behind(head[w], numprocesses[w] + j)
  <2>1. /\ \A u \in Warrior : head[u] \in Slot /\ numprocesses[u] \in 1 .. MaxProcesses
        /\ j \in 0 .. k /\ j + 1 \in 0 .. k
        /\ \A n \in 0 .. k : /\ numprocesses[w] + n <= MaxProcesses + 1
                             /\ Behind(tail[w], n) = Behind(head[w], numprocesses[w] + n)
    BY TurnPlaces
  <2>2. 1 \in Warrior
    BY DEF Warrior
  <2>3. numprocesses[w] + (j + 1) <= MaxProcesses + 1
    BY <2>1
  <2> QED
    BY <2>1, <2>2, <2>3
<1>2. w = Other(pqinfo) /\ pqinfo \in Warrior
  BY DEF Serve, Fetch, IInv, Sound, TypeOK
<1>3. PICK d \in {MaxProcesses, MaxProcesses + 1, MaxProcesses + 2} :
        /\ head[2] = Behind(head[1], d)
        /\ d = MaxProcesses => pqinfo = 1
        /\ d = MaxProcesses + 2 => pqinfo = 2
  BY DEF IInv, Sound, Gap
<1>4. CASE w = 1
  <2>1. v = 2 /\ pqinfo = 2 /\ d > MaxProcesses
    BY <1>2, <1>3, <1>4 DEF Warrior, Other
  <2>2. numprocesses[w] + j < d /\ d + m <= RingSize - 1
    BY <1>1, <2>1 DEF RingSize
  <2>3. Behind(head[1], numprocesses[w] + j) # Behind(Behind(head[1], d), m)
    BY <1>1, <2>2, AcrossTheRing
  <2> QED
    BY <1>1, <1>3, <1>4, <2>1, <2>3
<1>5. CASE w = 2
  <2>1. v = 1 /\ pqinfo = 1 /\ d < MaxProcesses + 2
    BY <1>2, <1>3, <1>5 DEF Warrior, Other
  <2>2. m < d /\ d + (numprocesses[w] + j) <= RingSize - 1
    BY <1>1, <2>1 DEF RingSize
  <2>3. Behind(head[1], m) # Behind(Behind(head[1], d), numprocesses[w] + j)
    BY <1>1, <2>2, AcrossTheRing
  <2> QED
    BY <1>1, <1>3, <1>5, <2>1, <2>3
<1> QED
  BY <1>4, <1>5 DEF Warrior

\* Nor does an append hit a process of the warrior itself, and no live slot
\* of either warrior changes.
LEMMA LiveUnchanged ==
  ASSUME IInv, NEW w \in Warrior, NEW k \in 0 .. 2, Serve(w, k),
         NEW v \in Warrior, NEW m \in 0 .. numprocesses[v] - 1
  PROVE  pqueue'[Behind(head[v], m)] = pqueue[Behind(head[v], m)]
<1> USE RingAssumption
<1>1. /\ head[v] \in Slot /\ numprocesses[v] \in 1 .. MaxProcesses
      /\ \A j \in 0 .. k :
           /\ numprocesses[w] + j <= MaxProcesses + 1
           /\ Behind(tail[w], j) = Behind(head[w], numprocesses[w] + j)
  BY TurnPlaces
<1>2. Behind(head[v], m) \in Slot
  <2>1. m \in 0 .. RingSize - 1
    BY <1>1 DEF RingSize
  <2> QED
    BY <1>1, <2>1, BehindInRing
<1>3. ASSUME NEW j \in 0 .. k - 1
      PROVE  Behind(head[v], m) # Behind(tail[w], j)
  <2>1. CASE v # w
    BY <2>1, NoClobber
  <2>2. CASE v = w
    <3>1. /\ j \in 0 .. k /\ m # numprocesses[w] + j
          /\ m \in 0 .. RingSize - 1
          /\ numprocesses[w] + j \in 0 .. RingSize - 1
      BY <1>1, <2>2 DEF RingSize
    <3> QED
      BY <1>1, <2>2, <3>1, BehindInjective
  <2> QED
    BY <2>1, <2>2
<1> QED
  BY <1>2, <1>3 DEF Serve

\* The counters and the live slots.
LEMMA ServeQueues ==
  ASSUME IInv, NEW w \in Warrior, NEW k \in 0 .. 2, Serve(w, k),
         numprocesses[w] - 1 + k = 0 => cycle' = 0
  PROVE  Counted' /\ LiveSlots'
<1> USE RingAssumption
<1>1. /\ \A v \in Warrior : /\ head[v] \in Slot
                            /\ numprocesses[v] \in 1 .. MaxProcesses
                            /\ tail[v] = Behind(head[v], numprocesses[v])
      /\ head'[w] = Behind(head[w], 1)
      /\ \A v \in Warrior : v # w => head'[v] = head[v]
      /\ \A j \in 0 .. k : /\ numprocesses[w] + j <= MaxProcesses + 1
                           /\ Behind(tail[w], j) = Behind(head[w], numprocesses[w] + j)
  BY TurnPlaces
<1>2. /\ numprocesses'[w] = numprocesses[w] - 1 + k
      /\ numprocesses'[w] \in 0 .. MaxProcesses
      /\ tail'[w] = Behind(tail[w], k)
      /\ \A v \in Warrior : v # w => /\ numprocesses'[v] = numprocesses[v]
                                     /\ tail'[v] = tail[v]
  BY DEF Serve
<1>3. ASSUME NEW m \in 0 .. numprocesses'[w]
      PROVE  Behind(head'[w], m) = Behind(head[w], 1 + m)
  <2>1. 1 \in Nat /\ m \in Nat /\ 1 + m <= RingSize - 1
    BY <1>2 DEF RingSize
  <2> QED
    BY <1>1, <2>1, BehindAdds
<1>4. Counted'
  <2>1. tail'[w] = Behind(head'[w], numprocesses'[w])
    <3>1. numprocesses'[w] \in 0 .. numprocesses'[w]
          /\ 1 + numprocesses'[w] = numprocesses[w] + k /\ k \in 0 .. k
      BY <1>1, <1>2
    <3>2. Behind(head'[w], numprocesses'[w]) = Behind(head[w], numprocesses[w] + k)
      BY <1>3, <3>1
    <3> QED
      BY <1>1, <1>2, <3>1, <3>2
  <2>2. \A v \in Warrior : tail'[v] = Behind(head'[v], numprocesses'[v])
    BY <1>1, <1>2, <2>1
  <2>3. PICK other \in Warrior : other # w
    BY DEF Warrior
  <2>4. numprocesses'[other] > 0
    BY <1>1, <1>2, <2>3
  <2>5. cycle' > 0 => \A v \in Warrior : numprocesses'[v] > 0
    BY <1>1, <1>2
  <2> QED
    BY <2>2, <2>4, <2>5 DEF Counted, Behind
<1>5. LiveSlots'
  <2> SUFFICES ASSUME NEW v \in Warrior, NEW m \in 0 .. numprocesses'[v] - 1
               PROVE  pqueue'[Behind(head'[v], m)] \in Address
    BY DEF LiveSlots, Behind
  <2>0. \A u \in Warrior : \A n \in 0 .. numprocesses[u] - 1 :
          pqueue'[Behind(head[u], n)] \in Address
    BY LiveUnchanged DEF IInv, LiveSlots
  <2>1. CASE v # w
    BY <1>1, <1>2, <2>0, <2>1
  <2>2. CASE v = w /\ m + 1 < numprocesses[w]
    <3>1. 1 + m \in 0 .. numprocesses[w] - 1 /\ m \in 0 .. numprocesses'[w]
      BY <1>1, <1>2, <2>2
    <3> QED
      BY <1>3, <2>0, <2>2, <3>1
  <2>3. CASE v = w /\ m + 1 >= numprocesses[w]
    <3> DEFINE j == m + 1 - numprocesses[w]
    <3>1. /\ j \in 0 .. k - 1 /\ j \in 0 .. k
          /\ 1 + m = numprocesses[w] + j
          /\ m \in 0 .. numprocesses'[w]
      BY <1>1, <1>2, <2>3
    <3>2. Behind(head'[w], m) = Behind(tail[w], j)
      BY <1>1, <1>3, <3>1
    <3>3. pqueue'[Behind(tail[w], j)] \in Address
      BY <3>1 DEF Serve
    <3> QED
      BY <2>3, <3>2, <3>3
  <2> QED
    BY <1>1, <1>2, <2>1, <2>2, <2>3
<1> QED
  BY <1>4, <1>5

----------------------------------------------------------------------------

\* A turn that appends one address and leaves the counter alone.
LEMMA AppendOneServes ==
  ASSUME IInv, NEW w \in Warrior, NEW y \in Address,
         Fetch(w), Append1(w, y), UNCHANGED numprocesses
  PROVE  Serve(w, 1)
<1>1. /\ numprocesses \in [Warrior -> 0 .. MaxProcesses]
      /\ tail \in [Warrior -> Slot]
      /\ pqueue \in [Slot -> Address \cup {NULL}]
  BY DEF IInv, Sound, TypeOK
<1>2. numprocesses' = numprocesses /\ numprocesses'[w] = numprocesses[w] - 1 + 1
  BY <1>1, RingAssumption
<1>3. tail[w] \in Slot /\ Wrap(tail[w]) = Behind(tail[w], 1)
      /\ Behind(tail[w], 0) = tail[w]
  BY <1>1, WrapIsBehind
<1>4. /\ tail'[w] = Behind(tail[w], 1)
      /\ \A v \in Warrior : v # w => tail'[v] = tail[v]
  BY <1>1, <1>3 DEF Append1
<1>5. /\ pqueue' \in [Slot -> Address \cup {NULL}]
      /\ \A i \in Slot : i # tail[w] => pqueue'[i] = pqueue[i]
      /\ pqueue'[tail[w]] = y
  BY <1>1, <1>3 DEF Append1
<1>6. (\A j \in 0 .. 1 - 1 : j = 0) /\ 0 \in 0 .. 1 - 1
  OBVIOUS
<1> QED
  BY <1>1, <1>2, <1>3, <1>4, <1>5, <1>6 DEF Serve

\* Each outcome but a lost process is such a turn.
LEMMA OutcomesServe ==
  ASSUME IInv, NEW w \in Warrior, NEW x \in Address
  PROVE  /\ Continue(w, x) => Serve(w, 1)
         /\ Split(w, x) => \E k \in {1, 2} : Serve(w, k)
         /\ Die(w) => Serve(w, 0)
<1> USE RingAssumption
<1>1. /\ numprocesses \in [Warrior -> 0 .. MaxProcesses]
      /\ tail \in [Warrior -> Slot]
      /\ pqueue \in [Slot -> Address \cup {NULL}]
      /\ cycle > 0 => numprocesses[w] > 0
  BY DEF IInv, Sound, TypeOK, Counted
<1>2. cycle > 0 => ip(w) \in Address
  <2>1. head[w] \in Slot /\ Behind(head[w], 0) = head[w]
    BY WrapIsBehind DEF IInv, Sound, TypeOK
  <2>2. cycle > 0 => 0 \in 0 .. numprocesses[w] - 1
    BY <1>1
  <2> QED
    BY <2>1, <2>2 DEF IInv, LiveSlots, ip
<1>3. cycle > 0 => IpIncMod(ip(w)) \in Address
  BY <1>2 DEF IpIncMod, Address
<1>4. tail[w] \in Slot /\ Wrap(tail[w]) = Behind(tail[w], 1)
      /\ Behind(tail[w], 0) = tail[w] /\ Wrap(tail[w]) \in Slot
  BY <1>1, WrapIsBehind
<1>5. Continue(w, x) => Serve(w, 1)
  BY AppendOneServes DEF Continue
<1>6. ASSUME Split(w, x) PROVE \E k \in {1, 2} : Serve(w, k)
  <2>0. Fetch(w) /\ IpIncMod(ip(w)) \in Address
    BY <1>3, <1>6 DEF Split, Fetch
  <2>1. CASE numprocesses[w] < MaxProcesses
    <3>1. /\ numprocesses' = [numprocesses EXCEPT ![w] = @ + 1]
          /\ pqueue' = [pqueue EXCEPT ![tail[w]] = IpIncMod(ip(w)),
                                      ![Wrap(tail[w])] = x]
          /\ tail' = [tail EXCEPT ![w] = Wrap(Wrap(@))]
      BY <1>6, <2>1 DEF Split, Append2
    <3>2. /\ numprocesses' \in [Warrior -> 0 .. MaxProcesses]
          /\ numprocesses'[w] = numprocesses[w] - 1 + 2
          /\ \A v \in Warrior : v # w =>
               numprocesses'[v] = numprocesses[v] /\ tail'[v] = tail[v]
      BY <1>1, <2>1, <3>1
    <3>3. tail'[w] = Behind(tail[w], 2)
      <4>1. 1 \in Nat /\ 1 + 1 <= RingSize - 1
        BY DEF RingSize
      <4>2. tail'[w] = Wrap(Wrap(tail[w]))
        BY <1>1, <3>1
      <4>3. Wrap(Wrap(tail[w])) = Behind(Behind(tail[w], 1), 1)
        BY <1>4, WrapIsBehind
      <4>4. Behind(Behind(tail[w], 1), 1) = Behind(tail[w], 1 + 1)
        BY <1>4, <4>1, BehindAdds
      <4> QED
        BY <4>2, <4>3, <4>4
    <3>4. pqueue' \in [Slot -> Address \cup {NULL}]
      BY <1>1, <2>0, <3>1
    <3>5. \A i \in Slot : i # tail[w] /\ i # Wrap(tail[w])
                           => pqueue'[i] = pqueue[i]
      BY <1>1, <3>1
    <3>6. pqueue'[tail[w]] \in Address /\ pqueue'[Wrap(tail[w])] \in Address
      BY <1>1, <1>4, <2>0, <3>1
    <3>7. /\ \A j \in 0 .. 2 - 1 : j = 0 \/ j = 1
          /\ 0 \in 0 .. 2 - 1 /\ 1 \in 0 .. 2 - 1
      OBVIOUS
    <3> QED
      BY <1>4, <2>0, <3>2, <3>3, <3>4, <3>5, <3>6, <3>7 DEF Serve
  <2>2. CASE ~(numprocesses[w] < MaxProcesses)
    BY <1>6, <2>0, <2>2, AppendOneServes DEF Split
  <2> QED
    BY <2>1, <2>2
<1>7. ASSUME Die(w) PROVE Serve(w, 0)
  <2>1. numprocesses[w] > 0 /\ 0 .. 0 - 1 = {}
    BY <1>1, <1>7 DEF Die, Fetch
  <2>2. /\ numprocesses' \in [Warrior -> 0 .. MaxProcesses]
        /\ numprocesses'[w] = numprocesses[w] - 1 + 0
        /\ \A v \in Warrior : v # w => numprocesses'[v] = numprocesses[v]
    BY <1>1, <1>7, <2>1 DEF Die
  <2> QED
    BY <1>1, <1>4, <1>7, <2>1, <2>2 DEF Die, Serve
<1> QED
  BY <1>5, <1>6, <1>7

\* Every turn keeps the inductive invariant, unless it loses a process.
LEMMA TurnIInv ==
  ASSUME NoLoss, IInv, NEW w \in Warrior, Turn(w)
  PROVE  IInv'
<1> USE RingAssumption
<1>1. PICK x \in Address : Continue(w, x) \/ Split(w, x) \/ Die(w)
  <2>1. 0 \in Address
    BY DEF Address
  <2> QED
    BY <2>1 DEF Turn, NoLoss, Lose
<1>2. PICK k \in 0 .. 2 : Serve(w, k)
  BY <1>1, OutcomesServe
<1>3. numprocesses'[w] = 0 => cycle' = 0
  <2>0. /\ cycle \in Nat /\ insn_counter \in Nat /\ cycle <= insn_counter
        /\ results \in [0 .. 3 -> Nat]
        /\ numprocesses \in [Warrior -> 0 .. MaxProcesses]
        /\ cycle > 0 => numprocesses[w] > 0
    BY DEF IInv, Sound, TypeOK, Counted
  <2>1. CASE Continue(w, x)
    BY <2>0, <2>1 DEF Continue, Fetch
  <2>2. CASE Split(w, x)
    BY <2>0, <2>2 DEF Split, Fetch
  <2>3. CASE Die(w)
    BY <2>0, <2>3 DEF Die, Fetch
  <2> QED
    BY <1>1, <2>1, <2>2, <2>3
<1>4. numprocesses'[w] = numprocesses[w] - 1 + k
  BY <1>2 DEF Serve
<1>5. Counted' /\ LiveSlots'
  BY <1>2, <1>3, <1>4, ServeQueues
<1>6. Sound'
  BY TurnSound DEF IInv
<1> QED
  BY <1>5, <1>6 DEF IInv

\* The next round starts with one process for each warrior.
LEMMA NextRound ==
  ASSUME Sound, SetUp(round + 1)
  PROVE  /\ pqueue' \in [Slot -> Address \cup {NULL}]
         /\ \A w \in Warrior : Home(w) \in Slot /\ Home(w) + 1 \in Slot
         /\ \A w \in Warrior : pqueue'[Home(w)] \in Address
<1> USE RingAssumption
<1>1. PICK start \in [Warrior -> Address] :
        pqueue' = [pqueue EXCEPT ![Home(1)] = start[1], ![Home(2)] = start[2]]
  BY DEF SetUp
<1>2. \A w \in Warrior : Home(w) \in Slot /\ Home(w) + 1 \in Slot
  BY DEF Slot, RingSize, Home, Warrior
<1>3. start[1] \in Address /\ start[2] \in Address
  BY <1>1 DEF Warrior
<1>4. pqueue \in [Slot -> Address \cup {NULL}] /\ Home(1) \in Slot
      /\ Home(2) \in Slot /\ Home(1) # Home(2)
  BY <1>2 DEF Sound, TypeOK, Warrior, Home
<1>5. pqueue'[Home(1)] = start[1] /\ pqueue'[Home(2)] = start[2]
  BY <1>1, <1>4
<1>6. pqueue' \in [Slot -> Address \cup {NULL}]
  BY <1>1, <1>3, <1>4
<1> QED
  BY <1>2, <1>3, <1>5, <1>6 DEF Warrior

\* So the end of a round keeps what holds of all instructions.
LEMMA RoundDoneSound ==
  ASSUME Sound, RoundDone
  PROVE  Sound'
<1> USE RingAssumption
<1>1. results' \in [0 .. 3 -> Nat] /\ round' \in 0 .. NumRounds
  BY DEF RoundDone, Verdict, Sound, TypeOK
<1>2. CASE round + 1 < NumRounds
  <2>1. SetUp(round + 1)
    BY <1>2 DEF RoundDone
  <2>2. TypeOK'
    <3>1. /\ pqueue' \in [Slot -> Address \cup {NULL}]
          /\ head' \in [Warrior -> Slot] /\ tail' \in [Warrior -> Slot]
      BY <2>1, NextRound DEF SetUp
    <3>2. numprocesses' \in [Warrior -> 0 .. MaxProcesses] /\ pqinfo' \in Warrior
      BY <2>1 DEF SetUp, Warrior, Other, First
    <3>3. cycle' \in 0 .. 2 * MaxCycles /\ insn_counter' \in Nat
      BY <2>1 DEF SetUp, Sound, TypeOK
    <3> QED
      BY <1>1, <3>1, <3>2, <3>3 DEF TypeOK
  <2>3. Gap'
    <3>1. head'[1] = 0 /\ head'[2] = MaxProcesses + 1
      BY <2>1 DEF SetUp, Home, Warrior
    <3>2. head'[2] = Behind(head'[1], MaxProcesses + 1)
      BY <3>1 DEF Behind, RingSize
    <3> QED
      BY <3>2 DEF Gap, Behind
  <2>4. /\ \A w \in Warrior : numprocesses'[w] > 0
        /\ cycle' <= insn_counter'
    BY <2>1 DEF SetUp, Sound, TypeOK
  <2> QED
    BY <2>2, <2>3, <2>4 DEF Sound
<1>3. CASE ~(round + 1 < NumRounds)
  BY <1>1, <1>3 DEF RoundDone, Sound, TypeOK, Gap, Behind
<1> QED
  BY <1>2, <1>3

\* The same for the counters and contents of the queues.
LEMMA RoundDoneIInv ==
  ASSUME IInv, RoundDone
  PROVE  IInv'
<1> USE RingAssumption
<1>1. Sound'
  BY RoundDoneSound DEF IInv
<1>2. CASE round + 1 < NumRounds
  <2>1. SetUp(round + 1)
    BY <1>2 DEF RoundDone
  <2>2. /\ \A w \in Warrior : Home(w) \in Slot /\ Home(w) + 1 \in Slot
        /\ \A w \in Warrior : pqueue'[Home(w)] \in Address
    BY <2>1, NextRound DEF IInv
  <2>3. Counted'
    BY <2>1 DEF SetUp, Counted, Behind, Home, Warrior, RingSize
  <2>4. LiveSlots'
    <3>1. \A w \in Warrior : /\ numprocesses'[w] = 1 /\ head'[w] = Home(w)
                             /\ Behind(Home(w), 0) = Home(w)
      BY <2>1, <2>2, WrapIsBehind DEF SetUp
    <3>2. \A k \in 0 .. 1 - 1 : k = 0
      OBVIOUS
    <3> QED
      BY <2>2, <3>1, <3>2 DEF LiveSlots, Behind
  <2> QED
    BY <1>1, <2>3, <2>4 DEF IInv
<1>3. CASE ~(round + 1 < NumRounds)
  <2>1. UNCHANGED <<pqueue, head, tail, numprocesses, cycle>>
    BY <1>3 DEF RoundDone
  <2> QED
    BY <1>1, <2>1 DEF IInv, Counted, LiveSlots, Behind
<1> QED
  BY <1>2, <1>3

\* What holds of all instructions always holds.
LEMMA SoundHolds == Spec => []Sound
<1>1. Sound /\ [Next]_vars => Sound'
  <2> SUFFICES ASSUME Sound, [Next]_vars PROVE Sound'
    OBVIOUS
  <2>1. CASE UNCHANGED vars
    BY <2>1 DEF vars, Sound, TypeOK, Gap, Behind
  <2> QED
    BY <2>1, RoundDoneSound, TurnSound DEF Next
<1>2. Init => Sound
  BY InitIInv DEF IInv
<1> QED
  BY <1>1, <1>2, PTL DEF Spec

\* If no instruction loses a process, the inductive invariant always holds.
LEMMA IInvHolds == ASSUME NoLoss PROVE Spec => []IInv
<1>1. IInv /\ [Next]_vars => IInv'
  <2> SUFFICES ASSUME IInv, [Next]_vars PROVE IInv'
    OBVIOUS
  <2>1. CASE RoundDone
    BY <2>1, RoundDoneIInv
  <2>2. ASSUME NEW w \in Warrior, Turn(w) PROVE IInv'
    BY <2>2, TurnIInv
  <2>3. CASE UNCHANGED vars
    BY <2>3 DEF vars, IInv, Sound, TypeOK, Counted, Gap, LiveSlots, Behind
  <2> QED
    BY <2>1, <2>2, <2>3 DEF Next
<1> QED
  BY <1>1, InitIInv, PTL DEF Spec

\* The two warriors share the ring without a check, and yet their processes
\* never share a slot: half a ring of distance is always enough, whatever the
\* instructions do, lost processes included.
THEOREM QueuesNeverOverlap == Spec => [](TypeOK /\ QueuesDisjoint)
<1>1. Sound => QueuesDisjoint
  <2> SUFFICES ASSUME Sound,
                      NEW j \in 0 .. numprocesses[1] - 1,
                      NEW k \in 0 .. numprocesses[2] - 1
               PROVE  Behind(head[1], j) # Behind(head[2], k)
    BY DEF QueuesDisjoint, Live
  <2> USE RingAssumption
  <2>1. PICK d \in {MaxProcesses, MaxProcesses + 1, MaxProcesses + 2} :
          head[2] = Behind(head[1], d)
    BY DEF Sound, Gap
  <2>2. /\ head[1] \in Slot
        /\ j \in 0 .. MaxProcesses - 1 /\ k \in 0 .. MaxProcesses - 1
    BY DEF Sound, TypeOK, Warrior
  <2>3. j < d /\ d + k <= RingSize - 1
    BY <2>2 DEF RingSize
  <2> QED
    BY <2>1, <2>2, <2>3, AcrossTheRing
<1>2. Sound => TypeOK
  BY DEF Sound
<1> QED
  BY <1>1, <1>2, SoundHolds, PTL

\* Types, and the counters and contents of both queues.
THEOREM QueuesKept == ASSUME NoLoss PROVE Spec => [](TypeOK /\ QueuesWhole)
<1>1. IInv => TypeOK /\ QueuesWhole
  BY DEF IInv, Sound, QueuesWhole, Counted, LiveSlots, Live
<1> QED
  BY <1>1, IInvHolds, PTL

----------------------------------------------------------------------------
(* The loop implements Fight, for every value of the constants, when no    *)
(* instruction loses a process: the shared ring behaves as two queues.     *)

\* The queue of a warrior is a sequence of as many addresses as are counted.
QueueIsSeq ==
  \A w \in Warrior :
    /\ numprocesses[w] \in Nat
    /\ queueOf(w) \in Seq(Address)
    /\ Len(queueOf(w)) = numprocesses[w]
    /\ \A i \in 1 .. numprocesses[w] :
         queueOf(w)[i] = pqueue[Behind(head[w], i - 1)]

\* The queue of a warrior is a sequence of addresses.
LEMMA QueuesAreSeqs == IInv => QueueIsSeq
<1> SUFFICES ASSUME IInv, NEW w \in Warrior
             PROVE  /\ numprocesses[w] \in Nat
                    /\ queueOf(w) \in Seq(Address)
                    /\ Len(queueOf(w)) = numprocesses[w]
                    /\ \A i \in 1 .. numprocesses[w] :
                         queueOf(w)[i] = pqueue[Behind(head[w], i - 1)]
  BY DEF QueueIsSeq
<1>1. numprocesses[w] \in Nat
  BY RingAssumption DEF IInv, Sound, TypeOK
<1>2. \A i \in 1 .. numprocesses[w] : i - 1 \in 0 .. numprocesses[w] - 1
  BY <1>1
<1>3. queueOf(w) \in [1 .. numprocesses[w] -> Address]
  BY <1>2 DEF IInv, LiveSlots, queueOf
<1>4. queueOf(w) \in Seq(Address) /\ Len(queueOf(w)) = numprocesses[w]
  BY <1>1, <1>3
<1> QED
  BY <1>1, <1>4 DEF queueOf

\* A turn shifts the queue of the moving warrior, and leaves the other alone.
LEMMA ServeShifts ==
  ASSUME IInv, IInv', NEW w \in Warrior, NEW k \in 0 .. 2, Serve(w, k)
  PROVE  /\ Len(queueOf(w)') = Len(queueOf(w)) - 1 + k
         /\ \A i \in 1 .. Len(queueOf(w)) - 1 : queueOf(w)'[i] = queueOf(w)[i + 1]
         /\ k >= 1 => queueOf(w)'[Len(queueOf(w))] = pqueue'[tail[w]]
         /\ k = 2 => queueOf(w)'[Len(queueOf(w)) + 1] = pqueue'[Wrap(tail[w])]
         /\ \A v \in Warrior : v # w => queueOf(v)' = queueOf(v)
<1> USE RingAssumption
<1>1. /\ \A v \in Warrior : /\ head[v] \in Slot
                            /\ numprocesses[v] \in 1 .. MaxProcesses
      /\ tail[w] \in Slot
      /\ head'[w] = Behind(head[w], 1)
      /\ \A v \in Warrior : v # w => head'[v] = head[v]
      /\ \A j \in 0 .. k : /\ numprocesses[w] + j <= MaxProcesses + 1
                           /\ Behind(tail[w], j) = Behind(head[w], numprocesses[w] + j)
  BY TurnPlaces DEF IInv, Sound, TypeOK
<1>2. /\ numprocesses[w] \in Nat
      /\ Len(queueOf(w)) = numprocesses[w]
      /\ \A i \in 1 .. numprocesses[w] :
           queueOf(w)[i] = pqueue[Behind(head[w], i - 1)]
  BY QueuesAreSeqs DEF QueueIsSeq
<1>3. /\ numprocesses'[w] \in Nat
      /\ Len(queueOf(w)') = numprocesses'[w]
      /\ \A i \in 1 .. numprocesses'[w] :
           queueOf(w)'[i] = pqueue'[Behind(head'[w], i - 1)]
  <2>1. QueueIsSeq'
    BY QueuesAreSeqs, PTL
  <2> QED
    BY <2>1 DEF QueueIsSeq, Behind
<1>4. numprocesses'[w] = numprocesses[w] - 1 + k
      /\ numprocesses'[w] <= MaxProcesses
  BY DEF Serve
<1>5. ASSUME NEW i \in 1 .. numprocesses'[w]
      PROVE  Behind(head'[w], i - 1) = Behind(head[w], i)
  <2>1. 1 \in Nat /\ i - 1 \in Nat /\ 1 + (i - 1) = i /\ i <= RingSize - 1
    BY <1>3, <1>4 DEF RingSize
  <2> QED
    BY <1>1, <2>1, BehindAdds
<1>6. ASSUME NEW i \in 1 .. numprocesses[w] - 1
      PROVE  queueOf(w)'[i] = queueOf(w)[i + 1]
  <2>1. /\ i \in 1 .. numprocesses'[w] /\ i \in 0 .. numprocesses[w] - 1
        /\ i + 1 \in 1 .. numprocesses[w] /\ (i + 1) - 1 = i
    BY <1>2, <1>4
  <2>2. pqueue'[Behind(head[w], i)] = pqueue[Behind(head[w], i)]
    BY <2>1, LiveUnchanged
  <2> QED
    BY <1>2, <1>3, <1>5, <2>1, <2>2
<1>7. ASSUME NEW j \in 0 .. k - 1
      PROVE  queueOf(w)'[numprocesses[w] + j] = pqueue'[Behind(tail[w], j)]
  <2>1. numprocesses[w] + j \in 1 .. numprocesses'[w] /\ j \in 0 .. k
    BY <1>1, <1>4
  <2> QED
    BY <1>1, <1>3, <1>5, <2>1
<1>8. Behind(tail[w], 0) = tail[w] /\ Behind(tail[w], 1) = Wrap(tail[w])
  BY <1>1, WrapIsBehind
<1>9. k >= 1 => queueOf(w)'[numprocesses[w]] = pqueue'[tail[w]]
  <2>1. k >= 1 => 0 \in 0 .. k - 1
    OBVIOUS
  <2>2. numprocesses[w] + 0 = numprocesses[w]
    BY <1>2
  <2> QED
    BY <1>7, <1>8, <2>1, <2>2
<1>10. k = 2 => queueOf(w)'[numprocesses[w] + 1] = pqueue'[Wrap(tail[w])]
  <2>1. k = 2 => 1 \in 0 .. k - 1
    OBVIOUS
  <2> QED
    BY <1>7, <1>8, <2>1
<1>11. ASSUME NEW v \in Warrior, v # w PROVE queueOf(v)' = queueOf(v)
  <2>1. numprocesses'[v] = numprocesses[v] /\ head'[v] = head[v]
    BY <1>1, <1>11 DEF Serve
  <2>2. ASSUME NEW i \in 1 .. numprocesses[v]
        PROVE  pqueue'[Behind(head[v], i - 1)] = pqueue[Behind(head[v], i - 1)]
    <3>1. i - 1 \in 0 .. numprocesses[v] - 1
      BY <1>1
    <3> QED
      BY <3>1, LiveUnchanged
  <2> QED
    BY <2>1, <2>2 DEF queueOf, Behind
<1> QED
  BY <1>2, <1>3, <1>4, <1>6, <1>9, <1>10, <1>11

----------------------------------------------------------------------------

\* A turn of warrior w is a turn of Fight.
LEMMA TurnImplements ==
  ASSUME NoLoss, IInv, IInv', NEW w \in Warrior, Turn(w)
  PROVE  F!Continue(w) \/ F!Split(w) \/ F!Die(w)
<1> DEFINE q == queueOf(w)
<1> USE RingAssumption
<1>1. PICK x \in Address : Continue(w, x) \/ Split(w, x) \/ Die(w)
  <2>1. 0 \in Address
    BY DEF Address
  <2> QED
    BY <2>1 DEF Turn, NoLoss, Lose
<1>2. Fetch(w)
  BY <1>1 DEF Continue, Split, Die
<1>3. tail[w] \in Slot /\ Wrap(tail[w]) \in Slot /\ Wrap(tail[w]) # tail[w]
      /\ pqueue \in [Slot -> Address \cup {NULL}]
  <2>1. tail[w] \in Slot /\ pqueue \in [Slot -> Address \cup {NULL}]
    BY DEF IInv, Sound, TypeOK
  <2>2. \A i \in Slot : Wrap(i) \in Slot /\ Wrap(i) # i
    BY DEF Slot, Wrap, RingSize
  <2> QED
    BY <2>1, <2>2
<1>4. mover = w /\ mover' = F!Opponent(w)
  <2>1. w = Other(pqinfo) /\ pqinfo' = w
    BY <1>2 DEF Fetch
  <2> QED
    BY <2>1 DEF mover, Other, F!Opponent
<1>5. /\ q \in Seq(Address) /\ Len(q) = numprocesses[w]
      /\ numprocesses[w] \in Nat /\ numprocesses[w] > 0 /\ q # <<>>
      /\ q[1] = ip(w)
  <2>1. /\ numprocesses[w] \in Nat /\ q \in Seq(Address)
        /\ Len(q) = numprocesses[w]
        /\ \A i \in 1 .. numprocesses[w] : q[i] = pqueue[Behind(head[w], i - 1)]
    BY QueuesAreSeqs DEF QueueIsSeq
  <2>2. numprocesses[w] > 0
    BY <1>2 DEF Fetch, IInv, Counted
  <2>3. 1 \in 1 .. numprocesses[w] /\ 1 - 1 = 0
    BY <2>1, <2>2
  <2>4. Behind(head[w], 0) = head[w]
    BY WrapIsBehind DEF IInv, Sound, TypeOK
  <2> QED
    BY <2>1, <2>2, <2>3, <2>4 DEF ip
<1>6. queueOf(w)' \in Seq(Address)
  <2>1. QueueIsSeq'
    BY QueuesAreSeqs, PTL
  <2> QED
    BY <2>1 DEF QueueIsSeq
<1>7. queues[w] = q
  BY DEF queues
<1>8. ASSUME NEW k \in 0 .. 2, Serve(w, k)
      PROVE  queues' = [queues EXCEPT ![w] = queueOf(w)']
  <2>1. \A v \in Warrior : v # w => queueOf(v)' = queueOf(v)
    BY <1>8, ServeShifts
  <2> QED
    BY <2>1 DEF queues
<1>9. F!Turn(w)
  <2>1. results' = results /\ round' = round /\ cycle > 0
    BY <1>2 DEF Fetch
  <2>2. insn_counter' - cycle' = insn_counter - cycle + 1
    <3>1. insn_counter \in Nat /\ cycle \in Nat
      BY DEF IInv, Sound, TypeOK
    <3> QED
      BY <1>1, <3>1 DEF Continue, Split, Die
  <2> QED
    BY <1>4, <2>1, <2>2 DEF F!Turn, score
<1>10. ASSUME NEW y \in Address, Append1(w, y), Serve(w, 1)
       PROVE  queues' = [queues EXCEPT ![w] = Append(Tail(q), y)]
  <2>1. pqueue'[tail[w]] = y
    BY <1>3, <1>10 DEF Append1
  <2>2. /\ Len(queueOf(w)') = Len(q)
        /\ \A i \in 1 .. Len(q) - 1 : queueOf(w)'[i] = q[i + 1]
        /\ queueOf(w)'[Len(q)] = y
    BY <1>5, <1>10, <2>1, ServeShifts
  <2>3. queueOf(w)' = Append(Tail(q), y)
    BY <1>5, <1>6, <2>2, ShiftAppend
  <2> QED
    BY <1>8, <1>10, <2>3
<1>11. CASE Continue(w, x)
  <2>1. Serve(w, 1) /\ Append1(w, x) /\ cycle' = cycle - 1
    BY <1>11, OutcomesServe DEF Continue
  <2>2. queues' = [queues EXCEPT ![w] = Append(Tail(@), x)]
    BY <1>7, <1>10, <2>1
  <2>3. F!Continue(w)
    BY <1>9, <2>1, <2>2 DEF F!Continue, F!Address, Address
  <2> QED
    BY <2>3
<1>12. CASE Split(w, x)
  <2> DEFINE y == IpIncMod(ip(w))
  <2>1. y \in Address /\ y = F!Successor(Head(q))
    <3>1. Head(q) = ip(w) /\ ip(w) \in Address
      BY <1>5
    <3> QED
      BY <3>1 DEF IpIncMod, F!Successor, Address
  <2>2. CASE numprocesses[w] < MaxProcesses
    <3>1. Serve(w, 2)
      <4>1. numprocesses'[w] = numprocesses[w] + 1
        BY <1>12, <2>2 DEF Split, IInv, Sound, TypeOK
      <4> QED
        BY <1>5, <1>12, <4>1, OutcomesServe DEF Serve
    <3>2. pqueue'[tail[w]] = y /\ pqueue'[Wrap(tail[w])] = x
      BY <1>3, <1>12, <2>2 DEF Split, Append2
    <3>3. /\ Len(queueOf(w)') = Len(q) + 1
          /\ \A i \in 1 .. Len(q) - 1 : queueOf(w)'[i] = q[i + 1]
          /\ queueOf(w)'[Len(q)] = y /\ queueOf(w)'[Len(q) + 1] = x
      <4>1. /\ Len(queueOf(w)') = Len(q) - 1 + 2
            /\ \A i \in 1 .. Len(q) - 1 : queueOf(w)'[i] = q[i + 1]
            /\ queueOf(w)'[Len(q)] = pqueue'[tail[w]]
            /\ queueOf(w)'[Len(q) + 1] = pqueue'[Wrap(tail[w])]
        BY <3>1, ServeShifts
      <4> QED
        BY <1>5, <3>2, <4>1
    <3>4. queueOf(w)' = Append(Append(Tail(q), y), x)
      BY <1>5, <1>6, <2>1, <3>3, ShiftAppendTwo
    <3>5. queues' = [queues EXCEPT ![w] = Append(Append(Tail(q), y), x)]
      BY <1>8, <3>1, <3>4
    <3>6. F!Split(w)
      BY <1>5, <1>7, <1>9, <1>12, <2>1, <2>2, <3>5
         DEF Split, F!Split, F!Address, Address
    <3> QED
      BY <3>6
  <2>3. CASE ~(numprocesses[w] < MaxProcesses)
    <3>1. Append1(w, y) /\ UNCHANGED numprocesses
      BY <1>12, <2>3 DEF Split
    <3>2. Serve(w, 1)
      BY <1>2, <2>1, <3>1, AppendOneServes
    <3>3. queues' = [queues EXCEPT ![w] = Append(Tail(q), y)]
      BY <1>10, <2>1, <3>1, <3>2
    <3>4. F!Split(w)
      BY <1>5, <1>7, <1>9, <1>12, <2>1, <2>3, <3>3
         DEF Split, F!Split, F!Address, Address
    <3> QED
      BY <3>4
  <2> QED
    BY <2>2, <2>3
<1>13. CASE Die(w)
  <2>1. Serve(w, 0)
    BY <1>13, OutcomesServe
  <2>2. /\ Len(queueOf(w)') = Len(q) - 1
        /\ \A i \in 1 .. Len(q) - 1 : queueOf(w)'[i] = q[i + 1]
    <3>1. /\ Len(queueOf(w)') = Len(q) - 1 + 0
          /\ \A i \in 1 .. Len(q) - 1 : queueOf(w)'[i] = q[i + 1]
      BY <2>1, ServeShifts
    <3> QED
      BY <1>5, <3>1
  <2>3. queueOf(w)' = Tail(q)
    BY <1>5, <1>6, <2>2, ShiftTail
  <2>4. queues' = [queues EXCEPT ![w] = Tail(@)]
    BY <1>7, <1>8, <2>1, <2>3
  <2>5. cycle' = IF Len(queues[w]) = 1 THEN 0 ELSE cycle - 1
    BY <1>5, <1>7, <1>13 DEF Die
  <2>6. F!Die(w)
    BY <1>9, <2>4, <2>5 DEF F!Die
  <2> QED
    BY <2>6
<1> QED
  BY <1>1, <1>11, <1>12, <1>13

----------------------------------------------------------------------------

\* At the start of a round every warrior has one process, at its home slot.
Fresh == /\ numprocesses = [w \in Warrior |-> 1]
         /\ head = [w \in Warrior |-> Home(w)]

FreshQueues == \A w \in Warrior : queueOf(w) = <<pqueue[Home(w)]>>

\* A round starts with queues of one process.
LEMMA FreshHasFreshQueues == Fresh => FreshQueues
<1> SUFFICES ASSUME Fresh, NEW w \in Warrior
             PROVE  queueOf(w) = <<pqueue[Home(w)]>>
  BY DEF FreshQueues
<1>1. queueOf(w) = [k \in 1 .. 1 |-> pqueue[Behind(Home(w), k - 1)]]
  BY DEF Fresh, queueOf
<1>2. Behind(Home(w), 0) = Home(w)
  BY RingAssumption DEF Behind, Home, RingSize
<1>3. \A k \in 1 .. 1 : k - 1 = 0
  OBVIOUS
<1>4. queueOf(w) = [k \in 1 .. 1 |-> pqueue[Home(w)]]
  BY <1>1, <1>2, <1>3
<1> QED
  BY <1>4

\* A fight starts as the abstract one does.
LEMMA InitImplements == Init => F!Init
<1> SUFFICES ASSUME Init PROVE F!Init
  OBVIOUS
<1> USE RingAssumption
<1>1. PICK start \in [Warrior -> Address] :
        pqueue = [i \in Slot |-> IF i = Home(1) THEN start[1]
                                 ELSE IF i = Home(2) THEN start[2] ELSE NULL]
  BY DEF Init
<1>2. \A w \in Warrior : pqueue[Home(w)] = start[w]
  BY <1>1 DEF Slot, RingSize, Home, Warrior
<1>3. queues = [w \in Warrior |-> <<start[w]>>]
  BY <1>2, FreshHasFreshQueues DEF Init, Fresh, FreshQueues, queues
<1>4. F!Start(queues)
  BY <1>3 DEF F!Start, F!Warrior, F!Address, Warrior, Address
<1>5. mover = F!First(0)
  BY DEF Init, mover, First, Other, F!First, F!Opponent
<1>6. score = [r \in F!Result |-> 0]
  BY DEF Init, score, F!Result
<1> QED
  BY <1>4, <1>5, <1>6 DEF Init, F!Init

\* The end of a round is that of the abstract fight.
LEMMA RoundDoneImplements ==
  ASSUME IInv, RoundDone
  PROVE  F!EndRound
<1> USE RingAssumption
<1>1. /\ cycle = 0 /\ round \in Nat /\ round < NumRounds
      /\ round' = round + 1
      /\ results \in [0 .. 3 -> Nat]
  BY DEF RoundDone, IInv, Sound, TypeOK
<1>2. \A w \in Warrior : Len(queues[w]) = numprocesses[w]
  BY QueuesAreSeqs DEF queues, QueueIsSeq
<1>3. /\ Verdict = 0 <=> F!Verdict = "win"
      /\ Verdict = 1 <=> F!Verdict = "loss"
      /\ Verdict = 2 <=> F!Verdict = "tie"
      /\ F!Verdict \in {"win", "loss", "tie"} /\ Verdict \in {0, 1, 2}
  BY <1>2 DEF Verdict, F!Verdict, Warrior
<1>4. score' = [score EXCEPT ![F!Verdict] = @ + 1]
  <2>1. \A v \in {0, 1, 2} : results'[v] = IF v = Verdict THEN results[v] + 1
                                                       ELSE results[v]
    BY <1>1, <1>3 DEF RoundDone
  <2> QED
    BY <1>3, <2>1 DEF score
<1>5. CASE round + 1 < NumRounds
  <2>0. SetUp(round + 1)
    BY <1>5 DEF RoundDone
  <2>1. PICK start \in [Warrior -> Address] :
          pqueue' = [pqueue EXCEPT ![Home(1)] = start[1], ![Home(2)] = start[2]]
    BY <2>0 DEF SetUp
  <2>2. \A w \in Warrior : pqueue'[Home(w)] = start[w]
    BY <2>1 DEF IInv, Sound, TypeOK, Slot, RingSize, Home, Warrior
  <2>3. FreshQueues'
    <3>1. Fresh'
      BY <2>0 DEF SetUp, Fresh
    <3> QED
      BY <3>1, FreshHasFreshQueues, PTL
  <2>4. queues' = [w \in Warrior |-> <<start[w]>>]
    BY <2>2, <2>3 DEF FreshQueues, queues
  <2>5. F!Start(queues')
    BY <2>4 DEF F!Start, F!Warrior, F!Address, Warrior, Address
  <2>6. mover' = F!First(round + 1)
    BY <2>0 DEF SetUp, mover, First, Other, F!First, F!Opponent
  <2>7. /\ cycle' = 2 * MaxCycles
        /\ insn_counter' - cycle' = insn_counter - cycle
    BY <1>1, <2>0 DEF SetUp, IInv, Sound, TypeOK
  <2> QED
    BY <1>1, <1>4, <1>5, <2>5, <2>6, <2>7 DEF F!EndRound
<1>6. CASE ~(round + 1 < NumRounds)
  <2>1. UNCHANGED <<pqueue, head, numprocesses, pqinfo, cycle, insn_counter>>
    BY <1>6 DEF RoundDone
  <2>2. queues' = queues /\ mover' = mover
    BY <2>1 DEF queues, queueOf, Behind, mover
  <2> QED
    BY <1>1, <1>4, <1>6, <2>1, <2>2 DEF F!EndRound
<1> QED
  BY <1>5, <1>6

\* run_94nop and p_run_94nop implement Fight, with either warrior opening.
THEOREM RingImplementsFight == ASSUME NoLoss PROVE Spec => Implements
<1>1. IInv /\ IInv' /\ [Next]_vars => [F!Next]_(F!vars)
  <2> SUFFICES ASSUME IInv, IInv', [Next]_vars PROVE [F!Next]_(F!vars)
    OBVIOUS
  <2>1. CASE RoundDone
    BY <2>1, RoundDoneImplements DEF F!Next
  <2>2. ASSUME NEW w \in Warrior, Turn(w) PROVE F!Next
    <3>1. w \in F!Warrior
      BY DEF Warrior, F!Warrior
    <3> QED
      BY <2>2, <3>1, TurnImplements DEF F!Next
  <2>3. CASE UNCHANGED vars
    BY <2>3 DEF vars, F!vars, queues, queueOf, Behind, mover, score
  <2> QED
    BY <2>1, <2>2, <2>3 DEF Next
<1>2. Spec => []IInv
  BY IInvHolds
<1> QED
  BY <1>1, <1>2, InitImplements, PTL DEF Spec, Implements, F!Spec

----------------------------------------------------------------------------
(* What the ring inherits from Fight, as every implementation of it does:  *)
(* nobody runs out of processes before the round ends, and the warriors    *)
(* take turns.                                                             *)

USE DEF F!FightAssumption

\* How a queue changes in a turn.
LEMMA QueueSteps ==
  ASSUME NEW q \in Seq(F!Address), q # <<>>, NEW x \in F!Address
  PROVE  /\ Tail(q) \in Seq(F!Address)
         /\ Len(Tail(q)) = Len(q) - 1
         /\ Append(Tail(q), x) \in Seq(F!Address)
         /\ Len(Append(Tail(q), x)) = Len(q)
         /\ Append(Tail(q), x) # <<>>
         /\ Head(q) \in F!Address
<1>1. /\ Tail(q) \in Seq(F!Address) /\ Head(q) \in F!Address
      /\ Len(Tail(q)) = Len(q) - 1 /\ Len(q) \in Nat
  OBVIOUS
<1>2. /\ Append(Tail(q), x) \in Seq(F!Address)
      /\ Len(Append(Tail(q), x)) = Len(q)
  BY <1>1
<1>3. Append(Tail(q), x) # <<>>
  BY <1>1
<1> QED
  BY <1>1, <1>2, <1>3

\* The next warrior is a warrior.
LEMMA SuccessorType ==
  ASSUME F!FightAssumption, NEW a \in F!Address
  PROVE  F!Successor(a) \in F!Address
  BY F!FightAssumption DEF F!Address, F!Successor

FightInv == F!TypeOK /\ F!LivingFight /\ F!FairTurns

\* The invariant holds when a fight starts,
LEMMA InitFight ==
  ASSUME F!FightAssumption, F!Init
  PROVE  FightInv
<1>1. PICK s \in [F!Warrior -> F!Address] : queues = [w \in F!Warrior |-> <<s[w]>>]
  BY DEF F!Init, F!Start
<1>2. \A w \in F!Warrior : /\ queues[w] \in Seq(F!Address)
                         /\ Len(queues[w]) = 1 /\ queues[w] # <<>>
  BY <1>1
<1>3. F!First(0) \in F!Warrior
  BY F!FightAssumption DEF F!First, F!Warrior, F!Opponent
<1>4. F!TypeOK
  BY <1>1, <1>2, <1>3, F!FightAssumption DEF F!Init, F!TypeOK
<1>5. F!LivingFight
  <2>1. ASSUME NEW w \in F!Warrior
        PROVE  Len(queues[w]) <= MaxProcesses
    <3>1. Len(queues[w]) = 1
      BY <1>2, Zenon
    <3>2. 1 <= MaxProcesses
      BY F!FightAssumption
    <3> QED
      BY <3>1, <3>2, Zenon
  <2>2. 1 \in F!Warrior
    BY DEF F!Warrior
  <2> QED
    BY <1>2, <2>1, <2>2 DEF F!LivingFight
<1>6. F!FairTurns
  BY F!FightAssumption DEF F!Init, F!FairTurns
<1> QED
  BY <1>4, <1>5, <1>6 DEF FightInv

\* A turn of w, whichever it is, changes the queue of w to a queue new that
\* is empty only if the round is over.
LEMMA TurnFight ==
  ASSUME F!FightAssumption, FightInv, NEW w \in F!Warrior, F!Turn(w),
         NEW new \in Seq(F!Address), Len(new) <= MaxProcesses,
         queues' = [queues EXCEPT ![w] = new],
         cycle' = cycle - 1 \/ cycle' = 0,
         cycle' > 0 => new # <<>>
  PROVE  FightInv'
<1>1. /\ cycle \in 1 .. 2 * MaxCycles /\ mover = w /\ mover' = F!Opponent(w)
      /\ insn_counter' - cycle' = insn_counter - cycle + 1 /\ UNCHANGED <<round, score>>
  BY F!FightAssumption DEF FightInv, F!TypeOK, F!Turn
<1>2. F!TypeOK'
  <2>1. cycle' \in 0 .. 2 * MaxCycles
    BY <1>1, F!FightAssumption
  <2>2. mover' \in F!Warrior
    BY <1>1 DEF F!Warrior, F!Opponent
  <2> QED
    BY <1>1, <2>1, <2>2 DEF FightInv, F!TypeOK
<1>3. F!LivingFight'
  <2>1. \A v \in F!Warrior : queues[v] # <<>>
    BY <1>1 DEF FightInv, F!LivingFight
  <2>2. \A v \in F!Warrior : queues'[v] = IF v = w THEN new ELSE queues[v]
    BY DEF FightInv, F!TypeOK
  <2>3. F!Opponent(w) \in F!Warrior /\ F!Opponent(w) # w
    BY DEF F!Warrior, F!Opponent
  <2>4. \A v \in F!Warrior : Len(queues'[v]) <= MaxProcesses
    BY <2>2 DEF FightInv, F!LivingFight
  <2>5. cycle' > 0 => \A v \in F!Warrior : queues'[v] # <<>>
    BY <2>1, <2>2
  <2>6. queues'[F!Opponent(w)] # <<>>
    BY <2>1, <2>2, <2>3
  <2> QED
    BY <2>3, <2>4, <2>5, <2>6 DEF F!LivingFight
<1>4. F!FairTurns'
  <2> SUFFICES ASSUME cycle' > 0
               PROVE  mover' = F!First(round') <=> cycle' % 2 = 0
    BY DEF F!FairTurns
  <2>1. cycle' = cycle - 1
    OBVIOUS
  <2>2. w = F!First(round) <=> cycle % 2 = 0
    BY <1>1 DEF FightInv, F!FairTurns
  <2>3. F!First(round) \in F!Warrior
    BY F!FightAssumption DEF F!First, F!Warrior, F!Opponent
  <2>4. F!Opponent(w) = F!First(round) <=> w # F!First(round)
    BY <2>3 DEF F!Warrior, F!Opponent
  <2>5. cycle' % 2 = 0 <=> cycle % 2 # 0
    BY <1>1, <2>1, F!FightAssumption
  <2> QED
    BY <1>1, <2>2, <2>4, <2>5
<1> QED
  BY <1>2, <1>3, <1>4 DEF FightInv

\* at the end of a round,
LEMMA EndRoundFight ==
  ASSUME F!FightAssumption, FightInv, F!EndRound
  PROVE  FightInv'
<1>1. /\ round \in Nat /\ round' = round + 1 /\ round' \in 0 .. NumRounds
      /\ cycle = 0
  BY F!FightAssumption DEF FightInv, F!TypeOK, F!EndRound
<1>2. score' \in [F!Result -> Nat] /\ (insn_counter' - cycle') \in Nat
  BY DEF FightInv, F!TypeOK, F!EndRound, F!Verdict, F!Result
<1>3. CASE round' < NumRounds
  <2>1. PICK s \in [F!Warrior -> F!Address] :
          queues' = [w \in F!Warrior |-> <<s[w]>>]
    BY <1>3 DEF F!EndRound, F!Start
  <2>2. \A w \in F!Warrior : /\ queues'[w] \in Seq(F!Address)
                           /\ Len(queues'[w]) = 1 /\ queues'[w] # <<>>
    BY <2>1
  <2>3. F!First(round') \in F!Warrior
    BY F!FightAssumption DEF F!First, F!Warrior, F!Opponent
  <2>4. mover' = F!First(round') /\ cycle' = 2 * MaxCycles
    BY <1>3 DEF F!EndRound
  <2>5. F!TypeOK'
    BY <1>1, <1>2, <2>1, <2>2, <2>3, <2>4, F!FightAssumption DEF F!TypeOK
  <2>6. F!LivingFight'
    <3>1. 1 <= MaxProcesses /\ 1 \in F!Warrior
      BY F!FightAssumption DEF F!Warrior
    <3>2. \A w \in F!Warrior : Len(queues'[w]) <= MaxProcesses
      BY <2>2, <3>1
    <3> QED
      BY <2>2, <3>1, <3>2 DEF F!LivingFight
  <2>7. F!FairTurns'
    BY <2>4, F!FightAssumption DEF F!FairTurns
  <2> QED
    BY <2>5, <2>6, <2>7 DEF FightInv
<1>4. CASE ~(round' < NumRounds)
  <2>1. UNCHANGED <<queues, mover, cycle>>
    BY <1>4 DEF F!EndRound
  <2> QED
    BY <1>1, <1>2, <2>1 DEF FightInv, F!TypeOK, F!LivingFight, F!FairTurns
<1> QED
  BY <1>3, <1>4

\* and after every step.
LEMMA StepFight ==
  ASSUME F!FightAssumption, FightInv, [F!Next]_(F!vars)
  PROVE  FightInv'
<1>1. ASSUME NEW w \in F!Warrior, F!Continue(w)
      PROVE  FightInv'
  <2>1. PICK x \in F!Address : /\ F!Turn(w) /\ cycle' = cycle - 1
                             /\ queues' = [queues EXCEPT ![w] = Append(Tail(@), x)]
    BY <1>1 DEF F!Continue
  <2>2. /\ queues[w] \in Seq(F!Address) /\ queues[w] # <<>>
        /\ Len(queues[w]) <= MaxProcesses
    BY <2>1 DEF FightInv, F!TypeOK, F!LivingFight, F!Turn
  <2> DEFINE new == Append(Tail(queues[w]), x)
  <2>3. new \in Seq(F!Address) /\ Len(new) <= MaxProcesses /\ new # <<>>
    BY <2>2, QueueSteps
  <2>4. queues' = [queues EXCEPT ![w] = new]
    BY <2>1
  <2> HIDE DEF new
  <2> QED
    BY <2>1, <2>3, <2>4, TurnFight
<1>2. ASSUME NEW w \in F!Warrior, F!Split(w)
      PROVE  FightInv'
  <2> DEFINE rest == Append(Tail(queues[w]), F!Successor(Head(queues[w])))
  <2>1. PICK x \in F!Address :
          /\ F!Turn(w) /\ cycle' = cycle - 1
          /\ queues' = [queues EXCEPT ![w] =
                         IF Len(queues[w]) < MaxProcesses THEN Append(rest, x)
                                                         ELSE rest]
    BY <1>2 DEF F!Split
  <2>2. /\ queues[w] \in Seq(F!Address) /\ queues[w] # <<>>
        /\ Len(queues[w]) <= MaxProcesses
    BY <2>1 DEF FightInv, F!TypeOK, F!LivingFight, F!Turn
  <2>3. /\ rest \in Seq(F!Address) /\ Len(rest) = Len(queues[w])
        /\ rest # <<>>
    BY <2>2, QueueSteps, SuccessorType
  <2> DEFINE new == IF Len(queues[w]) < MaxProcesses THEN Append(rest, x)
                                                    ELSE rest
  <2> HIDE DEF rest
  <2>4. /\ Append(rest, x) \in Seq(F!Address)
        /\ Len(Append(rest, x)) = Len(queues[w]) + 1
        /\ Append(rest, x) # <<>> /\ Len(queues[w]) \in Nat
    BY <2>2, <2>3
  <2>5. new \in Seq(F!Address) /\ Len(new) <= MaxProcesses /\ new # <<>>
    BY <2>2, <2>3, <2>4, F!FightAssumption
  <2>6. queues' = [queues EXCEPT ![w] = new]
    BY <2>1
  <2> HIDE DEF new
  <2> QED
    BY <2>1, <2>5, <2>6, TurnFight
<1>3. ASSUME NEW w \in F!Warrior, F!Die(w)
      PROVE  FightInv'
  <2> DEFINE new == Tail(queues[w])
  <2>1. /\ F!Turn(w) /\ queues' = [queues EXCEPT ![w] = new]
        /\ cycle' = IF Len(queues[w]) = 1 THEN 0 ELSE cycle - 1
    BY <1>3 DEF F!Die
  <2>2. /\ queues[w] \in Seq(F!Address) /\ queues[w] # <<>>
        /\ Len(queues[w]) <= MaxProcesses
    BY <2>1 DEF FightInv, F!TypeOK, F!LivingFight, F!Turn
  <2>3. /\ new \in Seq(F!Address) /\ Len(new) = Len(queues[w]) - 1
        /\ Len(queues[w]) \in Nat
    BY <2>2, QueueSteps
  <2> HIDE DEF new
  <2>4. Len(new) <= MaxProcesses
    BY <2>2, <2>3, F!FightAssumption
  <2>5. cycle' > 0 => new # <<>>
    <3>1. Len(<<>>) = 0
      OBVIOUS
    <3>2. CASE Len(queues[w]) = 1
      BY <2>1, <3>2
    <3>3. CASE Len(queues[w]) # 1
      <4>1. Len(new) # 0
        BY <2>3, <3>3
      <4> QED
        BY <3>1, <4>1, Zenon
    <3> QED
      BY <3>2, <3>3
  <2>6. cycle' = cycle - 1 \/ cycle' = 0
    BY <2>1
  <2> QED
    BY <2>1, <2>3, <2>4, <2>5, <2>6, TurnFight
<1>4. CASE F!EndRound
  BY <1>4, EndRoundFight
<1>5. CASE UNCHANGED F!vars
  BY <1>5 DEF F!vars, FightInv, F!TypeOK, F!LivingFight, F!FairTurns
<1> QED
  BY <1>1, <1>2, <1>3, <1>4, <1>5 DEF F!Next

\* Whatever a run function makes of its array: if it implements Fight, a
\* warrior on turn has a process to run, none has too many, one survives
\* every round, and the warriors have had the same number of turns whenever
\* the first mover of the round is on turn.
THEOREM FightIsFair ==
  ASSUME F!FightAssumption PROVE F!Spec => [](F!LivingFight /\ F!FairTurns)
<1>1. FightInv => F!LivingFight /\ F!FairTurns
  BY DEF FightInv
<1> QED
  BY <1>1, InitFight, StepFight, PTL DEF F!Spec

\* The constants of the ring are constants of a fight.
LEMMA RingIsFight == F!FightAssumption
BY RingAssumption

\* The rounds of run_94nop and p_run_94nop are fair fights: a fetch always
\* finds a process of the warrior on turn, no warrior has more than
\* maxprocesses, one of the two survives, and nobody gets a turn too many.
THEOREM RingIsFair ==
  ASSUME NoLoss PROVE Spec => [](F!LivingFight /\ F!FairTurns)
BY RingImplementsFight, RingIsFight, FightIsFair, PTL DEF Implements

----------------------------------------------------------------------------
(* How far run_94nop and p_run_94nop are from their return *)

\* Rounds to fight, and turns left in this one.
Distance == <<NumRounds - round, cycle>>

\* Every step of the loop brings it nearer to its return, whatever the
\* instructions do, and no sequence of distances gets nearer without end.
THEOREM RunGetsNearer ==
  /\ IsWellFoundedOn(Nearer(2), Distances(2))
  /\ Spec => [][(<<Distance', Distance>> \in Nearer(2))]_vars
<1>1. IsWellFoundedOn(Nearer(2), Distances(2))
  BY NearerIsWellFounded
<1>2. Sound => Distance \in [1 .. 2 -> Nat]
  BY RingAssumption DEF Sound, TypeOK, Distance
<1>3. Sound /\ Sound' /\ [Next]_vars
        => [(<<Distance', Distance>> \in Nearer(2))]_vars
  <2> SUFFICES ASSUME Sound, Sound', Next
               PROVE  <<Distance', Distance>> \in Nearer(2)
    OBVIOUS
  <2>1. Distance \in [1 .. 2 -> Nat] /\ Distance' \in [1 .. 2 -> Nat]
    <3>1. (Sound => Distance \in [1 .. 2 -> Nat])'
      BY <1>2, PTL
    <3> QED
      BY <1>2, <3>1
  <2>2. round \in Nat /\ NumRounds \in Nat /\ cycle \in Nat
    BY RingAssumption DEF Sound, TypeOK
  <2>3. \/ NumRounds - round' < NumRounds - round
        \/ round' = round /\ cycle' < cycle
    <3>1. CASE RoundDone
      BY <2>2, <3>1 DEF RoundDone
    <3>2. ASSUME NEW w \in Warrior, Turn(w)
          PROVE  round' = round /\ cycle' < cycle
      BY <2>2, <3>2 DEF Turn, Continue, Split, Die, Lose, Fetch
    <3> QED
      BY <3>1, <3>2 DEF Next
  <2>4. Distance[1] = NumRounds - round /\ Distance[2] = cycle
    BY DEF Distance
  <2>5. Distance'[1] = NumRounds - round' /\ Distance'[2] = cycle'
    BY DEF Distance
  <2> QED
    BY <2>1, <2>3, <2>4, <2>5, NearerOfTwo
<1> QED
  BY <1>1, <1>3, SoundHolds, PTL DEF Spec
=============================================================================
