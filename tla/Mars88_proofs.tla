--------------------------- MODULE Mars88_proofs ---------------------------
(***************************************************************************)
(* Proofs about the loop of run_88 and p_run_88 and about the fights in    *)
(* it, for every core size, process limit, cycle limit and number of       *)
(* rounds.                                                                 *)
(*                                                                         *)
(* The loop: an inductive invariant ties tails, head and cycle to each     *)
(* other, and with it the loop implements Fight.  That needs one           *)
(* assumption about the instructions: none loses a process (NoLoss).  That *)
(* the array is large enough needs none (Sound): a process that is lost    *)
(* leaves a tail behind where the counter would have it.                   *)
(*                                                                         *)
(* Fights between valid warriors: an instruction maps a valid core to a    *)
(* valid one and queues an address, whatever its opcode and modes are, as  *)
(* fields and codes come from the core.  Hence fights stay inside the core *)
(* and never reach the default case of the switch, and a fight is a        *)
(* behaviour of the loop alone, so that what is proved of the loop holds   *)
(* of fights.  Nothing is lost in them if no program has the instruction   *)
(* that loses a process (HarmlessPrograms), since codes are only copied.   *)
(* Last, what a round starts with, and that every fight comes to its end.  *)
(***************************************************************************)
EXTENDS Mars88, Lemmas

NoLoss == "lost" \notin Outcomes

\* A pass through the loop body with a valid instruction that loses no
\* process, and one that loses none; fights and loops made of them.
ValidTurn(c) ==
  /\ copy = c
  /\ \/ \E x \in Address : Continue(RoleOf(c), x) \/ Split(RoleOf(c), x)
     \/ Die(RoleOf(c))

KeepingTurn(c) == ValidTurn(c) \/ (copy = c /\ Invalid(RoleOf(c)))

ValidSpec   == Init /\ [][RoundDone \/ \E c \in 1 .. 4 : ValidTurn(c)]_vars
KeepingSpec == Init /\ [][RoundDone \/ \E c \in 1 .. 4 : KeepingTurn(c)]_vars

\* The processes a queue is said to have are addresses of the core.
LiveSlots ==
  \A role \in Role : \A i \in 1 .. numprocesses[role] :
    pqueue[NextSlot(role) + 2 * (i - 1)] \in Address

\* The inductive invariant.  QueuesCounted fixes each tail from the head, so
\* that HeadWalk bounds all three; LiveSlots follows the array's contents.
HeadWalk == cycle > 0 => head = 2 * MaxCycles - cycle

IInv ==
  /\ TypeOK
  /\ QueuesCounted
  /\ HeadWalk
  /\ LiveSlots
  /\ cycle <= insn_counter

----------------------------------------------------------------------------

\* A fresh round has one process per warrior, in slots 0 and 1.
LEMMA InitIInv == Init => IInv
<1> SUFFICES ASSUME Init PROVE IInv
  OBVIOUS
<1> USE RunAssumption, NullAssumption
<1>1. PICK start \in [Role -> Address] :
        pqueue = [i \in Slot |-> IF i < 2 THEN start[i + 1] ELSE NULL]
  BY DEF Init
<1>2. pqueue[0] \in Address /\ pqueue[1] \in Address
  BY <1>1 DEF Slot, Capacity, Role, Address
<1>3. TypeOK
  <2>1. pqueue \in [Slot -> Address \cup {NULL}]
    BY <1>1 DEF Slot, Role
  <2> QED
    BY <2>1 DEF Init, TypeOK, Role
<1>4. QueuesCounted /\ HeadWalk /\ cycle <= insn_counter
  BY DEF Init, QueuesCounted, HeadWalk, NextSlot, RoleOf, Role
<1>5. LiveSlots
  BY <1>2 DEF Init, LiveSlots, NextSlot, RoleOf, Role
<1> QED
  BY <1>3, <1>4, <1>5 DEF IInv

\* Where the roles stand before and after a turn.  me is the role that moves.
LEMMA TurnPlaces ==
  ASSUME IInv, NEW me \in Role, RoleOf(copy) = me, Fetch
  PROVE  /\ cycle \in Nat /\ cycle > 0 /\ head \in Nat
         /\ head + cycle = 2 * MaxCycles /\ head' = head + 1
         /\ copy' \in 1 .. 4
         /\ RoleOf(copy') # me /\ RoleOf(copy') \in Role
         /\ NextSlot(me) = head /\ NextSlot(me)' = head + 2
         /\ \A role \in Role : role # me =>
              NextSlot(role) = head + 1 /\ NextSlot(role)' = head + 1
         /\ \A role \in Role :
              /\ numprocesses[role] \in 1 .. MaxProcesses
              /\ tail[role] \in Nat
              /\ tail[role] = NextSlot(role) + 2 * numprocesses[role]
BY RunAssumption DEF IInv, TypeOK, QueuesCounted, HeadWalk, Fetch, RoleOf,
   NextSlot, Role

\* A turn takes one process of role me away and appends k new ones.
Serve(me, k) ==
  /\ Fetch
  /\ numprocesses' \in [Role -> 0 .. MaxProcesses]
  /\ numprocesses'[me] = numprocesses[me] - 1 + k
  /\ tail' \in [Role -> Nat]
  /\ tail'[me] = tail[me] + 2 * k
  /\ \A role \in Role : role # me => /\ numprocesses'[role] = numprocesses[role]
                                     /\ tail'[role] = tail[role]
  /\ pqueue' \in [Slot -> Address \cup {NULL}]
  /\ \A i \in Slot : (\A j \in 0 .. k - 1 : i # tail[me] + 2 * j)
                         => pqueue'[i] = pqueue[i]
  /\ \A j \in 0 .. k - 1 : tail[me] + 2 * j \in Slot
                            => pqueue'[tail[me] + 2 * j] \in Address

\* The appended slots and all live slots are slots of the array.
LEMMA ServeInBounds ==
  ASSUME IInv, NEW me \in Role, RoleOf(copy) = me, NEW k \in 0 .. 2,
         Serve(me, k)
  PROVE  /\ \A j \in 0 .. k - 1 : tail[me] + 2 * j \in Slot
         /\ \A role \in Role : \A i \in 1 .. numprocesses[role] :
              NextSlot(role) + 2 * (i - 1) \in Slot
<1>1. Fetch
  BY DEF Serve
<1>2. /\ MaxCycles \in Nat /\ MaxProcesses \in Nat
      /\ head \in 0 .. 2 * MaxCycles - 1
      /\ tail[me] = head + 2 * numprocesses[me]
  BY <1>1, TurnPlaces, RunAssumption
<1>3. ASSUME NEW j \in 0 .. k - 1 PROVE tail[me] + 2 * j \in Slot
  <2>1. numprocesses[me] \in Nat /\ numprocesses[me] + j <= MaxProcesses
    BY <1>1, TurnPlaces, RunAssumption DEF Serve
  <2> QED
    BY <1>2, <2>1 DEF Slot, Capacity
<1>4. ASSUME NEW role \in Role, NEW i \in 1 .. numprocesses[role]
      PROVE  NextSlot(role) + 2 * (i - 1) \in Slot
  <2>1. NextSlot(role) \in {head, head + 1} /\ i - 1 \in 0 .. MaxProcesses - 1
    BY <1>1, TurnPlaces, RunAssumption
  <2> QED
    BY <1>2, <2>1 DEF Slot, Capacity
<1> QED
  BY <1>3, <1>4

\* Such a turn keeps the counts, and all live slots hold addresses.
LEMMA ServeQueues ==
  ASSUME IInv, NEW me \in Role, RoleOf(copy) = me, NEW k \in 0 .. 2,
         Serve(me, k),
         cycle' \in {0, cycle - 1}, numprocesses[me] - 1 + k = 0 => cycle' = 0
  PROVE  QueuesCounted' /\ LiveSlots'
<1>1. Fetch
  BY DEF Serve
<1>2. numprocesses \in [Role -> 0 .. MaxProcesses] /\ tail \in [Role -> Nat]
  BY DEF IInv, TypeOK
<1>3. QueuesCounted'
  <2>1. ASSUME NEW role \in Role
        PROVE  tail'[role] = NextSlot(role)' + 2 * numprocesses'[role]
    <3>1. CASE role = me
      <4>1. /\ tail'[me] = tail[me] + 2 * k
            /\ numprocesses'[me] = numprocesses[me] - 1 + k
        BY <1>2 DEF Serve
      <4> QED
        BY <1>1, <3>1, <4>1, TurnPlaces
    <3>2. CASE role # me
      BY <1>1, <1>2, <3>2, TurnPlaces DEF Serve
    <3> QED
      BY <3>1, <3>2
  <2>2. (cycle > 0 => \A role \in Role : numprocesses[role] > 0)'
    BY <1>1, <1>2, TurnPlaces DEF Serve
  <2>3. (\E role \in Role : numprocesses[role] > 0)'
    <3>1. PICK other \in Role : other # me
      BY DEF Role
    <3> QED
      BY <1>1, <1>2, <3>1, TurnPlaces DEF Serve
  <2> QED
    BY <2>1, <2>2, <2>3 DEF QueuesCounted
<1>4. LiveSlots'
  <2> SUFFICES ASSUME NEW role \in Role, NEW i \in 1 .. numprocesses'[role]
               PROVE  pqueue'[NextSlot(role)' + 2 * (i - 1)] \in Address
    BY DEF LiveSlots
  <2>1. CASE role # me
    <3>1. i \in 1 .. numprocesses[role] /\ NextSlot(role)' = NextSlot(role)
      BY <1>1, <1>2, <2>1, TurnPlaces DEF Serve
    <3>2. NextSlot(role) + 2 * (i - 1) \in Slot
      BY <3>1, ServeInBounds
    <3>3. \A j \in 0 .. k - 1 : NextSlot(role) + 2 * (i - 1) # tail[me] + 2 * j
      BY <1>1, <2>1, <3>1, TurnPlaces
    <3> QED
      BY <3>1, <3>2, <3>3 DEF Serve, IInv, LiveSlots
  <2>2. CASE role = me /\ i < numprocesses[me]
    <3>1. i + 1 \in 1 .. numprocesses[me]
           /\ NextSlot(me)' + 2 * (i - 1) = NextSlot(me) + 2 * ((i + 1) - 1)
      BY <1>1, <2>2, TurnPlaces
    <3>2. NextSlot(me) + 2 * ((i + 1) - 1) \in Slot
      BY <3>1, ServeInBounds
    <3>3. \A j \in 0 .. k - 1 : NextSlot(me) + 2 * ((i + 1) - 1) # tail[me] + 2 * j
      BY <1>1, <2>2, <3>1, TurnPlaces
    <3>4. pqueue[NextSlot(me) + 2 * ((i + 1) - 1)] \in Address
      BY <3>1 DEF IInv, LiveSlots
    <3> QED
      BY <2>2, <3>1, <3>2, <3>3, <3>4 DEF Serve
  <2>3. CASE role = me /\ i >= numprocesses[me]
    <3> DEFINE j == i - numprocesses[me]
    <3>1. j \in 0 .. k - 1 /\ NextSlot(me)' + 2 * (i - 1) = tail[me] + 2 * j
      <4>1. numprocesses'[me] = numprocesses[me] - 1 + k
        BY <1>2 DEF Serve
      <4> QED
        BY <1>1, <2>3, <4>1, TurnPlaces
    <3>2. tail[me] + 2 * j \in Slot
      BY <3>1, ServeInBounds
    <3> QED
      BY <2>3, <3>1, <3>2 DEF Serve
  <2> QED
    BY <1>1, <2>1, <2>2, <2>3, TurnPlaces DEF Serve
<1> QED
  BY <1>3, <1>4

----------------------------------------------------------------------------

\* A turn that appends one address and leaves the counter alone.
LEMMA AppendOneServes ==
  ASSUME IInv, NEW me \in Role, RoleOf(copy) = me, NEW y \in Address,
         Fetch, Append1(me, y), UNCHANGED numprocesses
  PROVE  Serve(me, 1)
<1>1. /\ numprocesses \in [Role -> 0 .. MaxProcesses]
      /\ tail \in [Role -> Nat]
      /\ pqueue \in [Slot -> Address \cup {NULL}]
  BY DEF IInv, TypeOK
<1>2. numprocesses[me] \in Nat /\ numprocesses[me] <= MaxProcesses
  BY <1>1, RunAssumption
<1>3. numprocesses' = numprocesses /\ numprocesses'[me] = numprocesses[me] - 1 + 1
  BY <1>1, <1>2
<1>4. /\ tail' \in [Role -> Nat] /\ tail'[me] = tail[me] + 2 * 1
      /\ \A role \in Role : role # me => tail'[role] = tail[role]
  BY <1>1 DEF Append1
<1>5. /\ pqueue' \in [Slot -> Address \cup {NULL}]
      /\ \A i \in Slot : i # tail[me] => pqueue'[i] = pqueue[i]
      /\ tail[me] \in Slot => pqueue'[tail[me]] = y
  BY <1>1 DEF Append1
<1>6. \A i \in 0 .. 1 - 1 : i = 0
  OBVIOUS
<1>7. tail[me] \in Nat /\ tail[me] + 2 * 0 = tail[me] /\ 0 \in 0 .. 1 - 1
  BY <1>1
<1> QED
  BY <1>1, <1>2, <1>3, <1>4, <1>5, <1>6, <1>7 DEF Serve

\* Each outcome but a lost process is such a turn.
LEMMA OutcomesServe ==
  ASSUME IInv, NEW me \in Role, RoleOf(copy) = me, NEW x \in Address
  PROVE  /\ Continue(me, x) => Serve(me, 1)
         /\ Split(me, x) => \E k \in {1, 2} : Serve(me, k)
         /\ Die(me) => Serve(me, 0)
         /\ Invalid(me) => Serve(me, 1)
<1> USE RunAssumption
<1>1. /\ numprocesses \in [Role -> 0 .. MaxProcesses]
      /\ tail \in [Role -> Nat]
      /\ pqueue \in [Slot -> Address \cup {NULL}]
      /\ cycle > 0 => numprocesses[me] > 0
  BY DEF IInv, TypeOK, QueuesCounted
<1>2. cycle > 0 => ip \in Address
  <2>1. NextSlot(me) = head /\ head \in Nat /\ head + 2 * (1 - 1) = head
    BY DEF NextSlot, IInv, TypeOK
  <2>2. cycle > 0 => 1 \in 1 .. numprocesses[me]
    BY <1>1
  <2> QED
    BY <2>1, <2>2 DEF IInv, LiveSlots, ip
<1>3. cycle > 0 => IpIncMod(ip) \in Address
  BY <1>2 DEF IpIncMod, Address
<1>4. Continue(me, x) => Serve(me, 1)
  BY AppendOneServes DEF Continue
<1>5. ASSUME Split(me, x) PROVE \E k \in {1, 2} : Serve(me, k)
  <2>0. Fetch /\ IpIncMod(ip) \in Address
    BY <1>3, <1>5 DEF Split, Fetch
  <2>1. CASE numprocesses[me] < MaxProcesses
    <3>1. /\ numprocesses' = [numprocesses EXCEPT ![me] = @ + 1]
          /\ pqueue' = [pqueue EXCEPT ![tail[me]] = IpIncMod(ip),
                                      ![tail[me] + 2] = x]
          /\ tail' = [tail EXCEPT ![me] = @ + 4]
      BY <1>5, <2>1 DEF Split, Append2
    <3>2. numprocesses[me] \in Nat /\ tail[me] \in Nat
      BY <1>1
    <3>3. /\ numprocesses' \in [Role -> 0 .. MaxProcesses]
          /\ numprocesses'[me] = numprocesses[me] - 1 + 2
          /\ tail' \in [Role -> Nat]
          /\ tail'[me] = tail[me] + 2 * 2
          /\ \A role \in Role : role # me =>
               numprocesses'[role] = numprocesses[role] /\ tail'[role] = tail[role]
      BY <1>1, <2>1, <3>1, <3>2
    <3>4. pqueue' \in [Slot -> Address \cup {NULL}]
      BY <1>1, <2>0, <3>1
    <3>5. \A i \in Slot : i # tail[me] /\ i # tail[me] + 2
                           => pqueue'[i] = pqueue[i]
      BY <1>1, <3>1
    <3>6. /\ tail[me] \in Slot => pqueue'[tail[me]] \in Address
          /\ tail[me] + 2 \in Slot => pqueue'[tail[me] + 2] \in Address
      BY <1>1, <2>0, <3>1, <3>2
    <3>7. /\ \A j \in 0 .. 2 - 1 : j = 0 \/ j = 1
          /\ 0 \in 0 .. 2 - 1 /\ 1 \in 0 .. 2 - 1
          /\ tail[me] + 2 * 0 = tail[me] /\ tail[me] + 2 * 1 = tail[me] + 2
      BY <3>2
    <3>8. Serve(me, 2)
      BY <2>0, <3>3, <3>4, <3>5, <3>6, <3>7 DEF Serve
    <3> QED
      BY <3>8
  <2>2. CASE ~(numprocesses[me] < MaxProcesses)
    BY <1>5, <2>0, <2>2, AppendOneServes DEF Split
  <2> QED
    BY <2>1, <2>2
<1>6. ASSUME Die(me) PROVE Serve(me, 0)
  <2>1. /\ numprocesses[me] \in Nat /\ tail[me] \in Nat
        /\ numprocesses[me] > 0
        /\ 0 .. 0 - 1 = {}
    BY <1>1, <1>6 DEF Die, Fetch
  <2>2. /\ numprocesses' \in [Role -> 0 .. MaxProcesses]
        /\ numprocesses'[me] = numprocesses[me] - 1 + 0
        /\ \A role \in Role : role # me => numprocesses'[role] = numprocesses[role]
    BY <1>1, <1>6, <2>1 DEF Die
  <2>3. tail' = tail /\ tail'[me] = tail[me] + 2 * 0
    BY <1>1, <1>6, <2>1 DEF Die
  <2> QED
    BY <1>1, <1>6, <2>1, <2>2, <2>3 DEF Die, Serve
<1>7. Invalid(me) => Serve(me, 1)
  BY <1>3, AppendOneServes DEF Invalid, Fetch
<1> QED
  BY <1>4, <1>5, <1>6, <1>7

\* Every turn keeps the inductive invariant, unless it loses a process.
LEMMA TurnIInv ==
  ASSUME IInv, NEW c \in 1 .. 4, KeepingTurn(c)
  PROVE  IInv'
<1> DEFINE me == RoleOf(c)
<1> USE RunAssumption
<1>1. me \in Role /\ RoleOf(copy) = me /\ copy = c
  BY DEF KeepingTurn, ValidTurn, RoleOf, Role
<1>2. PICK x \in Address : Continue(me, x) \/ Split(me, x) \/ Die(me) \/ Invalid(me)
  <2>1. 0 \in Address
    BY DEF Address
  <2> QED
    BY <2>1 DEF KeepingTurn, ValidTurn
<1>3. PICK k \in 0 .. 2 : Serve(me, k)
  BY <1>1, <1>2, OutcomesServe
<1>4. /\ Fetch
      /\ cycle' \in {0, cycle - 1}
      /\ insn_counter' \in Nat /\ cycle' <= insn_counter'
      /\ results' \in [0 .. 4 -> Nat]
      /\ round' = round
      /\ numprocesses'[me] = 0 => cycle' = 0
  <2>0. /\ cycle \in Nat /\ insn_counter \in Nat /\ cycle <= insn_counter
        /\ results \in [0 .. 4 -> Nat]
        /\ numprocesses \in [Role -> 0 .. MaxProcesses]
        /\ cycle > 0 => numprocesses[me] > 0
    BY <1>1 DEF IInv, TypeOK, QueuesCounted
  <2>1. CASE Continue(me, x)
    BY <1>1, <2>0, <2>1 DEF Continue, Fetch
  <2>2. CASE Split(me, x)
    BY <1>1, <2>0, <2>2 DEF Split, Fetch
  <2>3. CASE Die(me)
    BY <1>1, <2>0, <2>3 DEF Die, Fetch
  <2>4. CASE Invalid(me)
    BY <1>1, <2>0, <2>4 DEF Invalid, Fetch
  <2> QED
    BY <1>2, <2>1, <2>2, <2>3, <2>4
<1>5. /\ numprocesses'[me] = numprocesses[me] - 1 + k
      /\ numprocesses' \in [Role -> 0 .. MaxProcesses]
      /\ tail' \in [Role -> Nat]
      /\ pqueue' \in [Slot -> Address \cup {NULL}]
  BY <1>1, <1>3, <1>4, TurnPlaces DEF Serve, IInv, TypeOK
<1>6. QueuesCounted' /\ LiveSlots'
  BY <1>1, <1>3, <1>4, <1>5, ServeQueues
<1>7. TypeOK' /\ HeadWalk'
  BY <1>1, <1>4, <1>5, TurnPlaces DEF IInv, TypeOK, HeadWalk
<1> QED
  BY <1>4, <1>6, <1>7 DEF IInv

\* The end of a round keeps it: the next one starts with fresh queues.
LEMMA RoundDoneIInv ==
  ASSUME IInv, RoundDone
  PROVE  IInv'
<1> USE RunAssumption
<1>1. results' \in [0 .. 4 -> Nat] /\ round' \in 0 .. NumRounds
  BY DEF RoundDone, Verdict, IInv, TypeOK
<1>2. CASE round + 1 < NumRounds
  <2>1. PICK start \in [Role -> Address] : SetUp(round + 1, start)
    BY <1>2 DEF RoundDone
  <2>2. /\ pqueue' \in [Slot -> Address \cup {NULL}]
        /\ pqueue'[0] \in Address /\ pqueue'[1] \in Address
    <3>1. /\ start[WarriorOf(1, round + 1)] \in Address
          /\ start[WarriorOf(2, round + 1)] \in Address
      BY DEF WarriorOf, Role
    <3> QED
      BY <2>1, <3>1 DEF SetUp, IInv, TypeOK, Slot, Capacity
  <2>3. TypeOK'
    BY <1>1, <2>1, <2>2 DEF SetUp, IInv, TypeOK, Role
  <2>4. QueuesCounted' /\ HeadWalk' /\ (cycle <= insn_counter)'
    BY <2>1 DEF SetUp, QueuesCounted, HeadWalk, NextSlot, RoleOf, Role, IInv,
       TypeOK
  <2>5. LiveSlots'
    BY <2>1, <2>2 DEF SetUp, LiveSlots, NextSlot, RoleOf, Role
  <2> QED
    BY <2>3, <2>4, <2>5 DEF IInv
<1>3. CASE ~(round + 1 < NumRounds)
  BY <1>1, <1>3 DEF RoundDone, IInv, TypeOK, QueuesCounted, HeadWalk,
     LiveSlots, NextSlot
<1> QED
  BY <1>2, <1>3

\* If no instruction loses a process, the inductive invariant always holds.
LEMMA IInvHolds == KeepingSpec => []IInv
<1> DEFINE KeepingNext == RoundDone \/ \E c \in 1 .. 4 : KeepingTurn(c)
<1>1. IInv /\ [KeepingNext]_vars => IInv'
  <2> SUFFICES ASSUME IInv, [KeepingNext]_vars PROVE IInv'
    OBVIOUS
  <2>1. CASE RoundDone
    BY <2>1, RoundDoneIInv
  <2>2. ASSUME NEW c \in 1 .. 4, KeepingTurn(c) PROVE IInv'
    BY <2>2, TurnIInv
  <2>3. CASE UNCHANGED vars
    BY <2>3 DEF vars, IInv, TypeOK, QueuesCounted, HeadWalk, LiveSlots, NextSlot
  <2> QED
    BY <2>1, <2>2, <2>3
<1> QED
  BY <1>1, InitIInv, PTL DEF KeepingSpec

\* The loop loses no process if no instruction has that outcome.
LEMMA NoLossKeeps == ASSUME NoLoss PROVE Spec => KeepingSpec
<1>1. ASSUME NEW c, Turn(c) PROVE KeepingTurn(c)
  BY <1>1 DEF Turn, NoLoss, Lose, KeepingTurn, ValidTurn
<1>2. Next => RoundDone \/ \E c \in 1 .. 4 : KeepingTurn(c)
  BY <1>1 DEF Next
<1> QED
  BY <1>2, PTL DEF Spec, KeepingSpec

\* A fetched slot is one that its warrior filled in this round.
LEMMA StaleFreeState == IInv => NoStaleFetch
<1> SUFFICES ASSUME IInv, cycle > 0
             PROVE  head < tail[RoleOf(copy)] /\ ip \in Address
  BY DEF NoStaleFetch
<1>1. RoleOf(copy) \in Role /\ NextSlot(RoleOf(copy)) = head
  BY DEF RoleOf, Role, NextSlot
<1>2. numprocesses[RoleOf(copy)] > 0
  BY <1>1 DEF IInv, QueuesCounted
<1>3. head < tail[RoleOf(copy)]
  BY <1>1, <1>2, RunAssumption DEF IInv, TypeOK, QueuesCounted
<1>4. ip \in Address
  BY <1>1, <1>2, RunAssumption DEF IInv, TypeOK, LiveSlots, ip
<1> QED
  BY <1>3, <1>4

\* Types, and the queue counters that both loops rely on to end a round.
THEOREM CountsCorrect ==
  ASSUME NoLoss PROVE Spec => [](TypeOK /\ QueuesCounted)
<1>1. IInv => TypeOK /\ QueuesCounted
  BY DEF IInv
<1> QED
  BY <1>1, IInvHolds, NoLossKeeps, PTL

\* No turn fetches a slot that its warrior did not fill in this round.
THEOREM NothingStale == ASSUME NoLoss PROVE Spec => []NoStaleFetch
  BY StaleFreeState, IInvHolds, NoLossKeeps, PTL

----------------------------------------------------------------------------
(* What holds of all instructions, those that lose a process included:     *)
(* then a tail may be behind what the counter says, but never before it.   *)

Sound ==
  /\ TypeOK
  /\ HeadWalk
  /\ \A role \in Role : tail[role] <= NextSlot(role) + 2 * numprocesses[role]
  /\ cycle > 0 => \A role \in Role : numprocesses[role] > 0
  /\ cycle <= insn_counter

\* The loop body changes a tail and a counter so that the tail stays at or
\* before the slot the counter says.
LEMMA TurnSound ==
  ASSUME Sound, NEW c \in 1 .. 4, Turn(c)
  PROVE  Sound'
<1> DEFINE me == RoleOf(c)
<1> USE RunAssumption
<1>1. me \in Role /\ RoleOf(copy) = me /\ copy = c
  BY DEF Turn, RoleOf, Role
<1>2. PICK x \in Address :
        Continue(me, x) \/ Split(me, x) \/ Die(me) \/ Lose \/ Invalid(me)
  <2>1. 0 \in Address
    BY DEF Address
  <2> QED
    BY <2>1 DEF Turn
<1>3. /\ cycle \in 1 .. 2 * MaxCycles /\ insn_counter \in Nat
      /\ cycle <= insn_counter /\ results \in [0 .. 4 -> Nat]
      /\ numprocesses \in [Role -> 0 .. MaxProcesses]
      /\ numprocesses[me] \in 1 .. MaxProcesses
      /\ tail \in [Role -> Nat] /\ pqueue \in [Slot -> Address \cup {NULL}]
      /\ head \in Nat /\ head = 2 * MaxCycles - cycle
  BY <1>1, <1>2
     DEF Sound, TypeOK, HeadWalk, Continue, Split, Die, Lose, Invalid, Fetch
<1>4. Fetch
  BY <1>2 DEF Continue, Split, Die, Lose, Invalid
<1>5. ip \in Address /\ IpIncMod(ip) \in Address
  <2>1. head \in Slot
    BY <1>3 DEF Slot, Capacity
  <2> QED
    BY <1>3, <1>4, <2>1 DEF Fetch, ip, IpIncMod, Address
<1>6. /\ cycle' \in {0, cycle - 1}
      /\ insn_counter' \in Nat /\ cycle' <= insn_counter'
      /\ results' \in [0 .. 4 -> Nat]
  <2>1. CASE Die(me)
    BY <1>3, <2>1 DEF Die
  <2>2. CASE Continue(me, x) \/ Split(me, x) \/ Lose \/ Invalid(me)
    BY <1>3, <2>2 DEF Continue, Split, Lose, Invalid
  <2> QED
    BY <1>2, <2>1, <2>2
<1>7. \E k, n \in 0 .. 2 :
        /\ tail' = [tail EXCEPT ![me] = @ + 2 * k]
        /\ numprocesses' = [numprocesses EXCEPT ![me] = @ - 1 + n]
        /\ k <= n /\ numprocesses[me] - 1 + n <= MaxProcesses
        /\ cycle' > 0 => numprocesses[me] - 1 + n > 0
        /\ pqueue' \in [Slot -> Address \cup {NULL}]
  <2> DEFINE Change(k, n) ==
        /\ tail' = [tail EXCEPT ![me] = @ + 2 * k]
        /\ numprocesses' = [numprocesses EXCEPT ![me] = @ - 1 + n]
        /\ k <= n /\ numprocesses[me] - 1 + n <= MaxProcesses
        /\ cycle' > 0 => numprocesses[me] - 1 + n > 0
        /\ pqueue' \in [Slot -> Address \cup {NULL}]
  <2>0. /\ numprocesses = [numprocesses EXCEPT ![me] = @ - 1 + 1]
        /\ tail = [tail EXCEPT ![me] = @ + 2 * 0]
    BY <1>1, <1>3
  <2>1. ASSUME NEW y \in Address, Append1(me, y), UNCHANGED numprocesses
        PROVE  Change(1, 1)
    <3>1. tail' = [tail EXCEPT ![me] = @ + 2 * 1]
      BY <2>1 DEF Append1
    <3>2. numprocesses' = [numprocesses EXCEPT ![me] = @ - 1 + 1]
      BY <2>0, <2>1
    <3>3. pqueue' \in [Slot -> Address \cup {NULL}]
      BY <1>3, <2>1 DEF Append1
    <3>4. numprocesses[me] - 1 + 1 \in 1 .. MaxProcesses
      BY <1>3
    <3> QED
      BY <3>1, <3>2, <3>3, <3>4
  <2>2. CASE Continue(me, x) \/ Invalid(me)
    BY <1>5, <2>1, <2>2 DEF Continue, Invalid
  <2>3. CASE Split(me, x) /\ numprocesses[me] < MaxProcesses
    <3>1. Change(2, 2)
      BY <1>1, <1>3, <1>5, <2>3 DEF Split, Append2
    <3> QED
      BY <3>1
  <2>4. CASE Split(me, x) /\ ~(numprocesses[me] < MaxProcesses)
    BY <1>5, <2>1, <2>4 DEF Split
  <2>5. CASE Die(me)
    <3>1. Change(0, 0)
      <4>1. numprocesses' = [numprocesses EXCEPT ![me] = @ - 1 + 0]
        <5>1. numprocesses[me] - 1 + 0 = numprocesses[me] - 1
          BY <1>3
        <5> QED
          BY <2>5, <5>1, Zenon DEF Die
      <4>2. tail' = [tail EXCEPT ![me] = @ + 2 * 0] /\ pqueue' = pqueue
        BY <2>0, <2>5 DEF Die
      <4>3. cycle' > 0 => numprocesses[me] - 1 + 0 > 0
        BY <1>3, <2>5 DEF Die
      <4> QED
        BY <1>3, <4>1, <4>2, <4>3
    <3> QED
      BY <3>1
  <2>6. CASE Lose
    <3>1. Change(0, 1)
      BY <1>1, <1>3, <2>0, <2>6 DEF Lose
    <3> QED
      BY <3>1
  <2> QED
    BY <1>2, <2>2, <2>3, <2>4, <2>5, <2>6
<1>8. PICK k \in 0 .. 2, n \in 0 .. 2 :
        /\ tail' = [tail EXCEPT ![me] = @ + 2 * k]
        /\ numprocesses' = [numprocesses EXCEPT ![me] = @ - 1 + n]
        /\ k <= n /\ numprocesses[me] - 1 + n <= MaxProcesses
        /\ cycle' > 0 => numprocesses[me] - 1 + n > 0
        /\ pqueue' \in [Slot -> Address \cup {NULL}]
  BY <1>7
<1>9. /\ tail' \in [Role -> Nat] /\ numprocesses' \in [Role -> 0 .. MaxProcesses]
      /\ tail'[me] = tail[me] + 2 * k
      /\ numprocesses'[me] = numprocesses[me] - 1 + n
      /\ \A role \in Role : role # me => /\ tail'[role] = tail[role]
                                         /\ numprocesses'[role] = numprocesses[role]
  BY <1>1, <1>3, <1>8
<1>10. /\ head' = head + 1 /\ copy' \in 1 .. 4 /\ round' = round
       /\ NextSlot(me) = head /\ NextSlot(me)' = head + 2
       /\ \A role \in Role : role # me =>
            NextSlot(role) = head + 1 /\ NextSlot(role)' = head + 1
  BY <1>1, <1>3, <1>4 DEF Fetch, NextSlot, RoleOf, Role
<1>11. \A role \in Role :
         (tail[role] <= NextSlot(role) + 2 * numprocesses[role])'
  <2>1. tail'[me] <= NextSlot(me)' + 2 * numprocesses'[me]
    <3>1. tail[me] \in Nat /\ tail[me] <= head + 2 * numprocesses[me]
      BY <1>1, <1>3, <1>10 DEF Sound
    <3> QED
      BY <1>3, <1>8, <1>9, <1>10, <3>1
  <2>2. ASSUME NEW role \in Role, role # me
        PROVE  tail'[role] <= NextSlot(role)' + 2 * numprocesses'[role]
    BY <1>9, <1>10, <2>2 DEF Sound
  <2> QED
    BY <2>1, <2>2
<1>12. (cycle > 0 => \A role \in Role : numprocesses[role] > 0)'
  BY <1>1, <1>3, <1>8, <1>9 DEF Sound
<1>13. TypeOK' /\ HeadWalk'
  <2>1. head' \in 0 .. 2 * MaxCycles /\ cycle' \in 0 .. 2 * MaxCycles /\ HeadWalk'
    <3>1. head' = 2 * MaxCycles - cycle + 1
      BY <1>3, <1>10
    <3>2. CASE cycle' = 0
      BY <1>3, <3>1, <3>2 DEF HeadWalk
    <3>3. CASE cycle' = cycle - 1
      BY <1>3, <3>1, <3>3 DEF HeadWalk
    <3> QED
      BY <1>6, <3>2, <3>3
  <2> QED
    BY <1>6, <1>8, <1>9, <1>10, <2>1 DEF Sound, TypeOK
<1> QED
  BY <1>6, <1>11, <1>12, <1>13 DEF Sound

\* The next round starts with fresh queues.
LEMMA RoundDoneSound ==
  ASSUME Sound, RoundDone
  PROVE  Sound'
<1> USE RunAssumption
<1>1. results' \in [0 .. 4 -> Nat] /\ round' \in 0 .. NumRounds
  BY DEF RoundDone, Verdict, Sound, TypeOK
<1>2. CASE round + 1 < NumRounds
  <2>1. PICK start \in [Role -> Address] : SetUp(round + 1, start)
    BY <1>2 DEF RoundDone
  <2>2. /\ start[WarriorOf(1, round + 1)] \in Address
        /\ start[WarriorOf(2, round + 1)] \in Address
    BY DEF WarriorOf, Role
  <2>3. pqueue' \in [Slot -> Address \cup {NULL}]
    BY <2>1, <2>2 DEF SetUp, Sound, TypeOK
  <2> QED
    BY <1>1, <2>1, <2>3
       DEF SetUp, Sound, TypeOK, HeadWalk, NextSlot, RoleOf, Role
<1>3. CASE ~(round + 1 < NumRounds)
  BY <1>1, <1>3 DEF RoundDone, Sound, TypeOK, HeadWalk, NextSlot
<1> QED
  BY <1>2, <1>3

\* Whatever the instructions do, no tail is behind what the counter says.
LEMMA SoundHolds == Spec => []Sound
<1>1. Init => Sound
  <2>1. IInv => Sound
    BY RunAssumption DEF IInv, Sound, QueuesCounted, TypeOK, NextSlot, RoleOf, Role
  <2> QED
    BY <2>1, InitIInv
<1>2. Sound /\ [Next]_vars => Sound'
  <2> SUFFICES ASSUME Sound, [Next]_vars PROVE Sound'
    OBVIOUS
  <2>1. CASE RoundDone
    BY <2>1, RoundDoneSound
  <2>2. ASSUME NEW c \in 1 .. 4, Turn(c) PROVE Sound'
    BY <2>2, TurnSound
  <2>3. CASE UNCHANGED vars
    BY <2>3 DEF vars, Sound, TypeOK, HeadWalk, NextSlot
  <2> QED
    BY <2>1, <2>2, <2>3 DEF Next
<1> QED
  BY <1>1, <1>2, PTL DEF Spec

\* The unchecked reads and appends of a whole round fit into the array of
\* 2 * (maxcycles + maxprocesses) pointers, for every value of the two and
\* whatever the instructions do.
THEOREM ArrayLargeEnough == Spec => []NoOverrun
<1>1. Sound => NoOverrun
  <2> SUFFICES ASSUME Sound, cycle > 0
               PROVE  LET role == RoleOf(copy)
                      IN  /\ head < Capacity
                          /\ tail[role] < Capacity
                          /\ numprocesses[role] < MaxProcesses
                               => tail[role] + 2 < Capacity
    BY DEF NoOverrun
  <2>1. RoleOf(copy) \in Role /\ NextSlot(RoleOf(copy)) = head
    BY DEF RoleOf, Role, NextSlot
  <2> QED
    BY <2>1, RunAssumption DEF Sound, TypeOK, HeadWalk, Capacity
<1> QED
  BY <1>1, SoundHolds, PTL

----------------------------------------------------------------------------
(* The loop implements Fight, for every value of the constants, when all   *)
(* instructions are valid ones and none loses a process.                   *)

ValidOnly == Outcomes \subseteq {"continue", "split", "die"}

\* The queue of a role is a sequence of as many addresses as are counted.
QueueIsSeq ==
  \A role \in Role :
    /\ numprocesses[role] \in Nat
    /\ Queue(role) \in Seq(Address)
    /\ Len(Queue(role)) = numprocesses[role]
    /\ \A i \in 1 .. numprocesses[role] :
         Queue(role)[i] = pqueue[NextSlot(role) + 2 * (i - 1)]

\* The queue of a warrior is a sequence of addresses.
LEMMA QueuesAreSeqs == IInv => QueueIsSeq
<1> SUFFICES ASSUME IInv, NEW role \in Role
             PROVE  /\ numprocesses[role] \in Nat
                    /\ Queue(role) \in Seq(Address)
                    /\ Len(Queue(role)) = numprocesses[role]
                    /\ \A i \in 1 .. numprocesses[role] :
                         Queue(role)[i] = pqueue[NextSlot(role) + 2 * (i - 1)]
  BY DEF QueueIsSeq
<1>1. numprocesses[role] \in Nat
  BY RunAssumption DEF IInv, TypeOK
<1>2. Queue(role) \in [1 .. numprocesses[role] -> Address]
  BY DEF IInv, LiveSlots, Queue
<1>3. Queue(role) \in Seq(Address) /\ Len(Queue(role)) = numprocesses[role]
  BY <1>1, <1>2
<1> QED
  BY <1>1, <1>3 DEF Queue

\* A turn shifts the queue of the moving role, and leaves the other alone.
LEMMA ServeShifts ==
  ASSUME IInv, IInv', NEW me \in Role, RoleOf(copy) = me, NEW k \in 0 .. 2,
         Serve(me, k)
  PROVE  /\ Len(Queue(me)') = Len(Queue(me)) - 1 + k
         /\ \A i \in 1 .. Len(Queue(me)) - 1 : Queue(me)'[i] = Queue(me)[i + 1]
         /\ k >= 1 => Queue(me)'[Len(Queue(me))] = pqueue'[tail[me]]
         /\ k = 2 => Queue(me)'[Len(Queue(me)) + 1] = pqueue'[tail[me] + 2]
         /\ \A role \in Role : role # me => Queue(role)' = Queue(role)
<1>1. Fetch
  BY DEF Serve
<1>2. /\ numprocesses[me] \in Nat
      /\ Len(Queue(me)) = numprocesses[me]
      /\ \A i \in 1 .. numprocesses[me] :
           Queue(me)[i] = pqueue[NextSlot(me) + 2 * (i - 1)]
  BY QueuesAreSeqs DEF QueueIsSeq
<1>3. /\ numprocesses'[me] \in Nat
      /\ Len(Queue(me)') = numprocesses'[me]
      /\ \A i \in 1 .. numprocesses'[me] :
           Queue(me)'[i] = pqueue'[NextSlot(me)' + 2 * (i - 1)]
  <2>1. QueueIsSeq'
    BY QueuesAreSeqs, PTL
  <2> QED
    BY <2>1 DEF QueueIsSeq
<1>4. numprocesses'[me] = numprocesses[me] - 1 + k
  BY DEF Serve
<1>5. ASSUME NEW i \in 1 .. numprocesses[me] - 1
      PROVE  Queue(me)'[i] = Queue(me)[i + 1]
  <2>1. NextSlot(me)' + 2 * (i - 1) = NextSlot(me) + 2 * ((i + 1) - 1)
    BY <1>1, TurnPlaces
  <2>2. i + 1 \in 1 .. numprocesses[me] /\ i \in 1 .. numprocesses'[me]
    BY <1>2, <1>4
  <2>3. NextSlot(me) + 2 * ((i + 1) - 1) \in Slot
    BY <2>2, ServeInBounds
  <2>4. \A j \in 0 .. k - 1 : NextSlot(me) + 2 * ((i + 1) - 1) # tail[me] + 2 * j
    BY <1>1, <1>2, TurnPlaces
  <2> QED
    BY <1>2, <1>3, <2>1, <2>2, <2>3, <2>4 DEF Serve
<1>6. ASSUME NEW j \in 0 .. k - 1
      PROVE  Queue(me)'[numprocesses[me] + j] = pqueue'[tail[me] + 2 * j]
  <2>1. NextSlot(me)' + 2 * ((numprocesses[me] + j) - 1) = tail[me] + 2 * j
    BY <1>1, <1>2, TurnPlaces
  <2>2. numprocesses[me] + j \in 1 .. numprocesses'[me]
    BY <1>1, <1>2, <1>4, TurnPlaces
  <2> QED
    BY <1>3, <2>1, <2>2
<1>7. ASSUME NEW role \in Role, role # me PROVE Queue(role)' = Queue(role)
  <2>1. numprocesses'[role] = numprocesses[role] /\ NextSlot(role)' = NextSlot(role)
    BY <1>1, <1>7, TurnPlaces DEF Serve
  <2>2. ASSUME NEW i \in 1 .. numprocesses[role]
        PROVE  pqueue'[NextSlot(role) + 2 * (i - 1)] = pqueue[NextSlot(role) + 2 * (i - 1)]
    <3>1. NextSlot(role) + 2 * (i - 1) \in Slot
      BY ServeInBounds
    <3>2. \A j \in 0 .. k - 1 : NextSlot(role) + 2 * (i - 1) # tail[me] + 2 * j
      BY <1>1, <1>7, TurnPlaces
    <3> QED
      BY <3>1, <3>2 DEF Serve
  <2> QED
    BY <2>1, <2>2 DEF Queue
<1>8. k >= 1 => Queue(me)'[numprocesses[me]] = pqueue'[tail[me]]
  <2>1. tail[me] \in Nat
    BY <1>1, TurnPlaces
  <2> QED
    BY <1>2, <1>6, <2>1
<1>9. k = 2 => Queue(me)'[numprocesses[me] + 1] = pqueue'[tail[me] + 2]
  <2>1. tail[me] \in Nat
    BY <1>1, TurnPlaces
  <2> QED
    BY <1>2, <1>6, <2>1
<1> QED
  BY <1>2, <1>3, <1>4, <1>5, <1>7, <1>8, <1>9

----------------------------------------------------------------------------

\* In an unfinished round a warrior and its role determine each other.
LEMMA Roles ==
  ASSUME NEW r, NEW w \in Role
  PROVE  /\ WarriorOf(w, r) \in Role
         /\ WarriorOf(WarriorOf(w, r), r) = w
         /\ WarriorOf(3 - w, r) = 3 - WarriorOf(w, r)
BY DEF WarriorOf, Role

\* What a turn of warrior w does to Fight's queues, and that it is its turn.
LEMMA TurnImplements ==
  ASSUME IInv, IInv', NEW c \in 1 .. 4, ValidTurn(c)
  PROVE  \E w \in F!Warrior : F!Continue(w) \/ F!Split(w) \/ F!Die(w)
<1> DEFINE me == RoleOf(c)
           w == WarriorOf(me, lastRound)
           q == Queue(me)
<1> USE RunAssumption
<1>1. me \in Role /\ RoleOf(copy) = me /\ copy = c /\ 3 - me \in Role
  BY DEF ValidTurn, RoleOf, Role
<1>2. PICK x \in Address : Continue(me, x) \/ Split(me, x) \/ Die(me)
  <2>1. 0 \in Address
    BY DEF Address
  <2> QED
    BY <2>1 DEF ValidTurn
<1>3. Fetch
  BY <1>2 DEF Continue, Split, Die
<1>4. /\ w \in Role /\ w \in F!Warrior /\ mover = w
      /\ lastRound' = lastRound
      /\ mover' = F!Opponent(w)
  <2>1. lastRound' = lastRound
    BY <1>3 DEF Fetch, lastRound
  <2>2. RoleOf(copy') = 3 - me
    BY <1>1, <1>3, TurnPlaces DEF Role
  <2> QED
    BY <1>1, <2>1, <2>2, Roles DEF mover, F!Warrior, F!Opponent, Role
<1>5. /\ q \in Seq(Address) /\ Len(q) = numprocesses[me]
      /\ numprocesses[me] \in Nat /\ numprocesses[me] > 0 /\ q # <<>>
      /\ q[1] = ip
  BY <1>1, <1>3, TurnPlaces, QueuesAreSeqs DEF QueueIsSeq, ip
<1>6. Queue(me)' \in Seq(Address)
  <2>1. QueueIsSeq'
    BY QueuesAreSeqs, PTL
  <2> QED
    BY <1>1, <2>1 DEF QueueIsSeq
<1>7. queues[w] = q /\ queues \in [F!Warrior -> Seq(Address)]
  BY <1>1, <1>4, Roles, QueuesAreSeqs DEF queues, QueueIsSeq, F!Warrior, Role
<1>8. ASSUME NEW k \in 0 .. 2, Serve(me, k)
      PROVE  queues' = [queues EXCEPT ![w] = Queue(me)']
  <2>1. \A role \in Role : role # me => Queue(role)' = Queue(role)
    BY <1>1, <1>8, ServeShifts
  <2>2. \A v \in Role : v # w => WarriorOf(v, lastRound) # me
    BY <1>1, Roles
  <2> QED
    BY <1>1, <1>4, <2>1, <2>2, Roles DEF queues
<1>9. F!Turn(w)
  <2>1. results' = results /\ round' = round /\ cycle > 0
    BY <1>2 DEF Continue, Split, Die, Fetch
  <2>2. insn_counter' - cycle' = insn_counter - cycle + 1
    <3>1. insn_counter \in Nat /\ cycle \in Nat
      BY DEF IInv, TypeOK
    <3> QED
      BY <1>2, <3>1 DEF Continue, Split, Die
  <2> QED
    BY <1>4, <2>1, <2>2 DEF F!Turn, score
<1>10. CASE Continue(me, x)
  <2>1. Serve(me, 1)
    BY <1>1, <1>10, OutcomesServe
  <2>2. pqueue'[tail[me]] = x
    <3>1. tail[me] + 2 * 0 \in Slot /\ tail[me] \in Nat
      BY <1>1, <1>3, <2>1, ServeInBounds, TurnPlaces
    <3> QED
      BY <1>10, <3>1 DEF Continue, Append1, IInv, TypeOK
  <2>3. /\ Len(Queue(me)') = Len(q)
        /\ \A i \in 1 .. Len(q) - 1 : Queue(me)'[i] = q[i + 1]
        /\ Queue(me)'[Len(q)] = x
    BY <1>1, <1>5, <2>1, <2>2, ServeShifts
  <2>4. Queue(me)' = Append(Tail(q), x)
    BY <1>5, <1>6, <2>3, ShiftAppend
  <2>5. queues' = [queues EXCEPT ![w] = Append(Tail(@), x)]
    BY <1>7, <1>8, <2>1, <2>4
  <2>6. F!Continue(w)
    BY <1>9, <1>10, <2>5 DEF Continue, F!Continue, F!Address, Address
  <2> QED
    BY <1>4, <2>6
<1>11. CASE Split(me, x)
  <2> DEFINE y == IpIncMod(ip)
  <2>1. y \in Address /\ y = F!Successor(Head(q))
    <3>1. Head(q) = ip /\ ip \in Address
      BY <1>5
    <3> QED
      BY <3>1 DEF IpIncMod, F!Successor, Address
  <2>2. CASE numprocesses[me] < MaxProcesses
    <3>1. Serve(me, 2)
      <4>1. numprocesses'[me] = numprocesses[me] + 1
        BY <1>1, <1>11, <2>2 DEF Split, IInv, TypeOK
      <4> QED
        BY <1>1, <1>5, <1>11, <4>1, OutcomesServe DEF Serve
    <3>2. pqueue'[tail[me]] = y /\ pqueue'[tail[me] + 2] = x
      <4>1. tail[me] + 2 * 0 \in Slot /\ tail[me] + 2 * 1 \in Slot /\ tail[me] \in Nat
        BY <1>1, <1>3, <3>1, ServeInBounds, TurnPlaces
      <4> QED
        BY <1>11, <2>2, <4>1 DEF Split, Append2, IInv, TypeOK
    <3>3. /\ Len(Queue(me)') = Len(q) + 1
          /\ \A i \in 1 .. Len(q) - 1 : Queue(me)'[i] = q[i + 1]
          /\ Queue(me)'[Len(q)] = y /\ Queue(me)'[Len(q) + 1] = x
      BY <1>1, <1>5, <3>1, <3>2, ServeShifts
    <3>4. Queue(me)' = Append(Append(Tail(q), y), x)
      BY <1>5, <1>6, <2>1, <3>3, ShiftAppendTwo
    <3>5. queues' = [queues EXCEPT ![w] = Append(Append(Tail(q), y), x)]
      BY <1>8, <3>1, <3>4
    <3>6. F!Split(w)
      BY <1>5, <1>7, <1>9, <1>11, <2>1, <2>2, <3>5
         DEF Split, F!Split, F!Address, Address
    <3> QED
      BY <1>4, <3>6
  <2>3. CASE ~(numprocesses[me] < MaxProcesses)
    <3>1. Append1(me, y) /\ UNCHANGED numprocesses
      BY <1>11, <2>3 DEF Split
    <3>2. Serve(me, 1)
      BY <1>1, <1>3, <2>1, <3>1, AppendOneServes
    <3>3. pqueue'[tail[me]] = y
      <4>1. tail[me] + 2 * 0 \in Slot /\ tail[me] \in Nat
        BY <1>1, <1>3, <3>2, ServeInBounds, TurnPlaces
      <4> QED
        BY <3>1, <4>1 DEF Append1, IInv, TypeOK
    <3>4. /\ Len(Queue(me)') = Len(q)
          /\ \A i \in 1 .. Len(q) - 1 : Queue(me)'[i] = q[i + 1]
          /\ Queue(me)'[Len(q)] = y
      BY <1>1, <1>5, <3>2, <3>3, ServeShifts
    <3>5. Queue(me)' = Append(Tail(q), y)
      BY <1>5, <1>6, <2>1, <3>4, ShiftAppend
    <3>6. queues' = [queues EXCEPT ![w] = Append(Tail(q), y)]
      BY <1>8, <3>2, <3>5
    <3>7. F!Split(w)
      BY <1>5, <1>7, <1>9, <1>11, <2>1, <2>3, <3>6
         DEF Split, F!Split, F!Address, Address
    <3> QED
      BY <1>4, <3>7
  <2> QED
    BY <2>2, <2>3
<1>12. CASE Die(me)
  <2>1. Serve(me, 0)
    BY <1>1, <1>12, OutcomesServe
  <2>2. /\ Len(Queue(me)') = Len(q) - 1
        /\ \A i \in 1 .. Len(q) - 1 : Queue(me)'[i] = q[i + 1]
    BY <1>1, <1>5, <2>1, ServeShifts
  <2>3. Queue(me)' = Tail(q)
    BY <1>5, <1>6, <2>2, ShiftTail
  <2>4. queues' = [queues EXCEPT ![w] = Tail(@)]
    BY <1>7, <1>8, <2>1, <2>3
  <2>5. cycle' = IF Len(queues[w]) = 1 THEN 0 ELSE cycle - 1
    BY <1>5, <1>7, <1>12 DEF Die
  <2>6. F!Die(w)
    BY <1>9, <2>4, <2>5 DEF F!Die
  <2> QED
    BY <1>4, <2>6
<1> QED
  BY <1>2, <1>10, <1>11, <1>12

----------------------------------------------------------------------------

\* At the start of a round the first two slots are the two queues.
Fresh == /\ numprocesses = [role \in Role |-> 1]
         /\ head = 0
         /\ copy = 1

FreshQueues == \A role \in Role : Queue(role) = <<pqueue[role - 1]>>

\* A round starts with queues of one process.
LEMMA FreshHasFreshQueues == Fresh => FreshQueues
<1> SUFFICES ASSUME Fresh, NEW role \in Role
             PROVE  Queue(role) = <<pqueue[role - 1]>>
  BY DEF FreshQueues
<1>1. NextSlot(role) = role - 1 /\ numprocesses[role] = 1
  BY DEF Fresh, NextSlot, RoleOf, Role
<1>2. Queue(role) = [i \in 1 .. 1 |-> pqueue[(role - 1) + 2 * (i - 1)]]
  BY <1>1 DEF Queue
<1>3. \A i \in 1 .. 1 : i = 1 /\ (role - 1) + 2 * (i - 1) = role - 1
  BY DEF Role
<1>4. Queue(role) = [i \in 1 .. 1 |-> pqueue[role - 1]]
  BY <1>2, <1>3
<1> QED
  BY <1>4

\* A fight starts as the abstract one does.
LEMMA InitImplements == Init => F!Init
<1> SUFFICES ASSUME Init PROVE F!Init
  OBVIOUS
<1>1. PICK start \in [Role -> Address] :
        pqueue = [i \in Slot |-> IF i < 2 THEN start[i + 1] ELSE NULL]
  BY DEF Init
<1>2. pqueue[0] = start[1] /\ pqueue[1] = start[2]
  BY <1>1, RunAssumption DEF Slot, Capacity
<1>3. lastRound = 0
  BY RunAssumption DEF Init, lastRound
<1>4. \A w \in Role : WarriorOf(w, 0) = w
  BY DEF WarriorOf, Role
<1>5. queues = [w \in F!Warrior |-> <<start[w]>>]
  BY <1>2, <1>3, <1>4, FreshHasFreshQueues
     DEF Init, Fresh, FreshQueues, queues, F!Warrior, Role
<1>6. F!Start(queues)
  BY <1>5 DEF F!Start, F!Warrior, F!Address, Role, Address
<1>7. mover = F!First(0)
  BY <1>3, <1>4 DEF Init, mover, F!First, RoleOf, Role
<1>8. score = [r \in F!Result |-> 0]
  BY DEF Init, score, F!Result
<1> QED
  BY <1>6, <1>7, <1>8, RunAssumption DEF Init, F!Init

\* The result is counted for the right warrior, and the next round starts
\* with the other warrior.
LEMMA RoundDoneImplements ==
  ASSUME IInv, RoundDone
  PROVE  F!EndRound
<1> USE RunAssumption
<1>1. /\ cycle = 0 /\ round \in Nat /\ round < NumRounds /\ lastRound = round
      /\ results \in [0 .. 4 -> Nat]
  BY DEF RoundDone, lastRound, IInv, TypeOK
<1>2. \A w \in Role : /\ WarriorOf(w, round) \in Role
                      /\ Len(queues[w]) = numprocesses[WarriorOf(w, round)]
  BY <1>1, Roles, QueuesAreSeqs DEF queues, QueueIsSeq
<1>3. /\ Verdict = 0 <=> F!Verdict = "win"
      /\ Verdict = 1 <=> F!Verdict = "loss"
      /\ Verdict = 2 <=> F!Verdict = "tie"
      /\ F!Verdict \in {"win", "loss", "tie"} /\ Verdict \in {0, 1, 2}
  <2>1. CASE round % 2 = 0
    BY <1>2, <2>1 DEF Verdict, F!Verdict, WarriorOf, Role, IInv, QueuesCounted
  <2>2. CASE round % 2 # 0
    BY <1>2, <2>2 DEF Verdict, F!Verdict, WarriorOf, Role, IInv, QueuesCounted
  <2> QED
    BY <2>1, <2>2
<1>4. score' = [score EXCEPT ![F!Verdict] = @ + 1]
  <2>1. \A v \in {0, 1, 2} : results'[v] = IF v = Verdict THEN results[v] + 1
                                                       ELSE results[v]
    BY <1>1, <1>3 DEF RoundDone
  <2> QED
    BY <1>3, <2>1 DEF score
<1>5. round' = round + 1
  BY DEF RoundDone
<1>6. CASE round + 1 < NumRounds
  <2>1. PICK start \in [Role -> Address] : SetUp(round + 1, start)
    BY <1>6 DEF RoundDone
  <2>2. lastRound' = round + 1
    BY <1>1, <1>5, <1>6 DEF lastRound
  <2>3. FreshQueues'
    <3>1. Fresh'
      BY <2>1 DEF SetUp, Fresh
    <3> QED
      BY <3>1, FreshHasFreshQueues, PTL
  <2>4. \A role \in Role : pqueue'[role - 1] = start[WarriorOf(role, round + 1)]
    BY <2>1 DEF SetUp, IInv, TypeOK, Slot, Capacity, Role
  <2>5. queues' = [w \in F!Warrior |-> <<start[w]>>]
    BY <2>2, <2>3, <2>4, Roles DEF FreshQueues, queues, F!Warrior, Role
  <2>6. F!Start(queues')
    BY <2>5 DEF F!Start, F!Warrior, F!Address, Role, Address
  <2>7. mover' = F!First(round + 1)
    BY <2>1, <2>2 DEF SetUp, mover, F!First, F!Opponent, RoleOf, WarriorOf
  <2>8. /\ cycle' = 2 * MaxCycles
        /\ insn_counter' - cycle' = insn_counter - cycle
    BY <1>1, <2>1 DEF SetUp, IInv, TypeOK
  <2> QED
    BY <1>1, <1>4, <1>5, <1>6, <2>6, <2>7, <2>8 DEF F!EndRound
<1>7. CASE ~(round + 1 < NumRounds)
  <2>1. UNCHANGED <<pqueue, head, tail, numprocesses, copy, cycle, insn_counter>>
    BY <1>7 DEF RoundDone
  <2>2. lastRound' = lastRound
    BY <1>1, <1>5, <1>7 DEF lastRound
  <2>3. queues' = queues /\ mover' = mover
    BY <2>1, <2>2 DEF queues, Queue, NextSlot, mover
  <2> QED
    BY <1>1, <1>4, <1>5, <1>7, <2>1, <2>3 DEF F!EndRound
<1> QED
  BY <1>6, <1>7

\* A loop of valid turns loses no process.
LEMMA ValidKeeps == ValidSpec => KeepingSpec
<1>1. (\E c \in 1 .. 4 : ValidTurn(c)) => \E c \in 1 .. 4 : KeepingTurn(c)
  BY DEF KeepingTurn
<1> QED
  BY <1>1, PTL DEF ValidSpec, KeepingSpec

\* A loop of valid turns is a fight.
LEMMA ValidImplements == ValidSpec => Implements
<1> DEFINE ValidNext == RoundDone \/ \E c \in 1 .. 4 : ValidTurn(c)
<1>1. IInv /\ IInv' /\ [ValidNext]_vars => [F!Next]_(F!vars)
  <2> SUFFICES ASSUME IInv, IInv', [ValidNext]_vars PROVE [F!Next]_(F!vars)
    OBVIOUS
  <2>1. CASE RoundDone
    BY <2>1, RoundDoneImplements DEF F!Next
  <2>2. ASSUME NEW c \in 1 .. 4, ValidTurn(c) PROVE F!Next
    BY <2>2, TurnImplements DEF F!Next
  <2>3. CASE UNCHANGED vars
    BY <2>3 DEF vars, F!vars, queues, Queue, NextSlot, lastRound, mover, score
  <2> QED
    BY <2>1, <2>2, <2>3
<1> QED
  BY <1>1, ValidKeeps, IInvHolds, InitImplements, PTL
     DEF ValidSpec, Implements, F!Spec

\* run_88 and p_run_88 implement Fight with the first warrior opening.
THEOREM LoopImplementsFight == ASSUME ValidOnly PROVE Spec => Implements
<1>1. ASSUME NEW c, Turn(c) PROVE ValidTurn(c)
  BY <1>1 DEF Turn, ValidOnly, Lose, Invalid, ValidTurn
<1>2. Next => RoundDone \/ \E c \in 1 .. 4 : ValidTurn(c)
  BY <1>1 DEF Next
<1>3. Spec => ValidSpec
  BY <1>2, PTL DEF Spec, ValidSpec
<1> QED
  BY <1>3, ValidImplements

----------------------------------------------------------------------------
(* Fights between valid warriors *)

\* The parser and the user give valid instructions to both warriors.
ValidPrograms ==
  \A p \in Programs : \A k \in 1 .. Len(p.insns) :
    p.insns[k].insn \in E!ValidCode

\* A cell, and a core, the switch can execute.
GoodInsn == {insn \in E!Insn : insn.insn \in E!ValidCode}
GoodCore == [Address -> GoodInsn]

----------------------------------------------------------------------------
(* One instruction *)

\* The macros of BenchMacros.h stay inside the core.
LEMMA MacrosClosed ==
  ASSUME NEW x \in Address, NEW y \in Address
  PROVE  /\ E!Plus(x, y) \in Address
         /\ E!Minus(x, y) \in Address
         /\ E!Dec(x) \in Address
         /\ E!IpIncMod(x) \in Address
<1>1. CoreSize \in Nat \ {0}
  BY RunAssumption
<1>2. x \in 0 .. CoreSize - 1 /\ y \in 0 .. CoreSize - 1
  BY DEF Address
<1>3. E!Plus(x, y) \in 0 .. CoreSize - 1 /\ E!Minus(x, y) \in 0 .. CoreSize - 1
  BY <1>1, <1>2 DEF E!Plus, E!Minus
<1>4. E!Dec(x) \in 0 .. CoreSize - 1 /\ E!IpIncMod(x) \in 0 .. CoreSize - 1
  BY <1>1, <1>2 DEF E!Dec, E!IpIncMod
<1> QED
  BY <1>3, <1>4 DEF Address

\* A cell whose fields are changed to other addresses stays a good cell.
LEMMA FieldsChanged ==
  ASSUME NEW insn \in GoodInsn, NEW x \in Address, NEW y \in Address,
         NEW from \in GoodInsn
  PROVE  /\ [insn EXCEPT !.b = x] \in GoodInsn
         /\ [insn |-> from.insn, a |-> x, b |-> y] \in GoodInsn
  BY DEF GoodInsn, E!Insn, E!Address, Address

\* The fields of an instruction are addresses.
LEMMA Fields ==
  ASSUME NEW insn \in GoodInsn
  PROVE  insn.a \in Address /\ insn.b \in Address
  BY DEF GoodInsn, E!Insn, E!Address, Address

\* Evaluating an operand keeps the core good, and the operand denotes a cell.
LEMMA EvaluatedClosed ==
  ASSUME NEW c \in GoodCore, NEW i \in Address, NEW mode, NEW field \in Address
  PROVE  /\ E!Evaluated(c, i, mode, field) \in GoodCore
         /\ E!Denoted(c, i, mode, field) \in Address
<1> DEFINE cell == E!Plus(i, field)
<1>1. cell \in Address
  BY MacrosClosed
<1>2. c[cell] \in GoodInsn /\ c[cell].b \in Address
  BY <1>1, Fields DEF GoodCore
<1>3. E!Dec(c[cell].b) \in Address /\ E!Plus(cell, c[cell].b) \in Address
  BY <1>1, <1>2, MacrosClosed
<1>4. [c[cell] EXCEPT !.b = E!Dec(c[cell].b)] \in GoodInsn
  BY <1>2, <1>3, FieldsChanged
<1>5. E!Evaluated(c, i, mode, field) \in GoodCore
  BY <1>1, <1>4 DEF E!Evaluated, GoodCore
<1>6. E!Denoted(c, i, mode, field) \in Address
  BY <1>1, <1>3 DEF E!Denoted
<1> QED
  BY <1>5, <1>6

\* Both operands in turn.
LEMMA OperandsClosed ==
  ASSUME NEW c \in GoodCore, NEW i \in Address
  PROVE  /\ E!aAddr(c, i) \in Address /\ E!ra(c, i) \in GoodInsn
         /\ E!coreB(c, i) \in GoodCore
         /\ E!bAddr(c, i) \in Address /\ E!rb(c, i) \in GoodInsn
<1>1. c[i].a \in Address /\ c[i].b \in Address
  BY Fields DEF GoodCore
<1>2. E!coreA(c, i) \in GoodCore
  BY <1>1, EvaluatedClosed DEF E!coreA
<1>3. E!aAddr(c, i) \in Address
  BY <1>1, <1>2, EvaluatedClosed DEF E!aAddr
<1>4. E!coreB(c, i) \in GoodCore
  BY <1>1, <1>2, EvaluatedClosed DEF E!coreB
<1>5. E!bAddr(c, i) \in Address
  BY <1>1, <1>4, EvaluatedClosed DEF E!bAddr
<1>6. E!ra(c, i) \in GoodInsn /\ E!rb(c, i) \in GoodInsn
  BY <1>2, <1>3, <1>4, <1>5 DEF E!ra, E!rb, GoodCore
<1> QED
  BY <1>3, <1>4, <1>5, <1>6

\* What is written is a good cell.
LEMMA WrittenClosed ==
  ASSUME NEW c \in GoodCore, NEW i \in Address,
         E!op(c[i]) \in {"MOV", "ADD", "SUB", "DJN"}
  PROVE  E!Written(c, i) \in GoodInsn
<1> DEFINE o == E!op(c[i])
           a == E!ra(c, i)
           b == E!rb(c, i)
<1>1. a \in GoodInsn /\ b \in GoodInsn
  BY OperandsClosed
<1>2. /\ a.a \in Address /\ a.b \in Address /\ b.a \in Address
      /\ b.b \in Address /\ c[i].a \in Address
  BY <1>1, Fields DEF GoodCore
<1>3. \A x, y \in Address : E!Combined(o, x, y) \in Address
  BY MacrosClosed DEF E!Combined
<1>4. CASE E!immediate(c, i) \/ o = "DJN"
  <2>1. E!Written(c, i) = [b EXCEPT !.b = E!Combined(o, b.b, c[i].a)]
    BY <1>4 DEF E!Written
  <2>2. E!Combined(o, b.b, c[i].a) \in Address
    BY <1>2, <1>3
  <2> QED
    BY <1>1, <1>2, <2>1, <2>2, FieldsChanged
<1>5. CASE ~(E!immediate(c, i) \/ o = "DJN")
  <2> DEFINE x == E!Combined(o, b.a, a.a)
             y == E!Combined(o, b.b, a.b)
             from == IF o = "MOV" THEN a ELSE b
  <2>1. x \in Address /\ y \in Address /\ from \in GoodInsn
    BY <1>1, <1>2, <1>3
  <2>2. E!Written(c, i) = [insn |-> from.insn, a |-> x, b |-> y]
    BY <1>5 DEF E!Written
  <2> HIDE DEF x, y, from
  <2> QED
    BY <2>1, <2>2, FieldsChanged
<1> QED
  BY <1>4, <1>5

\* An instruction maps a good core to a good core and queues addresses.
LEMMA InstructionClosed ==
  ASSUME NEW c \in GoodCore, NEW i \in Address
  PROVE  /\ E!CoreAfter(c, i) \in GoodCore
         /\ E!Queued(c, i) \in Address
         /\ E!Outcome(c, i) # "invalid"
<1>1. E!CoreAfter(c, i) \in GoodCore
  <2>1. CASE E!op(c[i]) \in {"MOV", "ADD", "SUB", "DJN"}
    <3>1. E!Written(c, i) \in GoodInsn
      BY <2>1, WrittenClosed
    <3>2. E!bAddr(c, i) \in Address /\ E!coreB(c, i) \in GoodCore
      BY OperandsClosed
    <3>3. [E!coreB(c, i) EXCEPT ![E!bAddr(c, i)] = E!Written(c, i)] \in GoodCore
      BY <3>1, <3>2 DEF GoodCore
    <3> QED
      BY <2>1, <3>3 DEF E!CoreAfter
  <2>2. CASE E!op(c[i]) \notin {"MOV", "ADD", "SUB", "DJN"}
    BY <2>2, OperandsClosed DEF E!CoreAfter
  <2> QED
    BY <2>1, <2>2
<1>2. E!Queued(c, i) \in Address
  <2>1. E!aAddr(c, i) \in Address
    BY OperandsClosed
  <2>2. E!IpIncMod(i) \in Address /\ E!IpIncMod(E!IpIncMod(i)) \in Address
    BY MacrosClosed
  <2> QED
    BY <2>1, <2>2 DEF E!Queued
<1>3. E!Outcome(c, i) # "invalid"
  BY DEF E!Outcome, GoodCore, GoodInsn
<1> QED
  BY <1>1, <1>2, <1>3

----------------------------------------------------------------------------
(* One fight *)

\* What the invariant says of the queues is no more than that a turn fetches
\* a slot of the array, and that a slot holds an address or nothing.
Inv ==
  /\ core \in GoodCore
  /\ results \in [0 .. 4 -> Int] /\ results[4] = 0
  /\ warriors \in [Role -> Programs]
  /\ pqueue \in [Slot -> Address \cup {NULL}]
  /\ cycle \in 0 .. 2 * MaxCycles
  /\ cycle > 0 => head = 2 * MaxCycles - cycle
  /\ insn_counter \in Int

\* A freshly loaded core is good.
LEMMA LoadedGood ==
  ASSUME ValidPrograms, NEW p \in [Role -> Programs], NEW pos2 \in Position
  PROVE  Loaded(p, pos2) \in GoodCore
<1>1. E!Blank \in GoodInsn
  BY RunAssumption DEF E!Blank, GoodInsn, E!Insn, E!Code, E!Opcode, E!Mode,
                       E!Address, E!ValidCode
<1>2. ASSUME NEW w \in Role, NEW k \in 1 .. Len(p[w].insns)
      PROVE  p[w].insns[k] \in GoodInsn
  BY ProgramAssumption DEF ValidPrograms, GoodInsn
<1>3. ASSUME NEW x \in Address
      PROVE  Loaded(p, pos2)[x] \in GoodInsn
  <2> DEFINE k == x - pos2
  <2>1. Len(p[1].insns) \in Nat /\ Len(p[2].insns) \in Nat
    BY ProgramAssumption, RunAssumption DEF Role
  <2>2. x \in Nat /\ k \in Int
    BY RunAssumption, ProgramAssumption DEF Address, Position
  <2>3. CASE k \in 0 .. Len(p[2].insns) - 1
    <3>1. k + 1 \in 1 .. Len(p[2].insns)
      BY <2>1, <2>2, <2>3
    <3>2. Loaded(p, pos2)[x] = p[2].insns[k + 1]
      BY <2>3 DEF Loaded
    <3> QED
      BY <1>2, <3>1, <3>2 DEF Role
  <2>4. CASE k \notin 0 .. Len(p[2].insns) - 1 /\ x < Len(p[1].insns)
    <3>1. x + 1 \in 1 .. Len(p[1].insns)
      BY <2>1, <2>2, <2>4
    <3>2. Loaded(p, pos2)[x] = p[1].insns[x + 1]
      BY <2>4 DEF Loaded
    <3> QED
      BY <1>2, <3>1, <3>2 DEF Role
  <2>5. CASE k \notin 0 .. Len(p[2].insns) - 1 /\ ~(x < Len(p[1].insns))
    BY <1>1, <2>5 DEF Loaded
  <2> QED
    BY <2>3, <2>4, <2>5
<1> QED
  BY <1>3 DEF Loaded, GoodCore

\* The invariant of the fight holds at its start,
LEMMA InitInv ==
  ASSUME ValidPrograms, MarsInit
  PROVE  Inv
<1>1. warriors \in [Role -> Programs]
  BY DEF MarsInit
<1>2. core \in GoodCore
  BY <1>1, LoadedGood DEF MarsInit
<1>3. Init
  BY DEF MarsInit
<1>4. pqueue \in [Slot -> Address \cup {NULL}]
  <2>1. PICK start \in [Role -> Address] :
          pqueue = [i \in Slot |-> IF i < 2 THEN start[i + 1] ELSE NULL]
    BY <1>3 DEF Init
  <2>2. ASSUME NEW i \in Slot PROVE i < 2 => start[i + 1] \in Address
    BY <2>1 DEF Slot, Role
  <2> QED
    BY <2>1, <2>2
<1>5. /\ results \in [0 .. 4 -> Int] /\ results[4] = 0
      /\ cycle \in 0 .. 2 * MaxCycles
      /\ cycle > 0 => head = 2 * MaxCycles - cycle
      /\ insn_counter \in Int
  BY <1>3, RunAssumption DEF Init
<1> QED
  BY <1>1, <1>2, <1>4, <1>5 DEF Inv

\* A turn fetches an address.
LEMMA FetchesAddress ==
  ASSUME Inv, cycle > 0, ip # NULL
  PROVE  ip \in Address
<1>1. head \in Slot
  BY RunAssumption DEF Inv, Slot, Capacity
<1> QED
  BY <1>1 DEF Inv, ip

\* The effect of a turn on the queues, whatever the role.
LEMMA TurnInv ==
  ASSUME Inv, NEW role \in Role, NEW x \in Address, cycle > 0, ip \in Address,
         core' \in GoodCore, UNCHANGED warriors,
         Continue(role, x) \/ Split(role, x) \/ Die(role) \/ Lose
  PROVE  Inv'
<1>1. head = 2 * MaxCycles - cycle /\ cycle \in 1 .. 2 * MaxCycles
  BY RunAssumption DEF Inv
<1>2. IpIncMod(ip) \in Address
  BY RunAssumption DEF IpIncMod, Address
<1>3. UNCHANGED results /\ head' = head + 1
  BY DEF Continue, Split, Die, Lose, Fetch
<1>4. cycle' \in {0, cycle - 1} /\ insn_counter' \in Int
  BY <1>1 DEF Continue, Split, Die, Lose, Inv
<1>5. pqueue' \in [Slot -> Address \cup {NULL}]
  <2>1. CASE Continue(role, x)
    BY <2>1 DEF Continue, Append1, Inv
  <2>2. CASE Split(role, x)
    BY <1>2, <2>2 DEF Split, Append1, Append2, Inv
  <2>3. CASE Die(role) \/ Lose
    BY <2>3 DEF Die, Lose, Inv
  <2> QED
    BY <2>1, <2>2, <2>3
<1>6. /\ cycle' \in 0 .. 2 * MaxCycles
      /\ cycle' > 0 => head' = 2 * MaxCycles - cycle'
  <2>1. head' = head + 1 /\ cycle' \in {0, cycle - 1}
    BY <1>3, <1>4
  <2>2. MaxCycles \in Nat
    BY RunAssumption
  <2>3. CASE cycle' = 0
    BY <2>2, <2>3
  <2>4. CASE cycle' = cycle - 1
    BY <1>1, <2>1, <2>2, <2>4
  <2> QED
    BY <2>1, <2>3, <2>4
<1> QED
  BY <1>3, <1>4, <1>5, <1>6 DEF Inv

\* behind an instruction,
LEMMA ExecuteInv ==
  ASSUME Inv, NEW c \in 1 .. 4, Execute(c)
  PROVE  Inv'
<1> DEFINE x == E!Queued(core, ip)
           role == RoleOf(c)
<1>1. cycle > 0 /\ ip \in Address /\ role \in Role
  BY FetchesAddress DEF Execute, RoleOf, Role
<1>2. core' \in GoodCore /\ x \in Address /\ E!Outcome(core, ip) # "invalid"
  BY <1>1, InstructionClosed DEF Execute, Inv
<1>3. E!Outcome(core, ip) \in {"continue", "split", "die", "lost"}
  BY <1>2 DEF E!Outcome
<1>4. Continue(role, x) \/ Split(role, x) \/ Die(role) \/ Lose
  BY <1>3 DEF Execute
<1>5. UNCHANGED warriors
  BY DEF Execute
<1> HIDE DEF x, role
<1> QED
  BY <1>1, <1>2, <1>4, <1>5, TurnInv

\* behind the start of a round,
LEMMA NextRoundInv ==
  ASSUME ValidPrograms, Inv, NextRound
  PROVE  Inv'
<1>1. RoundDone /\ UNCHANGED warriors /\ warriors \in [Role -> Programs]
  BY DEF NextRound, Inv
<1>2. Verdict \in {0, 1, 2}
  BY DEF Verdict
<1>3. results' \in [0 .. 4 -> Int] /\ results'[4] = 0
  <2>1. insn_counter \in Int
    BY DEF Inv
  <2> QED
    BY <1>1, <1>2, <2>1 DEF RoundDone, Inv
<1>4. CASE round' < NumRounds
  <2>1. core' \in GoodCore
    BY <1>1, <1>4, LoadedGood DEF NextRound
  <2>2. PICK start \in [Role -> Address] : SetUp(round + 1, start)
    BY <1>1, <1>4 DEF RoundDone
  <2>3. \A role \in Role : start[WarriorOf(role, round + 1)] \in Address
    BY <2>2 DEF WarriorOf, Role
  <2>4. pqueue' \in [Slot -> Address \cup {NULL}]
    BY <2>2, <2>3 DEF SetUp, Role, Inv
  <2>5. /\ cycle' = 2 * MaxCycles /\ head' = 0
        /\ insn_counter' \in Int
    BY <2>2, RunAssumption DEF SetUp, Inv
  <2> QED
    BY <1>1, <1>3, <2>1, <2>4, <2>5, RunAssumption DEF Inv
<1>5. CASE ~(round' < NumRounds)
  BY <1>1, <1>3, <1>5 DEF NextRound, RoundDone, Inv
<1> QED
  BY <1>4, <1>5

\* and always.
LEMMA FightInv ==
  ASSUME ValidPrograms
  PROVE  MarsSpec => []Inv
<1>1. MarsInit => Inv
  BY InitInv
<1>2. Inv /\ [MarsNext]_mvars => Inv'
  <2> SUFFICES ASSUME Inv, [MarsNext]_mvars
               PROVE  Inv'
    OBVIOUS
  <2>1. CASE NextRound
    BY <2>1, NextRoundInv
  <2>2. ASSUME NEW c \in 1 .. 4, Execute(c)
        PROVE  Inv'
    BY <2>2, ExecuteInv
  <2>3. CASE UNCHANGED mvars
    BY <2>3 DEF mvars, vars, Inv
  <2> QED
    BY <2>1, <2>2, <2>3 DEF MarsNext
<1> QED
  BY <1>1, <1>2, PTL DEF MarsSpec

\* Fights between valid warriors keep a valid core: every field is an
\* address, every code has a case in the switch, and the error that the
\* default case notes is never noted.  It holds for all cores, programs and
\* bounds, with and without the JMZ that drops its process.
THEOREM CoreStaysValid ==
  ASSUME ValidPrograms
  PROVE  MarsSpec => []CoreValid
<1>1. Inv => CoreValid
  BY DEF Inv, CoreValid, GoodCore, GoodInsn, E!Core, E!Address, Address
<1> QED
  BY <1>1, FightInv, PTL

----------------------------------------------------------------------------
(* Fights and the loop *)

\* An instruction of a valid core is one of the outcomes the loop knows.
LEMMA ExecuteIsTurn ==
  ASSUME Inv, NEW c \in 1 .. 4, Execute(c)
  PROVE  Turn(c)
<1> DEFINE x == E!Queued(core, ip)
           role == RoleOf(c)
<1>1. copy = c /\ cycle > 0 /\ ip \in Address
  BY FetchesAddress DEF Execute
<1>2. x \in Address /\ E!Outcome(core, ip) # "invalid"
  BY <1>1, InstructionClosed DEF Inv
<1>3. E!Outcome(core, ip) \in {"continue", "split", "die", "lost"}
  BY <1>2 DEF E!Outcome
<1>4. Continue(role, x) \/ Split(role, x) \/ Die(role) \/ Lose
  BY <1>3 DEF Execute
<1> HIDE DEF x
<1> QED
  BY <1>1, <1>2, <1>4 DEF Turn

\* Every fight between valid warriors is a behaviour of the loop alone.
LEMMA FightFollowsLoop ==
  ASSUME ValidPrograms
  PROVE  MarsSpec => Spec
<1>1. MarsInit => Init
  BY DEF MarsInit
<1>2. Inv /\ [MarsNext]_mvars => [Next]_vars
  <2> SUFFICES ASSUME Inv, [MarsNext]_mvars
               PROVE  [Next]_vars
    OBVIOUS
  <2>1. CASE NextRound
    BY <2>1 DEF NextRound, Next
  <2>2. ASSUME NEW c \in 1 .. 4, Execute(c)
        PROVE  Next
    BY <2>2, ExecuteIsTurn DEF Next
  <2>3. CASE UNCHANGED mvars
    BY <2>3 DEF mvars
  <2> QED
    BY <2>1, <2>2, <2>3 DEF MarsNext
<1> QED
  BY <1>1, <1>2, FightInv, PTL DEF MarsSpec, Spec

\* In whole fights, too, no read or write leaves the array of processes,
\* the JMZ that drops its process or not.
THEOREM FightsNeverOverrun ==
  ASSUME ValidPrograms
  PROVE  MarsSpec => []NoOverrun
  BY FightFollowsLoop, ArrayLargeEnough

----------------------------------------------------------------------------
(* Fights in which no process is dropped *)

\* The one code whose case block may jump to no_queue without reason.
DroppingCode == <<"JMZ", "<", "@">>

HarmlessPrograms ==
  \A p \in Programs : \A k \in 1 .. Len(p.insns) :
    p.insns[k].insn # DroppingCode

\* Either no warrior is loaded with it; then no warrior can make it, either,
\* as MOV only copies codes.  Or only fights without that jump are looked at.
NothingDropped == HarmlessPrograms \/ NoLoss

HarmlessCore == \A x \in Address : core[x].insn # DroppingCode

HarmlessInv == Inv /\ (HarmlessPrograms => HarmlessCore)

\* Evaluating an operand changes no code.
LEMMA EvaluatedKeepsCodes ==
  ASSUME NEW c \in GoodCore, NEW i \in Address, NEW mode, NEW field \in Address,
         NEW x \in Address
  PROVE  E!Evaluated(c, i, mode, field)[x].insn = c[x].insn
  BY DEF E!Evaluated, GoodCore, GoodInsn, E!Insn

\* The code of a cell behind an instruction is the code of a cell before it.
LEMMA CodesAreCopied ==
  ASSUME NEW c \in GoodCore, NEW i \in Address, NEW x \in Address
  PROVE  \E y \in Address : E!CoreAfter(c, i)[x].insn = c[y].insn
<1>1. c[i].a \in Address /\ c[i].b \in Address
  BY Fields DEF GoodCore
<1>2. /\ E!coreA(c, i) \in GoodCore
      /\ \A y \in Address : E!coreA(c, i)[y].insn = c[y].insn
  BY <1>1, EvaluatedClosed, EvaluatedKeepsCodes DEF E!coreA
<1>3. /\ E!coreB(c, i) \in GoodCore
      /\ \A y \in Address : E!coreB(c, i)[y].insn = c[y].insn
  BY <1>1, <1>2, EvaluatedClosed, EvaluatedKeepsCodes DEF E!coreB
<1>4. E!aAddr(c, i) \in Address /\ E!bAddr(c, i) \in Address
  BY OperandsClosed
<1>5. /\ E!ra(c, i).insn = c[E!aAddr(c, i)].insn
      /\ E!rb(c, i).insn = c[E!bAddr(c, i)].insn
  BY <1>2, <1>3, <1>4 DEF E!ra, E!rb
<1>6. CASE E!CoreAfter(c, i)[x].insn = E!coreB(c, i)[x].insn
  BY <1>3, <1>6
<1>7. CASE E!CoreAfter(c, i) = c
  BY <1>7
<1>8. CASE /\ E!CoreAfter(c, i) = [E!coreB(c, i) EXCEPT ![E!bAddr(c, i)] = E!Written(c, i)]
           /\ x = E!bAddr(c, i)
  <2>1. E!CoreAfter(c, i)[x] = E!Written(c, i)
    BY <1>3, <1>8 DEF GoodCore
  <2>2. E!ra(c, i) \in GoodInsn /\ E!rb(c, i) \in GoodInsn
    BY OperandsClosed
  <2>3. E!Written(c, i).insn \in {E!ra(c, i).insn, E!rb(c, i).insn}
    BY <2>2 DEF E!Written, GoodInsn, E!Insn
  <2> QED
    BY <1>4, <1>5, <2>1, <2>3
<1>9. CASE /\ E!CoreAfter(c, i) = [E!coreB(c, i) EXCEPT ![E!bAddr(c, i)] = E!Written(c, i)]
           /\ x # E!bAddr(c, i)
  <2>1. E!CoreAfter(c, i)[x] = E!coreB(c, i)[x]
    BY <1>3, <1>9 DEF GoodCore
  <2> QED
    BY <1>6, <2>1
<1> QED
  BY <1>6, <1>7, <1>8, <1>9 DEF E!CoreAfter

\* What is loaded is harmless if the warriors are.
LEMMA LoadedHarmless ==
  ASSUME HarmlessPrograms, NEW p \in [Role -> Programs], NEW pos2 \in Position,
         NEW x \in Address
  PROVE  Loaded(p, pos2)[x].insn # DroppingCode
<1>1. /\ Len(p[1].insns) \in Nat /\ Len(p[2].insns) \in Nat
      /\ x \in Nat /\ x - pos2 \in Int
      /\ p[1] \in Programs /\ p[2] \in Programs
  BY ProgramAssumption, RunAssumption DEF Role, Address, Position
<1>2. CASE x - pos2 \in 0 .. Len(p[2].insns) - 1
  <2>1. x - pos2 + 1 \in 1 .. Len(p[2].insns)
    BY <1>1, <1>2
  <2> QED
    BY <1>1, <1>2, <2>1 DEF Loaded, HarmlessPrograms
<1>3. CASE x - pos2 \notin 0 .. Len(p[2].insns) - 1 /\ x < Len(p[1].insns)
  <2>1. x + 1 \in 1 .. Len(p[1].insns)
    BY <1>1, <1>3
  <2> QED
    BY <1>1, <1>3, <2>1 DEF Loaded, HarmlessPrograms
<1>4. CASE x - pos2 \notin 0 .. Len(p[2].insns) - 1 /\ ~(x < Len(p[1].insns))
  <2>1. Loaded(p, pos2)[x] = E!Blank
    BY <1>4 DEF Loaded
  <2> QED
    BY <2>1 DEF E!Blank, DroppingCode
<1> QED
  BY <1>2, <1>3, <1>4

\* A core without the code never gets it.
LEMMA FightHarmless ==
  ASSUME ValidPrograms
  PROVE  MarsSpec => []HarmlessInv
<1>1. MarsInit => HarmlessInv
  BY InitInv, LoadedHarmless DEF MarsInit, HarmlessInv, HarmlessCore
<1>2. HarmlessInv /\ Inv' /\ [MarsNext]_mvars => HarmlessInv'
  <2> SUFFICES ASSUME HarmlessInv, Inv', [MarsNext]_mvars, HarmlessPrograms
               PROVE  HarmlessCore'
    BY DEF HarmlessInv
  <2>1. Inv /\ HarmlessCore
    BY DEF HarmlessInv
  <2>2. CASE NextRound
    <3>1. warriors \in [Role -> Programs]
      BY <2>1 DEF Inv
    <3>2. CASE round' < NumRounds
      BY <2>2, <3>1, <3>2, LoadedHarmless DEF NextRound, HarmlessCore
    <3>3. CASE ~(round' < NumRounds)
      BY <2>1, <2>2, <3>3 DEF NextRound, HarmlessCore
    <3> QED
      BY <3>2, <3>3
  <2>3. ASSUME NEW c \in 1 .. 4, Execute(c)
        PROVE  HarmlessCore'
    <3>1. ip \in Address /\ core \in GoodCore
      BY <2>1, <2>3, FetchesAddress DEF Execute, Inv
    <3>2. core' = E!CoreAfter(core, ip)
      BY <2>3 DEF Execute
    <3>3. \A x \in Address : \E y \in Address : core'[x].insn = core[y].insn
      BY <3>1, <3>2, CodesAreCopied
    <3> QED
      BY <2>1, <3>3 DEF HarmlessCore
  <2>4. CASE UNCHANGED mvars
    BY <2>1, <2>4 DEF mvars, HarmlessCore
  <2> QED
    BY <2>2, <2>3, <2>4 DEF MarsNext
<1> QED
  BY <1>1, <1>2, FightInv, PTL DEF MarsSpec

\* An instruction of such a fight is a valid turn of the loop.
LEMMA ExecuteIsValid ==
  ASSUME HarmlessInv, NothingDropped, NEW c \in 1 .. 4, Execute(c)
  PROVE  ValidTurn(c)
<1> DEFINE x == E!Queued(core, ip)
           role == RoleOf(c)
<1>1. Inv /\ copy = c /\ cycle > 0 /\ ip \in Address
  BY FetchesAddress DEF Execute, HarmlessInv
<1>2. x \in Address /\ E!Outcome(core, ip) # "invalid"
  BY <1>1, InstructionClosed DEF Inv
<1>3. E!Outcome(core, ip) \in {"continue", "split", "die", "lost"}
  BY <1>2 DEF E!Outcome
<1>4. E!Outcome(core, ip) = "lost" => Lose /\ ~HarmlessPrograms
  BY <1>1 DEF Execute, E!Outcome, HarmlessInv, HarmlessCore, DroppingCode
<1>5. E!Outcome(core, ip) # "lost"
  BY <1>4 DEF NothingDropped, NoLoss, Lose
<1>6. Continue(role, x) \/ Split(role, x) \/ Die(role)
  BY <1>3, <1>5 DEF Execute
<1> HIDE DEF x
<1> QED
  BY <1>1, <1>2, <1>6 DEF ValidTurn

\* Such a fight is a loop of valid turns.
LEMMA FightIsValid ==
  ASSUME ValidPrograms, NothingDropped
  PROVE  MarsSpec => ValidSpec
<1> DEFINE ValidNext == RoundDone \/ \E c \in 1 .. 4 : ValidTurn(c)
<1>1. MarsInit => Init
  BY DEF MarsInit
<1>2. HarmlessInv /\ [MarsNext]_mvars => [ValidNext]_vars
  <2> SUFFICES ASSUME HarmlessInv, [MarsNext]_mvars
               PROVE  [ValidNext]_vars
    OBVIOUS
  <2>1. CASE NextRound
    BY <2>1 DEF NextRound
  <2>2. ASSUME NEW c \in 1 .. 4, Execute(c)
        PROVE  ValidNext
    BY <2>2, ExecuteIsValid
  <2>3. CASE UNCHANGED mvars
    BY <2>3 DEF mvars
  <2> QED
    BY <2>1, <2>2, <2>3 DEF MarsNext
<1> QED
  BY <1>1, <1>2, FightHarmless, PTL DEF MarsSpec, ValidSpec

\* In fights of warriors without that jump the counters of run_88 describe
\* its queues, and no turn fetches a slot of an earlier round.
THEOREM FightsKeepQueues ==
  ASSUME ValidPrograms, NothingDropped
  PROVE  MarsSpec => [](QueuesCounted /\ NoStaleFetch)
<1>1. IInv => QueuesCounted /\ NoStaleFetch
  BY StaleFreeState DEF IInv
<1> QED
  BY <1>1, FightIsValid, ValidKeeps, IInvHolds, PTL

\* run_88 with its instructions, the core both warriors write to and the
\* reloading of each round included, is the abstract fight.
THEOREM MarsImplementsFight ==
  ASSUME ValidPrograms, NothingDropped
  PROVE  MarsSpec => Implements
  BY FightIsValid, ValidImplements

\* "Process queue1 is handled by instruction" (no_queue1) is true of all
\* instructions but that jump: every other one queues its process or takes
\* it off the number of processes.
THEOREM OthersHandleProcess ==
  ASSUME ValidPrograms, HarmlessPrograms
  PROVE  MarsSpec => ProcessHandled
<1> DEFINE role == RoleOf(copy)
           Handled == cycle > 0 => \/ tail'[role] > tail[role]
                                   \/ numprocesses'[role] = numprocesses[role] - 1
<1>1. HarmlessInv /\ Sound /\ [MarsNext]_mvars => [Handled]_mvars
  <2> SUFFICES ASSUME HarmlessInv, Sound, MarsNext, cycle > 0
               PROVE  \/ tail'[role] > tail[role]
                      \/ numprocesses'[role] = numprocesses[role] - 1
    OBVIOUS
  <2>1. PICK c \in 1 .. 4 : Execute(c)
    BY DEF MarsNext, NextRound, RoundDone
  <2>2. ValidTurn(c) /\ copy = c
    BY <2>1, ExecuteIsValid DEF NothingDropped, ValidTurn
  <2>3. /\ tail \in [Role -> Nat] /\ numprocesses \in [Role -> 0 .. MaxProcesses]
        /\ role \in Role /\ role = RoleOf(c)
    BY <2>2 DEF Sound, TypeOK, RoleOf, Role
  <2>4. ASSUME NEW x, Append1(role, x) \/ \E y : Append2(role, x, y)
        PROVE  tail'[role] > tail[role]
    BY <2>3, <2>4 DEF Append1, Append2
  <2>5. ASSUME NEW x \in Address, Continue(role, x) \/ Split(role, x)
        PROVE  tail'[role] > tail[role]
    BY <2>4, <2>5 DEF Continue, Split
  <2>6. CASE Die(role)
    BY <2>3, <2>6 DEF Die
  <2> QED
    BY <2>2, <2>3, <2>5, <2>6 DEF ValidTurn
<1>2. MarsSpec => [](HarmlessInv /\ Sound)
  BY FightHarmless, FightFollowsLoop, SoundHolds, PTL
<1> QED
  BY <1>1, <1>2, PTL DEF MarsSpec, ProcessHandled

----------------------------------------------------------------------------
(* The start of a round *)

\* The cells FreshCore names, once pos2 is known, and what it says of a core.
base(w, pos2)     == IF w = 1 THEN 0 ELSE pos2
cells(w, pos2)    == [k \in 1 .. Len(warriors[w].insns) |-> k - 1 + base(w, pos2)]
occupied(w, pos2) == {cells(w, pos2)[k] : k \in 1 .. Len(warriors[w].insns)}

Pristine(c, pos2) ==
  /\ occupied(2, pos2) \subseteq Address
  /\ \A w \in Role : \A k \in 1 .. Len(warriors[w].insns) :
       c[cells(w, pos2)[k]] = warriors[w].insns[k]
  /\ \A x \in Address \ (occupied(1, pos2) \cup occupied(2, pos2)) : c[x] = E!Blank

\* The places at which warriors may be put, and their lengths.
LEMMA Places ==
  ASSUME warriors \in [Role -> Programs], NEW pos2 \in Position
  PROVE  /\ MinDistance \in Nat \ {0} /\ CoreSize \in Nat \ {0}
         /\ 2 * MinDistance <= CoreSize
         /\ pos2 \in MinDistance .. CoreSize - MinDistance
         /\ \A w \in Role :
              /\ Len(warriors[w].insns) \in 1 .. MinDistance
              /\ warriors[w].start \in 0 .. Len(warriors[w].insns) - 1
  BY ProgramAssumption, RunAssumption DEF Position

\* Wherever the second warrior is put, loading leaves both complete.
LEMMA LoadedPristine ==
  ASSUME warriors \in [Role -> Programs], NEW pos2 \in Position
  PROVE  Pristine(Loaded(warriors, pos2), pos2) /\ pos2 \in Address
<1> DEFINE len(w) == Len(warriors[w].insns)
           c      == Loaded(warriors, pos2)
<1>1. /\ 1 \in Role /\ 2 \in Role
      /\ len(1) \in 1 .. MinDistance /\ len(2) \in 1 .. MinDistance
      /\ MinDistance \in Nat \ {0} /\ CoreSize \in Nat \ {0}
      /\ 2 * MinDistance <= CoreSize
      /\ pos2 \in MinDistance .. CoreSize - MinDistance
  BY Places DEF Role
<1> HIDE DEF len
<1>2. ASSUME NEW x \in Address
      PROVE  c[x] = IF x - pos2 \in 0 .. len(2) - 1
                      THEN warriors[2].insns[x - pos2 + 1]
                    ELSE IF x < len(1) THEN warriors[1].insns[x + 1] ELSE E!Blank
  BY DEF Loaded, len
<1> HIDE DEF c
<1>3. ASSUME NEW k \in 1 .. len(2)
      PROVE  /\ cells(2, pos2)[k] = k - 1 + pos2 /\ k - 1 + pos2 \in Address
             /\ c[k - 1 + pos2] = warriors[2].insns[k]
  <2>1. cells(2, pos2)[k] = k - 1 + pos2
    BY DEF cells, base, len
  <2>2. k - 1 + pos2 \in Address
    BY <1>1 DEF Address
  <2>3. (k - 1 + pos2) - pos2 \in 0 .. len(2) - 1
        /\ (k - 1 + pos2) - pos2 + 1 = k
    BY <1>1
  <2> QED
    BY <1>2, <2>1, <2>2, <2>3
<1>4. ASSUME NEW k \in 1 .. len(1)
      PROVE  /\ cells(1, pos2)[k] = k - 1
             /\ c[k - 1] = warriors[1].insns[k]
  <2>1. cells(1, pos2)[k] = k - 1
    BY <1>1 DEF cells, base, len
  <2>2. k - 1 \in Address /\ k - 1 < len(1) /\ k - 1 + 1 = k
        /\ ~(k - 1 - pos2 \in 0 .. len(2) - 1)
    BY <1>1 DEF Address
  <2>3. c[k - 1] = warriors[1].insns[k - 1 + 1]
    BY <1>2, <2>2
  <2> QED
    BY <2>1, <2>2, <2>3
<1>5. occupied(2, pos2) \subseteq Address
  BY <1>3 DEF occupied, len
<1>6. ASSUME NEW x \in Address, x \notin occupied(1, pos2), x \notin occupied(2, pos2)
      PROVE  c[x] = E!Blank
  <2>1. ASSUME x - pos2 \in 0 .. len(2) - 1 PROVE FALSE
    <3>1. x - pos2 + 1 \in 1 .. len(2) /\ x = (x - pos2 + 1) - 1 + pos2
      BY <1>1, <2>1 DEF Address
    <3> QED
      BY <1>3, <1>6, <3>1 DEF occupied, len
  <2>2. ASSUME x < len(1) PROVE FALSE
    <3>1. x + 1 \in 1 .. len(1) /\ x = (x + 1) - 1
      BY <1>1, <2>2 DEF Address
    <3> QED
      BY <1>4, <1>6, <3>1 DEF occupied, len
  <2> QED
    BY <1>2, <2>1, <2>2
<1>7. \A w \in Role : \A k \in 1 .. Len(warriors[w].insns) :
        c[cells(w, pos2)[k]] = warriors[w].insns[k]
  BY <1>3, <1>4 DEF Role, len
<1>8. pos2 \in Address
  BY <1>1 DEF Address
<1> QED
  BY <1>5, <1>6, <1>7, <1>8 DEF Pristine, c

\* The first processes stand at the start addresses, in the order of moves.
LEMMA StartedAtCells ==
  ASSUME warriors \in [Role -> Programs], NEW pos2 \in Position, NEW queue,
         NEW r, Started(queue, r, pos2)
  PROVE  \A w \in Role : queue[IF w = WarriorOf(1, r) THEN 0 ELSE 1]
                           = cells(w, pos2)[warriors[w].start + 1]
<1> DEFINE first == [w \in Role |-> warriors[w].start + IF w = 1 THEN 0 ELSE pos2]
<1>1. queue[0] = first[WarriorOf(1, r)] /\ queue[1] = first[WarriorOf(2, r)]
  BY DEF Started
<1>2. ASSUME NEW w \in Role
      PROVE  first[w] = cells(w, pos2)[warriors[w].start + 1]
  <2>1. /\ warriors[w].start + 1 \in 1 .. Len(warriors[w].insns)
        /\ warriors[w].start \in Int /\ base(w, pos2) \in Int
    BY Places DEF base
  <2>2. cells(w, pos2)[warriors[w].start + 1] = warriors[w].start + 1 - 1 + base(w, pos2)
    BY <2>1 DEF cells
  <2>3. first[w] = warriors[w].start + base(w, pos2)
    BY DEF base
  <2> QED
    BY <2>1, <2>2, <2>3
<1> HIDE DEF first
<1> QED
  BY <1>1, <1>2 DEF WarriorOf, Role

\* What FreshCore says of the queue, and FreshCore in these terms.
Queued(pos2) == \A w \in Role : pqueue[IF w = WarriorOf(1, round) THEN 0 ELSE 1]
                                  = cells(w, pos2)[warriors[w].start + 1]

PristineFresh ==
  FreshCore <=> (cycle = 2 * MaxCycles =>
                   \E pos2 \in Address : Pristine(core, pos2) /\ Queued(pos2))

\* A pristine core with the start addresses queued is a fresh one.
LEMMA PristineIsFresh == PristineFresh
  BY DEF PristineFresh, FreshCore, Pristine, Queued, occupied, cells, base

\* Every round starts with both warriors complete and nothing else in the
\* core, wherever they are put and whatever they are made of, and with their
\* start addresses queued in the order in which they move.
THEOREM RoundsStartFresh == MarsSpec => []FreshCore
<1> DEFINE Walk == warriors \in [Role -> Programs] /\ cycle \in 0 .. 2 * MaxCycles
<1>1. MarsInit => Walk /\ FreshCore
  <2> SUFFICES ASSUME MarsInit PROVE Walk /\ FreshCore
    OBVIOUS
  <2>1. warriors \in [Role -> Programs] /\ Init /\ round = 0
        /\ cycle \in 0 .. 2 * MaxCycles
    BY RunAssumption DEF MarsInit, Init
  <2>2. PICK pos2 \in Position : core = Loaded(warriors, pos2)
                                 /\ Started(pqueue, 0, pos2)
    BY DEF MarsInit
  <2>3. Pristine(core, pos2) /\ pos2 \in Address
    BY <2>1, <2>2, LoadedPristine
  <2>4. \A w \in Role : pqueue[IF w = WarriorOf(1, round) THEN 0 ELSE 1]
                          = cells(w, pos2)[warriors[w].start + 1]
    BY <2>1, <2>2, StartedAtCells
  <2> QED
    BY <2>1, <2>3, <2>4, PristineIsFresh DEF PristineFresh, Queued
<1>2. Walk /\ FreshCore /\ [MarsNext]_mvars => Walk' /\ FreshCore'
  <2> SUFFICES ASSUME Walk, FreshCore, [MarsNext]_mvars PROVE Walk' /\ FreshCore'
    OBVIOUS
  <2>1. MaxCycles \in Nat \ {0}
    BY RunAssumption
  <2>2. ASSUME NEW c \in 1 .. 4, Execute(c) PROVE Walk' /\ FreshCore'
    <3>1. E!Outcome(core, ip) \in {"continue", "split", "die", "lost", "invalid"}
      BY DEF E!Outcome
    <3>2. \E role, x : \/ Continue(role, x) \/ Split(role, x) \/ Die(role)
                       \/ Lose \/ Invalid(role)
      BY <2>2, <3>1 DEF Execute
    <3>3. cycle' \in {0, cycle - 1}
      BY <3>2 DEF Continue, Split, Die, Lose, Invalid
    <3>4. cycle > 0 /\ warriors' = warriors
      BY <2>2 DEF Execute
    <3>5. cycle' \in 0 .. 2 * MaxCycles /\ cycle' # 2 * MaxCycles
      BY <2>1, <3>3, <3>4
    <3> QED
      BY <3>4, <3>5 DEF FreshCore
  <2>3. CASE NextRound /\ round' < NumRounds
    <3>1. RoundDone /\ warriors' = warriors /\ round' = round + 1
      BY <2>3 DEF NextRound, RoundDone
    <3>2. PICK pos2 \in Position : core' = Loaded(warriors, pos2)
                                   /\ Started(pqueue', round', pos2)
      BY <2>3 DEF NextRound
    <3>3. cycle' = 2 * MaxCycles
      BY <2>3, <3>1 DEF RoundDone, SetUp
    <3>4. Pristine(core', pos2) /\ pos2 \in Address
      BY <3>2, LoadedPristine
    <3>5. \A w \in Role : pqueue'[IF w = WarriorOf(1, round') THEN 0 ELSE 1]
                            = cells(w, pos2)[warriors[w].start + 1]
      BY <3>2, StartedAtCells
    <3>6. \A w \in Role : cells(w, pos2)' = cells(w, pos2)
      BY <3>1 DEF cells, base
    <3>7. \A w \in Role : occupied(w, pos2)' = occupied(w, pos2)
      BY <3>1, <3>6 DEF occupied
    <3>8. Pristine(core, pos2)'
      BY <3>1, <3>4, <3>6, <3>7 DEF Pristine, Role
    <3>9. Queued(pos2)'
      BY <3>1, <3>5, <3>6 DEF Queued
    <3>10. FreshCore'
      <4>1. PristineFresh'
        BY PristineIsFresh, PTL
      <4> QED
        BY <3>4, <3>8, <3>9, <4>1 DEF PristineFresh
    <3> QED
      BY <2>1, <3>1, <3>3, <3>10
  <2>4. CASE NextRound /\ ~(round' < NumRounds)
    <3>0. RoundDone /\ ~(round + 1 < NumRounds) /\ warriors' = warriors
      BY <2>4 DEF NextRound, RoundDone
    <3>1. cycle' = 0 /\ warriors' = warriors
      BY <3>0 DEF RoundDone
    <3>2. cycle' # 2 * MaxCycles /\ cycle' \in 0 .. 2 * MaxCycles
      BY <2>1, <3>1
    <3> QED
      BY <3>1, <3>2 DEF FreshCore
  <2>5. CASE UNCHANGED mvars
    <3>1. /\ core' = core /\ warriors' = warriors /\ cycle' = cycle
          /\ pqueue' = pqueue /\ round' = round
      BY <2>5 DEF mvars, vars
    <3>2. \A pos2, w : cells(w, pos2)' = cells(w, pos2)
      BY <3>1 DEF cells, base
    <3>3. \A pos2, w : occupied(w, pos2)' = occupied(w, pos2)
      BY <3>1, <3>2 DEF occupied
    <3>4. \A pos2 : Pristine(core, pos2) => Pristine(core, pos2)'
      BY <3>1, <3>2, <3>3 DEF Pristine
    <3>5. \A pos2 : Queued(pos2) => Queued(pos2)'
      BY <3>1, <3>2 DEF Queued
    <3>6. PristineFresh'
      BY PristineIsFresh, PTL
    <3> QED
      BY <3>1, <3>4, <3>5, <3>6, PristineIsFresh DEF PristineFresh
  <2> QED
    BY <2>2, <2>3, <2>4, <2>5 DEF MarsNext
<1> QED
  BY <1>1, <1>2, PTL DEF MarsSpec

----------------------------------------------------------------------------
(* How far run_88 and p_run_88 are from their return *)

\* Rounds to fight, and turns left in this one.
Distance == <<NumRounds - round, cycle>>

\* Every step of the loop brings it nearer to its return, whatever the
\* instructions do, and so does every step of a fight between valid
\* warriors; no sequence of distances gets nearer without end.
THEOREM RunGetsNearer ==
  /\ IsWellFoundedOn(Nearer(2), Distances(2))
  /\ Spec => [][(<<Distance', Distance>> \in Nearer(2))]_vars
  /\ ValidPrograms =>
       (MarsSpec => [][(<<Distance', Distance>> \in Nearer(2))]_vars)
<1>1. IsWellFoundedOn(Nearer(2), Distances(2))
  BY NearerIsWellFounded
<1>2. Sound => Distance \in [1 .. 2 -> Nat]
  BY RunAssumption DEF Sound, TypeOK, Distance
<1>3. Sound /\ Sound' /\ [Next]_vars
        => [(<<Distance', Distance>> \in Nearer(2))]_vars
  <2> SUFFICES ASSUME Sound, Sound', Next
               PROVE  <<Distance', Distance>> \in Nearer(2)
    OBVIOUS
  <2>1. Distance \in [1 .. 2 -> Nat] /\ Distance' \in [1 .. 2 -> Nat]
    <3>1. (Sound => Distance \in [1 .. 2 -> Nat])'
      BY <1>2, PTL
    <3> QED
      BY <1>2, <3>1
  <2>2. round \in Nat /\ NumRounds \in Nat /\ cycle \in Nat
    BY RunAssumption DEF Sound, TypeOK
  <2>3. \/ NumRounds - round' < NumRounds - round
        \/ round' = round /\ cycle' < cycle
    <3>1. CASE RoundDone
      BY <2>2, <3>1 DEF RoundDone
    <3>2. ASSUME NEW c \in 1 .. 4, Turn(c)
          PROVE  round' = round /\ cycle' < cycle
      BY <2>2, <3>2 DEF Turn, Continue, Split, Die, Lose, Invalid, Fetch
    <3> QED
      BY <3>1, <3>2 DEF Next
  <2>4. Distance[1] = NumRounds - round /\ Distance[2] = cycle
    BY DEF Distance
  <2>5. Distance'[1] = NumRounds - round' /\ Distance'[2] = cycle'
    BY DEF Distance
  <2> QED
    BY <2>1, <2>3, <2>4, <2>5, NearerOfTwo
<1>4. Spec => [][(<<Distance', Distance>> \in Nearer(2))]_vars
  BY <1>3, SoundHolds, PTL DEF Spec
<1>5. ASSUME ValidPrograms PROVE MarsSpec => Spec
  BY <1>5, FightFollowsLoop
<1>6. ASSUME ValidPrograms
      PROVE  MarsSpec => [][(<<Distance', Distance>> \in Nearer(2))]_vars
  BY <1>4, <1>5, <1>6, PTL
<1> QED
  BY <1>1, <1>4, <1>6
=============================================================================
