---------------------------- MODULE MaglevProofs ----------------------------
(***************************************************************************)
(* For every number of slots and backends and every mixture of weights:    *)
(* the walks of Maglev stay inside their permutations, the finished table   *)
(* has no hole, and the shares of the backends follow their weights.  The   *)
(* only thing assumed of the hashes is PermAssumption: a row of perm visits  *)
(* no slot twice.                                                           *)
(***************************************************************************)
EXTENDS Maglev, FiniteSetTheorems, TLAPS

Taken == {p \in Position : table[p] # Empty}

Passed(i) == {perm[i][j] : j \in 0 .. next[i] - 1}

(***************************************************************************)
(* The inductive invariant.  The code has no bound on next; what bounds it *)
(* is the count of the slots backend i can no longer take, because they are *)
(* not free or because i has walked past them.  Each is paid for by one     *)
(* increment of filled.  A backend whose id is EMPTY writes slots that stay *)
(* free, which is why the slots walked past are counted as well.            *)
(***************************************************************************)
Paid(i) == Cardinality(Taken \cup Passed(i)) <= filled

IInv ==
    /\ TypeOK
    /\ \A i \in Backend : Paid(i)
    /\ Registered => Cardinality(Taken) = filled

-----------------------------------------------------------------------------
\* A row of perm is a walk over the slots that repeats none.
LEMMA RowIsWalk ==
    ASSUME NEW p \in Perm
    PROVE  /\ p \in [Position -> Position]
           /\ \A j, k \in Position : p[j] = p[k] => j = k
<1>1. PICK offset \in Offset, skip \in Skip : p = AffinePerm(offset, skip)
  BY DEF Perm
<1>2. ASSUME NEW j \in Position PROVE ((offset + j * skip) % Word) % M \in Position
  <2>1. offset \in Nat /\ j \in Nat /\ skip \in Nat
    BY MaglevAssumption DEF Position
  <2>2. offset + j * skip \in Nat
    BY <2>1
  <2>3. (offset + j * skip) % Word \in Nat
    BY <2>2, MaglevAssumption
  <2> QED BY <2>3, MaglevAssumption DEF Position
<1> QED BY <1>1, <1>2, PermAssumption DEF AffinePerm

\* The slots are finitely many, M of them.
LEMMA Slots ==
    /\ IsFiniteSet(Position)
    /\ Cardinality(Position) = M
BY MaglevAssumption, FS_Interval DEF Position

\* n steps are n positions of a row.
LEMMA FirstSteps ==
    ASSUME NEW n \in Nat
    PROVE  IsFiniteSet(0 .. n - 1) /\ Cardinality(0 .. n - 1) = n
<1>1. n - 1 \in Int /\ 0 \in Int
  OBVIOUS
<1>2. IsFiniteSet(0 .. n - 1) /\ Cardinality(0 .. n - 1) = IF 0 > n - 1 THEN 0 ELSE (n - 1) - 0 + 1
  BY <1>1, FS_Interval, Zenon
<1> QED BY <1>2

\* A walk of n steps has passed n slots.
LEMMA PassedCount ==
    ASSUME TypeOK, NEW i \in Backend
    PROVE  /\ Passed(i) \subseteq Position
           /\ Cardinality(Passed(i)) = next[i]
<1> DEFINE D == 0 .. next[i] - 1
           f == [j \in D |-> perm[i][j]]
<1>1. next[i] \in 0 .. M /\ perm[i] \in Perm
  BY DEF TypeOK
<1>2. D \subseteq Position
  BY <1>1, MaglevAssumption DEF Position
<1>3. \A j \in D : perm[i][j] \in Position
  BY <1>1, <1>2, RowIsWalk
<1>4. Passed(i) \subseteq Position
  BY <1>3 DEF Passed
<1>5. f \in Bijection(D, Passed(i))
  <2>1. f \in [D -> Passed(i)]
    BY DEF Passed
  <2>2. \A j, k \in D : f[j] = f[k] => j = k
    BY <1>1, <1>2, RowIsWalk
  <2>3. \A p \in Passed(i) : \E j \in D : f[j] = p
    BY DEF Passed
  <2> QED BY <2>1, <2>2, <2>3 DEF Bijection, Injection, Surjection, IsInjective
<1>6. ExistsBijection(D, Passed(i))
  BY <1>5 DEF ExistsBijection
<1>7. IsFiniteSet(D) /\ Cardinality(D) = next[i]
  BY <1>1, MaglevAssumption, FirstSteps
<1> HIDE DEF D
<1>8. Cardinality(Passed(i)) = Cardinality(D)
  BY <1>6, <1>7, FS_Bijection
<1> QED BY <1>4, <1>7, <1>8

\* What a backend can no longer take is a finite set of slots.
LEMMA PaidSet ==
    ASSUME TypeOK, NEW i \in Backend
    PROVE  /\ Taken \cup Passed(i) \subseteq Position
           /\ IsFiniteSet(Taken \cup Passed(i))
           /\ next[i] <= Cardinality(Taken \cup Passed(i))
           /\ IsFiniteSet(Taken)
<1>1. Taken \subseteq Position /\ Passed(i) \subseteq Position
  BY PassedCount DEF Taken
<1>2. IsFiniteSet(Taken \cup Passed(i)) /\ IsFiniteSet(Taken)
  BY <1>1, Slots, FS_Subset
<1>3. Cardinality(Passed(i)) <= Cardinality(Taken \cup Passed(i))
  BY <1>2, FS_Subset
<1>4. next[i] = Cardinality(Passed(i))
  BY PassedCount
<1> QED BY <1>1, <1>2, <1>3, <1>4

\* So the invariant bounds every walk by the slots that are filled.
LEMMA NextBelowFilled ==
    ASSUME IInv, NEW i \in Backend
    PROVE  next[i] <= filled
<1>1. TypeOK /\ Paid(i)
  BY DEF IInv
<1>2. next[i] \in Nat /\ filled \in Nat
  BY <1>1, MaglevAssumption DEF TypeOK
<1>3. Cardinality(Taken \cup Passed(i)) \in Nat
  BY <1>1, PaidSet, FS_CardinalityType
<1>4. next[i] <= Cardinality(Taken \cup Passed(i))
  BY <1>1, PaidSet
<1> QED BY <1>1, <1>2, <1>3, <1>4 DEF Paid

-----------------------------------------------------------------------------
\* Nobody has walked, and no slot is taken.
LEMMA InitInv == Init => IInv
<1> SUFFICES ASSUME Init PROVE IInv
  OBVIOUS
<1>1. TypeOK
  BY MaglevAssumption DEF Init, TypeOK, Backend
<1>2. \A i \in Backend : Passed(i) = {}
  BY DEF Init, Passed
<1>3. Taken = {}
  BY DEF Init, Taken
<1>4. Cardinality({}) = 0
  BY FS_EmptySet
<1>5. filled = 0
  BY DEF Init
<1> QED BY <1>1, <1>2, <1>3, <1>4, <1>5 DEF IInv, Paid

\* A look at a taken slot adds it to the walk of a backend that could not have
\* it in any case.
LEMMA WalkOnInv == IInv /\ WalkOn => IInv'
<1> SUFFICES ASSUME IInv, WalkOn PROVE IInv'
  OBVIOUS
<1> USE MaglevAssumption DEF WalkOn, job
<1>1. TypeOK /\ turn \in Backend /\ next[turn] <= filled /\ filled < M
  BY NextBelowFilled DEF IInv, TypeOK
<1>2. next[turn] \in Nat /\ next[turn] + 1 \in 0 .. M /\ next[turn] \in Position
  BY <1>1 DEF TypeOK, Position
<1>3. TypeOK'
  BY <1>1, <1>2 DEF TypeOK
<1>4. Taken' = Taken
  BY DEF Taken
<1>5. Look \in Taken
  BY <1>1, <1>2, RowIsWalk DEF Look, Taken, TypeOK
<1>6. ASSUME NEW i \in Backend PROVE Paid(i)'
  <2>1. CASE i # turn
    <3>1. Passed(i)' = Passed(i)
      BY <2>1, <1>1 DEF Passed, TypeOK
    <3> QED BY <3>1, <1>4 DEF Paid, IInv
  <2>2. CASE i = turn
    <3>1. Passed(i)' = Passed(i) \cup {Look}
      BY <2>2, <1>1, <1>2 DEF Passed, Look, TypeOK
    <3>2. (Taken \cup Passed(i))' = Taken \cup Passed(i)
      BY <3>1, <1>4, <1>5
    <3> QED BY <3>2 DEF Paid, IInv
  <2> QED BY <2>1, <2>2
<1>7. Registered' => Cardinality(Taken)' = filled'
  BY <1>4 DEF IInv, Registered
<1> QED BY <1>3, <1>6, <1>7 DEF IInv

\* Taking a slot adds one slot at most to what any backend can no longer take,
\* and one to filled.
LEMMA TakeSlotInv == IInv /\ TakeSlot => IInv'
<1> SUFFICES ASSUME IInv, TakeSlot PROVE IInv'
  OBVIOUS
<1> USE MaglevAssumption DEF TakeSlot, job
<1>1. TypeOK /\ turn \in Backend /\ next[turn] <= filled /\ filled < M /\ filled \in Nat
  BY NextBelowFilled DEF IInv, TypeOK
<1>2. next[turn] \in Nat /\ next[turn] + 1 \in 0 .. M /\ next[turn] \in Position
  BY <1>1 DEF TypeOK, Position
<1>3. Look \in Position /\ table[Look] = Empty
  BY <1>1, <1>2, RowIsWalk DEF Look, TypeOK
<1>4. turn' \in Backend /\ c' \in 0 .. Scale - 1
  <2>1. counters[turn] \in 1 .. Scale /\ c \in 0 .. Scale - 1
    BY <1>1 DEF TypeOK
  <2>2. CASE c + 1 < counters[turn]
    BY <1>1, <2>1, <2>2 DEF EndTurn
  <2>3. CASE ~(c + 1 < counters[turn])
    BY <1>1, <2>1, <2>3 DEF EndTurn, Backend
  <2> QED BY <2>2, <2>3
<1>5. TypeOK'
  BY <1>1, <1>2, <1>3, <1>4 DEF TypeOK
<1>6. Taken' \subseteq Taken \cup {Look}
  BY <1>1, <1>3 DEF Taken, TypeOK
<1>7. ASSUME NEW i \in Backend PROVE Paid(i)'
  <2> DEFINE U == Taken \cup Passed(i)
  <2>1. Passed(i)' \subseteq Passed(i) \cup {Look}
    BY <1>1, <1>2 DEF Passed, Look, TypeOK
  <2>2. U' \subseteq U \cup {Look}
    BY <2>1, <1>6
  <2>3. IsFiniteSet(U) /\ Cardinality(U) \in Nat
    BY <1>1, PaidSet, FS_CardinalityType
  <2>4. Cardinality(U) <= filled
    BY DEF IInv, Paid
  <2> HIDE DEF U
  <2>5. IsFiniteSet(U \cup {Look}) /\ Cardinality(U \cup {Look}) <= Cardinality(U) + 1
    BY <2>3, FS_AddElement
  <2>6. Cardinality(U \cup {Look}) \in Nat
    BY <2>5, FS_CardinalityType
  <2>7. IsFiniteSet(U') /\ Cardinality(U') <= Cardinality(U \cup {Look})
    BY <2>2, <2>5, FS_Subset
  <2>8. Cardinality(U') \in Nat
    BY <2>7, FS_CardinalityType
  <2>9. Cardinality(U') <= filled'
    BY <2>3, <2>8, <2>4, <2>5, <2>6, <2>7, <1>1
  <2> QED BY <2>9 DEF U, Paid
<1>8. ASSUME Registered' PROVE Cardinality(Taken)' = filled'
  <2>1. Registered /\ ids[turn] # Empty
    BY <1>1, <1>8 DEF Registered
  <2>2. Taken' = Taken \cup {Look}
    BY <1>1, <1>3, <2>1 DEF Taken, TypeOK
  <2>3. Look \notin Taken /\ IsFiniteSet(Taken)
    BY <1>1, <1>3, PaidSet DEF Taken
  <2>4. Cardinality(Taken') = Cardinality(Taken) + 1
    BY <2>2, <2>3, FS_AddElement
  <2> QED BY <2>1, <2>4 DEF IInv
<1> QED BY <1>5, <1>7, <1>8 DEF IInv

\* The invariant holds throughout every run of the loop.
THEOREM AlwaysInv == Spec => []IInv
<1>1. IInv /\ [Next]_vars => IInv'
  <2> SUFFICES ASSUME IInv, [Next]_vars PROVE IInv'
    OBVIOUS
  <2>1. CASE WalkOn
    BY <2>1, WalkOnInv
  <2>2. CASE TakeSlot
    BY <2>2, TakeSlotInv
  <2>3. CASE UNCHANGED vars
    BY <2>3 DEF vars, job, IInv, TypeOK, Paid, Taken, Passed, Registered
  <2> QED BY <2>1, <2>2, <2>3 DEF Next
<1> QED BY <1>1, InitInv, PTL DEF Spec

-----------------------------------------------------------------------------
\* Every variable of the loop keeps its range; in particular no next[i] of
\* build_table passes M.
THEOREM TypeCorrect == Spec => []TypeOK
<1>1. IInv => TypeOK
  BY DEF IInv
<1> QED BY <1>1, AlwaysInv, PTL

\* build_table never reads perm[i][M], although nothing in the loop checks
\* next[i]: not even when the scorer handed it a backend whose id is EMPTY.
THEOREM WalksStayInBounds == Spec => []InBounds
<1>1. IInv => InBounds
  <2> SUFFICES ASSUME IInv, filled < M PROVE next[turn] < M
    BY DEF InBounds
  <2>1. turn \in Backend /\ next[turn] \in 0 .. M /\ filled \in 0 .. M
    BY DEF IInv, TypeOK
  <2>2. next[turn] <= filled
    BY <2>1, NextBelowFilled
  <2> QED BY <2>1, <2>2, MaglevAssumption
<1> QED BY <1>1, AlwaysInv, PTL

\* When build_table returns, every slot holds the id of a backend, provided
\* every backend had one.
THEOREM TablesComplete == Spec => []TableComplete
<1>1. IInv => TableComplete
  <2> SUFFICES ASSUME IInv, filled = M, Registered
               PROVE  \A p \in Position : table[p] # Empty
    BY DEF TableComplete
  <2>1. Taken \in SUBSET Position /\ Cardinality(Taken) = Cardinality(Position)
    BY Slots DEF IInv, Taken
  <2>2. Taken = Position
    BY <2>1, Slots, FS_Subset
  <2> QED BY <2>2 DEF Taken
<1> QED BY <1>1, AlwaysInv, PTL

-----------------------------------------------------------------------------
(***************************************************************************)
(* The shares.  Behind them is how many rounds every backend has had: R     *)
(* full ones, and those up to turn one more, or c slots of it.              *)
(***************************************************************************)
Had(i) == IF i < turn THEN counters[i] ELSE IF i = turn THEN c ELSE 0

Rounds(R) == \A i \in Backend : Cardinality(SlotsOf(i)) = R * counters[i] + Had(i)

ShareInv ==
    /\ DistinctIds(ids)
    /\ c < counters[turn]
    /\ Registered => \E R \in Nat : Rounds(R)

\* The arithmetic of a share: n slots in R turns of m, and k in R turns of l.
LEMMA ShareOfTurns ==
    ASSUME NEW R \in Nat, NEW m \in Nat, NEW l \in Nat, NEW n \in Nat, NEW k \in Nat,
           n <= R * m + m, R * l <= k
    PROVE  n * l <= (k + l) * m
<1> DEFINE P == R * m
           Q == R * l
<1>1. P \in Nat /\ Q \in Nat
  OBVIOUS
<1>2. \A x, y, z \in Nat : x <= y => x * z <= y * z
  OBVIOUS
<1>3. n * l <= (P + m) * l
  BY <1>1, <1>2
<1>4. (Q + l) * m <= (k + l) * m
  <2>1. Q + l \in Nat /\ k + l \in Nat /\ Q + l <= k + l
    BY <1>1
  <2> QED BY <2>1, <1>2
<1>5. (P + m) * l = (Q + l) * m
  OBVIOUS
<1>6. n * l \in Nat /\ (P + m) * l \in Nat /\ (k + l) * m \in Nat
  BY <1>1
<1> HIDE DEF P, Q
<1> QED BY <1>3, <1>4, <1>5, <1>6

\* Nobody has had a slot.
LEMMA ShareInit == Init => ShareInv
<1> SUFFICES ASSUME Init PROVE ShareInv
  OBVIOUS
<1>1. turn = 1 /\ c = 0 /\ 1 \in Backend /\ counters \in [Backend -> 1 .. Scale]
  BY MaglevAssumption DEF Init, Backend
<1>2. c < counters[turn]
  <2>1. counters[1] \in 1 .. Scale
    BY <1>1
  <2> QED BY <1>1, <2>1, MaglevAssumption
<1>3. DistinctIds(ids)
  BY DEF Init
<1>4. ASSUME Registered PROVE Rounds(0)
  <2> SUFFICES ASSUME NEW i \in Backend
               PROVE  Cardinality(SlotsOf(i)) = 0 * counters[i] + Had(i)
    BY DEF Rounds
  <2>1. SlotsOf(i) = {}
    BY <1>4 DEF Init, SlotsOf, Registered
  <2>2. Cardinality(SlotsOf(i)) = 0
    BY <2>1, FS_EmptySet
  <2>3. Had(i) = 0
    <3>1. i \in Nat /\ ~(i < 1)
      BY DEF Backend
    <3> QED BY <1>1, <3>1 DEF Had
  <2>4. counters[i] \in Nat
    BY <1>1, MaglevAssumption
  <2> QED BY <2>2, <2>3, <2>4
<1> QED BY <1>2, <1>3, <1>4 DEF ShareInv

\* Walking on gives nobody a slot.
LEMMA ShareWalkOn == ShareInv /\ WalkOn => ShareInv'
BY DEF ShareInv, WalkOn, job, DistinctIds, Registered, Rounds, Had, SlotsOf

\* A slot is one more for the backend whose turn it is, and for nobody else.
LEMMA SlotTaken ==
    ASSUME TypeOK, DistinctIds(ids), Registered, TakeSlot, Look \in Position,
           NEW i \in Backend
    PROVE  Cardinality(SlotsOf(i))' = Cardinality(SlotsOf(i)) + (IF i = turn THEN 1 ELSE 0)
<1>1. ids' = ids /\ turn \in Backend /\ table[Look] = Empty
  BY DEF TakeSlot, job, TypeOK
<1>2. table' = [table EXCEPT ![Look] = ids[turn]]
  BY DEF TakeSlot
<1>3. \A p \in Position : table'[p] = IF p = Look THEN ids[turn] ELSE table[p]
  BY <1>2 DEF TypeOK
<1>4. IsFiniteSet(SlotsOf(i)) /\ Cardinality(SlotsOf(i)) \in Nat
  <2>1. SlotsOf(i) \subseteq Position
    BY DEF SlotsOf
  <2> QED BY <2>1, Slots, FS_Subset, FS_CardinalityType
<1>5. CASE i = turn
  <2>1. SlotsOf(i)' = SlotsOf(i) \cup {Look}
    BY <1>1, <1>3, <1>5 DEF SlotsOf
  <2>2. Look \notin SlotsOf(i)
    BY <1>1 DEF SlotsOf, Registered
  <2>3. Cardinality(SlotsOf(i) \cup {Look}) = Cardinality(SlotsOf(i)) + 1
    BY <1>4, <2>2, FS_AddElement
  <2> QED BY <2>1, <2>3, <1>5
<1>6. CASE i # turn
  <2>1. ids[i] # ids[turn] /\ ids[i] # Empty
    BY <1>1, <1>6 DEF DistinctIds, Registered
  <2>2. SlotsOf(i)' = SlotsOf(i)
    BY <1>1, <1>3, <2>1 DEF SlotsOf
  <2> QED BY <2>2, <1>4, <1>6
<1> QED BY <1>5, <1>6

\* When the last backend has had its turn a round is over.
LEMMA ShareTakeSlot == IInv /\ ShareInv /\ TakeSlot => ShareInv'
<1> SUFFICES ASSUME IInv, ShareInv, TakeSlot PROVE ShareInv'
  OBVIOUS
<1>1. /\ TypeOK /\ turn \in Backend /\ next[turn] <= filled /\ filled < M
      /\ next[turn] \in Nat /\ filled \in Nat
  <2>1. TypeOK /\ turn \in Backend /\ next[turn] \in 0 .. M /\ filled \in 0 .. M
    BY DEF IInv, TypeOK
  <2> QED BY <2>1, NextBelowFilled, MaglevAssumption DEF TakeSlot
<1>2. Look \in Position
  <2>1. next[turn] \in Position
    BY <1>1, MaglevAssumption DEF Position
  <2> QED BY <1>1, <2>1, RowIsWalk DEF Look, TypeOK
<1>3. counters' = counters /\ ids' = ids /\ EndTurn
  BY DEF TakeSlot, job
<1>4. \A i \in Backend : counters[i] \in Nat /\ counters[i] >= 1
  <2>1. \A i \in Backend : counters[i] \in 1 .. Scale
    BY <1>1 DEF TypeOK
  <2> QED BY <2>1, MaglevAssumption
<1>5. c \in Nat /\ turn \in Nat /\ c < counters[turn] /\ turn >= 1 /\ turn <= N
  <2>1. c \in 0 .. Scale - 1 /\ turn \in 1 .. N
    BY <1>1 DEF TypeOK, Backend
  <2>2. c < counters[turn]
    BY DEF ShareInv
  <2> QED BY <2>1, <2>2, MaglevAssumption
<1>6. c' < counters[turn]' /\ turn' \in Backend
  <2>1. CASE c + 1 < counters[turn]
    BY <1>1, <1>3, <2>1 DEF EndTurn
  <2>2. CASE ~(c + 1 < counters[turn])
    <3>1. c' = 0 /\ turn' \in Backend
      BY <1>3, <1>5, <2>2, MaglevAssumption DEF EndTurn, Backend
    <3>2. counters'[turn'] >= 1 /\ counters'[turn'] \in Nat
      BY <3>1, <1>3, <1>4
    <3> QED BY <3>1, <3>2
  <2> QED BY <2>1, <2>2
<1>7. DistinctIds(ids)'
  BY <1>3 DEF ShareInv, DistinctIds
<1>8. ASSUME Registered' PROVE \E R \in Nat : Rounds(R)'
  <2>1. Registered /\ DistinctIds(ids)
    BY <1>3, <1>8 DEF Registered, ShareInv
  <2>2. PICK R \in Nat : Rounds(R)
    BY <2>1 DEF ShareInv
  <2>3. \A i \in Backend : Cardinality(SlotsOf(i))'
                = R * counters[i] + Had(i) + (IF i = turn THEN 1 ELSE 0)
    BY <2>1, <2>2, <1>1, <1>2, SlotTaken DEF Rounds
  <2>4. \A i \in Backend : i \in Nat /\ i >= 1 /\ i <= N
    BY MaglevAssumption DEF Backend
  <2>5. ASSUME c + 1 < counters[turn] \/ turn < N PROVE Rounds(R)'
    <3> SUFFICES ASSUME NEW i \in Backend
                 PROVE  Cardinality(SlotsOf(i))' = R * counters'[i] + Had(i)'
      BY DEF Rounds
    <3>1. Had(i)' = Had(i) + (IF i = turn THEN 1 ELSE 0)
      <4>1. CASE c + 1 < counters[turn]
        BY <4>1, <1>3, <1>4, <1>5, <2>4 DEF EndTurn, Had
      <4>2. CASE ~(c + 1 < counters[turn])
        <5>1. c' = 0 /\ turn' = turn + 1 /\ c + 1 = counters[turn]
          BY <4>2, <2>5, <1>3, <1>4, <1>5, <1>1 DEF EndTurn
        <5> QED BY <5>1, <1>3, <1>4, <1>5, <2>4 DEF Had
      <4> QED BY <4>1, <4>2
    <3>2. Had(i) \in Nat /\ R * counters[i] \in Nat
      BY <1>4, <1>5 DEF Had
    <3>3. Had(i)' \in Nat
      BY <3>1, <3>2
    <3> DEFINE P == R * counters[i]
    <3>4. P \in Nat /\ Cardinality(SlotsOf(i))' = P + Had(i) + (IF i = turn THEN 1 ELSE 0)
      BY <3>2, <2>3
    <3>5. P = R * counters'[i]
      BY <1>3
    <3> HIDE DEF P
    <3> QED BY <3>1, <3>2, <3>3, <3>4, <3>5
  <2>6. ASSUME ~(c + 1 < counters[turn]), ~(turn < N) PROVE Rounds(R + 1)'
    <3> SUFFICES ASSUME NEW i \in Backend
                 PROVE  Cardinality(SlotsOf(i))' = (R + 1) * counters'[i] + Had(i)'
      BY DEF Rounds
    <3>1. c' = 0 /\ turn' = 1 /\ c + 1 = counters[turn] /\ turn = N
      BY <2>6, <1>3, <1>4, <1>5, <1>1, MaglevAssumption DEF EndTurn
    <3>2. Had(i) + (IF i = turn THEN 1 ELSE 0) = counters[i] /\ Had(i) \in Nat
      BY <3>1, <2>4, <1>4, <1>5, MaglevAssumption DEF Had
    <3>3. Had(i)' = 0
      BY <3>1, <2>4 DEF Had
    <3> DEFINE P == R * counters[i]
    <3>4. P \in Nat /\ Cardinality(SlotsOf(i))' = P + Had(i) + (IF i = turn THEN 1 ELSE 0)
      BY <1>4, <2>3
    <3>5. P + counters[i] = (R + 1) * counters'[i]
      BY <1>3, <1>4
    <3> HIDE DEF P
    <3> QED BY <3>2, <3>3, <3>4, <3>5, <1>4
  <2>7. R + 1 \in Nat
    OBVIOUS
  <2> QED BY <2>5, <2>6, <2>7
<1> QED BY <1>6, <1>7, <1>8 DEF ShareInv

\* The slots of two backends relate as their weights do, give or take a turn,
\* at every moment of build_table and so in the table it returns.
THEOREM SharesFollowWeights == Spec => []WeightedShare
<1>1. IInv /\ ShareInv => WeightedShare
  <2> SUFFICES ASSUME IInv, ShareInv, Registered, NEW i \in Backend, NEW j \in Backend
               PROVE  Cardinality(SlotsOf(i)) * counters[j]
                        <= (Cardinality(SlotsOf(j)) + counters[j]) * counters[i]
    BY DEF WeightedShare
  <2>1. PICK R \in Nat : Rounds(R)
    BY DEF ShareInv
  <2>2. ASSUME NEW k \in Backend
        PROVE  /\ counters[k] \in Nat
               /\ Cardinality(SlotsOf(k)) \in Nat
               /\ R * counters[k] <= Cardinality(SlotsOf(k))
               /\ Cardinality(SlotsOf(k)) <= R * counters[k] + counters[k]
    <3>1. counters[k] \in 1 .. Scale /\ c \in 0 .. Scale - 1
      BY DEF IInv, TypeOK
    <3>2. counters[k] \in Nat /\ c \in Nat
      BY <3>1, MaglevAssumption
    <3>3. Had(k) \in Nat /\ Had(k) <= counters[k]
      BY <3>2 DEF Had, ShareInv
    <3>4. Cardinality(SlotsOf(k)) = R * counters[k] + Had(k)
      BY <2>1 DEF Rounds
    <3>5. R * counters[k] \in Nat
      BY <3>2
    <3> QED BY <3>2, <3>3, <3>4, <3>5
  <2> QED BY <2>2, ShareOfTurns
<1>2. ShareInv /\ UNCHANGED vars => ShareInv'
  BY DEF ShareInv, vars, job, DistinctIds, Registered, Rounds, Had, SlotsOf
<1>3. IInv /\ ShareInv /\ [Next]_vars => ShareInv'
  BY <1>2, ShareWalkOn, ShareTakeSlot DEF Next
<1> QED BY <1>1, <1>3, ShareInit, AlwaysInv, PTL DEF Spec
=============================================================================
