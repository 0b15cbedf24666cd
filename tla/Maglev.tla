------------------------------- MODULE Maglev -------------------------------
(***************************************************************************)
(* MaglevBuilder::build_table: every backend of a service walks its own    *)
(* permutation of the M slots and takes, in its turn, as many free slots as *)
(* its score has earned, until the table is full.  One step of the model is *)
(* one look at a slot, so that the walk off the end of a permutation that   *)
(* the code does not guard against is a state of the model.                 *)
(***************************************************************************)
EXTENDS Integers, FiniteSets

CONSTANTS
    M,        \* slots of the table, 65537 in the code
    Word,     \* values of the unsigned type of the arithmetic, 2^32
    N,        \* backends of the service
    Offset,   \* what hash1 may yield
    Skip,     \* what hash2 may yield
    Id,       \* logical ids, as unsigned values
    Empty,    \* EMPTY, which is also the unsigned value of the id -1
    Score,    \* what the scorer may yield
    Scale     \* turns of the backend with the best score, 100 in the code

Position == 0 .. M - 1
Backend == 1 .. N

\* The row perm[i] of the code: unsigned arithmetic, then the remainder.
AffinePerm(offset, skip) == [j \in Position |-> ((offset + j * skip) % Word) % M]

Perm == {AffinePerm(offset, skip) : offset \in Offset, skip \in Skip}

ASSUME MaglevAssumption ==
    /\ M \in Nat \ {0}
    /\ N \in Nat \ {0}
    /\ Word \in Nat \ {0}
    /\ Offset \subseteq Position
    /\ Skip \subseteq 1 .. M - 1
    /\ Score \subseteq Nat
    /\ Scale \in Nat \ {0}

\* M is prime and no product of the code's ids reaches Word: a walk visits no
\* slot twice.
ASSUME PermAssumption ==
    \A p \in Perm : \A j, k \in Position : p[j] = p[k] => j = k

VARIABLES
    perm,      \* the rows of the code's perm
    ids,       \* backend_id of each backend
    counters,  \* slots a backend takes in a turn
    table,
    next,      \* how far each backend has walked
    filled,
    turn, c    \* the loop variables i (from 1) and c

job  == <<perm, ids, counters>>
vars == <<job, table, next, filled, turn, c>>

MaxScore(scores) == CHOOSE m \in {scores[i] : i \in Backend} :
                        \A i \in Backend : scores[i] <= m

AtLeastOne(n) == IF n < 1 THEN 1 ELSE n

\* counters[i] in floating point: score / max * 100 may fall just short of the
\* integer it stands for.  When every score is 0 the quotient is not a number,
\* and its conversion is below 1.
Counter(score, max) ==
    IF max = 0
    THEN {1}
    ELSE {AtLeastOne((score * Scale) \div max)}
            \cup (IF (score * Scale) % max = 0 /\ score # max
                  THEN {AtLeastOne((score * Scale) \div max - 1)} ELSE {})

\* Other descriptors have other ids; the scorer may meet one session whose id
\* is not yet registered, and its -1 is EMPTY here.
DistinctIds(f) == \A i, j \in Backend : f[i] = f[j] => i = j

Init ==
    /\ perm \in [Backend -> Perm]
    /\ ids \in {f \in [Backend -> Id \cup {Empty}] : DistinctIds(f)}
    /\ \E scores \in [Backend -> Score] :
          counters \in {f \in [Backend -> 1 .. Scale] :
              \A i \in Backend : f[i] \in Counter(scores[i], MaxScore(scores))}
    /\ table = [p \in Position |-> Empty]
    /\ next = [i \in Backend |-> 0]
    /\ filled = 0
    /\ turn = 1
    /\ c = 0

\* The slot the backend whose turn it is looks at.
Look == perm[turn][next[turn]]

\* Mutant: the walk looks at the same slot again.
MutWalkOn ==
    /\ filled < M
    /\ table[Look] # Empty
    /\ UNCHANGED vars

\* while (table[pos] != EMPTY): the slot is taken, walk on.
WalkOn ==
    /\ filled < M
    /\ table[Look] # Empty
    /\ next' = [next EXCEPT ![turn] = @ + 1]
    /\ UNCHANGED <<job, table, filled, turn, c>>

\* Mutant: the turn ends without regard to the counter.
MutEndTurn ==
    /\ turn' = IF turn < N THEN turn + 1 ELSE 1
    /\ c' = 0

\* Mutant: the backend loop runs once more than there are backends.
MutTurnBound ==
    IF c + 1 < counters[turn]
    THEN c' = c + 1 /\ UNCHANGED turn
    ELSE c' = 0 /\ turn' = IF turn <= N THEN turn + 1 ELSE 1

\* The next c, or the next backend when the turn is over.
EndTurn ==
    IF c + 1 < counters[turn]
    THEN c' = c + 1 /\ UNCHANGED turn
    ELSE c' = 0 /\ turn' = IF turn < N THEN turn + 1 ELSE 1

\* Mutant: the slot is taken and not counted.
MutTakeSlot ==
    /\ filled < M
    /\ table[Look] = Empty
    /\ table' = [table EXCEPT ![Look] = ids[turn]]
    /\ next' = [next EXCEPT ![turn] = @ + 1]
    /\ EndTurn
    /\ UNCHANGED <<job, filled>>

\* Mutant: a slot that is taken is taken again.
MutTakeAnySlot ==
    /\ filled < M
    /\ table' = [table EXCEPT ![Look] = ids[turn]]
    /\ next' = [next EXCEPT ![turn] = @ + 1]
    /\ filled' = filled + 1
    /\ EndTurn
    /\ UNCHANGED job

\* table[pos] = backend_id: the slot is free, and the backend's turn goes on.
TakeSlot ==
    /\ filled < M
    /\ table[Look] = Empty
    /\ table' = [table EXCEPT ![Look] = ids[turn]]
    /\ next' = [next EXCEPT ![turn] = @ + 1]
    /\ filled' = filled + 1
    /\ EndTurn
    /\ UNCHANGED job

Next == WalkOn \/ TakeSlot

Spec == Init /\ [][Next]_vars /\ WF_vars(Next)

-----------------------------------------------------------------------------
(* Properties.                                                             *)

TypeOK ==
    /\ perm \in [Backend -> Perm]
    /\ ids \in [Backend -> Id \cup {Empty}]
    /\ counters \in [Backend -> 1 .. Scale]
    /\ table \in [Position -> Id \cup {Empty}]
    /\ next \in [Backend -> 0 .. M]
    /\ filled \in 0 .. M
    /\ turn \in Backend
    /\ c \in 0 .. Scale - 1

\* No backend walks off the end of its permutation: while the table has room,
\* the slot it looks at next exists.  The code reads perm[i][next[i]] without a
\* check, and an id that equals EMPTY fills a slot that still looks free.
InBounds == filled < M => next[turn] < M

Registered == \A i \in Backend : ids[i] # Empty

SlotsOf(i) == {p \in Position : table[p] = ids[i]}

\* The finished table has no hole, provided every backend had its id.
TableComplete ==
    filled = M /\ Registered => \A p \in Position : table[p] # Empty

\* Shares follow the weights: at any time two backends have had the same number
\* of full turns give or take one, so neither has more than a turn too many.
WeightedShare ==
    Registered =>
        \A i, j \in Backend :
            Cardinality(SlotsOf(i)) * counters[j]
                <= (Cardinality(SlotsOf(j)) + counters[j]) * counters[i]

\* The loop ends: every look either fills a slot or moves a walk that is finite.
Terminates == <>(filled = M)
=============================================================================
