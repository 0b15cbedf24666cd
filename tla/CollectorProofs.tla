--------------------------- MODULE CollectorProofs ---------------------------
(***************************************************************************)
(* The collector for every number of callers, rows, outages and refusals:  *)
(* its types, the bound on leaked connections, and that its exports keep to *)
(* the contract of Sink.                                                   *)
(***************************************************************************)
EXTENDS Collector, FiniteSetTheorems, TLAPS

-----------------------------------------------------------------------------
(* Types.  A row is counted at the end of its third transaction, so the    *)
(* count stays within the sample only because a connection is taken only    *)
(* for a row that is left.                                                 *)

RowLeft == hold[Exporter] = "good" => written < size

TypeInv == TypeOK /\ RowLeft

LEMMA InitType == Init => TypeInv
<1> SUFFICES ASSUME Init PROVE TypeInv
  OBVIOUS
<1>1. /\ up \in BOOLEAN /\ db \in BOOLEAN
  BY Zenon DEF Init
<1>2. RowLeft
  BY DEF Init, RowLeft, Caller
<1> QED BY <1>1, <1>2, CollectorAssumption DEF Init, TypeInv, TypeOK, Caller

\* What the end of a call does to the variables of the sample.
LEMMA EndType ==
    ASSUME TypeInv, NEW c \in Caller, NEW result \in {"success", "failure"}, End(c, result)
    PROVE  /\ calling' = calling \ {c}
           /\ size' \in 0 .. MaxRows /\ written' \in 0 .. size' /\ stage' \in 1 .. 3
           /\ answer' \in {"none", "success", "failure", "broken"}
           /\ Exporter \in calling' <=> size' > 0
           /\ c # Exporter => size' = size /\ written' = written
<1>1. CASE c = Exporter
  BY <1>1, CollectorAssumption DEF End, TypeInv, TypeOK
<1>2. CASE c # Exporter
  BY <1>2 DEF End, TypeInv, TypeOK, sink_vars
<1> QED BY <1>1, <1>2

LEMMA StepType == TypeInv /\ [Next]_vars => TypeInv'
<1> SUFFICES ASSUME TypeInv, [Next]_vars PROVE TypeInv'
  OBVIOUS
<1> USE CollectorAssumption
<1>1. CASE UNCHANGED vars
  BY <1>1 DEF vars, pool_vars, sink_vars, world_vars, TypeInv, TypeOK, RowLeft
<1>2. CASE Start
  BY <1>2 DEF Start, sink_vars, world_vars, TypeInv, TypeOK, RowLeft
<1>3. CASE Crash
  <2>1. up' \in BOOLEAN /\ db' \in BOOLEAN
    BY <1>3, Zenon DEF Crash, TypeInv, TypeOK
  <2>2. /\ pool' = "absent" /\ idle' = "none" /\ leaked' = 0 /\ calling' = {}
        /\ hold' = [c \in Caller |-> "none"] /\ stage' = 1
        /\ outages' \in Nat /\ crashes' \in Nat /\ refusals' \in Nat
    BY <1>3 DEF Crash, TypeInv, TypeOK
  <2>3. size' = 0 /\ written' = 0 /\ answer' \in {"none", "success", "failure", "broken"}
    BY <1>3 DEF Crash, TypeInv, TypeOK
  <2>4. RowLeft'
    BY <2>2 DEF RowLeft, Caller
  <2> QED BY <2>1, <2>2, <2>3, <2>4 DEF TypeInv, TypeOK
<1>4. CASE Outage
  <2>1. hold' \in [Caller -> {"none", "good", "broken"}]
        /\ \A c \in Caller : hold'[c] # "good" /\ (hold'[c] = "none" <=> hold[c] = "none")
    BY <1>4 DEF Outage, TypeInv, TypeOK
  <2>2. written' \in 0 .. size'
    BY <1>4 DEF Outage, TypeInv, TypeOK, RowLeft
  <2>3. RowLeft'
    BY <2>1 DEF RowLeft, Caller
  <2>4. up' \in BOOLEAN /\ db' \in BOOLEAN
    BY <1>4, Zenon DEF Outage, TypeInv, TypeOK
  <2>5. idle' \in {"none", "good", "broken"} /\ outages' \in Nat
    BY <1>4 DEF Outage, TypeInv, TypeOK
  <2>6. UNCHANGED <<pool, leaked, calling, size, stage, answer, crashes, refusals>>
    BY <1>4 DEF Outage
  <2> QED BY <2>1, <2>2, <2>3, <2>4, <2>5, <2>6 DEF TypeInv, TypeOK
<1>5. CASE DbBack
  BY <1>5 DEF DbBack, pool_vars, sink_vars, TypeInv, TypeOK, RowLeft
<1>6. ASSUME NEW c \in Caller, Begin(c) PROVE TypeInv'
  <2>1. CASE c = Exporter
    <3>1. hold[Exporter] = "none"
      BY <1>6, <2>1 DEF Begin, TypeInv, TypeOK, Caller
    <3> QED BY <1>6, <2>1, <3>1 DEF Begin, CallFrame, pool_vars, TypeInv, TypeOK, RowLeft
  <2>2. CASE c # Exporter
    BY <1>6, <2>2 DEF Begin, CallFrame, pool_vars, sink_vars, TypeInv, TypeOK, RowLeft
  <2> QED BY <2>1, <2>2
<1>7. ASSUME NEW c \in Caller, GetConnection(c) PROVE TypeInv'
  <2>1. PICK v \in {"good", "broken"} :
           hold' = [hold EXCEPT ![c] = v] /\ idle' \in {"none", "good", "broken"}
    BY <1>7 DEF GetConnection, TypeInv, TypeOK
  <2>2. c \in calling /\ (c = Exporter => written < size)
    BY <1>7 DEF GetConnection, Wants
  <2>3. UNCHANGED <<up, db, pool, leaked, calling, size, written, stage, answer, outages,
                    crashes, refusals>>
    BY <1>7 DEF GetConnection, CallFrame, sink_vars
  <2>4. RowLeft'
    BY <2>1, <2>2, <2>3 DEF TypeInv, TypeOK, RowLeft, Caller
  <2> QED BY <2>1, <2>2, <2>3, <2>4 DEF TypeInv, TypeOK
<1>8. ASSUME NEW c \in Caller, NEW result \in {"success", "failure"}, End(c, result),
             hold' = [hold EXCEPT ![c] = "none"],
             idle' \in {"none", "good", "broken"}, leaked' \in Nat, refusals' \in Nat,
             CallFrame, UNCHANGED pool
      PROVE  TypeInv'
  <2>1. /\ calling' = calling \ {c}
        /\ size' \in 0 .. MaxRows /\ written' \in 0 .. size' /\ stage' \in 1 .. 3
        /\ answer' \in {"none", "success", "failure", "broken"}
        /\ Exporter \in calling' <=> size' > 0
        /\ c # Exporter => size' = size /\ written' = written
    BY <1>8, EndType
  <2>2. RowLeft'
    BY <1>8, <2>1 DEF TypeInv, TypeOK, RowLeft, Caller
  <2>3. hold' \in [Caller -> {"none", "good", "broken"}]
        /\ \A d \in Caller : hold'[d] # "none" => d \in calling'
    BY <1>8, <2>1 DEF TypeInv, TypeOK
  <2> QED BY <1>8, <2>1, <2>2, <2>3 DEF TypeInv, TypeOK, CallFrame
<1>9. ASSUME NEW c \in Caller, hold[c] = "none" PROVE hold = [hold EXCEPT ![c] = "none"]
  BY <1>9 DEF TypeInv, TypeOK
<1>10. ASSUME NEW c \in Caller, NoConnection(c) PROVE TypeInv'
  BY <1>8, <1>9, <1>10 DEF NoConnection, Wants, pool_vars, TypeInv, TypeOK
<1>11. ASSUME NEW c \in Caller, Finish(c) PROVE TypeInv'
  BY <1>8, <1>11 DEF Finish, Release, CallFrame, TypeInv, TypeOK
<1>12. ASSUME NEW c \in Caller, Fail(c) PROVE TypeInv'
  BY <1>8, <1>12 DEF Fail, Raises, Release, Leak, TypeInv, TypeOK
<1>13. CASE FinishRow
  <2>1. written < size
    BY <1>13 DEF FinishRow, TypeInv, RowLeft
  <2>2. hold' = [hold EXCEPT ![Exporter] = "none"] /\ idle' \in {"none", "good", "broken"}
    BY <1>13 DEF FinishRow, Release, TypeInv, TypeOK
  <2>3. written' \in 0 .. size' /\ stage' \in 1 .. 3
    BY <1>13, <2>1 DEF FinishRow, TypeInv, TypeOK
  <2>4. RowLeft'
    BY <2>2 DEF TypeInv, TypeOK, RowLeft, Caller
  <2>5. UNCHANGED <<up, pool, leaked, calling, size, answer, db, outages, crashes, refusals>>
    BY <1>13 DEF FinishRow, Release, world_vars
  <2> QED BY <2>2, <2>3, <2>4, <2>5 DEF TypeInv, TypeOK, Caller
<1>14. CASE ExportDone
  <2>1. Exporter \in Caller
    BY DEF Caller
  <2> QED BY <1>8, <1>9, <1>14, <2>1 DEF ExportDone, pool_vars, TypeInv, TypeOK
<1> QED BY <1>1, <1>2, <1>3, <1>4, <1>5, <1>6, <1>7, <1>10, <1>11, <1>12, <1>13, <1>14
        DEF Next, CallStep

LEMMA AlwaysType == Spec => []TypeInv
BY InitType, StepType, PTL DEF Spec

\* Every variable of the collector keeps its type; in particular a sample never has more
\* rows stored than it has, and a connection is held only by a call in progress.
THEOREM CollectorTypeCorrect == Spec => []TypeOK
<1>1. TypeInv => TypeOK
  BY DEF TypeInv
<1> QED BY <1>1, AlwaysType, PTL

-----------------------------------------------------------------------------
(* Leaks.  What an outage breaks, it leaks later, one call at a time: a     *)
(* connection that is broken and not yet noticed counts as leaked.  An      *)
(* outage breaks at most as many connections as there are callers, because  *)
(* the idle connection is one that some caller is without.                  *)

Broken == {c \in Caller : hold[c] = "broken"}
IdleBroken == IF idle = "broken" THEN 1 ELSE 0
IdleKept == IF idle = "none" THEN 0 ELSE 1

LeakInv ==
    /\ leaked + Cardinality(Broken) + IdleBroken <= outages * Cardinality(Caller) + refusals
    /\ Cardinality(Holding) + IdleKept <= Cardinality(Caller)
    /\ ~up => calling = {}

\* Taking an element in or out changes the size of a set by one.
LEMMA SizeStep ==
    ASSUME NEW S, NEW c, IsFiniteSet(S)
    PROVE  /\ Cardinality(S) \in Nat
           /\ c \in S => Cardinality(S \ {c}) = Cardinality(S) - 1
           /\ c \notin S => Cardinality(S \cup {c}) = Cardinality(S) + 1
<1>1. Cardinality(S) \in Nat
  BY FS_CardinalityType
<1> QED BY <1>1, FS_AddElement, FS_RemoveElement, Zenon

HoldTypeOK == hold \in [Caller -> {"none", "good", "broken"}]

\* A caller takes a connection.
LEMMA TakeChange ==
    ASSUME HoldTypeOK, NEW c \in Caller, NEW v \in {"good", "broken"}, hold[c] = "none",
           hold' = [hold EXCEPT ![c] = v]
    PROVE  /\ Cardinality(Holding') = Cardinality(Holding) + 1
           /\ v = "broken" => Cardinality(Broken') = Cardinality(Broken) + 1
           /\ v = "good" => Cardinality(Broken') = Cardinality(Broken)
<1> USE DEF HoldTypeOK
<1>1. IsFiniteSet(Broken) /\ IsFiniteSet(Holding)
  BY CollectorAssumption, FS_Subset DEF Broken, Holding
<1>2. Holding' = Holding \cup {c} /\ c \notin Holding
  BY DEF Holding
<1>3. c \notin Broken
  BY DEF Broken
<1>4. v = "broken" => Broken' = Broken \cup {c}
  BY DEF Broken
<1>5. v = "good" => Broken' = Broken
  BY DEF Broken
<1>6. Cardinality(Broken \cup {c}) = Cardinality(Broken) + 1
  BY <1>1, <1>3, SizeStep
<1>7. Cardinality(Holding \cup {c}) = Cardinality(Holding) + 1
  BY <1>1, <1>2, SizeStep
<1> QED BY <1>2, <1>4, <1>5, <1>6, <1>7

\* A caller is without the connection it had.
LEMMA GiveChange ==
    ASSUME HoldTypeOK, NEW c \in Caller, hold[c] # "none", hold' = [hold EXCEPT ![c] = "none"]
    PROVE  /\ Cardinality(Holding') = Cardinality(Holding) - 1
           /\ hold[c] = "broken" => Cardinality(Broken') = Cardinality(Broken) - 1
           /\ hold[c] # "broken" => Cardinality(Broken') = Cardinality(Broken)
<1> USE DEF HoldTypeOK
<1>1. IsFiniteSet(Broken) /\ IsFiniteSet(Holding)
  BY CollectorAssumption, FS_Subset DEF Broken, Holding
<1>2. Holding' = Holding \ {c} /\ c \in Holding
  BY DEF Holding
<1>3. hold[c] = "broken" => c \in Broken /\ Broken' = Broken \ {c}
  BY DEF Broken
<1>4. hold[c] # "broken" => Broken' = Broken
  BY DEF Broken
<1>5. c \in Broken => Cardinality(Broken \ {c}) = Cardinality(Broken) - 1
  BY <1>1, SizeStep
<1>6. Cardinality(Holding \ {c}) = Cardinality(Holding) - 1
  BY <1>1, <1>2, SizeStep
<1> QED BY <1>2, <1>3, <1>4, <1>5, <1>6

\* Broken connections stay broken until a call gives them up, and only calls that
\* give one up, outages and probes that are refused add to what is leaked.
LEMMA LeakStep == ASSUME TypeInv, LeakInv, [Next]_vars PROVE LeakInv'
<1> DEFINE N == Cardinality(Caller)
<1> USE CollectorAssumption
<1>1. N \in Nat /\ N >= 1
  <2>1. Caller # {}
    BY DEF Caller
  <2> QED BY <2>1, FS_CardinalityType, FS_EmptySet
<1>2. /\ outages \in Nat /\ refusals \in Nat /\ leaked \in Nat
      /\ hold \in [Caller -> {"none", "good", "broken"}]
      /\ idle \in {"none", "good", "broken"}
  BY DEF TypeInv, TypeOK
<1>3. /\ IdleBroken \in 0 .. 1 /\ IdleKept \in 0 .. 1 /\ IdleBroken <= IdleKept
      /\ outages * N \in Nat
  BY <1>1, <1>2 DEF IdleBroken, IdleKept
<1>4. Cardinality(Broken) \in Nat /\ Cardinality(Holding) \in Nat
  <2>1. IsFiniteSet(Broken) /\ IsFiniteSet(Holding)
    BY FS_Subset DEF Broken, Holding
  <2> QED BY <2>1, FS_CardinalityType
<1> DEFINE Bounds ==
       /\ leaked + Cardinality(Broken) + IdleBroken <= outages * N + refusals
       /\ Cardinality(Holding) + IdleKept <= N
<1>5. ASSUME UNCHANGED <<hold, idle, leaked, outages, refusals>> PROVE Bounds'
  BY <1>5 DEF LeakInv, Broken, Holding, IdleBroken, IdleKept
<1>6. CASE UNCHANGED vars
  BY <1>5, <1>6 DEF vars, pool_vars, world_vars, LeakInv
<1>7. CASE Start
  <2>1. Holding = {} /\ Broken = {}
    BY <1>7 DEF Start, LeakInv, Holding, Broken, TypeInv, TypeOK
  <2>2. Holding' = {} /\ Broken' = {}
    BY <1>7, <2>1 DEF Start, Holding, Broken
  <2>3. Cardinality(Holding') = 0 /\ Cardinality(Broken') = 0 /\ Cardinality(Broken) = 0
    BY <2>1, <2>2, FS_EmptySet
  <2>4. IdleBroken' = 0 /\ IdleKept' \in 0 .. 1
    BY <1>7 DEF Start, IdleBroken, IdleKept
  <2>5. leaked' = leaked /\ outages' = outages /\ refusals' = refusals /\ up' = TRUE
    BY <1>7 DEF Start, world_vars
  <2>6. leaked <= outages * N + refusals
    BY <1>2, <1>3, <2>3 DEF LeakInv
  <2> QED BY <1>1, <1>2, <1>3, <2>3, <2>4, <2>5, <2>6 DEF LeakInv
<1>8. CASE Crash
  <2>1. Holding' = {} /\ Broken' = {}
    BY <1>8 DEF Crash, Holding, Broken
  <2>2. Cardinality(Holding') = 0 /\ Cardinality(Broken') = 0
    BY <2>1, FS_EmptySet
  <2>3. IdleBroken' = 0 /\ IdleKept' = 0
    BY <1>8 DEF Crash, IdleBroken, IdleKept
  <2>4. leaked' = 0 /\ outages' = outages /\ refusals' = refusals /\ calling' = {}
    BY <1>8 DEF Crash
  <2> QED BY <1>1, <1>2, <1>3, <2>2, <2>3, <2>4 DEF LeakInv
<1>9. CASE Outage
  <2>1. Holding' = Holding /\ Broken' = Holding
    BY <1>2, <1>9 DEF Outage, Holding, Broken
  <2>2. Cardinality(Holding') = Cardinality(Holding)
        /\ Cardinality(Broken') = Cardinality(Holding)
    BY <2>1
  <2>3. IdleKept' = IdleKept /\ IdleBroken' = IdleKept
    BY <1>2, <1>9 DEF Outage, IdleBroken, IdleKept
  <2>4. outages' * N = outages * N + N
    BY <1>1, <1>2, <1>9 DEF Outage
  <2>5. leaked' = leaked /\ refusals' = refusals /\ up' = up /\ calling' = calling
    BY <1>9 DEF Outage
  <2>6. leaked <= outages * N + refusals
    BY <1>2, <1>3, <1>4 DEF LeakInv
  <2> QED BY <1>1, <1>2, <1>3, <1>4, <2>2, <2>3, <2>4, <2>5, <2>6 DEF LeakInv
<1>10. CASE DbBack
  BY <1>5, <1>10 DEF DbBack, pool_vars, LeakInv
<1>11. ASSUME NEW c \in Caller, Begin(c) PROVE LeakInv'
  BY <1>5, <1>11 DEF Begin, CallFrame, pool_vars, LeakInv
<1>12. ASSUME NEW c \in Caller, CallStep(c) PROVE up' = up /\ calling' \subseteq calling
  BY <1>12 DEF CallStep, GetConnection, NoConnection, Finish, Fail, FinishRow, ExportDone,
               End, CallFrame
<1>13. ASSUME NEW c \in Caller, NoConnection(c) \/ ExportDone PROVE Bounds'
  BY <1>5, <1>13 DEF NoConnection, ExportDone, CallFrame, pool_vars
<1>14. ASSUME NEW c \in Caller, GetConnection(c) PROVE Bounds'
  <2>1. PICK v \in {"good", "broken"} : /\ hold' = [hold EXCEPT ![c] = v]
                                        /\ idle' = "none"
                                        /\ v = "broken" => idle = "broken"
    BY <1>2, <1>14 DEF GetConnection
  <2>2. hold[c] = "none" /\ c \notin Holding
    BY <1>14 DEF GetConnection, Wants, Holding
  <2>3. /\ Cardinality(Holding') = Cardinality(Holding) + 1
        /\ v = "broken" => Cardinality(Broken') = Cardinality(Broken) + 1
        /\ v = "good" => Cardinality(Broken') = Cardinality(Broken)
    BY <1>2, <2>1, <2>2, TakeChange DEF HoldTypeOK
  <2>4. Cardinality(Holding) + 1 <= N
    <3>1. Holding \in SUBSET Caller /\ Holding # Caller
      BY <2>2 DEF Holding
    <3>2. Cardinality(Holding) <= N /\ Cardinality(Holding) # N
      BY <3>1, FS_Subset
    <3> QED BY <1>1, <1>4, <3>2
  <2>5. IdleBroken' = 0 /\ IdleKept' = 0
    BY <2>1 DEF IdleBroken, IdleKept
  <2>6. UNCHANGED <<leaked, outages, refusals>>
    BY <1>14 DEF GetConnection, CallFrame
  <2>7. v = "broken" => IdleBroken = 1
    BY <2>1 DEF IdleBroken
  <2>8. Cardinality(Broken') + IdleBroken' <= Cardinality(Broken) + IdleBroken
        /\ Cardinality(Broken') \in Int
    BY <1>3, <1>4, <2>1, <2>3, <2>5, <2>7
  <2> QED BY <1>1, <1>2, <1>3, <1>4, <2>3, <2>4, <2>5, <2>6, <2>8 DEF LeakInv
<1>15. ASSUME NEW c \in Caller, Release(c), hold[c] # "none", outages' = outages,
              refusals' \in Nat, refusals' >= refusals
       PROVE  Bounds'
  <2>1. hold' = [hold EXCEPT ![c] = "none"] /\ leaked' = leaked
    BY <1>15 DEF Release
  <2>2. /\ Cardinality(Holding') = Cardinality(Holding) - 1
        /\ Cardinality(Broken') <= Cardinality(Broken) /\ Cardinality(Broken') \in Int
    <3>1. /\ Cardinality(Holding') = Cardinality(Holding) - 1
          /\ hold[c] = "broken" => Cardinality(Broken') = Cardinality(Broken) - 1
          /\ hold[c] # "broken" => Cardinality(Broken') = Cardinality(Broken)
      BY <1>2, <1>15, <2>1, GiveChange DEF HoldTypeOK
    <3> QED BY <1>4, <3>1
  <2>3. IdleBroken' = IdleBroken /\ IdleKept' <= IdleKept + 1 /\ IdleKept' \in 0 .. 1
    BY <1>15 DEF Release, IdleBroken, IdleKept
  <2>4. /\ leaked + Cardinality(Broken) + IdleBroken <= outages * N + refusals
        /\ Cardinality(Holding) + IdleKept <= N
    BY DEF LeakInv
  <2>5. outages' * N = outages * N
    BY <1>15
  <2>6. leaked' + Cardinality(Broken') + IdleBroken' <= outages' * N + refusals'
    BY <1>2, <1>3, <1>4, <1>15, <2>1, <2>2, <2>3, <2>4, <2>5
  <2>7. Cardinality(Holding') + IdleKept' <= N
    BY <1>1, <1>3, <1>4, <2>2, <2>3, <2>4
  <2> QED BY <2>6, <2>7
<1>16. ASSUME NEW c \in Caller, Leak(c), hold[c] # "none", outages' = outages,
              hold[c] = "broken" => refusals' = refusals,
              hold[c] # "broken" => refusals' = refusals + 1
       PROVE  Bounds'
  <2>1. hold' = [hold EXCEPT ![c] = "none"] /\ leaked' = leaked + 1 /\ idle' = idle
    BY <1>16 DEF Leak
  <2>2. /\ Cardinality(Holding') = Cardinality(Holding) - 1
        /\ hold[c] = "broken" => Cardinality(Broken') = Cardinality(Broken) - 1
        /\ hold[c] # "broken" => Cardinality(Broken') = Cardinality(Broken)
    BY <1>2, <1>16, <2>1, GiveChange DEF HoldTypeOK
  <2>3. IdleBroken' = IdleBroken /\ IdleKept' = IdleKept
    BY <2>1 DEF IdleBroken, IdleKept
  <2>4. leaked' + Cardinality(Broken') - refusals' = leaked + Cardinality(Broken) - refusals
        /\ refusals' \in Nat /\ Cardinality(Broken') \in Int
    BY <1>2, <1>4, <1>16, <2>1, <2>2
  <2> QED BY <1>1, <1>2, <1>3, <1>4, <1>16, <2>1, <2>2, <2>3, <2>4 DEF LeakInv
<1>17. ASSUME NEW c \in Caller, Finish(c) PROVE Bounds'
  BY <1>2, <1>15, <1>17 DEF Finish, CallFrame
<1>18. ASSUME NEW c \in Caller, Fail(c) PROVE Bounds'
  <2>1. /\ hold[c] # "none" /\ outages' = outages
        /\ hold[c] = "broken" => refusals' = refusals
        /\ hold[c] # "broken" => refusals' = refusals + 1
    BY <1>18 DEF Fail, Raises, CallFrame
  <2>2. refusals' \in Nat /\ refusals' >= refusals
    BY <1>2, <2>1
  <2>3. Leak(c) \/ Release(c)
    BY <1>18 DEF Fail
  <2> QED BY <1>15, <1>16, <2>1, <2>2, <2>3
<1>19. ASSUME FinishRow PROVE Bounds'
  <2>1. Exporter \in Caller
    BY DEF Caller
  <2>2. /\ Release(Exporter) /\ hold[Exporter] # "none"
        /\ outages' = outages /\ refusals' = refusals
    BY <1>19 DEF FinishRow, world_vars
  <2>3. refusals' \in Nat /\ refusals' >= refusals
    BY <1>2, <2>2
  <2> QED BY <1>15, <2>1, <2>2, <2>3
<1>20. ASSUME NEW c \in Caller, CallStep(c) PROVE LeakInv'
  <2>1. Bounds'
    BY <1>13, <1>14, <1>17, <1>18, <1>19, <1>20 DEF CallStep
  <2>2. up' = up /\ calling' \subseteq calling
    BY <1>12, <1>20
  <2> QED BY <2>1, <2>2 DEF LeakInv
<1> QED BY <1>6, <1>7, <1>8, <1>9, <1>10, <1>11, <1>20 DEF Next

\* A connection is leaked by an outage, at most one for every caller, or by a refused
\* probe, and by nothing else.
THEOREM LeaksCorrect == Spec => []LeaksBounded
<1> USE CollectorAssumption
<1>1. Init => LeakInv
  <2> SUFFICES ASSUME Init PROVE LeakInv
    OBVIOUS
  <2>1. Holding = {} /\ Broken = {} /\ IdleBroken = 0 /\ IdleKept = 0
    BY DEF Init, Holding, Broken, IdleBroken, IdleKept
  <2>2. Cardinality(Caller) \in Nat
    BY FS_CardinalityType
  <2> QED BY <2>1, <2>2, FS_EmptySet DEF Init, LeakInv
<1>2. TypeInv /\ LeakInv /\ [Next]_vars => LeakInv'
  BY LeakStep
<1>3. TypeInv /\ LeakInv => LeaksBounded
  <2> SUFFICES ASSUME TypeInv, LeakInv PROVE LeaksBounded
    OBVIOUS
  <2>1. Cardinality(Broken) \in Nat /\ IdleBroken \in Nat /\ Cardinality(Caller) \in Nat
    BY FS_Subset, FS_CardinalityType DEF Broken, IdleBroken
  <2>2. leaked \in Nat /\ outages \in Nat /\ refusals \in Nat
        /\ outages * Cardinality(Caller) \in Nat
    BY <2>1 DEF TypeInv, TypeOK
  <2> QED BY <2>1, <2>2 DEF LeakInv, LeaksBounded
<1> QED BY <1>1, <1>2, <1>3, AlwaysType, PTL DEF Spec

-----------------------------------------------------------------------------
(* The exports as a Sink.                                                  *)

LEMMA SinkStutter == ASSUME UNCHANGED sink_vars PROVE UNCHANGED Contract!vars
BY DEF sink_vars, Contract!vars

\* The end of an ExportStats is a Return.
LEMMA EndReturns ==
    ASSUME TypeInv, NEW c \in calling, NEW result \in {"success", "failure"}, End(c, result),
           c = Exporter /\ result = "success" => written = size
    PROVE  [Contract!Next]_(Contract!vars)
<1>1. CASE c = Exporter
  <2>1. size # 0
    BY <1>1 DEF TypeInv, TypeOK
  <2>2. Contract!Return(result)
    BY <1>1, <2>1 DEF End, Contract!Return
  <2> QED BY <2>2 DEF Contract!Next
<1>2. CASE c # Exporter
  BY <1>2, SinkStutter DEF End
<1> QED BY <1>1, <1>2

\* A row is stored by the third of its transactions, or by an outage that cuts off the
\* answer to its commit; a call ends with an answer or with the collector.
LEMMA SinkStep == ASSUME TypeInv, [Next]_vars PROVE [Contract!Next]_(Contract!vars)
<1>1. CASE UNCHANGED vars \/ Start \/ DbBack
  BY <1>1, SinkStutter DEF vars, Start, DbBack
<1>2. CASE Crash
  <2>1. CASE size > 0
    <3>1. Contract!Return("broken")
      BY <1>2, <2>1 DEF Crash, Contract!Return, TypeInv, TypeOK
    <3> QED BY <3>1 DEF Contract!Next
  <2>2. CASE ~(size > 0)
    BY <1>2, <2>2 DEF Crash, Contract!vars
  <2> QED BY <2>1, <2>2
<1>3. CASE Outage
  <2>1. CASE written' = written
    BY <1>3, <2>1 DEF Outage, Contract!vars
  <2>2. CASE written' # written
    <3>1. written' = written + 1 /\ hold[Exporter] = "good"
      BY <1>3, <2>2 DEF Outage
    <3>2. Contract!Store
      BY <1>3, <3>1 DEF Outage, Contract!Store, TypeInv, RowLeft
    <3> QED BY <3>2 DEF Contract!Next
  <2> QED BY <2>1, <2>2
<1>4. ASSUME NEW c \in Caller, Begin(c) PROVE [Contract!Next]_(Contract!vars)
  <2>1. CASE c = Exporter
    <3>1. size = 0
      BY <1>4, <2>1 DEF Begin, TypeInv, TypeOK
    <3>2. \E n \in 1 .. MaxRows : Contract!Call(n)
      BY <1>4, <2>1, <3>1 DEF Begin, Contract!Call
    <3> QED BY <3>2 DEF Contract!Next
  <2>2. CASE c # Exporter
    BY <1>4, <2>2, SinkStutter DEF Begin
  <2> QED BY <2>1, <2>2
<1>5. ASSUME NEW c \in Caller, CallStep(c) PROVE [Contract!Next]_(Contract!vars)
  <2>1. CASE GetConnection(c)
    BY <2>1, SinkStutter DEF GetConnection
  <2>2. CASE NoConnection(c) \/ Fail(c)
    <3>1. c \in calling /\ End(c, "failure")
      BY <2>2 DEF NoConnection, Wants, Fail, Raises
    <3> QED BY <3>1, EndReturns
  <2>3. CASE Finish(c)
    <3>1. c \in calling /\ c # Exporter /\ End(c, "success")
      BY <2>3 DEF Finish, TypeInv, TypeOK
    <3> QED BY <3>1, EndReturns
  <2>4. CASE FinishRow
    <3>1. CASE stage = 3
      <4>1. Contract!Store
        BY <2>4, <3>1 DEF FinishRow, Contract!Store, TypeInv, RowLeft
      <4> QED BY <4>1 DEF Contract!Next
    <3>2. CASE stage # 3
      BY <2>4, <3>2 DEF FinishRow, Contract!vars
    <3> QED BY <3>1, <3>2
  <2>5. CASE ExportDone
    <3>1. Exporter \in calling /\ written = size /\ End(Exporter, "success")
      BY <2>5 DEF ExportDone
    <3> QED BY <3>1, EndReturns
  <2> QED BY <1>5, <2>1, <2>2, <2>3, <2>4, <2>5 DEF CallStep
<1> QED BY <1>1, <1>2, <1>3, <1>4, <1>5 DEF Next

\* Whatever the database, the pool and the process do meanwhile, the rows of a sample
\* are stored in order and once, and success means all of them.
THEOREM SinkImplemented == Spec => ImplementsSink
<1>1. Init => Contract!Init
  BY DEF Init, Contract!Init
<1>2. TypeInv /\ [Next]_vars => [Contract!Next]_(Contract!vars)
  BY SinkStep
<1> QED BY <1>1, <1>2, AlwaysType, PTL DEF Spec, ImplementsSink, Contract!Spec
==============================================================================
