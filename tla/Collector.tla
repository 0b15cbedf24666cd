----------------------------- MODULE Collector ------------------------------
(***************************************************************************)
(* The collector: a Python process that serves the controller's exports and *)
(* events over gRPC (stats_service.py) and the dashboard's requests over    *)
(* REST (main.py), all of them through one pool of database connections     *)
(* (db/connection.py, db/queries.py).                                       *)
(*                                                                         *)
(* Every function of queries.py takes a connection, runs a transaction and  *)
(* gives the connection back in a finally clause.  Those that write commit  *)
(* first, in the same clause: on a connection that broke, commit raises and *)
(* the connection is never given back.  The functions of connection.py give *)
(* theirs back only when nothing was raised.                                *)
(*                                                                         *)
(* A connection is held by a call, idle in the pool, or leaked.  The pool   *)
(* (psycopg2's SimpleConnectionPool, which is not in the repository) keeps  *)
(* one idle connection, hands it out unseen, and counts what it handed out. *)
(***************************************************************************)
EXTENDS Naturals, FiniteSets

CONSTANTS
    Exporter,    \* the controller's ExportStats
    Writer,      \* calls that commit in their finally clause: LogEvent
    Reader,      \* REST endpoints over a query
    Probe,       \* REST endpoints over connection.py
    PoolSize,    \* 10 in the code
    MaxRows,     \* bound: rows of a sample
    MaxOutages,  \* bound: how often the database goes away
    MaxCrashes,  \* bound: how often the collector does
    MaxRefusals  \* bound: statements the database refuses

Caller == {Exporter} \cup Writer \cup Reader \cup Probe

ASSUME CollectorAssumption ==
    /\ IsFiniteSet(Caller)
    /\ Exporter \notin Writer \cup Reader \cup Probe
    /\ Writer \cap (Reader \cup Probe) = {} /\ Reader \cap Probe = {}
    /\ PoolSize \in Nat \ {0}
    /\ MaxRows \in Nat \ {0}
    /\ MaxOutages \in Nat /\ MaxCrashes \in Nat /\ MaxRefusals \in Nat

VARIABLES
    up,        \* the collector runs
    pool,      \* connection_pool: "absent" when it could not be created
    db,        \* the database answers
    idle,      \* the connection kept in the pool
    hold,      \* Caller -> the connection it has
    calling,   \* calls in progress
    leaked,    \* connections the pool counts as handed out that nobody has
    size,      \* rows of the sample of ExportStats, 0 for none
    written,   \* how many of them are in the database
    stage,     \* 1 insert_service, 2 get_or_create_backend, 3 insert_metrics
    answer,    \* of the last ExportStats
    outages, crashes, refusals

pool_vars == <<pool, idle, hold, leaked>>
sink_vars == <<size, written, stage, answer>>
world_vars == <<db, outages, crashes, refusals>>
vars == <<up, pool_vars, calling, sink_vars, world_vars>>

TypeOK ==
    /\ up \in BOOLEAN /\ db \in BOOLEAN
    /\ pool \in {"absent", "ready"}
    /\ idle \in {"none", "good", "broken"}
    /\ hold \in [Caller -> {"none", "good", "broken"}]
    /\ calling \subseteq Caller
    /\ leaked \in Nat
    /\ size \in 0 .. MaxRows
    /\ written \in 0 .. size
    /\ stage \in 1 .. 3
    /\ answer \in {"none", "success", "failure", "broken"}
    /\ outages \in Nat /\ crashes \in Nat /\ refusals \in Nat
    /\ \A c \in Caller : hold[c] # "none" => c \in calling
    /\ Exporter \in calling <=> size > 0

Init ==
    /\ up = FALSE /\ pool = "absent" /\ db \in BOOLEAN
    /\ idle = "none" /\ hold = [c \in Caller |-> "none"] /\ leaked = 0
    /\ calling = {}
    /\ size = 0 /\ written = 0 /\ stage = 1 /\ answer = "none"
    /\ outages = 0 /\ crashes = 0 /\ refusals = 0

Holding == {c \in Caller : hold[c] # "none"}
Used == leaked + Cardinality(Holding)

-----------------------------------------------------------------------------
(* The collector process and the database.                                 *)

\* connection.py is imported: the pool is created with one connection, or not at
\* all, and then the name connection_pool is never bound.
Start ==
    /\ ~up
    /\ up' = TRUE
    /\ pool' = IF db THEN "ready" ELSE "absent"
    /\ idle' = IF db THEN "good" ELSE "none"
    /\ UNCHANGED <<hold, leaked, calling, sink_vars, world_vars>>

\* Every call in progress ends unanswered; the third transaction of a row may have
\* been committed just before.
Crash ==
    /\ up
    /\ crashes < MaxCrashes
    /\ crashes' = crashes + 1
    /\ up' = FALSE /\ pool' = "absent"
    /\ idle' = "none" /\ hold' = [c \in Caller |-> "none"] /\ leaked' = 0
    /\ calling' = {}
    /\ stage' = 1
    /\ IF size > 0
       THEN size' = 0 /\ written' = 0 /\ answer' = "broken"
       ELSE UNCHANGED <<size, written, answer>>
    /\ UNCHANGED <<db, outages, refusals>>

\* The database goes away with every connection to it.  A metrics row whose commit is
\* on its way may be stored or not: the collector gets no answer either way.
Outage ==
    /\ db
    /\ outages < MaxOutages
    /\ outages' = outages + 1
    /\ db' = FALSE
    /\ idle' = IF idle = "good" THEN "broken" ELSE idle
    /\ hold' = [c \in Caller |-> IF hold[c] = "good" THEN "broken" ELSE hold[c]]
    /\ written' \in {written} \cup
            (IF hold[Exporter] = "good" /\ stage = 3 THEN {written + 1} ELSE {})
    /\ UNCHANGED <<up, pool, leaked, calling, size, stage, answer, crashes, refusals>>

DbBack ==
    /\ ~db
    /\ db' = TRUE
    /\ UNCHANGED <<up, pool_vars, calling, sink_vars, outages, crashes, refusals>>

-----------------------------------------------------------------------------
(* A call.                                                                 *)

CallFrame == UNCHANGED <<up, db, outages, crashes>>

\* A request arrives.  ExportStats begins with the first row of a sample.
Begin(c) ==
    /\ up
    /\ c \notin calling
    /\ calling' = calling \cup {c}
    /\ IF c = Exporter
       THEN size' \in 1 .. MaxRows /\ written' = 0 /\ stage' = 1 /\ answer' = "none"
       ELSE UNCHANGED sink_vars
    /\ UNCHANGED <<pool_vars, refusals>>
    /\ CallFrame

Wants(c) ==
    /\ c \in calling /\ hold[c] = "none"
    /\ c = Exporter => written < size

\* get_connection: pool.getconn().  What is idle is handed out as it is.
GetConnection(c) ==
    /\ Wants(c)
    /\ pool = "ready"
    /\ \/ idle # "none" /\ hold' = [hold EXCEPT ![c] = idle] /\ idle' = "none"
       \/ idle = "none" /\ Used < PoolSize /\ db
             /\ hold' = [hold EXCEPT ![c] = "good"] /\ UNCHANGED idle
    /\ UNCHANGED <<pool, leaked, calling, sink_vars, refusals>>
    /\ CallFrame

\* The call is over.  ExportStats turns every exception into success=False.
End(c, result) ==
    /\ calling' = calling \ {c}
    /\ IF c = Exporter
       THEN size' = 0 /\ written' = 0 /\ stage' = 1 /\ answer' = result
       ELSE UNCHANGED sink_vars

\* Mutant: without a database, a caller waits.
MutNoConnection(c) ==
    /\ Wants(c)
    /\ pool = "absent"
    /\ End(c, "failure")
    /\ UNCHANGED <<pool_vars, refusals>>
    /\ CallFrame

\* There is no pool, it is used up, or it cannot connect: get_connection raises,
\* outside of the try.
NoConnection(c) ==
    /\ Wants(c)
    /\ \/ pool = "absent"
       \/ idle = "none" /\ (Used >= PoolSize \/ ~db)
    /\ End(c, "failure")
    /\ UNCHANGED <<pool_vars, refusals>>
    /\ CallFrame

\* release_connection: pool.putconn(conn).  One idle connection is kept, a broken one
\* is thrown away.
Release(c) ==
    /\ idle' = IF idle = "none" /\ hold[c] = "good" THEN "good" ELSE idle
    /\ hold' = [hold EXCEPT ![c] = "none"]
    /\ UNCHANGED leaked

Leak(c) ==
    /\ leaked' = leaked + 1
    /\ hold' = [hold EXCEPT ![c] = "none"]
    /\ UNCHANGED idle

\* Mutant: the connection is not given back.
MutFinish(c) ==
    /\ c # Exporter
    /\ hold[c] = "good"
    /\ End(c, "success")
    /\ UNCHANGED <<pool_vars, refusals>>
    /\ CallFrame

\* Mutant: it is counted for ever.
MutFinishLeaks(c) ==
    /\ c # Exporter
    /\ hold[c] = "good"
    /\ Leak(c)
    /\ End(c, "success")
    /\ UNCHANGED <<pool, refusals>>
    /\ CallFrame

\* The transaction of a call with one transaction is done.
Finish(c) ==
    /\ c # Exporter
    /\ hold[c] = "good"
    /\ Release(c)
    /\ End(c, "success")
    /\ UNCHANGED <<pool, refusals>>
    /\ CallFrame

\* ExportStats: the next transaction of the row, the next row, or the end.
FinishRow ==
    /\ hold[Exporter] = "good"
    /\ Release(Exporter)
    /\ stage' = (stage % 3) + 1
    /\ written' = IF stage = 3 THEN written + 1 ELSE written
    /\ UNCHANGED <<up, pool, calling, size, answer, world_vars>>

ExportDone ==
    /\ Exporter \in calling /\ hold[Exporter] = "none"
    /\ written = size
    /\ End(Exporter, "success")
    /\ UNCHANGED <<pool_vars, refusals>>
    /\ CallFrame

\* A statement raises: the connection is broken, or the database refuses it (the table
\* of a probe does not exist).
Raises(c) ==
    /\ c \in calling
    /\ \/ hold[c] = "broken" /\ UNCHANGED refusals
       \/ hold[c] = "good" /\ refusals < MaxRefusals /\ refusals' = refusals + 1

\* Mutant: the finally clause puts the connection back as it is.
MutFail(c) ==
    /\ Raises(c)
    /\ idle' = hold[c]
    /\ hold' = [hold EXCEPT ![c] = "none"]
    /\ UNCHANGED leaked
    /\ End(c, "failure")
    /\ UNCHANGED pool
    /\ CallFrame

\* Mutant: the exception is swallowed.
MutFailSilently(c) ==
    /\ Raises(c)
    /\ Leak(c)
    /\ End(c, "success")
    /\ UNCHANGED pool
    /\ CallFrame

\* Then a writer commits, which raises again if the connection is broken, and gives it
\* back; a probe does not give it back.  A reader does, unless the connection broke when
\* its statement was done: then the rollback of putconn raises too, before the connection
\* is off the count.
Fail(c) ==
    /\ Raises(c)
    /\ \/ /\ c \in Probe \/ hold[c] = "broken"
          /\ Leak(c)
       \/ /\ c \notin Probe /\ (c \in Reader \/ hold[c] = "good")
          /\ Release(c)
    /\ End(c, "failure")
    /\ UNCHANGED pool
    /\ CallFrame

CallStep(c) ==
    \/ GetConnection(c) \/ NoConnection(c) \/ Finish(c) \/ Fail(c)
    \/ c = Exporter /\ (FinishRow \/ ExportDone)

Next ==
    \/ Start \/ Crash \/ Outage \/ DbBack
    \/ \E c \in Caller : Begin(c) \/ CallStep(c)

Spec == Init /\ [][Next]_vars

\* The threads that serve calls run, and the controller exports a sample every few
\* seconds.  Nobody has to restart the collector or the database.
FairSpec ==
    /\ Spec
    /\ \A c \in Caller : WF_vars(CallStep(c))
    /\ WF_vars(Begin(Exporter))

-----------------------------------------------------------------------------
(* Properties.                                                             *)

\* A connection is leaked only by an outage, at most one for every call there can be,
\* or by a probe whose statement is refused: no path of a call that returns keeps its
\* connection, so the pool of ten outlives as many outages as it has room for.
LeaksBounded == leaked <= outages * Cardinality(Caller) + refusals

\* The exports keep to the contract of Sink through outages and restarts: rows are
\* stored in order and once, and success is answered for whole samples only.
Contract == INSTANCE Sink WITH size <- size, written <- written, answer <- answer,
                               MaxRows <- MaxRows
ImplementsSink == Contract!Spec

\* While the collector runs, has a pool that leaks have left a connection of for every
\* caller, and reaches the database, samples are stored again and again, whatever went
\* wrong before.
RoomLeft == leaked + Cardinality(Caller) <= PoolSize
StoresAgain == <>[](up /\ pool = "ready" /\ RoomLeft /\ db) => []<>(answer = "success")

\* Every call ends, one way or another.
CallsEnd == \A c \in Caller : c \in calling ~> c \notin calling
=============================================================================
