----------------------------- MODULE Statistics -----------------------------
(***************************************************************************)
(* The life of the controller process (main.cpp, ebpf_loader.cpp) and the   *)
(* thread beside it that samples the packet counters of the XDP program     *)
(* every few seconds and exports them (stats_worker.cpp).  The sampler      *)
(* holds no lock across a sample: it lists the sessions, then asks for an   *)
(* id, copies the counter of one CPU after the other, and reads a session   *)
(* through a bare pointer, while the main thread registers and closes       *)
(* backends and the XDP program counts.                                     *)
(*                                                                         *)
(* What the collector does with a sample is Sink; here a call returns after *)
(* any number of its rows has been stored.                                  *)
(***************************************************************************)
EXTENDS Registry, Sequences, FiniteSetsExt, Functions

CONSTANTS
    NoFd,
    ReusedFds,         \* descriptors that may register again once their session is gone
    Cpus,              \* libbpf_num_possible_cpus()
    Word,              \* counters and differences are taken modulo 2^64
    MaxRegistrations,  \* bound: how often backends register
    MaxPackets         \* bound: packets forwarded

ASSUME StatisticsAssumption ==
    /\ IsFiniteSet(Peer)
    /\ NoFd \notin Fd
    /\ ReusedFds \subseteq Fd
    /\ Cpus \in Nat \ {0}
    /\ MaxRegistrations \in Nat
    /\ MaxPackets \in Nat
    /\ Word \in Nat /\ MaxPackets < Word

VARIABLES
    registrations,
    main,           \* where the main thread is
    main_fd,        \* the descriptor it registers
    loaded,         \* skel
    attached,       \* is_attached, and the program on the interface
    counters,       \* stats_map: logical id -> CPU -> packets
    running,        \* StatsWorker::running
    pc,             \* where the sampler is
    todo,           \* sessions of this sample it has still to visit
    fd, id,         \* the one at hand
    cpu, total,     \* the next CPU to copy, the sum so far
    found,          \* get_session_by_fd returned a session
    freed,          \* which the main thread has removed since
    delta,
    snapshots,      \* logical id -> last_packets
    sample,         \* rows of the sample
    forwarded,      \* history: Peer -> packets forwarded to it
    stored          \* history: logical id -> name in the row -> packets stored

main_vars   == <<registrations, main, main_fd, loaded, attached>>
sample_vars == <<todo, fd, id, cpu, total, found, delta, snapshots, sample>>
vars == <<registry_vars, main_vars, counters, running, pc, sample_vars, freed,
          forwarded, stored>>

Cpu == 1 .. Cpus

\* What a row says of the backend: NoPeer is "unknown", address 0, or the name of none.
\* History: whether it was read from freed memory.
Name == [about : Peer \cup {NoPeer}, freed : BOOLEAN]
Row == [id : LogicalId, name : Name, packets : Nat]

TypeOK ==
    /\ RegistryTypeOK
    /\ registrations \in 0 .. MaxRegistrations
    /\ main \in {"load", "attach", "start", "hello", "listen", "run", "id", "log",
                 "stop", "join", "detach", "exit", "refused", "killed"}
    /\ main_fd \in Fd \cup {NoFd}
    /\ main = "id" => main_fd \in Fd
    /\ loaded \in BOOLEAN /\ attached \in BOOLEAN
    /\ counters \in [LogicalId -> [Cpu -> Nat]]
    /\ running \in BOOLEAN
    /\ pc \in {"none", "top", "sleep", "next", "copy", "row", "export", "done"}
    /\ todo \subseteq Fd
    /\ fd \in Fd \cup {NoFd}
    /\ id \in LogicalId
    /\ cpu \in 1 .. Cpus + 1
    /\ total \in Nat
    /\ found \in BOOLEAN /\ freed \in BOOLEAN
    /\ delta \in Nat
    /\ snapshots \in [LogicalId -> Nat]
    /\ sample \in Seq(Row)
    /\ forwarded \in [Peer -> Nat]
    /\ stored \in [LogicalId -> [Name -> Nat]]

Init ==
    /\ RegistryInit
    /\ registrations = 0
    /\ main = "load" /\ main_fd = NoFd /\ loaded = FALSE /\ attached = FALSE
    /\ counters = [i \in LogicalId |-> [c \in Cpu |-> 0]]
    /\ running = FALSE /\ pc = "none"
    /\ todo = {} /\ fd = NoFd /\ id = 0 /\ cpu = 1 /\ total = 0
    /\ found = FALSE /\ freed = FALSE /\ delta = 0
    /\ snapshots = [i \in LogicalId |-> 0]
    /\ sample = <<>>
    /\ forwarded = [p \in Peer |-> 0]
    /\ stored = [i \in LogicalId |-> [n \in Name |-> 0]]

-----------------------------------------------------------------------------
(* The main thread: start-up, the loop, the destructors at its end.        *)

WorkerFrame == UNCHANGED <<counters, sample_vars, forwarded, stored>>
NetFrame == UNCHANGED <<registrations, main_fd>>

\* loadProgram; a failure returns from main, and ~EbpfLoader runs.
LoadProgram ==
    /\ main = "load"
    /\ \/ loaded' = TRUE /\ main' = "attach"
       \/ UNCHANGED loaded /\ main' = "detach"
    /\ UNCHANGED <<registry_vars, attached, running, pc, freed>>
    /\ NetFrame /\ WorkerFrame

\* attachProgram.  From here on the kernel runs the program.
Attach ==
    /\ main = "attach"
    /\ \/ attached' = TRUE /\ main' = "start"
       \/ UNCHANGED attached /\ main' = "detach"
    /\ UNCHANGED <<registry_vars, loaded, running, pc, freed>>
    /\ NetFrame /\ WorkerFrame

\* stats_worker.start
StartWorker ==
    /\ main = "start"
    /\ running' = TRUE /\ pc' = "top"
    /\ main' = "hello"
    /\ UNCHANGED <<registry_vars, loaded, attached, freed>>
    /\ NetFrame /\ WorkerFrame

\* Logger::log of SYSTEM_START and of BACKEND_REGISTERED: the thread waits for the
\* collector, without a deadline, and ignores what it answers.
LogReturns ==
    /\ main \in {"hello", "log"}
    /\ main' = IF main = "hello" THEN "listen" ELSE "run"
    /\ UNCHANGED <<registry_vars, loaded, attached, running, pc, freed>>
    /\ NetFrame /\ WorkerFrame

\* A port or a path that is taken ends the program before its loop.
Listen ==
    /\ main = "listen"
    /\ main' \in {"run", "stop"}
    /\ UNCHANGED <<registry_vars, loaded, attached, running, pc, freed>>
    /\ NetFrame /\ WorkerFrame

\* handle_init_req up to create_session.  Whether the connection is still open is
\* nothing to it, nor to the sampler, so connections are left out here.
StartRegistration(f, p, s) ==
    /\ main = "run"
    /\ ~HasSession(f)
    /\ fd_to_id[f] = -1 \/ f \in ReusedFds
    /\ registrations < MaxRegistrations
    /\ EnsureVip(s)
    /\ CreateSession(f, s, p)
    /\ registrations' = registrations + 1
    /\ main' = "id" /\ main_fd' = f
    /\ UNCHANGED <<id_vars, backends_map, needs_rebuild, loaded, attached, running, pc, freed>>
    /\ WorkerFrame

\* register_logical_id, add_backend, INIT_ACK.
FinishRegistration ==
    /\ main = "id"
    /\ RegisterLogicalId(main_fd)
    /\ AddBackend(fd_to_id'[main_fd], session_mapping[main_fd].addr)
    /\ main' = "log" /\ main_fd' = NoFd
    /\ UNCHANGED <<session_vars, vip_vars, needs_rebuild, registrations, loaded,
                   attached, running, pc, freed>>
    /\ WorkerFrame

\* close_client, of a descriptor with a session (without one it does nothing that the
\* sampler could see).  The session the sampler may be reading is freed.
Close(f) ==
    /\ main = "run"
    /\ HasSession(f)
    /\ Deregister(f)
    /\ freed' = (freed \/ (pc = "row" /\ found /\ fd = f))
    /\ UNCHANGED <<registrations, main, main_fd, loaded, attached, running, pc>>
    /\ WorkerFrame

\* SIGINT or SIGTERM: run_loop returns.
LeaveLoop ==
    /\ main = "run"
    /\ main' = "stop"
    /\ UNCHANGED <<registry_vars, loaded, attached, running, pc, freed>>
    /\ NetFrame /\ WorkerFrame

\* Mutant: the destructor does not wait for the thread.
MutStopWorker ==
    /\ main = "stop"
    /\ running' = FALSE
    /\ main' = "detach"
    /\ UNCHANGED <<registry_vars, loaded, attached, pc, freed>>
    /\ NetFrame /\ WorkerFrame

\* ~StatsWorker: stop
StopWorker ==
    /\ main = "stop"
    /\ running' = FALSE
    /\ main' = "join"
    /\ UNCHANGED <<registry_vars, loaded, attached, pc, freed>>
    /\ NetFrame /\ WorkerFrame

\* worker.join(), then the end of MapsManager.
Join ==
    /\ main = "join"
    /\ pc = "done"
    /\ main' = "detach"
    /\ UNCHANGED <<registry_vars, loaded, attached, running, pc, freed>>
    /\ NetFrame /\ WorkerFrame

\* ~EbpfLoader: detachProgram, then the maps go.  A kernel that refuses to detach is
\* reported, and the program stays on the interface.
Detach ==
    /\ main = "detach"
    /\ \/ attached' = FALSE /\ main' = "exit"
       \/ attached /\ UNCHANGED attached /\ main' = "refused"
    /\ loaded' = FALSE
    /\ UNCHANGED <<registry_vars, running, pc, freed>>
    /\ NetFrame /\ WorkerFrame

MainOwn == LoadProgram \/ Attach \/ StartWorker \/ LogReturns \/ Listen \/ FinishRegistration
               \/ StopWorker \/ Join \/ Detach

PeerStep ==
    \/ \E f \in Fd, p \in Peer, s \in Service : StartRegistration(f, p, s)
    \/ \E f \in Fd : Close(f)

-----------------------------------------------------------------------------
(* The XDP program counts a packet it forwards to an active backend, on the *)
(* CPU that received it.                                                    *)

Sent == SumFunctionOnSet(forwarded, Peer)

Forward(i, c) ==
    /\ attached
    /\ backends_map[i].is_active
    /\ Sent < MaxPackets
    /\ counters' = [counters EXCEPT ![i][c] = @ + 1]
    /\ forwarded' = [forwarded EXCEPT ![backends_map[i].addr] = @ + 1]
    /\ UNCHANGED <<registry_vars, main_vars, running, pc, sample_vars, freed, stored>>

-----------------------------------------------------------------------------
(* The sampler: while(running) { sleep; collect_metrics(); }               *)

SamplerFrame == UNCHANGED <<registry_vars, main_vars, counters, running, forwarded>>

\* Mutant: the flag is not looked at again.
MutWorkerTop ==
    /\ pc = "top"
    /\ pc' = "sleep"
    /\ UNCHANGED <<sample_vars, freed, stored>>
    /\ SamplerFrame

WorkerTop ==
    /\ pc = "top"
    /\ pc' = IF running THEN "sleep" ELSE "done"
    /\ UNCHANGED <<sample_vars, freed, stored>>
    /\ SamplerFrame

\* The sleep is over: get_all_session_fds.
BeginSample ==
    /\ pc = "sleep"
    /\ todo' = SessionFds
    /\ sample' = <<>>
    /\ pc' = "next"
    /\ UNCHANGED <<fd, id, cpu, total, found, delta, snapshots, freed, stored>>
    /\ SamplerFrame

\* Mutant: a session without an id is not left out.
MutUncounted(f) == fd_to_id[f] >= MaxBackends

\* Mutant: the first id is taken for none.
MutUncountedFirst(f) == fd_to_id[f] <= 0

\* A session without an id yet, or with one beyond stats_map, has no counters.
Uncounted(f) == fd_to_id[f] \notin LogicalId

SkipSession ==
    /\ pc = "next"
    /\ \E f \in todo : Uncounted(f) /\ todo' = todo \ {f}
    /\ UNCHANGED <<pc, fd, id, cpu, total, found, delta, snapshots, sample, freed, stored>>
    /\ SamplerFrame

\* get_logical_id, and get_backend_stats begins.
NextSession ==
    /\ pc = "next"
    /\ \E f \in todo :
          /\ ~Uncounted(f)
          /\ todo' = todo \ {f}
          /\ fd' = f /\ id' = fd_to_id[f]
    /\ cpu' = 1 /\ total' = 0
    /\ pc' = "copy"
    /\ UNCHANGED <<found, delta, snapshots, sample, freed, stored>>
    /\ SamplerFrame

\* The lookup copies the counter of one CPU after the other.
CopyCounter ==
    /\ pc = "copy"
    /\ cpu <= Cpus
    /\ total' = total + counters[id][cpu]
    /\ cpu' = cpu + 1
    /\ UNCHANGED <<pc, todo, fd, id, found, delta, snapshots, sample, freed, stored>>
    /\ SamplerFrame

\* Mutant: what is new is the sum.
MutTakeDelta ==
    /\ pc = "copy"
    /\ cpu > Cpus
    /\ delta' = total
    /\ snapshots' = [snapshots EXCEPT ![id] = total]
    /\ found' = HasSession(fd)
    /\ freed' = FALSE
    /\ pc' = "row"
    /\ UNCHANGED <<todo, fd, id, cpu, total, sample, stored>>
    /\ SamplerFrame

\* What is new since the last sample, in unsigned arithmetic; get_session_by_fd.
TakeDelta ==
    /\ pc = "copy"
    /\ cpu > Cpus
    /\ delta' = (total - snapshots[id]) % Word
    /\ snapshots' = [snapshots EXCEPT ![id] = total]
    /\ found' = HasSession(fd)
    /\ freed' = FALSE
    /\ pc' = "row"
    /\ UNCHANGED <<todo, fd, id, cpu, total, sample, stored>>
    /\ SamplerFrame

\* Mutant: the name is looked up in the slot of the backend that was there first.
MutNames == {[about |-> backends_map[0].addr, freed |-> FALSE]}

\* The pointer is read without the lock.  Null is "unknown"; what was freed reads as
\* anything, as the session of another backend if that was given the same memory.
Names ==
    IF found /\ freed
    THEN [about : Peer \cup {NoPeer}, freed : {TRUE}]
    ELSE {[about |-> IF found THEN session_mapping[fd].addr ELSE NoPeer, freed |-> FALSE]}

AddRow ==
    /\ pc = "row"
    /\ \E n \in Names : sample' = Append(sample, [id |-> id, name |-> n, packets |-> delta])
    /\ pc' = "next"
    /\ fd' = NoFd /\ id' = 0 /\ cpu' = 1 /\ total' = 0
    /\ found' = FALSE /\ freed' = FALSE /\ delta' = 0
    /\ UNCHANGED <<todo, snapshots, stored>>
    /\ SamplerFrame

\* Or the read of the freed session ends the process; the XDP program stays.
ReadFaults ==
    /\ pc = "row"
    /\ found /\ freed
    /\ main' = "killed"
    /\ pc' = "done"
    /\ UNCHANGED <<registry_vars, registrations, main_fd, loaded, attached, counters,
                   running, sample_vars, freed, forwarded, stored>>

\* An empty sample is not exported.
EndSample ==
    /\ pc = "next"
    /\ todo = {}
    /\ pc' = IF sample = <<>> THEN "top" ELSE "export"
    /\ UNCHANGED <<sample_vars, freed, stored>>
    /\ SamplerFrame

\* What the database has once the first n rows are stored.
After(n) ==
    [i \in LogicalId |-> [name \in Name |->
        stored[i][name]
            + SumFunctionOnSet([r \in 1 .. n |-> sample[r].packets],
                   {r \in 1 .. n : sample[r].id = i /\ sample[r].name = name})]]

\* Mutant: a failed export sets the snapshots back to what was stored before it.
MutExportReturns ==
    /\ pc = "export"
    /\ \E n \in 0 .. Len(sample) :
          /\ stored' = After(n)
          /\ snapshots' = IF n < Len(sample)
                          THEN [i \in LogicalId |-> SumFunctionOnSet(stored[i], Name)]
                          ELSE snapshots
    /\ sample' = <<>>
    /\ pc' = "top"
    /\ UNCHANGED <<todo, fd, id, cpu, total, found, delta, freed>>
    /\ SamplerFrame

\* ExportStats returns, with or without an error.  Rows that were not stored are
\* lost: the snapshots are those of this sample already.
ExportReturns ==
    /\ pc = "export"
    /\ \E n \in 0 .. Len(sample) : stored' = After(n)
    /\ sample' = <<>>
    /\ pc' = "top"
    /\ UNCHANGED <<todo, fd, id, cpu, total, found, delta, snapshots, freed>>
    /\ SamplerFrame

SamplerStep ==
    \/ WorkerTop \/ BeginSample \/ SkipSession \/ NextSession \/ CopyCounter \/ TakeDelta
    \/ AddRow \/ ReadFaults \/ EndSample \/ ExportReturns

Alive == main # "killed"
Ended == main \in {"exit", "refused", "killed"}

Next ==
    \/ Alive /\ (MainOwn \/ PeerStep \/ LeaveLoop \/ SamplerStep)
    \/ \E i \in LogicalId, c \in Cpu : Forward(i, c)
    \/ Ended /\ UNCHANGED vars

Spec == Init /\ [][Next]_vars

\* Both threads run, and the collector answers.  Peers, clients and the operator owe
\* nothing.
FairSpec == Spec /\ WF_vars(Alive /\ MainOwn) /\ WF_vars(Alive /\ SamplerStep)

-----------------------------------------------------------------------------
(* Properties.                                                             *)

\* Ids that no second backend will take over.
OwnIds == {fd_to_id[f] : f \in Fd \ ReusedFds} \cap LogicalId

\* The name of a backend in a row whose session was there when it was read.
Known(p) == [about |-> p, freed |-> FALSE]

\* Packets of a logical id in rows of the sample at hand, and those not in a row yet.
Pending(i) ==
    SumFunctionOnSet([r \in DOMAIN sample |-> sample[r].packets],
                     {r \in DOMAIN sample : sample[r].id = i})
        + (IF pc = "row" /\ id = i THEN delta ELSE 0)

\* No packet is reported twice: what the database has of a logical id, with what is
\* on its way there, is never more than the XDP program counted, although the CPUs
\* count on while they are read one by one, samples fail half stored, and the
\* difference is unsigned.
CountedOnce ==
    \A i \in LogicalId :
        SumFunctionOnSet(stored[i], Name) + Pending(i)
            <= SumFunctionOnSet(counters[i], Cpu)

\* Rows are about the backend they name, but for two: those of an id that a second
\* registration has taken over, and those whose session was freed between its lookup and
\* its last use, which may name any backend.  But for them no backend is credited with a
\* packet that went to another one, although its session is looked up after its counters
\* were read, and may be gone by then.
RowsNameTheirBackend ==
    \A p \in Peer :
        SumFunctionOnSet([i \in LogicalId |-> stored[i][Known(p)]], OwnIds)
            + SumFunctionOnSet([r \in DOMAIN sample |-> sample[r].packets],
                  {r \in DOMAIN sample : sample[r].name = Known(p) /\ sample[r].id \in OwnIds})
            <= forwarded[p]

\* However main ends, short of a crash, the interface is left without a program whose
\* maps nobody keeps, unless the kernel refuses, and the sampler is gone before the maps
\* it reads.
OrderlyEnd ==
    /\ main = "exit" => ~attached
    /\ main \in {"exit", "refused"} => pc \in {"none", "done"}

\* A backend that stays is sampled over and over.
SampledAgain ==
    \A f \in Fd :
        <>[](main = "run" /\ HasSession(f) /\ fd_to_id[f] \in LogicalId)
            => []<>(pc = "row" /\ fd = f)

\* A signal that ends the loop ends the program, wherever it finds the sampler.
StopEnds == main = "stop" ~> Ended
=============================================================================
