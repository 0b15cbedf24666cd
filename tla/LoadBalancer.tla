---------------------------- MODULE LoadBalancer ----------------------------
(***************************************************************************)
(* The three threads of execution that meet in the maps: the main thread,   *)
(* which registers and closes backends (handle_init_req, handle_close_req,  *)
(* close_client); the Maglev thread of main.cpp, which turns the registry   *)
(* into tables; and the XDP program, which forwards the packets of clients. *)
(*                                                                         *)
(* EventLoop has the main thread's reasons for every step; here its steps   *)
(* are cut where the other two can see the registry and the maps half      *)
(* changed.                                                                *)
(***************************************************************************)
EXTENDS Balancer

CONSTANTS
    NoFd,
    ReusedFds,        \* descriptors that registered may be given out once more
    Pipelined,        \* peers that send frames behind one that closes
    Alias,            \* see ReopenTable
    NoService,
    NoPacket,
    MaxRegistrations  \* bound: how often backends register

\* A packet between the two looks at backends_map: its kind, the id the first one
\* gave it, and whether that came from the flow's entry in sessions_map.
Packet == [kind : {"syn", "data", "fin"}, id : Nat, found : BOOLEAN]

ASSUME LoadBalancerAssumption ==
    /\ NoFd \notin Fd
    /\ NoService \notin Service
    /\ NoPacket \notin Packet
    /\ ReusedFds \subseteq Fd
    /\ Pipelined \subseteq Peer
    /\ Alias \in [Service -> SUBSET (Service \cup {NoService})]
    /\ MaxRegistrations \in Nat

VARIABLES
    sock,           \* Fd -> the peer its connection belongs to, or NoPeer
    buffer,         \* whose frames the decoder still has after a close, or NoPeer
    registrations,
    main_pc, main_fd,
    pc,             \* where the Maglev thread is
    todo,           \* services it has still to rebuild in this round
    svc, fds, ids,  \* the one at hand, its instances, the ids scored so far
    reading,        \* the instance whose session it has a pointer to, or NoFd
    freed,          \* that session was removed meanwhile
    table, pos,     \* the table being written and how far
    target,         \* the service whose table the writes reach, or NoService
    wire,           \* Flow -> the packet between the two looks, or NoPacket
    flow,           \* Flow -> state of the client's connection
    route,          \* history: Flow -> peer that has the other end of it
    strays,         \* history: descriptors whose session began after the close
    past,           \* history: Fd -> its registrations
    seen,           \* history: Service -> instances last read by the thread
    missed,         \* history: a notification came just before the thread slept
    wild,           \* history: ids in the table that were read from freed memory
    misfiled        \* history: Service -> positions its own rebuild did not write

main_vars    == <<sock, buffer, registrations, main_pc, main_fd, strays, past>>
round_vars   == <<todo, svc, fds, ids, reading, table, pos, target, seen, wild, misfiled>>
thread_vars  == <<pc, freed, missed>>
client_vars  == <<wire, flow, route>>
vars == <<registry_vars, services_map, sessions_map, main_vars, round_vars, thread_vars,
          client_vars>>

Registration == [service : Service, addr : Peer, nth : 0 .. MaxRegistrations - 1]

NoBuild == [p \in Position |-> EMPTY]

TypeOK ==
    /\ RegistryTypeOK
    /\ BalancerTypeOK
    /\ sock \in [Fd -> Peer \cup {NoPeer}]
    /\ buffer \in Peer \cup {NoPeer}
    /\ registrations \in 0 .. MaxRegistrations
    /\ main_pc \in {"idle", "id", "add", "status", "session", "trigger", "notify",
                   "close", "freed"}
    /\ main_fd \in Fd \cup {NoFd}
    /\ main_pc # "idle" => main_fd # NoFd
    /\ pc \in {"wait", "block", "sleep", "clear", "services", "next", "score", "read",
              "update", "write"}
    /\ todo \subseteq Service
    /\ svc \in Service \cup {NoService}
    /\ fds \subseteq Fd
    /\ ids \subseteq Entry
    /\ reading \in Fd \cup {NoFd}
    /\ freed \in BOOLEAN
    /\ table \in [Position -> Entry]
    /\ pos \in 0 .. Size
    /\ target \in Service \cup {NoService}
    /\ wire \in [Flow -> Packet \cup {NoPacket}]
    /\ flow \in [Flow -> {"closed", "open", "half", "done", "reset"}]
    /\ route \in [Flow -> Peer \cup {NoPeer}]
    /\ strays \subseteq Fd
    /\ past \in [Fd -> SUBSET Registration]
    /\ seen \in [Service -> SUBSET Fd]
    /\ missed \in BOOLEAN
    /\ wild \subseteq Entry
    /\ misfiled \in [Service -> SUBSET Position]

Init ==
    /\ RegistryInit
    /\ BalancerInit
    /\ sock = [fd \in Fd |-> NoPeer]
    /\ buffer = NoPeer
    /\ registrations = 0
    /\ main_pc = "idle" /\ main_fd = NoFd
    /\ pc = "wait" /\ todo = {} /\ svc = NoService /\ fds = {} /\ ids = {}
    /\ reading = NoFd /\ freed = FALSE
    /\ table = NoBuild /\ pos = 0
    /\ target = NoService
    /\ wire = [k \in Flow |-> NoPacket]
    /\ flow = [k \in Flow |-> "closed"]
    /\ route = [k \in Flow |-> NoPeer]
    /\ strays = {}
    /\ past = [fd \in Fd |-> {}]
    /\ seen = [s \in Service |-> {}]
    /\ missed = FALSE
    /\ wild = {}
    /\ misfiled = [s \in Service |-> Position]

-----------------------------------------------------------------------------
(* The main thread.  Between two of its system calls it is in run_loop      *)
(* ("idle"), decoding the frames left over after a close ("freed"), or in   *)
(* the middle of a handler.                                                *)

MainAt(label) == main_pc = label

\* Mutant: the descriptor is forgotten before its last use.
MutMainGoto(label) ==
    /\ main_pc' = label
    /\ main_fd' = NoFd

MainGoto(label) ==
    /\ main_pc' = label
    /\ main_fd' = IF label = "idle" THEN NoFd ELSE main_fd

MainFrame ==
    UNCHANGED <<services_map, sessions_map, round_vars, client_vars>>

\* A frame of peer p is handled for the descriptor: out of its ConnectionState, or
\* out of what the last close_client has freed.
Decodes(fd, p) ==
    \/ MainAt("idle") /\ sock[fd] = p
    \/ MainAt("freed") /\ main_fd = fd /\ buffer = p

Accept(fd, p) ==
    /\ MainAt("idle")
    /\ sock[fd] = NoPeer
    /\ fd_to_id[fd] = -1 \/ fd \in ReusedFds
    /\ \A g \in Fd : sock[g] # p
    /\ sock' = [sock EXCEPT ![fd] = p]
    /\ UNCHANGED <<registry_vars, buffer, registrations, main_pc, main_fd, strays, past,
                   thread_vars>>
    /\ MainFrame

\* handle_init_req up to create_session.  Nothing in it asks whether the connection
\* is still open.
StartRegistration(fd, p, s) ==
    /\ Decodes(fd, p)
    /\ ~HasSession(fd)
    /\ registrations < MaxRegistrations
    /\ EnsureVip(s)
    /\ CreateSession(fd, s, p)
    /\ registrations' = registrations + 1
    /\ past' = [past EXCEPT ![fd] =
                   @ \cup {[service |-> s, addr |-> p, nth |-> registrations]}]
    /\ strays' = IF sock[fd] = NoPeer THEN strays \cup {fd} ELSE strays \ {fd}
    /\ main_pc' = "id" /\ main_fd' = fd
    /\ UNCHANGED <<id_vars, backends_map, needs_rebuild, sock, buffer, thread_vars>>
    /\ MainFrame

\* sm.register_logical_id(fd)
AssignId ==
    /\ MainAt("id")
    /\ RegisterLogicalId(main_fd)
    /\ MainGoto("add")
    /\ UNCHANGED <<session_vars, vip_vars, backends_map, needs_rebuild, sock, buffer,
                   registrations, strays, past, thread_vars>>
    /\ MainFrame

\* The handler returns: to the decoder, if it has frames left.
Resume == MainGoto(IF buffer = NoPeer THEN "idle" ELSE "freed")

\* maps_manager.add_backend(fd, ...), with the address the session was given too.
PublishBackend ==
    /\ MainAt("add")
    /\ AddBackend(fd_to_id[main_fd], session_mapping[main_fd].addr)
    /\ Resume
    /\ UNCHANGED <<session_vars, vip_vars, id_vars, needs_rebuild, sock, buffer,
                   registrations, strays, past, thread_vars>>
    /\ MainFrame

\* remove_session frees what the scorer may have a pointer to.
Erase(fd) ==
    /\ RemoveSession(fd)
    /\ freed' = (freed \/ (pc = "read" /\ reading = fd))

\* A frame that ends in close_client.  Only a CLOSE_REQ with the session's token
\* removes the session first; one that does not parse, or has another token, or is
\* not a frame at all, does not.  There may be more frames behind it.
CloseRequest(fd, p) ==
    /\ Decodes(fd, p)
    /\ Erase(fd) \/ UNCHANGED <<session_vars, freed>>
    /\ buffer' \in {NoPeer} \cup ({p} \cap Pipelined)
    /\ main_pc' = "status" /\ main_fd' = fd
    /\ UNCHANGED <<vip_vars, id_vars, backends_map, needs_rebuild, sock, registrations,
                   strays, past, pc, missed>>
    /\ MainFrame

\* A hangup, an end of stream or an expired session leads to close_client too: also
\* for a descriptor that was closed before, by an event that was older or by a
\* session that outlived its connection.
Disconnect(fd) ==
    /\ MainAt("idle")
    /\ sock[fd] # NoPeer \/ fd_to_id[fd] # -1
    /\ main_pc' = "status" /\ main_fd' = fd
    /\ UNCHANGED <<registry_vars, sock, buffer, registrations, strays, past, thread_vars>>
    /\ MainFrame

\* close_client: update_backend_status, remove_session, trigger_rebuild (the flag and
\* the notification), close.
CloseStatus ==
    /\ MainAt("status")
    /\ UpdateBackendStatus(main_fd, FALSE)
    /\ strays' = strays \ {main_fd}
    /\ MainGoto("session")
    /\ UNCHANGED <<session_vars, vip_vars, id_vars, needs_rebuild, sock, buffer,
                   registrations, past, thread_vars>>
    /\ MainFrame

CloseSession ==
    /\ MainAt("session")
    /\ Erase(main_fd)
    /\ MainGoto("trigger")
    /\ UNCHANGED <<vip_vars, id_vars, backends_map, needs_rebuild, sock, buffer,
                   registrations, strays, past, pc, missed>>
    /\ MainFrame

CloseTrigger ==
    /\ MainAt("trigger")
    /\ TriggerRebuild
    /\ MainGoto("notify")
    /\ UNCHANGED <<session_vars, vip_vars, id_vars, backends_map, sock, buffer,
                   registrations, strays, past, thread_vars>>
    /\ MainFrame

\* cv.notify_one, without the mutex: it reaches a thread that sleeps, and nobody while
\* the thread is between its last look at the flag and its sleep.
CloseNotify ==
    /\ MainAt("notify")
    /\ pc' = IF pc = "sleep" THEN "wait" ELSE pc
    /\ missed' = CASE pc = "block" -> TRUE
                   [] pc = "sleep" -> FALSE
                   [] OTHER -> missed
    /\ MainGoto("close")
    /\ UNCHANGED <<registry_vars, sock, buffer, registrations, strays, past, freed>>
    /\ MainFrame

CloseFd ==
    /\ MainAt("close")
    /\ sock' = [sock EXCEPT ![main_fd] = NoPeer]
    /\ Resume
    /\ UNCHANGED <<registry_vars, buffer, registrations, strays, past, thread_vars>>
    /\ MainFrame

\* What was left over does not decode any more.  (That the loop reads freed memory
\* here may also end the process, and everything with it.)
LeaveBuffer ==
    /\ MainAt("freed")
    /\ buffer' = NoPeer
    /\ MainGoto("idle")
    /\ UNCHANGED <<registry_vars, sock, registrations, strays, past, thread_vars>>
    /\ MainFrame

MainStep ==
    \/ AssignId \/ PublishBackend \/ LeaveBuffer
    \/ CloseStatus \/ CloseSession \/ CloseTrigger \/ CloseNotify \/ CloseFd

PeerStep ==
    \E fd \in Fd :
        \/ Disconnect(fd)
        \/ \E p \in Peer :
              \/ Accept(fd, p) \/ CloseRequest(fd, p)
              \/ \E s \in Service : StartRegistration(fd, p, s)

-----------------------------------------------------------------------------
(* The Maglev thread.  wait_for_update is wait_for with a predicate: the    *)
(* flag is looked at, the thread goes to sleep, and looks again when it     *)
(* wakes; after five seconds it goes on whatever the flag says.             *)

MaglevFrame ==
    UNCHANGED <<session_vars, vip_vars, id_vars, backends_map, sessions_map, main_vars,
                client_vars>>

\* A step that is no part of a rebuild.
Waiting == UNCHANGED <<services_map, round_vars, freed>> /\ MaglevFrame

CheckFlag ==
    /\ pc = "wait"
    /\ pc' = IF needs_rebuild THEN "clear" ELSE "block"
    /\ UNCHANGED <<needs_rebuild, missed>>
    /\ Waiting

FallAsleep ==
    /\ pc = "block"
    /\ pc' = "sleep"
    /\ UNCHANGED <<needs_rebuild, missed>>
    /\ Waiting

TimeOut ==
    /\ pc = "sleep"
    /\ pc' = "clear"
    /\ missed' = FALSE
    /\ UNCHANGED needs_rebuild
    /\ Waiting

\* A condition variable may wake up for no reason.
SpuriousWakeUp ==
    /\ pc = "sleep"
    /\ pc' = "wait"
    /\ missed' = FALSE
    /\ UNCHANGED needs_rebuild
    /\ Waiting

\* The last statement clears the flag, whoever set it and when.
ClearFlag ==
    /\ pc = "clear"
    /\ needs_rebuild' = FALSE
    /\ pc' = "services"
    /\ UNCHANGED missed
    /\ Waiting

\* get_all_service_vips
ListServices ==
    /\ pc = "services"
    /\ todo' = {s \in Service : HasVip(s)}
    /\ pc' = "next"
    /\ UNCHANGED <<needs_rebuild, services_map, svc, fds, ids, reading, table, pos, target,
                   seen, wild, misfiled, freed, missed>>
    /\ MaglevFrame

\* score_service_instances begins with the descriptors of the next service.
NextService ==
    /\ pc = "next"
    /\ \E s \in todo :
          /\ todo' = todo \ {s}
          /\ svc' = s
          /\ fds' = Instances(s)
          /\ seen' = [seen EXCEPT ![s] = Instances(s)]
    /\ pc' = "score"
    /\ UNCHANGED <<needs_rebuild, services_map, ids, reading, table, pos, target, wild,
                   misfiled, freed, missed>>
    /\ MaglevFrame

\* Mutant: the flag is cleared when the round is over.
MutRoundOver ==
    /\ pc = "next"
    /\ todo = {}
    /\ needs_rebuild' = FALSE
    /\ pc' = "wait"
    /\ UNCHANGED missed
    /\ Waiting

\* The loop over the services ends, and the thread waits again.
RoundOver ==
    /\ pc = "next"
    /\ todo = {}
    /\ pc' = "wait"
    /\ UNCHANGED <<needs_rebuild, missed>>
    /\ Waiting

\* Then it asks for each session, which may be gone by now, and computes its score
\* without a lock.
LookUp ==
    /\ pc = "score"
    /\ \E fd \in fds :
          /\ fds' = fds \ {fd}
          /\ IF HasSession(fd)
             THEN reading' = fd /\ pc' = "read"
             ELSE UNCHANGED <<reading, pc>>
    /\ UNCHANGED <<needs_rebuild, services_map, todo, svc, ids, table, pos, target, seen,
                   wild, misfiled, freed, missed>>
    /\ MaglevFrame

\* sm.get_logical_id(session->fd): the id may not be there yet, and if the session was
\* freed its descriptor may read as any number, that of another session among them.
ReadId ==
    /\ pc = "read"
    /\ \E id \in IF freed THEN {EMPTY} \cup {fd_to_id[g] : g \in Fd}
                 ELSE {fd_to_id[reading]} :
          /\ ids' = ids \cup {id}
          /\ wild' = IF freed THEN wild \cup {id} ELSE wild
    /\ pc' = "score" /\ reading' = NoFd /\ freed' = FALSE
    /\ UNCHANGED <<needs_rebuild, services_map, todo, svc, fds, table, pos, target, seen,
                   misfiled, missed>>
    /\ MaglevFrame

\* if(backend_scores.empty()) continue: the service keeps the table it has.
NoBackends ==
    /\ pc = "score"
    /\ fds = {} /\ ids = {}
    /\ svc' = NoService
    /\ pc' = "next"
    /\ UNCHANGED <<needs_rebuild, services_map, todo, fds, ids, reading, table, pos, target,
                   seen, wild, misfiled, freed, missed>>
    /\ MaglevFrame

\* build_table: every slot holds the id of a backend; which, and whether each backend
\* has one at all, depends on the hashes and on the scores before it.
BuildTable ==
    /\ pc = "score"
    /\ fds = {} /\ ids # {}
    /\ table' \in [Position -> ids]
    /\ ids' = {}
    /\ pc' = "update"
    /\ UNCHANGED <<needs_rebuild, services_map, todo, svc, fds, reading, pos, target, seen,
                   wild, misfiled, freed, missed>>
    /\ MaglevFrame

\* update_service_map, no inner map yet: a new array, all zero, is visible to the
\* XDP program before its first entry is written.  If it cannot be created, or the
\* outer map is full, the writes reach no table that counts; nobody looks.
CreateTable ==
    /\ pc = "update"
    /\ services_map[svc] = NoTable
    /\ \/ /\ services_map' = [services_map EXCEPT ![svc] = [p \in Position |-> 0]]
          /\ misfiled' = [misfiled EXCEPT ![svc] = Position]
          /\ target' = svc
       \/ /\ target' = NoService
          /\ UNCHANGED <<services_map, misfiled>>
    /\ pc' = "write"
    /\ UNCHANGED <<needs_rebuild, todo, svc, fds, ids, reading, table, pos, seen, wild,
                   freed, missed>>
    /\ MaglevFrame

(***************************************************************************)
(* update_service_map, the inner map exists.  A lookup in a map of maps     *)
(* from user space yields the id of the inner map (update_service_map2     *)
(* prints it as "inner map id"), and the code goes on to use it as a file   *)
(* descriptor.  Alias[s] is the set of services whose table that number may *)
(* be a descriptor of.  NoService stands for a number that is no descriptor *)
(* of a table: every write fails, and the result is ignored.  (A number     *)
(* that is the descriptor of one of the other maps is left out.)            *)
(***************************************************************************)
ReopenTable ==
    /\ pc = "update"
    /\ services_map[svc] # NoTable
    /\ \E a \in Alias[svc] :
          target' = IF a = NoService \/ services_map[a] = NoTable THEN NoService ELSE a
    /\ pc' = "write"
    /\ UNCHANGED <<needs_rebuild, services_map, todo, svc, fds, ids, reading, table, pos,
                   seen, wild, misfiled, freed, missed>>
    /\ MaglevFrame

\* for(i = 0; i < table.size(); ++i) bpf_map_update_elem(inner_map_fd, &i, &val)
WriteEntry ==
    /\ pc = "write"
    /\ pos < Size
    /\ IF target = NoService
       THEN UNCHANGED <<services_map, misfiled>>
       ELSE /\ services_map' = [services_map EXCEPT ![target][pos] = table[pos]]
            /\ misfiled' = [misfiled EXCEPT ![target] =
                               IF target = svc /\ table[pos] \notin wild
                               THEN @ \ {pos} ELSE @ \cup {pos}]
    /\ pos' = pos + 1
    /\ UNCHANGED <<needs_rebuild, pc, todo, svc, fds, ids, reading, table, target, seen,
                   wild, freed, missed>>
    /\ MaglevFrame

TableDone ==
    /\ pc = "write"
    /\ pos = Size
    /\ pos' = 0 /\ table' = NoBuild /\ svc' = NoService
    /\ target' = NoService /\ wild' = {}
    /\ pc' = "next"
    /\ UNCHANGED <<needs_rebuild, services_map, todo, fds, ids, reading, seen, misfiled,
                   freed, missed>>
    /\ MaglevFrame

MaglevStep ==
    \/ CheckFlag \/ FallAsleep \/ TimeOut \/ ClearFlag \/ ListServices \/ NextService
    \/ RoundOver \/ LookUp \/ ReadId \/ NoBackends \/ BuildTable \/ CreateTable
    \/ ReopenTable \/ WriteEntry \/ TableDone

-----------------------------------------------------------------------------
(* Clients.  Replies go from the backend to the client without passing here. *)

ClientFrame ==
    UNCHANGED <<registry_vars, services_map, main_vars, round_vars, thread_vars>>

\* The first half of a packet.
Sent(k, kind, syn, ack, fin) ==
    /\ wire[k] = NoPacket
    /\ Track(k, syn, ack, fin)
    /\ wire' = [wire EXCEPT ![k] =
                   [kind |-> kind, id |-> BackendOf(k), found |-> Pinned(k)]]
    /\ UNCHANGED <<flow, route>>
    /\ ClientFrame

\* A SYN of a new connection.
SendSyn(k) ==
    /\ k \notin UdpFlow
    /\ flow[k] \in {"closed", "reset"}
    /\ Sent(k, "syn", TRUE, FALSE, FALSE)

\* Data, or the acknowledgement of data, before or after the client's own FIN.
SendData(k) ==
    /\ flow[k] \in {"open", "half"}
    /\ Sent(k, "data", FALSE, TRUE, FALSE)

SendFin(k) ==
    /\ flow[k] = "open"
    /\ Sent(k, "fin", FALSE, TRUE, TRUE)

\* What a packet does to the client's side of the connection if a backend gets it:
\* the one that gets the SYN accepts.
FlowAfter(k) ==
    CASE wire[k].kind = "syn" -> "open"
      [] wire[k].kind = "fin" -> "half"
      [] OTHER -> flow[k]

\* The second half.
Arrive(k) ==
    /\ wire[k] # NoPacket
    /\ CASE Verdict(k, wire[k].id) = "TX" ->
                /\ flow' = [flow EXCEPT ![k] = FlowAfter(k)]
                /\ route' = [route EXCEPT ![k] = backends_map[wire[k].id].addr]
         [] Verdict(k, wire[k].id) = "RST" ->
                /\ flow' = [flow EXCEPT ![k] = "reset"]
                /\ route' = [route EXCEPT ![k] = NoPeer]
         [] OTHER -> UNCHANGED <<flow, route>>
    /\ wire' = [wire EXCEPT ![k] = NoPacket]
    /\ UNCHANGED sessions_map
    /\ ClientFrame

\* The backend's FIN reaches the client directly.
ServerFin(k) ==
    /\ flow[k] = "half"
    /\ flow' = [flow EXCEPT ![k] = "done"]
    /\ UNCHANGED <<sessions_map, wire, route>>
    /\ ClientFrame

\* The acknowledgement of the backend's FIN: whatever becomes of it, the client
\* has closed.
SendLastAck(k) ==
    /\ flow[k] = "done"
    /\ wire[k] = NoPacket
    /\ Track(k, FALSE, TRUE, FALSE)
    /\ flow' = [flow EXCEPT ![k] = "closed"]
    /\ route' = [route EXCEPT ![k] = NoPeer]
    /\ UNCHANGED wire
    /\ ClientFrame

SendDatagram(k) ==
    /\ k \in UdpFlow
    /\ Track(k, FALSE, FALSE, FALSE)
    /\ UNCHANGED client_vars
    /\ ClientFrame

ClientStep ==
    \E k \in Flow : \/ SendSyn(k) \/ SendData(k) \/ SendFin(k) \/ Arrive(k)
                    \/ ServerFin(k) \/ SendLastAck(k) \/ SendDatagram(k)

Next == MainStep \/ PeerStep \/ MaglevStep \/ SpuriousWakeUp \/ ClientStep

Spec == Init /\ [][Next]_vars

\* Both threads of the controller run on, and a wait ends after five seconds at the
\* latest, however often it is interrupted.  Peers and clients owe nothing.
Fairness == WF_vars(MainStep) /\ WF_vars(MaglevStep) /\ SF_vars(TimeOut)

FairSpec == Spec /\ Fairness

-----------------------------------------------------------------------------
(* Properties.                                                             *)

\* While a slot is active, the connection of the backend whose address it holds
\* has not been given back to the kernel: close_client takes the slot out before
\* close, in every interleaving with the XDP program.  The exception are the strays:
\* a backend that was registered by a frame decoded after its connection was closed.
ActiveMeansOpen ==
    \A i \in LogicalId :
        backends_map[i].is_active =>
            \E fd \in Fd :
                /\ fd_to_id[fd] = i
                /\ sock[fd] = backends_map[i].addr \/ fd \in strays

\* What becomes of a disconnect.  As long as the instances the thread last read for a
\* service include one that is gone, the close is still on its way to the flag, or
\* the flag is set and somebody will look at it, or the round that will read the
\* service again has begun: clearing the flag after the wait loses no trigger.  A
\* sleeping thread will look only if the notification is still to come; it waits for
\* the timer if that came between its last look at the flag and its sleep, since
\* trigger_rebuild does not take the mutex.
NoMissedClose ==
    \A s \in Service :
        \/ seen[s] \subseteq Instances(s)
        \/ main_pc \in {"status", "session", "trigger"}
        \/ pc \in {"clear", "services"}
        \/ s \in todo
        \/ needs_rebuild /\ (pc \in {"block", "sleep"} => main_pc = "notify" \/ missed)

\* What a descriptor has registered for up to now.
Served(fd) == {r.service : r \in past[fd]}

\* An entry that leads to an active backend which never registered for the service was
\* not written by a rebuild of that service (it is a zero of the new array, or was
\* written through the id of another table), or its id was read from a session that
\* had been freed: no interleaving of the rebuild with registrations, closes and
\* reused descriptors mixes up two services in any other way.
Isolated ==
    \A s \in Service, fd \in Fd :
        services_map[s] # NoTable =>
            \A p \in Position \ misfiled[s] :
                services_map[s][p] = fd_to_id[fd] /\ IsActive(fd_to_id[fd])
                    => s \in Served(fd)

\* Whatever a table holds (the zeros of a new one, the EMPTY of a backend without
\* an id, what a rewrite has not reached), a flow is pinned to an id that some
\* descriptor has, or to INVALID_BACKEND.
PinsKnown ==
    \A k \in Flow : Pinned(k) =>
        \/ sessions_map[k].backend_id = INVALID_BACKEND
        \/ \E fd \in Fd : fd_to_id[fd] = sessions_map[k].backend_id

\* The connection tracking of the XDP program: the packets of an open connection
\* all go to the backend that has the other end of it.
StatefulRoute ==
    [][\A k \in Flow :
          flow[k] = "open" /\ flow'[k] \in {"open", "half"} => route'[k] = route[k]]_vars

\* The descriptor with this id has registered more than once, or for two backends.
Reopened(id) == \E fd \in Fd :
    fd_to_id[fd] = id /\ \E r, q \in past[fd] : r # q
Handed(id) == \E fd \in Fd :
    fd_to_id[fd] = id /\ \E r, q \in past[fd] : r.addr # q.addr

\* The entry of a connection in a full sessions_map gives way to that of another flow.
Evicted(k) ==
    /\ ~(Cardinality({j \in Flow : Pinned(j)}) < MaxSessions)
    /\ \E j \in Flow \ {k} : ~Pinned(j) /\ Pinned(j)'

\* What becomes of an open connection where descriptors are reused and sessions_map
\* is full.  A packet goes to another backend only if the flow had lost its entry, or
\* if the id was handed on to another backend; and the flow loses its entry only to
\* another flow, or, by the FIN of an earlier connection, if its backend came back.
RouteKept ==
    [][\A k \in Flow : flow[k] = "open" =>
          /\ flow'[k] \in {"open", "half"} /\ route'[k] # route[k]
                => ~wire[k].found \/ Handed(wire[k].id)
          /\ Pinned(k) /\ ~Pinned(k)'
                => Evicted(k) \/ Reopened(sessions_map[k].backend_id)]_vars

\* The ids of the instances of a service, and those in its table.
Current(s) == {fd_to_id[fd] : fd \in Instances(s)}
Listed(s) == {services_map[s][p] : p \in Position}

\* Once backends stop coming and going, the table of a service that has backends
\* comes to hold no other id than theirs, for good.
TablesFollow ==
    \A s \in Service :
        <>[](Current(s) = {} \/ services_map[s] = NoTable \/ Listed(s) \subseteq Current(s))
=============================================================================
