------------------------------ MODULE Registry ------------------------------
(***************************************************************************)
(* The state the controller keeps about the backends that registered with  *)
(* it: the singleton SessionManager (sessions, service groups, virtual IPs, *)
(* logical ids), the array backends_map it shares with the XDP program, and *)
(* the flag that wakes the thread which rebuilds the Maglev tables.         *)
(*                                                                         *)
(* The module has the operations of session_manager.cpp and of             *)
(* maps_manager.cpp as action formulas over these variables; EventLoop and *)
(* LoadBalancer compose them.  Each operation names the variables it       *)
(* assigns in its comment, and its callers leave the others UNCHANGED.      *)
(*                                                                         *)
(* A backend process, the address it registers (backend_ip, udp_port) and  *)
(* its connection are one value of Peer.  Tokens are not data here: a      *)
(* CLOSE_REQ either carries the token of its session or it does not.        *)
(***************************************************************************)
EXTENDS Integers, FiniteSets

CONSTANTS
    Fd,            \* file descriptors the kernel may give to a connection
    Service,       \* names of the virtual services
    Peer,          \* backend processes
    Load,          \* what a report says of a backend's cpu and memory
    IdleLoad,      \* the metrics of a session before its first report
    MaxServices,   \* max_services, 100 in the code
    MaxBackends,   \* MAX_BACKENDS, 256 in the code
    Timeout,       \* seconds of silence a session survives, 20 in the code
    NoSession,     \* a descriptor without a session
    NoPeer         \* no process, and the zeroed address of a backends_map slot

StartSuffix == 100

SessionInfo == [service : Service, addr : Peer, load : Load, idle : 0 .. Timeout + 1]

ASSUME RegistryAssumption ==
    /\ MaxServices \in Nat
    /\ MaxBackends \in Nat \ {0}
    /\ Timeout \in Nat
    /\ IdleLoad \in Load
    /\ NoPeer \notin Peer
    /\ NoSession \notin SessionInfo

VARIABLES
    session_mapping,   \* Fd -> SessionInfo, or NoSession
    service_groups,    \* Service -> how often a descriptor is in its vector
    service_vips,      \* Service -> last byte of its virtual IP, 0 for none
    next_vip_suffix,
    fd_to_id,          \* Fd -> logical id, -1 for none
    next_logical_id,
    backends_map,      \* logical id -> address and is_active
    needs_rebuild

session_vars == <<session_mapping, service_groups>>
vip_vars     == <<service_vips, next_vip_suffix>>
id_vars      == <<fd_to_id, next_logical_id>>
registry_vars == <<session_vars, vip_vars, id_vars, backends_map, needs_rebuild>>

LogicalId == 0 .. MaxBackends - 1
Slot == [addr : Peer \cup {NoPeer}, is_active : BOOLEAN]

RegistryTypeOK ==
    /\ session_mapping \in [Fd -> SessionInfo \cup {NoSession}]
    /\ service_groups \in [Service -> [Fd -> Nat]]
    /\ service_vips \in [Service -> Nat]
    /\ next_vip_suffix \in Nat
    /\ fd_to_id \in [Fd -> Nat \cup {-1}]
    /\ next_logical_id \in Nat
    /\ backends_map \in [LogicalId -> Slot]
    /\ needs_rebuild \in BOOLEAN

RegistryInit ==
    /\ session_mapping = [fd \in Fd |-> NoSession]
    /\ service_groups = [s \in Service |-> [fd \in Fd |-> 0]]
    /\ service_vips = [s \in Service |-> 0]
    /\ next_vip_suffix = StartSuffix
    /\ fd_to_id = [fd \in Fd |-> -1]
    /\ next_logical_id = 0
    /\ backends_map = [i \in LogicalId |-> [addr |-> NoPeer, is_active |-> FALSE]]
    /\ needs_rebuild = FALSE

-----------------------------------------------------------------------------
(* Sessions.                                                               *)

HasSession(fd) == session_mapping[fd] # NoSession

\* get_all_session_fds
SessionFds == {fd \in Fd : HasSession(fd)}

\* Mutant: a session expires a second early.
MutExpiredSessions == {fd \in SessionFds : session_mapping[fd].idle >= Timeout}

\* get_expired_sessions: silent for strictly more than Timeout seconds.
ExpiredSessions == {fd \in SessionFds : session_mapping[fd].idle > Timeout}

\* get_instances_for_service: the descriptors in the service's vector.
Instances(s) == {fd \in Fd : service_groups[s][fd] > 0}

\* create_session: session_mapping, service_groups.
CreateSession(fd, s, addr) ==
    /\ session_mapping' = [session_mapping EXCEPT ![fd] =
            [service |-> s, addr |-> addr, load |-> IdleLoad, idle |-> 0]]
    /\ service_groups' = [service_groups EXCEPT ![s][fd] = @ + 1]

\* Mutant: the descriptor stays in the service's vector.
MutRemoveSession(fd) ==
    /\ session_mapping' = [session_mapping EXCEPT ![fd] = NoSession]
    /\ UNCHANGED service_groups

\* remove_session: session_mapping, service_groups.  std::remove takes every
\* occurrence of the descriptor out of the vector.
RemoveSession(fd) ==
    /\ session_mapping' = [session_mapping EXCEPT ![fd] = NoSession]
    /\ service_groups' =
            IF HasSession(fd)
            THEN [service_groups EXCEPT ![session_mapping[fd].service][fd] = 0]
            ELSE service_groups

\* update_last_seen: session_mapping.
UpdateLastSeen(fd) ==
    session_mapping' = [session_mapping EXCEPT ![fd].idle = 0]

\* update_metrics: session_mapping.  A report also counts as a sign of life.
UpdateMetrics(fd, load) ==
    session_mapping' = [session_mapping EXCEPT ![fd].load = load, ![fd].idle = 0]

\* Mutant: age is counted past the second that expires a session.
MutAgeSessions ==
    session_mapping' = [fd \in Fd |->
        IF HasSession(fd) /\ session_mapping[fd].idle <= Timeout + 1
        THEN [session_mapping[fd] EXCEPT !.idle = @ + 1]
        ELSE session_mapping[fd]]

\* One second of the steady clock that last_seen is compared with:
\* session_mapping.  idle stops at Timeout + 1, expired is expired.
AgeSessions ==
    session_mapping' = [fd \in Fd |->
        IF HasSession(fd) /\ session_mapping[fd].idle <= Timeout
        THEN [session_mapping[fd] EXCEPT !.idle = @ + 1]
        ELSE session_mapping[fd]]

-----------------------------------------------------------------------------
(* Virtual IPs: 10.0.0.<suffix>, kept by their last byte.                  *)

HasVip(s) == service_vips[s] # 0

\* Mutant: off by one at the end of the block.
MutVipLeft == next_vip_suffix <= StartSuffix + MaxServices

VipLeft == next_vip_suffix < StartSuffix + MaxServices

\* Mutant: every registration takes a new address.
MutEnsureVip(s) ==
    /\ VipLeft
    /\ service_vips' = [service_vips EXCEPT ![s] = next_vip_suffix]
    /\ next_vip_suffix' = next_vip_suffix + 1

\* get_service_vip, allocate_service_vip and register_service_vip as
\* handle_init_req calls them: service_vips, next_vip_suffix.
EnsureVip(s) ==
    IF HasVip(s)
    THEN UNCHANGED vip_vars
    ELSE /\ VipLeft
         /\ service_vips' = [service_vips EXCEPT ![s] = next_vip_suffix]
         /\ next_vip_suffix' = next_vip_suffix + 1

-----------------------------------------------------------------------------
(* Logical ids and the slots of backends_map.                              *)

\* Mutant: the number of sessions as the next id.
MutRegisterLogicalId(fd) ==
    /\ fd_to_id' = [fd_to_id EXCEPT ![fd] = Cardinality(SessionFds)]
    /\ next_logical_id' = next_logical_id + 1

\* register_logical_id: fd_to_id, next_logical_id.  A descriptor keeps the
\* first id it got for the life of the controller.
RegisterLogicalId(fd) ==
    IF fd_to_id[fd] = -1
    THEN /\ fd_to_id' = [fd_to_id EXCEPT ![fd] = next_logical_id]
         /\ next_logical_id' = next_logical_id + 1
    ELSE UNCHANGED id_vars

\* add_backend, with the id get_logical_id returns: backends_map.  The kernel
\* refuses a key beyond the array, and handle_init_req ignores the result.
AddBackend(id, addr) ==
    backends_map' =
        IF id \in LogicalId
        THEN [backends_map EXCEPT ![id] = [addr |-> addr, is_active |-> TRUE]]
        ELSE backends_map

\* Mutant: a backend whose session is gone is taken for one that is inactive.
MutUpdateBackendStatus(fd, is_active) ==
    backends_map' =
        IF HasSession(fd) /\ fd_to_id[fd] \in LogicalId
        THEN [backends_map EXCEPT ![fd_to_id[fd]].is_active = is_active]
        ELSE backends_map

\* update_backend_status: backends_map.
UpdateBackendStatus(fd, is_active) ==
    backends_map' =
        IF fd_to_id[fd] \in LogicalId
        THEN [backends_map EXCEPT ![fd_to_id[fd]].is_active = is_active]
        ELSE backends_map

\* trigger_rebuild: needs_rebuild.
TriggerRebuild == needs_rebuild' = TRUE

\* What an accepted handle_init_req does to the registry: everything but
\* needs_rebuild.  The tables learn of the backend at the next periodic rebuild.
Register(fd, s, addr) ==
    /\ ~HasSession(fd)
    /\ EnsureVip(s)
    /\ CreateSession(fd, s, addr)
    /\ RegisterLogicalId(fd)
    /\ AddBackend(fd_to_id'[fd], addr)

\* Mutant: the session outlives its connection.
MutDeregister(fd) ==
    /\ UpdateBackendStatus(fd, FALSE)
    /\ TriggerRebuild
    /\ UNCHANGED <<session_vars, vip_vars, id_vars>>

\* What close_client does to the registry, with or without a session.
Deregister(fd) ==
    /\ UpdateBackendStatus(fd, FALSE)
    /\ RemoveSession(fd)
    /\ TriggerRebuild
    /\ UNCHANGED <<vip_vars, id_vars>>

-----------------------------------------------------------------------------
(* What the event loop relies on.  GroupsMatchSessions, BackendsMirror,   *)
(* VipsDistinct and ImplementsMembership are checked in EventLoop, the last *)
(* one also in LoadBalancer.                                               *)

\* The vector of a service holds exactly the descriptors whose session names
\* that service, each once: the scorer finds every live backend, no dead one,
\* and gives none a double share.
GroupsMatchSessions ==
    \A s \in Service, fd \in Fd :
        service_groups[s][fd] =
            IF HasSession(fd) /\ session_mapping[fd].service = s THEN 1 ELSE 0

\* A slot of backends_map is active exactly while the descriptor that owns its
\* id has a session, and then holds the address of that session: the XDP
\* program never forwards to a backend the controller has closed, whatever
\* descriptors were reused on the way.
BackendsMirror ==
    /\ \A fd \in SessionFds :
          fd_to_id[fd] \in LogicalId =>
              backends_map[fd_to_id[fd]] =
                  [addr |-> session_mapping[fd].addr, is_active |-> TRUE]
    /\ \A i \in LogicalId :
          backends_map[i].is_active => \E fd \in SessionFds : fd_to_id[fd] = i

\* No two services share a virtual IP, every VIP is in the block of
\* MaxServices addresses, and a service with a session has one.
VipsDistinct ==
    /\ \A s, t \in Service : HasVip(s) /\ service_vips[s] = service_vips[t] => s = t
    /\ \A s \in Service :
          HasVip(s) => service_vips[s] \in StartSuffix .. StartSuffix + MaxServices - 1
    /\ \A fd \in SessionFds : HasVip(session_mapping[fd].service)

\* What a slot shows the XDP program: the backend it forwards to, if any.
ActiveAddress ==
    [i \in LogicalId |-> IF backends_map[i].is_active THEN backends_map[i].addr ELSE NoPeer]

\* Through backends_map and the virtual IPs, whatever uses the registry implements the
\* contract of Membership: no reused descriptor, disconnect or repeated request moves a
\* slot from one backend straight to another, or changes a virtual IP.
Contract == INSTANCE Membership WITH
    Backend <- Peer, Nobody <- NoPeer, Id <- LogicalId,
    Vip <- StartSuffix .. StartSuffix + MaxServices - 1, NoVip <- 0,
    member <- ActiveAddress, vip <- service_vips
ImplementsMembership == Contract!Spec
=============================================================================
