------------------------------ MODULE Balancer ------------------------------
(***************************************************************************)
(* The XDP program balancer.bpf.c: what it does with one packet of a flow, *)
(* given the maps it shares with the controller.  It looks at backends_map  *)
(* twice, in pick_backend and for the verdict, and a backend may come or go *)
(* in between: Track is the first half of a packet, Verdict the second.  The *)
(* probes of one pick_backend are taken together.                           *)
(*                                                                         *)
(* A session_key is a member of Flow.  The virtual IP of a service never    *)
(* changes, so services_map is kept by service.  A frame that is not IPv4   *)
(* TCP or UDP, or too short to have a TCP header behind its IP header, is   *)
(* passed on before any map is read; no such frame is sent here.            *)
(***************************************************************************)
EXTENDS Registry

CONSTANTS
    Flow,        \* session keys
    UdpFlow,     \* those whose protocol is UDP
    FlowService, \* Flow -> the service whose virtual IP is its dst_ip
    Hash,        \* Flow -> calculate_session_hash
    Size,        \* SIZE, 65537 in the code
    Probes,      \* entries pick_backend looks at, MAX_BACKENDS in the code
    MaxSessions, \* capacity of sessions_map, 10000 in the code
    NoTable,     \* a service without an inner map
    NoPin        \* a key without an entry in sessions_map

Position == 0 .. Size - 1

INVALID_BACKEND == 99999
EMPTY == -1

\* What the controller writes into a table: ids, and EMPTY for the id -1.
Entry == Nat \cup {EMPTY}

Pin == [backend_id : Nat, fin : BOOLEAN]

ASSUME BalancerAssumption ==
    /\ UdpFlow \subseteq Flow
    /\ FlowService \in [Flow -> Service]
    /\ Hash \in [Flow -> Nat]
    /\ Size \in Nat \ {0}
    /\ Probes \in Nat \ {0}
    /\ MaxSessions \in Nat \ {0}
    /\ NoTable \notin [Position -> Entry]
    /\ NoPin \notin Pin
    /\ MaxBackends <= INVALID_BACKEND

VARIABLES
    services_map,  \* Service -> its inner map, or NoTable
    sessions_map   \* Flow -> Pin, or NoPin

BalancerTypeOK ==
    /\ services_map \in [Service -> [Position -> Entry] \cup {NoTable}]
    /\ sessions_map \in [Flow -> Pin \cup {NoPin}]

BalancerInit ==
    /\ services_map = [s \in Service |-> NoTable]
    /\ sessions_map = [k \in Flow |-> NoPin]

IsServiceVip(k) == services_map[FlowService[k]] # NoTable
Pinned(k) == sessions_map[k] # NoPin

\* Mutant: a backend that went away still counts.
MutIsActive(id) == id \in LogicalId

\* The array has MaxBackends slots; an id beyond them, EMPTY among others, is
\* not found.
IsActive(id) == id \in LogicalId /\ backends_map[id].is_active

\* pick_backend: the first active backend among the entries it probes.
PickBackend(k) ==
    LET Probe(i) == services_map[FlowService[k]][(Hash[k] + i) % Size]
        Hit == {i \in 0 .. Probes - 1 : IsActive(Probe(i))}
    IN  IF Hit = {}
        THEN INVALID_BACKEND
        ELSE Probe(CHOOSE i \in Hit : \A j \in Hit : i <= j)

\* What get_or_create_backend returns, and INVALID_BACKEND where is_service_vip
\* lets the packet pass: the program does nothing else with that id.
BackendOf(k) ==
    IF ~IsServiceVip(k) THEN INVALID_BACKEND
    ELSE IF Pinned(k) THEN sessions_map[k].backend_id
    ELSE PickBackend(k)

\* What xdp_balancer_prog then does with the packet: the slot is looked up again.
Verdict(k, id) ==
    IF id = INVALID_BACKEND THEN "PASS"
    ELSE IF IsActive(id) THEN "TX"
    ELSE IF k \in UdpFlow THEN "DROP" ELSE "RST"

\* bpf_map_update_elem on the LRU hash: a full map gives up some other entry.
Insert(k, pin) ==
    LET used == {j \in Flow : Pinned(j)}
    IN  IF Cardinality(used) < MaxSessions
        THEN sessions_map' = [sessions_map EXCEPT ![k] = pin]
        ELSE \E victim \in used :
                sessions_map' = [sessions_map EXCEPT ![victim] = NoPin, ![k] = pin]

\* Mutant: the pin goes with the first acknowledgement, FIN or no FIN.
MutFinished(pin, syn, ack, fin) == ack /\ ~fin /\ ~syn

\* The entry is deleted by an acknowledgement that follows a FIN.
Finished(pin, syn, ack, fin) == (pin.fin \/ fin) /\ ack /\ ~fin /\ ~syn

\* get_or_create_backend: sessions_map.  A packet without an entry that is not a
\* SYN is balanced and leaves no entry; a rst flag does nothing.
Track(k, syn, ack, fin) ==
    IF ~IsServiceVip(k) THEN UNCHANGED sessions_map
    ELSE IF Pinned(k) THEN
        sessions_map' =
            IF k \in UdpFlow THEN sessions_map
            ELSE IF Finished(sessions_map[k], syn, ack, fin)
                 THEN [sessions_map EXCEPT ![k] = NoPin]
                 ELSE [sessions_map EXCEPT ![k].fin = @ \/ fin]
    ELSE IF k \in UdpFlow \/ syn
         THEN Insert(k, [backend_id |-> PickBackend(k), fin |-> FALSE])
         ELSE UNCHANGED sessions_map
=============================================================================
