--------------------------- MODULE RegistryProofs ---------------------------
(***************************************************************************)
(* Facts about the operations of Registry, for every set of descriptors,   *)
(* services and peers and every value of the limits.  Each operation of the *)
(* event loop changes the registry in one of three ways (it registers a    *)
(* backend, closes a descriptor, or refreshes sessions); the inductive      *)
(* invariant RegistryInv survives each of them.                             *)
(***************************************************************************)
EXTENDS Registry, TLAPS

(***************************************************************************)
(* What BackendsMirror needs to be inductive: ids are handed out in order  *)
(* and never twice, so closing or registering one descriptor touches no    *)
(* other descriptor's slot; and a session is created together with its id. *)
(***************************************************************************)
IdsDistinct ==
    /\ \A fd \in Fd : fd_to_id[fd] < next_logical_id
    /\ \A fd, g \in Fd : fd_to_id[fd] = fd_to_id[g] /\ fd_to_id[fd] # -1 => fd = g
    /\ \A fd \in Fd : HasSession(fd) => fd_to_id[fd] # -1

\* What VipsDistinct needs: the addresses handed out are those below the next.
VipsBelowNext ==
    /\ next_vip_suffix \in StartSuffix .. StartSuffix + MaxServices
    /\ \A s \in Service : HasVip(s) => service_vips[s] \in StartSuffix .. next_vip_suffix - 1

RegistryInv ==
    /\ RegistryTypeOK
    /\ GroupsMatchSessions
    /\ IdsDistinct
    /\ BackendsMirror
    /\ VipsBelowNext
    /\ VipsDistinct

\* Sessions keep who they are for; silence and metrics may change.
Refresh ==
    /\ session_mapping' \in [Fd -> SessionInfo \cup {NoSession}]
    /\ \A fd \in Fd :
          /\ HasSession(fd)' <=> HasSession(fd)
          /\ HasSession(fd) =>
                /\ session_mapping'[fd].service = session_mapping[fd].service
                /\ session_mapping'[fd].addr = session_mapping[fd].addr
    /\ UNCHANGED <<service_groups, vip_vars, id_vars, backends_map, needs_rebuild>>

-----------------------------------------------------------------------------
\* A registry nobody registered with satisfies the invariant.
LEMMA RegistryInitInv == ASSUME RegistryInit PROVE RegistryInv
<1> USE RegistryAssumption DEF RegistryInit
<1>1. RegistryTypeOK
  BY DEF RegistryTypeOK, Slot, StartSuffix
<1>2. \A fd \in Fd : ~HasSession(fd)
  BY DEF HasSession
<1>3. GroupsMatchSessions
  BY <1>2 DEF GroupsMatchSessions
<1>4. IdsDistinct
  BY <1>2 DEF IdsDistinct
<1>5. BackendsMirror
  BY <1>2 DEF BackendsMirror, SessionFds, LogicalId
<1>6. VipsBelowNext /\ VipsDistinct
  BY <1>2 DEF VipsBelowNext, VipsDistinct, HasVip, SessionFds, StartSuffix
<1> QED BY <1>1, <1>3, <1>4, <1>5, <1>6 DEF RegistryInv

\* A step that leaves the registry alone keeps the invariant.
LEMMA RegistryStutter ==
    ASSUME RegistryInv, UNCHANGED registry_vars PROVE RegistryInv'
BY DEF registry_vars, session_vars, vip_vars, id_vars, RegistryInv, RegistryTypeOK,
       GroupsMatchSessions, IdsDistinct, BackendsMirror, VipsBelowNext, VipsDistinct,
       HasSession, SessionFds, HasVip

\* Refreshing sessions keeps the invariant: nothing in it depends on silence or
\* load.
LEMMA RefreshInv ==
    ASSUME RegistryInv, Refresh PROVE RegistryInv'
<1> USE DEF RegistryInv, Refresh, vip_vars, id_vars
<1>1. RegistryTypeOK'
  BY DEF RegistryTypeOK
<1>2. \A fd \in Fd : HasSession(fd)' <=> HasSession(fd)
  OBVIOUS
<1>3. SessionFds' = SessionFds
  BY <1>2 DEF SessionFds
<1>4. GroupsMatchSessions'
  BY <1>2 DEF GroupsMatchSessions
<1>5. IdsDistinct'
  BY <1>2 DEF IdsDistinct
<1>6. \A fd \in SessionFds : session_mapping'[fd].addr = session_mapping[fd].addr
                             /\ session_mapping'[fd].service = session_mapping[fd].service
  BY DEF SessionFds
<1>7. BackendsMirror'
  BY <1>3, <1>6 DEF BackendsMirror
<1>8. VipsBelowNext' /\ VipsDistinct'
  BY <1>3, <1>6 DEF VipsBelowNext, VipsDistinct, HasVip
<1> QED BY <1>1, <1>4, <1>5, <1>7, <1>8

-----------------------------------------------------------------------------
\* The three ways the loop refreshes sessions.
LEMMA UpdateLastSeenRefresh ==
    ASSUME RegistryTypeOK, NEW fd \in Fd, HasSession(fd), UpdateLastSeen(fd),
           UNCHANGED <<service_groups, vip_vars, id_vars, backends_map, needs_rebuild>>
    PROVE  Refresh
<1> USE RegistryAssumption DEF RegistryTypeOK, HasSession, UpdateLastSeen
<1>1. session_mapping[fd] \in SessionInfo
  OBVIOUS
<1>2. [session_mapping[fd] EXCEPT !.idle = 0] \in SessionInfo
  BY <1>1 DEF SessionInfo
<1>3. session_mapping' = [session_mapping EXCEPT ![fd] = [session_mapping[fd] EXCEPT !.idle = 0]]
  OBVIOUS
<1>4. [session_mapping[fd] EXCEPT !.idle = 0].service = session_mapping[fd].service
      /\ [session_mapping[fd] EXCEPT !.idle = 0].addr = session_mapping[fd].addr
  BY <1>1 DEF SessionInfo
<1> QED BY <1>2, <1>3, <1>4 DEF Refresh

LEMMA UpdateMetricsRefresh ==
    ASSUME RegistryTypeOK, NEW fd \in Fd, HasSession(fd), NEW load \in Load,
           UpdateMetrics(fd, load),
           UNCHANGED <<service_groups, vip_vars, id_vars, backends_map, needs_rebuild>>
    PROVE  Refresh
<1> USE RegistryAssumption DEF RegistryTypeOK, HasSession, UpdateMetrics
<1> DEFINE new == [session_mapping[fd] EXCEPT !.load = load, !.idle = 0]
<1>1. session_mapping[fd] \in SessionInfo
  OBVIOUS
<1> DEFINE reported == [session_mapping[fd] EXCEPT !.load = load]
<1>2. /\ reported \in SessionInfo
      /\ reported.service = session_mapping[fd].service
      /\ reported.addr = session_mapping[fd].addr
  BY <1>1 DEF SessionInfo
<1>3. new = [reported EXCEPT !.idle = 0]
  OBVIOUS
<1>4. /\ new \in SessionInfo
      /\ new.service = session_mapping[fd].service
      /\ new.addr = session_mapping[fd].addr
  <2> HIDE DEF new, reported
  <2> QED BY <1>2, <1>3 DEF SessionInfo
<1>5. session_mapping' = [session_mapping EXCEPT ![fd] = new]
  BY <1>1 DEF SessionInfo
<1> HIDE DEF new
<1>6. new # NoSession
  BY <1>4
<1> QED BY <1>4, <1>5, <1>6 DEF Refresh

LEMMA AgeSessionsRefresh ==
    ASSUME RegistryTypeOK, AgeSessions,
           UNCHANGED <<service_groups, vip_vars, id_vars, backends_map, needs_rebuild>>
    PROVE  Refresh
<1> USE RegistryAssumption DEF RegistryTypeOK, HasSession, AgeSessions
<1> DEFINE older(fd) == [session_mapping[fd] EXCEPT !.idle = @ + 1]
<1>1. ASSUME NEW fd \in Fd, HasSession(fd), session_mapping[fd].idle <= Timeout
      PROVE  /\ older(fd) \in SessionInfo
             /\ older(fd).service = session_mapping[fd].service
             /\ older(fd).addr = session_mapping[fd].addr
  <2>1. session_mapping[fd] \in SessionInfo
    BY <1>1
  <2> QED BY <1>1, <2>1 DEF SessionInfo
<1>2. \A fd \in Fd : session_mapping'[fd] =
        IF HasSession(fd) /\ session_mapping[fd].idle <= Timeout
        THEN older(fd) ELSE session_mapping[fd]
  OBVIOUS
<1> HIDE DEF older
<1>3. session_mapping' \in [Fd -> SessionInfo \cup {NoSession}]
  BY <1>1, <1>2
<1> QED BY <1>1, <1>2, <1>3 DEF Refresh

-----------------------------------------------------------------------------
\* Closing a descriptor takes its session out of the group, switches its own
\* slot off and no other: ids are distinct.
LEMMA DeregisterInv ==
    ASSUME RegistryInv, NEW fd \in Fd, Deregister(fd) PROVE RegistryInv'
<1> USE RegistryAssumption DEF RegistryInv, Deregister, vip_vars, id_vars
<1>1. session_mapping' = [session_mapping EXCEPT ![fd] = NoSession]
  BY DEF RemoveSession
<1>2. /\ SessionFds' = SessionFds \ {fd}
      /\ \A g \in SessionFds \ {fd} : session_mapping'[g] = session_mapping[g]
      /\ ~HasSession(fd)'
  BY <1>1 DEF SessionFds, HasSession, RegistryTypeOK
<1>3. \A g \in Fd : g # fd => session_mapping'[g] = session_mapping[g]
  BY <1>1 DEF RegistryTypeOK
<1>4. RegistryTypeOK'
  <2>1. session_mapping' \in [Fd -> SessionInfo \cup {NoSession}]
    BY <1>1 DEF RegistryTypeOK
  <2>2. HasSession(fd) => session_mapping[fd].service \in Service
    BY DEF HasSession, RegistryTypeOK, SessionInfo
  <2>3. service_groups' \in [Service -> [Fd -> Nat]]
    BY <2>2 DEF RemoveSession, RegistryTypeOK
  <2>4. backends_map' \in [LogicalId -> Slot]
    BY DEF UpdateBackendStatus, RegistryTypeOK, Slot
  <2>5. needs_rebuild' \in BOOLEAN
    BY DEF TriggerRebuild
  <2> QED BY <2>1, <2>3, <2>4, <2>5 DEF RegistryTypeOK
<1>5. GroupsMatchSessions'
  <2> SUFFICES ASSUME NEW s \in Service, NEW g \in Fd
               PROVE  service_groups'[s][g] =
                        IF HasSession(g)' /\ session_mapping'[g].service = s THEN 1 ELSE 0
    BY DEF GroupsMatchSessions
  <2>1. CASE g # fd
    <3>1. service_groups'[s][g] = service_groups[s][g]
      BY <2>1 DEF RemoveSession, RegistryTypeOK
    <3> QED BY <2>1, <3>1, <1>3 DEF GroupsMatchSessions, HasSession
  <2>2. CASE g = fd /\ HasSession(fd)
    <3>1. session_mapping[fd].service \in Service
      BY <2>2 DEF HasSession, RegistryTypeOK, SessionInfo
    <3>2. service_groups'[s][fd] = 0
      BY <2>2, <3>1 DEF RemoveSession, RegistryTypeOK, GroupsMatchSessions
    <3> QED BY <2>2, <3>2, <1>2
  <2>3. CASE g = fd /\ ~HasSession(fd)
    BY <2>3, <1>2 DEF RemoveSession, GroupsMatchSessions
  <2> QED BY <2>1, <2>2, <2>3
<1>6. IdsDistinct'
  BY <1>2, <1>3 DEF IdsDistinct, HasSession
<1>7. BackendsMirror'
  <2>1. ASSUME NEW i \in LogicalId, i # fd_to_id[fd]
        PROVE  backends_map'[i] = backends_map[i]
    BY <2>1 DEF UpdateBackendStatus, RegistryTypeOK
  <2>2. ASSUME NEW g \in SessionFds', fd_to_id[g] \in LogicalId
        PROVE  backends_map'[fd_to_id[g]] =
                  [addr |-> session_mapping'[g].addr, is_active |-> TRUE]
    <3>1. g \in SessionFds /\ g # fd /\ g \in Fd /\ HasSession(g)
      BY <1>2, <2>2 DEF SessionFds
    <3>2. fd_to_id[g] # fd_to_id[fd]
      BY <3>1 DEF IdsDistinct
    <3> QED BY <1>2, <2>1, <2>2, <3>1, <3>2 DEF BackendsMirror
  <2>3. ASSUME NEW i \in LogicalId, backends_map'[i].is_active
        PROVE  \E g \in SessionFds' : fd_to_id[g] = i
    <3>1. i # fd_to_id[fd]
      BY <2>3 DEF UpdateBackendStatus, RegistryTypeOK, Slot
    <3>2. PICK g \in SessionFds : fd_to_id[g] = i
      BY <2>1, <2>3, <3>1 DEF BackendsMirror
    <3> QED BY <1>2, <3>1, <3>2
  <2> QED BY <2>2, <2>3 DEF BackendsMirror
<1>8. VipsBelowNext' /\ VipsDistinct'
  BY <1>2 DEF VipsBelowNext, VipsDistinct, HasVip
<1> QED BY <1>4, <1>5, <1>6, <1>7, <1>8

\* Giving a service its address keeps the addresses distinct and in the block.
LEMMA EnsureVipInv ==
    ASSUME RegistryTypeOK, VipsBelowNext, VipsDistinct, NEW s \in Service, EnsureVip(s)
    PROVE  /\ service_vips' \in [Service -> Nat] /\ next_vip_suffix' \in Nat
           /\ VipsBelowNext'
           /\ HasVip(s)'
           /\ \A t \in Service : HasVip(t) => service_vips'[t] = service_vips[t]
           /\ \A t, u \in Service :
                 HasVip(t)' /\ service_vips'[t] = service_vips'[u] => t = u
           /\ \A t \in Service :
                 HasVip(t)' => service_vips'[t] \in StartSuffix .. StartSuffix + MaxServices - 1
<1> USE RegistryAssumption DEF RegistryTypeOK, StartSuffix
<1>1. CASE HasVip(s)
  BY <1>1 DEF EnsureVip, vip_vars, HasVip, VipsBelowNext, VipsDistinct
<1>2. CASE ~HasVip(s)
  <2>1. /\ next_vip_suffix < StartSuffix + MaxServices
        /\ service_vips' = [service_vips EXCEPT ![s] = next_vip_suffix]
        /\ next_vip_suffix' = next_vip_suffix + 1
    BY <1>2 DEF EnsureVip, VipLeft
  <2>2. service_vips' \in [Service -> Nat] /\ next_vip_suffix' \in Nat
    BY <2>1
  <2>3. service_vips'[s] = next_vip_suffix
        /\ \A t \in Service \ {s} : service_vips'[t] = service_vips[t]
    BY <2>1
  <2>4. VipsBelowNext'
    BY <2>1, <2>3 DEF VipsBelowNext, HasVip
  <2>5. HasVip(s)'
    BY <2>3 DEF HasVip, VipsBelowNext
  <2>6. \A t, u \in Service : HasVip(t)' /\ service_vips'[t] = service_vips'[u] => t = u
    BY <2>3, <2>5 DEF HasVip, VipsBelowNext, VipsDistinct
  <2>7. \A t \in Service :
          HasVip(t)' => service_vips'[t] \in StartSuffix .. StartSuffix + MaxServices - 1
    BY <2>1, <2>3 DEF HasVip, VipsBelowNext, VipsDistinct
  <2> QED BY <1>2, <2>2, <2>3, <2>4, <2>5, <2>6, <2>7
<1> QED BY <1>1, <1>2

\* Registering a backend keeps the invariant: the slot it writes belongs to its
\* descriptor alone, whether the id is new or inherited from an earlier
\* connection on the same descriptor.
LEMMA RegisterInv ==
    ASSUME RegistryInv, NEW fd \in Fd, NEW s \in Service, NEW addr \in Peer,
           Register(fd, s, addr), UNCHANGED needs_rebuild
    PROVE  RegistryInv'
<1> USE RegistryAssumption DEF RegistryInv, Register
<1> DEFINE info == [service |-> s, addr |-> addr, load |-> IdleLoad, idle |-> 0]
           id == fd_to_id'[fd]
<1>1. /\ session_mapping' = [session_mapping EXCEPT ![fd] = info]
      /\ service_groups' = [service_groups EXCEPT ![s][fd] = @ + 1]
  BY DEF CreateSession
<1>2. info \in SessionInfo /\ info # NoSession
  BY DEF SessionInfo
<1>3. /\ SessionFds' = SessionFds \cup {fd}
      /\ session_mapping'[fd] = info
      /\ \A g \in Fd \ {fd} : session_mapping'[g] = session_mapping[g]
      /\ ~HasSession(fd) /\ HasSession(fd)'
  BY <1>1, <1>2 DEF SessionFds, HasSession, RegistryTypeOK
<1>4. /\ fd_to_id' \in [Fd -> Nat \cup {-1}] /\ next_logical_id' \in Nat
      /\ id # -1
      /\ \A g \in Fd \ {fd} : fd_to_id'[g] = fd_to_id[g]
      /\ \A g \in Fd \ {fd} : fd_to_id'[g] # id
      /\ \A g \in Fd : fd_to_id'[g] < next_logical_id'
  <2>1. CASE fd_to_id[fd] = -1
    <3>1. /\ fd_to_id' = [fd_to_id EXCEPT ![fd] = next_logical_id]
          /\ next_logical_id' = next_logical_id + 1
      BY <2>1 DEF RegisterLogicalId
    <3> QED BY <3>1 DEF RegistryTypeOK, IdsDistinct
  <2>2. CASE fd_to_id[fd] # -1
    <3>1. UNCHANGED <<fd_to_id, next_logical_id>>
      BY <2>2 DEF RegisterLogicalId, id_vars
    <3> QED BY <2>2, <3>1 DEF RegistryTypeOK, IdsDistinct
  <2> QED BY <2>1, <2>2
<1>5. AddBackend(id, addr)
  OBVIOUS
<1> HIDE DEF info, id
<1>6. /\ backends_map' \in [LogicalId -> Slot]
      /\ id \in LogicalId => backends_map'[id] = [addr |-> addr, is_active |-> TRUE]
      /\ \A i \in LogicalId \ {id} : backends_map'[i] = backends_map[i]
  <2>1. [addr |-> addr, is_active |-> TRUE] \in Slot
    BY DEF Slot
  <2>2. CASE id \in LogicalId
    BY <1>5, <2>1, <2>2 DEF AddBackend, RegistryTypeOK
  <2>3. CASE id \notin LogicalId
    BY <1>5, <2>3 DEF AddBackend, RegistryTypeOK
  <2> QED BY <2>2, <2>3
<1>7. RegistryTypeOK'
  <2>1. session_mapping' \in [Fd -> SessionInfo \cup {NoSession}]
    BY <1>1, <1>2 DEF RegistryTypeOK
  <2>2. service_groups' \in [Service -> [Fd -> Nat]]
    BY <1>1 DEF RegistryTypeOK
  <2>3. service_vips' \in [Service -> Nat] /\ next_vip_suffix' \in Nat
    BY EnsureVipInv
  <2>4. needs_rebuild' \in BOOLEAN
    BY DEF RegistryTypeOK
  <2> QED BY <1>4, <1>6, <2>1, <2>2, <2>3, <2>4 DEF RegistryTypeOK
<1>8. GroupsMatchSessions'
  <2> SUFFICES ASSUME NEW t \in Service, NEW g \in Fd
               PROVE  service_groups'[t][g] =
                        IF HasSession(g)' /\ session_mapping'[g].service = t THEN 1 ELSE 0
    BY DEF GroupsMatchSessions
  <2>1. CASE g # fd
    <3>1. service_groups'[t][g] = service_groups[t][g]
      BY <1>1, <2>1 DEF RegistryTypeOK
    <3> QED BY <1>3, <2>1, <3>1 DEF GroupsMatchSessions, HasSession
  <2>2. CASE g = fd
    <3>1. service_groups[t][fd] = 0 /\ service_groups[s][fd] = 0
      BY <1>3 DEF GroupsMatchSessions
    <3>2. service_groups'[t][fd] = IF t = s THEN 1 ELSE 0
      BY <1>1, <3>1 DEF RegistryTypeOK
    <3>3. session_mapping'[fd].service = s
      BY <1>3 DEF info
    <3> QED BY <1>3, <2>2, <3>2, <3>3
  <2> QED BY <2>1, <2>2
<1>9. IdsDistinct'
  <2>1. \A g, h \in Fd : fd_to_id'[g] = fd_to_id'[h] /\ fd_to_id'[g] # -1 => g = h
    BY <1>4 DEF IdsDistinct, id
  <2>2. \A g \in Fd : HasSession(g)' => fd_to_id'[g] # -1
    BY <1>3, <1>4 DEF IdsDistinct, HasSession, id
  <2> QED BY <1>4, <2>1, <2>2 DEF IdsDistinct
<1>10. BackendsMirror'
  <2>1. ASSUME NEW g \in SessionFds', fd_to_id'[g] \in LogicalId
        PROVE  backends_map'[fd_to_id'[g]] =
                  [addr |-> session_mapping'[g].addr, is_active |-> TRUE]
    <3>1. CASE g = fd
      <4>1. session_mapping'[fd].addr = addr
        BY <1>3 DEF info
      <4> QED BY <1>6, <2>1, <3>1, <4>1 DEF id
    <3>2. CASE g # fd
      <4>1. g \in SessionFds /\ g \in Fd
        BY <1>3, <2>1, <3>2 DEF SessionFds
      <4>2. fd_to_id'[g] = fd_to_id[g] /\ fd_to_id'[g] # id
        BY <1>4, <3>2, <4>1
      <4>3. backends_map[fd_to_id[g]] = [addr |-> session_mapping[g].addr, is_active |-> TRUE]
        BY <2>1, <4>1, <4>2 DEF BackendsMirror
      <4>4. session_mapping'[g] = session_mapping[g]
        BY <1>3, <3>2, <4>1
      <4> QED BY <1>6, <2>1, <4>2, <4>3, <4>4
    <3> QED BY <3>1, <3>2
  <2>2. ASSUME NEW i \in LogicalId, backends_map'[i].is_active
        PROVE  \E g \in SessionFds' : fd_to_id'[g] = i
    <3>1. CASE i = id
      BY <1>3, <3>1 DEF id
    <3>2. CASE i # id
      <4>1. PICK g \in SessionFds : fd_to_id[g] = i
        BY <1>6, <2>2, <3>2 DEF BackendsMirror
      <4>2. g \in Fd /\ g # fd
        BY <1>3, <4>1 DEF SessionFds
      <4> QED BY <1>3, <1>4, <4>1, <4>2
    <3> QED BY <3>1, <3>2
  <2> QED BY <2>1, <2>2 DEF BackendsMirror
<1>11. VipsBelowNext' /\ VipsDistinct'
  <2>1. /\ VipsBelowNext'
        /\ service_vips'[s] # 0
        /\ \A t \in Service : service_vips[t] # 0 => service_vips'[t] = service_vips[t]
        /\ \A t, u \in Service :
              service_vips'[t] # 0 /\ service_vips'[t] = service_vips'[u] => t = u
        /\ \A t \in Service :
              service_vips'[t] # 0 =>
                  service_vips'[t] \in StartSuffix .. StartSuffix + MaxServices - 1
    BY EnsureVipInv DEF HasVip
  <2>2. ASSUME NEW g \in SessionFds' PROVE service_vips'[session_mapping'[g].service] # 0
    <3>1. CASE g = fd
      BY <1>3, <2>1, <3>1 DEF info
    <3>2. CASE g # fd
      <4>1. g \in SessionFds /\ g \in Fd /\ session_mapping'[g] = session_mapping[g]
        BY <1>3, <2>2, <3>2 DEF SessionFds
      <4>2. /\ session_mapping[g].service \in Service
            /\ service_vips[session_mapping[g].service] # 0
        BY <4>1 DEF VipsDistinct, SessionFds, HasSession, RegistryTypeOK, SessionInfo, HasVip
      <4> QED BY <2>1, <4>1, <4>2
    <3> QED BY <3>1, <3>2
  <2> QED BY <2>1, <2>2 DEF VipsDistinct, HasVip
<1> QED BY <1>7, <1>8, <1>9, <1>10, <1>11

-----------------------------------------------------------------------------
(* The registry as a Membership: what each operation does to the slots and  *)
(* the addresses it shows.                                                 *)

\* A step that leaves slots and addresses alone is a stutter of Membership.
LEMMA MembershipStutter ==
    ASSUME UNCHANGED <<backends_map, service_vips>> PROVE UNCHANGED Contract!vars
BY DEF ActiveAddress, Contract!vars

LEMMA MembershipInit == ASSUME RegistryInit PROVE Contract!Init
BY DEF RegistryInit, ActiveAddress, Contract!Init

\* A slot that is not active is given to a backend, or the id is beyond the array.
LEMMA AddBackendStep ==
    ASSUME RegistryTypeOK, NEW id, NEW addr \in Peer, AddBackend(id, addr),
           id \in LogicalId => ~backends_map[id].is_active
    PROVE  Contract!SlotStep
<1>1. CASE id \in LogicalId
  <2>1. backends_map' = [backends_map EXCEPT ![id] = [addr |-> addr, is_active |-> TRUE]]
    BY <1>1 DEF AddBackend
  <2>2. ActiveAddress[id] = NoPeer
    BY <1>1 DEF ActiveAddress
  <2>3. ActiveAddress' = [ActiveAddress EXCEPT ![id] = addr]
    BY <1>1, <2>1 DEF ActiveAddress, RegistryTypeOK
  <2> QED BY <1>1, <2>2, <2>3 DEF Contract!SlotStep, Contract!Join
<1>2. CASE id \notin LogicalId
  BY <1>2 DEF AddBackend, ActiveAddress, Contract!SlotStep
<1> QED BY <1>1, <1>2

\* The slot of a descriptor is left, if it was anybody's.
LEMMA StatusOffStep ==
    ASSUME RegistryTypeOK, NEW fd \in Fd, UpdateBackendStatus(fd, FALSE)
    PROVE  Contract!SlotStep
<1> DEFINE id == fd_to_id[fd]
<1>1. CASE id \in LogicalId
  <2>1. backends_map' = [backends_map EXCEPT ![id].is_active = FALSE]
    BY <1>1 DEF UpdateBackendStatus
  <2>2. ActiveAddress' = [ActiveAddress EXCEPT ![id] = NoPeer]
    BY <1>1, <2>1 DEF ActiveAddress, RegistryTypeOK, Slot
  <2>3. CASE ActiveAddress[id] = NoPeer
    <3>1. ActiveAddress' = ActiveAddress
      BY <2>2, <2>3 DEF ActiveAddress
    <3> QED BY <3>1 DEF Contract!SlotStep
  <2>4. CASE ActiveAddress[id] # NoPeer
    BY <1>1, <2>2, <2>4 DEF Contract!SlotStep, Contract!Leave
  <2> QED BY <2>3, <2>4
<1>2. CASE id \notin LogicalId
  BY <1>2 DEF UpdateBackendStatus, ActiveAddress, Contract!SlotStep
<1> QED BY <1>1, <1>2

\* A service without an address gets one that is free.
LEMMA EnsureVipStep ==
    ASSUME RegistryTypeOK, VipsBelowNext, NEW s \in Service, EnsureVip(s)
    PROVE  Contract!VipStep
<1> USE RegistryAssumption
<1>1. CASE HasVip(s)
  BY <1>1 DEF EnsureVip, vip_vars, Contract!VipStep
<1>2. CASE ~HasVip(s)
  <2>1. /\ VipLeft
        /\ service_vips' = [service_vips EXCEPT ![s] = next_vip_suffix]
    BY <1>2 DEF EnsureVip
  <2>2. next_vip_suffix \in StartSuffix .. StartSuffix + MaxServices - 1
    BY <2>1 DEF VipLeft, VipsBelowNext, StartSuffix
  <2>3. \A t \in Service : service_vips[t] # next_vip_suffix
    BY <2>2 DEF VipsBelowNext, HasVip, StartSuffix, RegistryTypeOK
  <2>4. Contract!Assign(s, next_vip_suffix)
    BY <1>2, <2>1, <2>3 DEF HasVip, Contract!Assign
  <2> QED BY <2>2, <2>4 DEF Contract!VipStep
<1> QED BY <1>1, <1>2

\* Registering fills a slot that is nobody's: its id is the descriptor's alone, and the
\* descriptor has no session.
LEMMA RegisterStep ==
    ASSUME RegistryInv, NEW fd \in Fd, NEW s \in Service, NEW addr \in Peer,
           Register(fd, s, addr)
    PROVE  Contract!Next
<1> DEFINE id == fd_to_id'[fd]
<1>1. id \in LogicalId => ~backends_map[id].is_active
  <2> SUFFICES ASSUME id \in LogicalId, backends_map[id].is_active PROVE FALSE
    OBVIOUS
  <2>1. PICK g \in SessionFds : fd_to_id[g] = id
    BY DEF RegistryInv, BackendsMirror
  <2>2. g \in Fd /\ g # fd /\ id # -1
    BY <2>1 DEF SessionFds, Register, LogicalId
  <2>3. CASE fd_to_id[fd] = -1
    <3>1. id = next_logical_id
      BY <2>3 DEF Register, RegisterLogicalId, RegistryInv, RegistryTypeOK
    <3> QED BY <2>1, <2>2, <3>1 DEF RegistryInv, IdsDistinct, RegistryTypeOK
  <2>4. CASE fd_to_id[fd] # -1
    <3>1. id = fd_to_id[fd]
      BY <2>4 DEF Register, RegisterLogicalId, id_vars
    <3> QED BY <2>1, <2>2, <3>1 DEF RegistryInv, IdsDistinct
  <2> QED BY <2>3, <2>4
<1>2. Contract!SlotStep
  BY <1>1, AddBackendStep DEF Register, RegistryInv
<1>3. Contract!VipStep
  BY EnsureVipStep DEF Register, RegistryInv
<1> QED BY <1>2, <1>3 DEF Contract!Next

LEMMA DeregisterStep ==
    ASSUME RegistryTypeOK, NEW fd \in Fd, Deregister(fd) PROVE Contract!Next
<1>1. Contract!SlotStep
  BY StatusOffStep DEF Deregister
<1>2. Contract!VipStep
  BY DEF Deregister, vip_vars, Contract!VipStep
<1> QED BY <1>1, <1>2 DEF Contract!Next
=============================================================================
