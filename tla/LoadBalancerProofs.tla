------------------------- MODULE LoadBalancerProofs -------------------------
(***************************************************************************)
(* The threads around the maps, for every number of backends, services,    *)
(* flows and table entries: an active slot belongs to an open connection   *)
(* or to a stray, the slots and addresses implement Membership although a   *)
(* registration and a close are several steps here, no disconnect is missed *)
(* but by a notification before the sleep, tables lead to their own         *)
(* service, and what an open connection may lose its backend to.            *)
(***************************************************************************)
EXTENDS LoadBalancer, RegistryProofs, WellFoundedInduction

-----------------------------------------------------------------------------
(* The inductive invariant, by what it speaks of.                          *)

MainLabel == {"idle", "id", "add", "status", "session", "trigger", "notify", "close", "freed"}

\* The decoder has a freed buffer only for a descriptor that is closed, and a session
\* that is being registered has an open connection or is a stray.
MainTypes ==
    /\ sock \in [Fd -> Peer \cup {NoPeer}]
    /\ buffer \in Peer \cup {NoPeer}
    /\ strays \subseteq Fd
    /\ main_pc \in MainLabel
    /\ IF main_pc = "idle" THEN main_fd = NoFd /\ buffer = NoPeer ELSE main_fd \in Fd
    /\ main_pc = "freed" => buffer # NoPeer /\ sock[main_fd] = NoPeer
    /\ main_pc \in {"id", "add"} =>
          /\ HasSession(main_fd)
          /\ sock[main_fd] = session_mapping[main_fd].addr \/ main_fd \in strays
          /\ buffer # NoPeer => sock[main_fd] = NoPeer

IdsInv ==
    /\ \A fd \in Fd : fd_to_id[fd] < next_logical_id
    /\ \A fd, g \in Fd : fd_to_id[fd] = fd_to_id[g] /\ fd_to_id[fd] # -1 => fd = g

\* The descriptor an active slot belongs to: it has a session, unless its close has
\* begun, and is neither being registered nor already taken out by close_client.
Owns(fd, i) ==
    /\ fd_to_id[fd] = i
    /\ sock[fd] = backends_map[i].addr \/ fd \in strays
    /\ HasSession(fd) \/ (fd = main_fd /\ main_pc = "status")
    /\ fd = main_fd => main_pc \in {"status", "freed"}

SlotsOwned ==
    \A i \in LogicalId :
        backends_map[i].is_active =>
            backends_map[i].addr \in Peer /\ \E fd \in Fd : Owns(fd, i)

\* A service has an address before it has instances, and before anybody reads them.
SeenInv ==
    /\ seen \in [Service -> SUBSET Fd]
    /\ \A s \in Service : seen[s] # {} \/ Instances(s) # {} => HasVip(s)

LBInv ==
    /\ RegistryTypeOK /\ MainTypes
    /\ IdsInv /\ SlotsOwned
    /\ VipsBelowNext /\ VipsDistinct
    /\ SeenInv
    /\ NoMissedClose

LEMMA LBInit == Init => LBInv
<1> SUFFICES ASSUME Init PROVE LBInv
  OBVIOUS
<1> USE RegistryAssumption
<1>1. RegistryInit
  BY DEF Init
<1>2. RegistryInv
  BY <1>1, RegistryInitInv
<1>3. MainTypes
  BY DEF Init, MainTypes, MainLabel
<1>4. IdsInv /\ SlotsOwned
  BY <1>1 DEF RegistryInit, IdsInv, SlotsOwned
<1>5. SeenInv /\ NoMissedClose
  BY <1>1 DEF Init, RegistryInit, SeenInv, NoMissedClose, Instances, HasVip
<1> QED BY <1>2, <1>3, <1>4, <1>5 DEF LBInv, RegistryInv

\* The parts that a step keeps because it does not touch what they speak of.
LEMMA KeepMain ==
    ASSUME MainTypes, UNCHANGED <<sock, buffer, strays, main_pc, main_fd, session_mapping>>
    PROVE  MainTypes'
BY DEF MainTypes, HasSession

LEMMA KeepIds == ASSUME IdsInv, UNCHANGED id_vars PROVE IdsInv'
BY DEF IdsInv, id_vars

LEMMA KeepSlots ==
    ASSUME SlotsOwned,
           UNCHANGED <<fd_to_id, backends_map, sock, strays, session_mapping, main_pc, main_fd>>
    PROVE  SlotsOwned'
BY DEF SlotsOwned, Owns, HasSession

\* What a step of the main thread must leave to the owner of a slot it keeps.
LEMMA MoveSlots ==
    ASSUME SlotsOwned, NEW id,
           \A i \in LogicalId : i # id /\ backends_map'[i].is_active =>
               backends_map'[i] = backends_map[i],
           \A fd \in Fd, i \in LogicalId :
               i # id /\ backends_map[i].is_active /\ Owns(fd, i) => Owns(fd, i)',
           id \in LogicalId /\ backends_map'[id].is_active =>
               backends_map'[id].addr \in Peer /\ \E fd \in Fd : Owns(fd, id)'
    PROVE  SlotsOwned'
<1> SUFFICES ASSUME NEW i \in LogicalId, backends_map'[i].is_active
             PROVE  backends_map'[i].addr \in Peer /\ \E fd \in Fd : Owns(fd, i)'
  BY DEF SlotsOwned
<1>1. CASE i = id
  BY <1>1
<1>2. CASE i # id
  <2>1. backends_map'[i] = backends_map[i] /\ backends_map[i].is_active
    BY <1>2
  <2>2. backends_map[i].addr \in Peer /\ \E fd \in Fd : Owns(fd, i)
    BY <2>1 DEF SlotsOwned
  <2> QED BY <1>2, <2>1, <2>2
<1> QED BY <1>1, <1>2

LEMMA KeepVips ==
    ASSUME VipsBelowNext, VipsDistinct, UNCHANGED <<vip_vars, session_mapping>>
    PROVE  VipsBelowNext' /\ VipsDistinct'
BY DEF VipsBelowNext, VipsDistinct, vip_vars, HasVip, SessionFds, HasSession

LEMMA KeepSeen ==
    ASSUME SeenInv, UNCHANGED <<vip_vars, service_groups, seen>> PROVE SeenInv'
BY DEF SeenInv, vip_vars, HasVip, Instances

\* No step of the main thread but those of a close touches what NoMissedClose is about.
LEMMA KeepMissed ==
    ASSUME NoMissedClose, UNCHANGED <<pc, todo, seen, missed, needs_rebuild>>,
           \A s \in Service : Instances(s) \subseteq Instances(s)',
           main_pc \notin {"status", "session", "trigger", "notify"}
    PROVE  NoMissedClose'
BY DEF NoMissedClose

\* A session that is removed takes its descriptor out of the instances of its
\* service, and does nothing else.
LEMMA RemoveKeeps ==
    ASSUME RegistryTypeOK, VipsBelowNext, VipsDistinct, SeenInv, NEW fd \in Fd,
           RemoveSession(fd), UNCHANGED <<vip_vars, id_vars, backends_map, needs_rebuild, seen>>
    PROVE  /\ RegistryTypeOK' /\ VipsBelowNext' /\ VipsDistinct' /\ SeenInv'
           /\ \A g \in Fd : HasSession(g)' =>
                 HasSession(g) /\ session_mapping'[g] = session_mapping[g]
           /\ \A g \in Fd : g # fd /\ HasSession(g) => HasSession(g)'
           /\ \A s \in Service : Instances(s)' \subseteq Instances(s)
<1> USE DEF vip_vars, id_vars
<1>1. session_mapping' = [session_mapping EXCEPT ![fd] = NoSession]
  BY DEF RemoveSession
<1>2. HasSession(fd) => session_mapping[fd].service \in Service
  BY DEF HasSession, RegistryTypeOK, SessionInfo
<1>3. /\ service_groups' \in [Service -> [Fd -> Nat]]
      /\ \A s \in Service, g \in Fd : service_groups'[s][g] \in {0, service_groups[s][g]}
  BY <1>2 DEF RemoveSession, RegistryTypeOK
<1>4. RegistryTypeOK'
  BY <1>1, <1>3 DEF RegistryTypeOK
<1>5. /\ \A g \in Fd : HasSession(g)' =>
            HasSession(g) /\ session_mapping'[g] = session_mapping[g]
      /\ \A g \in Fd : g # fd /\ HasSession(g) => HasSession(g)'
  BY <1>1 DEF HasSession, RegistryTypeOK
<1>6. VipsBelowNext' /\ VipsDistinct'
  BY <1>5 DEF VipsBelowNext, VipsDistinct, HasVip, SessionFds
<1>7. \A s \in Service : Instances(s)' \subseteq Instances(s)
  BY <1>3 DEF Instances, RegistryTypeOK
<1>8. SeenInv'
  BY <1>7 DEF SeenInv, HasVip
<1> QED BY <1>4, <1>5, <1>6, <1>7, <1>8

-----------------------------------------------------------------------------
(* The main thread.                                                        *)

\* A connection without a session takes a descriptor no active slot is open on.
LEMMA AcceptStep ==
    ASSUME LBInv, NEW fd \in Fd, NEW p \in Peer, Accept(fd, p) PROVE LBInv'
<1> USE LoadBalancerAssumption, RegistryAssumption DEF LBInv
<1>1. /\ main_pc = "idle" /\ sock[fd] = NoPeer /\ sock' = [sock EXCEPT ![fd] = p]
      /\ UNCHANGED <<session_mapping, service_groups, service_vips, next_vip_suffix, fd_to_id,
                     next_logical_id, backends_map, needs_rebuild, buffer, main_pc, main_fd,
                     strays, pc, missed, todo, seen>>
  BY DEF Accept, MainAt, MainFrame, registry_vars, session_vars, vip_vars, id_vars, thread_vars,
         round_vars
<1>2. RegistryTypeOK' /\ IdsInv' /\ VipsBelowNext' /\ VipsDistinct' /\ SeenInv'
  BY <1>1, KeepIds, KeepVips, KeepSeen DEF RegistryTypeOK, id_vars, vip_vars
<1>3. MainTypes'
  BY <1>1 DEF MainTypes
<1>4. \A g \in Fd, i \in LogicalId : backends_map[i].is_active /\ Owns(g, i) => Owns(g, i)'
  <2> SUFFICES ASSUME NEW g \in Fd, NEW i \in LogicalId, backends_map[i].is_active, Owns(g, i)
               PROVE  Owns(g, i)'
    OBVIOUS
  <2>1. backends_map[i].addr \in Peer
    BY DEF SlotsOwned
  <2>2. g = fd => g \in strays
    BY <1>1, <2>1 DEF Owns
  <2>3. sock'[g] = backends_map'[i].addr \/ g \in strays'
    BY <1>1, <2>2 DEF Owns, MainTypes
  <2> QED BY <1>1, <2>3 DEF Owns, HasSession
<1>5. SlotsOwned'
  BY <1>1, <1>4 DEF SlotsOwned
<1>6. NoMissedClose'
  BY <1>1, KeepMissed DEF Instances
<1> QED BY <1>2, <1>3, <1>5, <1>6

\* Creating a session gives its service an address and an instance.  The descriptor had
\* none, so no slot of its is active.
LEMMA StartStep ==
    ASSUME LBInv, NEW fd \in Fd, NEW p \in Peer, NEW s \in Service,
           StartRegistration(fd, p, s)
    PROVE  LBInv'
<1> USE RegistryAssumption, LoadBalancerAssumption DEF LBInv
<1> DEFINE info == [service |-> s, addr |-> p, load |-> IdleLoad, idle |-> 0]
<1>1. /\ session_mapping' = [session_mapping EXCEPT ![fd] = info]
      /\ service_groups' = [service_groups EXCEPT ![s][fd] = @ + 1]
      /\ UNCHANGED <<fd_to_id, next_logical_id, backends_map, needs_rebuild, sock, buffer,
                     pc, missed, todo, seen>>
      /\ ~HasSession(fd)
      /\ main_pc \in {"idle", "freed"} /\ main_pc' = "id" /\ main_fd' = fd
      /\ main_pc = "idle" => sock[fd] = p
      /\ main_pc = "freed" => fd = main_fd
      /\ strays' = IF sock[fd] = NoPeer THEN strays \cup {fd} ELSE strays \ {fd}
  BY DEF StartRegistration, CreateSession, Decodes, MainAt, MainFrame, id_vars, thread_vars,
         round_vars
<1>2. info \in SessionInfo
  BY DEF SessionInfo
<1>3. /\ service_vips' \in [Service -> Nat] /\ next_vip_suffix' \in Nat
      /\ VipsBelowNext'
      /\ service_vips'[s] # 0
      /\ \A t \in Service : service_vips[t] # 0 => service_vips'[t] = service_vips[t]
      /\ \A t, u \in Service :
            service_vips'[t] # 0 /\ service_vips'[t] = service_vips'[u] => t = u
      /\ \A t \in Service :
            service_vips'[t] # 0 =>
                service_vips'[t] \in StartSuffix .. StartSuffix + MaxServices - 1
  BY EnsureVipInv DEF StartRegistration, HasVip
<1> HIDE DEF info
<1>4. RegistryTypeOK'
  <2>1. session_mapping' \in [Fd -> SessionInfo \cup {NoSession}]
    BY <1>1, <1>2 DEF RegistryTypeOK
  <2>2. service_groups' \in [Service -> [Fd -> Nat]]
    BY <1>1 DEF RegistryTypeOK
  <2> QED BY <1>1, <1>3, <2>1, <2>2 DEF RegistryTypeOK
<1>5. /\ HasSession(fd)' /\ session_mapping'[fd] = info /\ info.addr = p /\ info.service = s
      /\ \A g \in Fd : g # fd => session_mapping'[g] = session_mapping[g]
  BY <1>1, <1>2 DEF HasSession, RegistryTypeOK, info
<1>6. MainTypes'
  <2>1. sock[fd] = p \/ fd \in strays'
    BY <1>1 DEF MainTypes
  <2>2. buffer # NoPeer => sock[fd] = NoPeer
    BY <1>1 DEF MainTypes
  <2> QED BY <1>1, <1>5, <2>1, <2>2 DEF MainTypes, MainLabel
<1>7. SlotsOwned'
  <2> SUFFICES ASSUME NEW i \in LogicalId, backends_map[i].is_active
               PROVE  backends_map[i].addr \in Peer /\ \E g \in Fd : Owns(g, i)'
    BY <1>1 DEF SlotsOwned
  <2>1. PICK g \in Fd : Owns(g, i)
    BY DEF SlotsOwned
  <2>2. g # fd
    BY <1>1, <2>1 DEF Owns
  <2>3. HasSession(g)'
    BY <1>1, <1>5, <2>1, <2>2 DEF Owns, HasSession
  <2> QED BY <1>1, <2>1, <2>2, <2>3 DEF Owns, SlotsOwned
<1>8. VipsBelowNext' /\ VipsDistinct'
  <2>1. ASSUME NEW g \in SessionFds' PROVE service_vips'[session_mapping'[g].service] # 0
    <3>1. CASE g = fd
      BY <1>3, <1>5, <3>1
    <3>2. CASE g # fd
      <4>1. g \in SessionFds /\ g \in Fd /\ session_mapping'[g] = session_mapping[g]
        BY <1>5, <2>1, <3>2 DEF SessionFds, HasSession
      <4>2. /\ session_mapping[g].service \in Service
            /\ service_vips[session_mapping[g].service] # 0
        BY <4>1 DEF VipsDistinct, SessionFds, HasSession, RegistryTypeOK, SessionInfo, HasVip
      <4> QED BY <1>3, <4>1, <4>2
    <3> QED BY <3>1, <3>2
  <2> QED BY <1>3, <2>1 DEF VipsDistinct, HasVip
<1>9. \A t \in Service : t # s => Instances(t)' = Instances(t)
  BY <1>1 DEF Instances, RegistryTypeOK
<1>10. Instances(s) \subseteq Instances(s)'
  BY <1>1 DEF Instances, RegistryTypeOK
<1>11. SeenInv'
  BY <1>1, <1>3, <1>9 DEF SeenInv, HasVip
<1>12. NoMissedClose'
  BY <1>1, <1>9, <1>10, KeepMissed
<1>13. IdsInv'
  BY <1>1, KeepIds DEF id_vars
<1> QED BY <1>4, <1>6, <1>7, <1>8, <1>11, <1>12, <1>13

\* An id is new, or the descriptor's own.
LEMMA AssignStep == ASSUME LBInv, AssignId PROVE LBInv'
<1> USE DEF LBInv
<1>1. /\ main_pc = "id" /\ main_pc' = "add" /\ main_fd' = main_fd
      /\ RegisterLogicalId(main_fd)
      /\ UNCHANGED <<session_mapping, service_groups, vip_vars, backends_map, needs_rebuild,
                     sock, buffer, strays, pc, missed, todo, seen>>
  BY DEF AssignId, MainAt, MainGoto, MainFrame, thread_vars, round_vars, session_vars
<1>2. main_fd \in Fd
  BY <1>1 DEF MainTypes
<1>3. /\ fd_to_id' \in [Fd -> Nat \cup {-1}] /\ next_logical_id' \in Nat
      /\ \A g \in Fd : g # main_fd => fd_to_id'[g] = fd_to_id[g]
      /\ fd_to_id'[main_fd] = fd_to_id[main_fd] \/ fd_to_id'[main_fd] = next_logical_id
      /\ fd_to_id'[main_fd] # fd_to_id[main_fd] => next_logical_id' = next_logical_id + 1
      /\ next_logical_id' >= next_logical_id
  BY <1>1, <1>2 DEF RegisterLogicalId, id_vars, RegistryTypeOK
<1>4. RegistryTypeOK'
  BY <1>1, <1>3 DEF RegistryTypeOK, vip_vars
<1>5. MainTypes'
  BY <1>1, <1>2 DEF MainTypes, MainLabel, HasSession
<1>6. IdsInv'
  BY <1>2, <1>3 DEF IdsInv, RegistryTypeOK
<1>7. SlotsOwned'
  BY <1>1, <1>3 DEF SlotsOwned, Owns, HasSession
<1>8. VipsBelowNext' /\ VipsDistinct' /\ SeenInv'
  BY <1>1, KeepVips, KeepSeen
<1>9. NoMissedClose'
  BY <1>1, KeepMissed DEF Instances
<1> QED BY <1>4, <1>5, <1>6, <1>7, <1>8, <1>9

\* The slot that is filled belongs to the session that registers.
LEMMA PublishStep == ASSUME LBInv, PublishBackend PROVE LBInv'
<1> USE LoadBalancerAssumption DEF LBInv
<1>1. /\ main_pc = "add"
      /\ main_pc' = IF buffer = NoPeer THEN "idle" ELSE "freed"
      /\ main_fd' = IF buffer = NoPeer THEN NoFd ELSE main_fd
      /\ AddBackend(fd_to_id[main_fd], session_mapping[main_fd].addr)
      /\ UNCHANGED <<session_mapping, service_groups, vip_vars, fd_to_id, next_logical_id,
                     needs_rebuild, sock, buffer, strays, pc, missed, todo, seen>>
  BY DEF PublishBackend, Resume, MainAt, MainGoto, MainFrame, thread_vars, round_vars,
         session_vars, id_vars
<1>2. /\ main_fd \in Fd /\ HasSession(main_fd) /\ session_mapping[main_fd].addr \in Peer
      /\ sock[main_fd] = session_mapping[main_fd].addr \/ main_fd \in strays
      /\ buffer # NoPeer => sock[main_fd] = NoPeer
  BY <1>1 DEF MainTypes, HasSession, RegistryTypeOK, SessionInfo
<1>3. RegistryTypeOK'
  <2>1. backends_map' \in [LogicalId -> Slot]
    BY <1>1, <1>2 DEF AddBackend, RegistryTypeOK, Slot
  <2> QED BY <1>1, <2>1 DEF RegistryTypeOK, vip_vars
<1>4. MainTypes'
  BY <1>1, <1>2 DEF MainTypes, MainLabel
<1>5. SlotsOwned'
  <2>1. PICK me \in Fd : me = main_fd
    BY <1>2
  <2>2. PICK id : id = fd_to_id[me]
    OBVIOUS
  <2>3. PICK addr \in Peer : addr = session_mapping[me].addr
    BY <1>2, <2>1
  <2>4. AddBackend(id, addr)
    BY <1>1, <2>1, <2>2, <2>3
  <2>5. \A i \in LogicalId : i # id => backends_map'[i] = backends_map[i]
    BY <2>4 DEF AddBackend, RegistryTypeOK
  <2>6. \A g \in Fd, i \in LogicalId : i # id /\ Owns(g, i) => Owns(g, i)'
    BY <1>1, <1>2, <2>1, <2>2, <2>5 DEF Owns, HasSession
  <2>7. ASSUME id \in LogicalId PROVE backends_map'[id].addr = addr /\ Owns(me, id)'
    <3>1. backends_map'[id].addr = addr
      BY <2>4, <2>7 DEF AddBackend, RegistryTypeOK
    <3> QED BY <1>1, <1>2, <2>1, <2>2, <2>3, <3>1 DEF Owns, HasSession
  <2> QED BY <2>3, <2>5, <2>6, <2>7, MoveSlots
<1>6. IdsInv' /\ VipsBelowNext' /\ VipsDistinct' /\ SeenInv'
  BY <1>1, KeepIds, KeepVips, KeepSeen DEF id_vars
<1>7. NoMissedClose'
  BY <1>1, KeepMissed DEF Instances
<1> QED BY <1>3, <1>4, <1>5, <1>6, <1>7

\* A frame or an event that leads to close_client: the descriptor at hand, if it owns an
\* active slot, owns it until the slot is taken out.
LEMMA BeginCloseStep ==
    ASSUME LBInv, NEW fd \in Fd, Disconnect(fd) \/ \E p \in Peer : CloseRequest(fd, p)
    PROVE  LBInv'
<1> USE LoadBalancerAssumption DEF LBInv
<1>1. /\ main_pc \in {"idle", "freed"} /\ main_pc' = "status" /\ main_fd' = fd
      /\ RemoveSession(fd) \/ UNCHANGED session_vars
      /\ buffer' \in Peer \cup {NoPeer}
      /\ UNCHANGED <<vip_vars, id_vars, backends_map, needs_rebuild, sock, strays, seen>>
  BY DEF Disconnect, CloseRequest, Decodes, Erase, MainAt, MainFrame, registry_vars, round_vars,
         MainTypes
<1>2. /\ RegistryTypeOK' /\ VipsBelowNext' /\ VipsDistinct' /\ SeenInv'
      /\ \A g \in Fd : g # fd /\ HasSession(g) => HasSession(g)'
  <2>1. CASE RemoveSession(fd)
    BY <1>1, <2>1, RemoveKeeps
  <2>2. CASE UNCHANGED session_vars
    BY <1>1, <2>2, KeepVips, KeepSeen DEF session_vars, RegistryTypeOK, vip_vars, id_vars, HasSession
  <2> QED BY <1>1, <2>1, <2>2
<1>3. IdsInv' /\ MainTypes' /\ NoMissedClose'
  BY <1>1, KeepIds DEF MainTypes, MainLabel, NoMissedClose
<1>4. \A g \in Fd, i \in LogicalId : Owns(g, i) => Owns(g, i)'
  BY <1>1, <1>2 DEF Owns, id_vars
<1>5. SlotsOwned'
  BY <1>1, <1>4 DEF SlotsOwned
<1> QED BY <1>2, <1>3, <1>5

\* The slot is taken out; no other descriptor has its id.
LEMMA CloseStatusStep == ASSUME LBInv, CloseStatus PROVE LBInv'
<1> USE DEF LBInv
<1>1. /\ main_pc = "status" /\ main_pc' = "session" /\ main_fd' = main_fd
      /\ UpdateBackendStatus(main_fd, FALSE) /\ strays' = strays \ {main_fd}
      /\ UNCHANGED <<session_mapping, service_groups, vip_vars, id_vars, needs_rebuild, sock,
                     buffer, pc, missed, todo, seen>>
  BY DEF CloseStatus, MainAt, MainGoto, MainFrame, thread_vars, round_vars, session_vars
<1>2. PICK me \in Fd : me = main_fd
  BY <1>1 DEF MainTypes
<1>3. PICK id : id = fd_to_id[me]
  OBVIOUS
<1>4. /\ \A i \in LogicalId : i # id => backends_map'[i] = backends_map[i]
      /\ id \in LogicalId => ~backends_map'[id].is_active
  BY <1>1, <1>2, <1>3 DEF UpdateBackendStatus, RegistryTypeOK, Slot
<1>5. RegistryTypeOK'
  <2>1. backends_map' \in [LogicalId -> Slot]
    BY <1>1, <1>2 DEF UpdateBackendStatus, RegistryTypeOK, Slot
  <2> QED BY <1>1, <2>1 DEF RegistryTypeOK, vip_vars, id_vars
<1>6. IdsInv' /\ MainTypes' /\ VipsBelowNext' /\ VipsDistinct' /\ SeenInv' /\ NoMissedClose'
  BY <1>1, KeepIds, KeepVips, KeepSeen DEF MainTypes, MainLabel, NoMissedClose
<1>7. \A g \in Fd, i \in LogicalId : i # id /\ Owns(g, i) => Owns(g, i)'
  BY <1>1, <1>2, <1>3, <1>4 DEF Owns, id_vars, HasSession
<1>8. SlotsOwned'
  BY <1>4, <1>7, MoveSlots
<1> QED BY <1>5, <1>6, <1>8

\* The rest of close_client, and the way back to run_loop, do not touch a slot that is
\* still active: its owner is another descriptor.
LEMMA CloseRestStep ==
    ASSUME LBInv, CloseSession \/ CloseTrigger \/ CloseNotify \/ CloseFd \/ LeaveBuffer
    PROVE  LBInv'
<1> USE LoadBalancerAssumption DEF LBInv
<1>1. UNCHANGED <<id_vars, vip_vars, backends_map, strays, todo, seen>>
  BY DEF CloseSession, CloseTrigger, CloseNotify, CloseFd, LeaveBuffer, MainFrame, round_vars,
         registry_vars
<1>2. IdsInv'
  BY <1>1, KeepIds
<1>3. main_pc # "idle" /\ main_fd \in Fd
  BY DEF CloseSession, CloseTrigger, CloseNotify, CloseFd, LeaveBuffer, MainAt, MainTypes
<1>4. CASE CloseSession
  <2>1. /\ main_pc = "session" /\ main_pc' = "trigger" /\ main_fd' = main_fd
        /\ RemoveSession(main_fd) /\ UNCHANGED <<sock, buffer, needs_rebuild>>
    BY <1>4 DEF CloseSession, Erase, MainAt, MainGoto
  <2>2. PICK me \in Fd : me = main_fd
    BY <1>3
  <2>3. /\ RegistryTypeOK' /\ VipsBelowNext' /\ VipsDistinct' /\ SeenInv'
        /\ \A g \in Fd : g # me /\ HasSession(g) => HasSession(g)'
    BY <1>1, <2>1, <2>2, RemoveKeeps
  <2>4. \A g \in Fd, i \in LogicalId : Owns(g, i) => Owns(g, i)'
    BY <1>1, <2>1, <2>2, <2>3 DEF Owns, id_vars
  <2>5. SlotsOwned'
    BY <1>1, <2>4 DEF SlotsOwned
  <2>6. MainTypes' /\ NoMissedClose'
    BY <1>1, <1>3, <2>1 DEF MainTypes, MainLabel, NoMissedClose
  <2> QED BY <1>2, <2>3, <2>5, <2>6
<1>5. CASE CloseTrigger \/ CloseNotify
  <2>1. /\ \/ main_pc = "trigger" /\ main_pc' = "notify" /\ needs_rebuild' = TRUE
              /\ UNCHANGED <<pc, missed>>
           \/ /\ main_pc = "notify" /\ main_pc' = "close" /\ UNCHANGED needs_rebuild
              /\ pc' = IF pc = "sleep" THEN "wait" ELSE pc
              /\ pc = "block" => missed'
        /\ main_fd' = main_fd /\ UNCHANGED <<session_mapping, service_groups, sock, buffer>>
    BY <1>5 DEF CloseTrigger, CloseNotify, MainAt, MainGoto, TriggerRebuild, session_vars,
                thread_vars, registry_vars
  <2>2. RegistryTypeOK' /\ VipsBelowNext' /\ VipsDistinct' /\ SeenInv'
    BY <1>1, <2>1, KeepVips, KeepSeen DEF RegistryTypeOK, vip_vars, id_vars
  <2>3. MainTypes'
    BY <1>1, <1>3, <2>1 DEF MainTypes, MainLabel
  <2>4. \A g \in Fd, i \in LogicalId : Owns(g, i) => Owns(g, i)'
    BY <1>1, <2>1 DEF Owns, id_vars, HasSession
  <2>5. SlotsOwned'
    BY <1>1, <2>4 DEF SlotsOwned
  <2>6. NoMissedClose'
    BY <1>1, <2>1 DEF NoMissedClose, Instances
  <2> QED BY <1>2, <2>2, <2>3, <2>5, <2>6
<1>6. CASE CloseFd
  <2>1. /\ main_pc = "close" /\ sock' = [sock EXCEPT ![main_fd] = NoPeer]
        /\ main_pc' = IF buffer = NoPeer THEN "idle" ELSE "freed"
        /\ main_fd' = IF buffer = NoPeer THEN NoFd ELSE main_fd
        /\ UNCHANGED <<buffer, session_mapping, service_groups, needs_rebuild, pc, missed>>
    BY <1>6 DEF CloseFd, Resume, MainAt, MainGoto, registry_vars, session_vars, thread_vars
  <2>2. PICK me \in Fd : me = main_fd
    BY <1>3
  <2>3. RegistryTypeOK' /\ VipsBelowNext' /\ VipsDistinct' /\ SeenInv'
    BY <1>1, <2>1, KeepVips, KeepSeen DEF RegistryTypeOK, vip_vars, id_vars
  <2>4. MainTypes'
    BY <1>1, <1>3, <2>1 DEF MainTypes, MainLabel
  <2>5. \A g \in Fd, i \in LogicalId : Owns(g, i) => Owns(g, i)'
    <3> SUFFICES ASSUME NEW g \in Fd, NEW i \in LogicalId, Owns(g, i) PROVE Owns(g, i)'
      OBVIOUS
    <3>1. HasSession(g) /\ g # me
      BY <2>1, <2>2 DEF Owns
    <3>2. sock'[g] = sock[g]
      BY <2>1, <2>2, <3>1 DEF MainTypes
    <3> QED BY <1>1, <2>1, <2>2, <3>1, <3>2 DEF Owns, id_vars, HasSession
  <2>6. SlotsOwned'
    BY <1>1, <2>5 DEF SlotsOwned
  <2>7. NoMissedClose'
    BY <1>1, <2>1, KeepMissed DEF Instances
  <2> QED BY <1>2, <2>3, <2>4, <2>6, <2>7
<1>7. CASE LeaveBuffer
  <2>1. /\ main_pc = "freed" /\ main_pc' = "idle" /\ buffer' = NoPeer /\ main_fd' = NoFd
        /\ UNCHANGED <<sock, session_mapping, service_groups, needs_rebuild, pc, missed>>
    BY <1>7 DEF LeaveBuffer, MainAt, MainGoto, registry_vars, session_vars, thread_vars
  <2>2. RegistryTypeOK' /\ VipsBelowNext' /\ VipsDistinct' /\ SeenInv'
    BY <1>1, <2>1, KeepVips, KeepSeen DEF RegistryTypeOK, vip_vars, id_vars
  <2>3. MainTypes'
    BY <1>1, <2>1 DEF MainTypes, MainLabel
  <2>4. \A g \in Fd, i \in LogicalId : Owns(g, i) => Owns(g, i)'
    BY <1>1, <2>1 DEF Owns, id_vars, HasSession
  <2>5. SlotsOwned'
    BY <1>1, <2>4 DEF SlotsOwned
  <2>6. NoMissedClose'
    BY <1>1, <2>1, KeepMissed DEF Instances
  <2> QED BY <1>2, <2>2, <2>3, <2>5, <2>6
<1> QED BY <1>4, <1>5, <1>6, <1>7

-----------------------------------------------------------------------------
(* The other two.                                                          *)

\* The Maglev thread reads the registry and writes tables; of what the invariant
\* speaks of it changes only the flag, its own place, and what it has seen.
LEMMA MaglevKeeps == ASSUME LBInv, MaglevStep \/ SpuriousWakeUp PROVE LBInv'
<1> USE DEF LBInv
<1>1. /\ UNCHANGED <<session_mapping, service_groups, service_vips, next_vip_suffix, fd_to_id,
                     next_logical_id, backends_map, sock, buffer, strays, main_pc, main_fd>>
      /\ needs_rebuild' \in {needs_rebuild, FALSE}
  BY DEF MaglevStep, CheckFlag, FallAsleep, TimeOut, SpuriousWakeUp, ClearFlag, ListServices,
         NextService, RoundOver, LookUp, ReadId, NoBackends, BuildTable, CreateTable, ReopenTable,
         WriteEntry, TableDone, Waiting, MaglevFrame, session_vars, vip_vars, id_vars, main_vars
<1>2. RegistryTypeOK'
  <2>1. needs_rebuild' \in BOOLEAN
    BY <1>1, Zenon DEF RegistryTypeOK
  <2> QED BY <1>1, <2>1 DEF RegistryTypeOK
<1>3. MainTypes' /\ IdsInv' /\ SlotsOwned' /\ VipsBelowNext' /\ VipsDistinct'
  BY <1>1, KeepMain, KeepIds, KeepSlots, KeepVips DEF vip_vars, id_vars
<1>4. \A s \in Service : Instances(s)' = Instances(s) /\ (HasVip(s)' <=> HasVip(s))
  BY <1>1 DEF Instances, HasVip
<1>5. CASE CheckFlag \/ FallAsleep \/ TimeOut \/ SpuriousWakeUp \/ ClearFlag
  <2>1. /\ UNCHANGED <<todo, seen>>
        /\ \/ /\ pc = "wait" /\ UNCHANGED needs_rebuild
              /\ pc' = IF needs_rebuild THEN "clear" ELSE "block"
           \/ pc = "block" /\ UNCHANGED <<needs_rebuild, missed>> /\ pc' = "sleep"
           \/ pc = "sleep" /\ UNCHANGED needs_rebuild /\ pc' \in {"clear", "wait"}
           \/ pc = "clear" /\ pc' = "services"
    BY <1>5 DEF CheckFlag, FallAsleep, TimeOut, SpuriousWakeUp, ClearFlag, Waiting, round_vars
  <2>2. SeenInv'
    BY <1>4, <2>1 DEF SeenInv
  <2>3. NoMissedClose'
    BY <1>1, <1>4, <2>1 DEF NoMissedClose
  <2> QED BY <1>2, <1>3, <2>2, <2>3
<1>6. CASE ListServices
  <2>1. /\ todo' = {s \in Service : HasVip(s)} /\ UNCHANGED <<needs_rebuild, seen>>
    BY <1>6 DEF ListServices
  <2>2. SeenInv'
    BY <1>4, <2>1 DEF SeenInv
  <2>3. NoMissedClose'
    BY <1>4, <2>1 DEF NoMissedClose, SeenInv
  <2> QED BY <1>2, <1>3, <2>2, <2>3
<1>7. CASE NextService
  <2>1. PICK s \in todo : todo' = todo \ {s} /\ seen' = [seen EXCEPT ![s] = Instances(s)]
    BY <1>7 DEF NextService
  <2>2. pc = "next" /\ pc' = "score" /\ UNCHANGED needs_rebuild
    BY <1>7 DEF NextService
  <2>3. SeenInv'
    BY <1>4, <2>1 DEF SeenInv, Instances
  <2>4. NoMissedClose'
    BY <1>1, <1>4, <2>1, <2>2 DEF NoMissedClose, SeenInv
  <2> QED BY <1>2, <1>3, <2>3, <2>4
<1>8. CASE \/ RoundOver \/ LookUp \/ ReadId \/ NoBackends \/ BuildTable \/ CreateTable
           \/ ReopenTable \/ WriteEntry \/ TableDone
  <2>1. /\ UNCHANGED <<todo, seen, needs_rebuild>>
        /\ pc \in {"next", "score", "read", "update", "write"}
        /\ pc' \notin {"block", "sleep"}
    BY <1>8 DEF RoundOver, LookUp, ReadId, NoBackends, BuildTable, CreateTable, ReopenTable,
                WriteEntry, TableDone, Waiting, round_vars
  <2>2. SeenInv'
    BY <1>4, <2>1 DEF SeenInv
  <2>3. NoMissedClose'
    BY <1>1, <1>4, <2>1 DEF NoMissedClose
  <2> QED BY <1>2, <1>3, <2>2, <2>3
<1> QED BY <1>5, <1>6, <1>7, <1>8 DEF MaglevStep

LEMMA LBStutter ==
    ASSUME LBInv, UNCHANGED <<registry_vars, main_vars, round_vars, thread_vars>> PROVE LBInv'
<1> USE DEF LBInv, registry_vars, session_vars, main_vars, round_vars, thread_vars
<1>1. RegistryTypeOK'
  BY DEF RegistryTypeOK, vip_vars, id_vars
<1>2. MainTypes' /\ IdsInv' /\ SlotsOwned' /\ VipsBelowNext' /\ VipsDistinct' /\ SeenInv'
  BY KeepMain, KeepIds, KeepSlots, KeepVips, KeepSeen DEF id_vars
<1>3. NoMissedClose'
  BY DEF NoMissedClose, Instances
<1> QED BY <1>1, <1>2, <1>3

\* What a client does leaves both threads of the controller alone.
LEMMA ClientKeeps ==
    ASSUME ClientStep
    PROVE  UNCHANGED <<registry_vars, services_map, main_vars, round_vars, thread_vars>>
BY DEF ClientStep, SendSyn, SendData, SendFin, Sent, Arrive, ServerFin, SendLastAck, SendDatagram,
       ClientFrame

LEMMA LBStep == LBInv /\ [Next]_vars => LBInv'
<1> SUFFICES ASSUME LBInv, [Next]_vars PROVE LBInv'
  OBVIOUS
<1>1. CASE MainStep
  BY <1>1, AssignStep, PublishStep, CloseStatusStep, CloseRestStep DEF MainStep
<1>2. CASE PeerStep
  BY <1>2, AcceptStep, StartStep, BeginCloseStep DEF PeerStep
<1>3. CASE MaglevStep \/ SpuriousWakeUp
  BY <1>3, MaglevKeeps
<1>4. CASE ClientStep
  BY <1>4, ClientKeeps, LBStutter
<1>5. CASE UNCHANGED vars
  BY <1>5, LBStutter DEF vars
<1> QED BY <1>1, <1>2, <1>3, <1>4, <1>5 DEF Next

LEMMA AlwaysLB == Spec => []LBInv
BY LBInit, LBStep, PTL DEF Spec

-----------------------------------------------------------------------------
\* The address in an active slot is that of a connection the kernel has not got
\* back, or of a stray, whose session began after its connection was closed: in
\* whatever order registrations and closes reuse descriptors, close_client takes the
\* slot out before the close.
THEOREM ActiveSlotsOpen == Spec => []ActiveMeansOpen
<1>1. LBInv => ActiveMeansOpen
  BY DEF LBInv, SlotsOwned, ActiveMeansOpen, Owns
<1> QED BY <1>1, AlwaysLB, PTL

\* No trigger is lost but by a notification that comes before the sleep: instances the
\* Maglev thread has seen go away only together with a flag it will look at.
THEOREM NoCloseMissed == Spec => []NoMissedClose
<1>1. LBInv => NoMissedClose
  BY DEF LBInv
<1> QED BY <1>1, AlwaysLB, PTL

\* Cut into the steps that other threads can see, a registration and a close still
\* implement the contract of Membership, strays and second closes included.
THEOREM ThreadsImplementMembership == Spec => ImplementsMembership
<1>1. Init => Contract!Init
  BY MembershipInit DEF Init
<1>2. ASSUME LBInv, [Next]_vars PROVE [Contract!Next]_(Contract!vars)
  <2> USE DEF LBInv
  <2>1. ASSUME NEW fd \in Fd, NEW p \in Peer, NEW s \in Service, StartRegistration(fd, p, s)
        PROVE  Contract!Next
    <3>1. Contract!VipStep
      BY <1>2, <2>1, EnsureVipStep DEF StartRegistration
    <3>2. Contract!SlotStep
      BY <2>1 DEF StartRegistration, ActiveAddress, Contract!SlotStep
    <3> QED BY <3>1, <3>2 DEF Contract!Next
  <2>2. CASE PublishBackend
    <3>1. main_pc = "add" /\ AddBackend(fd_to_id[main_fd], session_mapping[main_fd].addr)
      BY <2>2 DEF PublishBackend, MainAt
    <3>2. main_fd \in Fd /\ session_mapping[main_fd].addr \in Peer
      BY <1>2, <3>1 DEF MainTypes, HasSession, RegistryTypeOK, SessionInfo
    <3>3. fd_to_id[main_fd] \in LogicalId => ~backends_map[fd_to_id[main_fd]].is_active
      BY <1>2, <3>1, <3>2 DEF SlotsOwned, Owns, IdsInv, LogicalId
    <3>4. Contract!SlotStep
      BY <1>2, <3>1, <3>2, <3>3, AddBackendStep
    <3>5. Contract!VipStep
      BY <2>2 DEF PublishBackend, vip_vars, Contract!VipStep
    <3> QED BY <3>4, <3>5 DEF Contract!Next
  <2>3. CASE CloseStatus
    <3>1. main_fd \in Fd /\ UpdateBackendStatus(main_fd, FALSE)
      BY <1>2, <2>3 DEF CloseStatus, MainAt, MainTypes
    <3>2. Contract!SlotStep
      BY <1>2, <3>1, StatusOffStep
    <3>3. Contract!VipStep
      BY <2>3 DEF CloseStatus, vip_vars, Contract!VipStep
    <3> QED BY <3>2, <3>3 DEF Contract!Next
  <2>4. CASE AssignId \/ CloseSession \/ CloseTrigger \/ CloseNotify \/ CloseFd \/ LeaveBuffer
    BY <2>4, MembershipStutter
       DEF AssignId, CloseSession, CloseTrigger, CloseNotify, CloseFd, LeaveBuffer,
           registry_vars, vip_vars
  <2>5. ASSUME NEW fd \in Fd, NEW p \in Peer, Accept(fd, p) \/ CloseRequest(fd, p) \/ Disconnect(fd)
        PROVE  UNCHANGED Contract!vars
    BY <2>5, MembershipStutter DEF Accept, CloseRequest, Disconnect, registry_vars, vip_vars
  <2>6. CASE MaglevStep \/ SpuriousWakeUp
    <3>1. UNCHANGED <<backends_map, service_vips>>
      BY <2>6 DEF MaglevStep, CheckFlag, FallAsleep, TimeOut, SpuriousWakeUp, ClearFlag,
         ListServices, NextService, RoundOver, LookUp, ReadId, NoBackends, BuildTable, CreateTable,
         ReopenTable, WriteEntry, TableDone, Waiting, MaglevFrame, vip_vars
    <3> QED BY <3>1, MembershipStutter
  <2>7. CASE ClientStep
    BY <2>7, ClientKeeps, MembershipStutter DEF registry_vars, vip_vars
  <2>8. CASE UNCHANGED vars
    BY <2>8, MembershipStutter DEF vars, registry_vars, vip_vars
  <2>9. CASE PeerStep
    <3> PICK fd \in Fd : \/ Disconnect(fd)
                         \/ \E p \in Peer : \/ Accept(fd, p) \/ CloseRequest(fd, p)
                                            \/ \E s \in Service : StartRegistration(fd, p, s)
      BY <2>9 DEF PeerStep
    <3>1. CASE Disconnect(fd)
      BY <3>1, MembershipStutter DEF Disconnect, registry_vars, vip_vars
    <3> QED BY <2>1, <2>5, <3>1
  <2> QED BY <1>2, <2>2, <2>3, <2>4, <2>6, <2>7, <2>8, <2>9 DEF Next, MainStep
<1>3. LBInv /\ [Next]_vars => [Contract!Next]_(Contract!vars)
  BY <1>2
<1> QED BY <1>1, <1>3, AlwaysLB, PTL DEF Spec, ImplementsMembership, Contract!Spec

-----------------------------------------------------------------------------
(* Past registrations: nothing in the registry is older than they are.     *)

PastInv ==
    /\ past \in [Fd -> SUBSET Registration]
    /\ registrations \in 0 .. MaxRegistrations
    /\ \A fd \in Fd : \A r \in past[fd] : r.nth < registrations
    /\ \A fd \in Fd : fd_to_id[fd] # -1 => past[fd] # {}
    /\ \A fd \in Fd : HasSession(fd) => \E r \in past[fd] :
          r.service = session_mapping[fd].service /\ r.addr = session_mapping[fd].addr
    /\ \A s \in Service : \A fd \in Instances(s) : s \in Served(fd)
    /\ \A i \in LogicalId : backends_map[i].addr # NoPeer =>
          \E fd \in Fd : fd_to_id[fd] = i /\ \E r \in past[fd] : r.addr = backends_map[i].addr

LEMMA PastInit == Init => PastInv
<1> USE LoadBalancerAssumption
<1> QED BY DEF Init, RegistryInit, PastInv, HasSession, Instances

LEMMA KeepPast ==
    ASSUME PastInv, UNCHANGED <<past, registrations, fd_to_id>>,
           \A fd \in Fd : HasSession(fd)' =>
               HasSession(fd) /\ session_mapping'[fd] = session_mapping[fd],
           \A s \in Service : Instances(s)' \subseteq Instances(s),
           \A i \in LogicalId : backends_map'[i].addr = backends_map[i].addr
    PROVE  PastInv'
BY DEF PastInv, Served, Instances

LEMMA SamePast ==
    ASSUME PastInv, UNCHANGED <<registry_vars, past, registrations>> PROVE PastInv'
BY KeepPast DEF registry_vars, session_vars, id_vars, HasSession, Instances

\* A registration is recorded together with the session it makes.
LEMMA StartPast ==
    ASSUME LBInv, PastInv, NEW fd \in Fd, NEW p \in Peer, NEW s \in Service,
           StartRegistration(fd, p, s)
    PROVE  PastInv'
<1> USE LoadBalancerAssumption, RegistryAssumption
<1> DEFINE info == [service |-> s, addr |-> p, load |-> IdleLoad, idle |-> 0]
<1> DEFINE new == [service |-> s, addr |-> p, nth |-> registrations]
<1>1. /\ session_mapping' = [session_mapping EXCEPT ![fd] = info]
      /\ service_groups' = [service_groups EXCEPT ![s][fd] = @ + 1]
      /\ registrations < MaxRegistrations /\ registrations' = registrations + 1
      /\ past' = [past EXCEPT ![fd] = @ \cup {new}]
      /\ UNCHANGED <<fd_to_id, backends_map>>
  BY DEF StartRegistration, CreateSession, id_vars
<1>2. /\ session_mapping \in [Fd -> SessionInfo \cup {NoSession}]
      /\ service_groups \in [Service -> [Fd -> Nat]]
      /\ past \in [Fd -> SUBSET Registration] /\ registrations \in 0 .. MaxRegistrations
  BY DEF LBInv, RegistryTypeOK, PastInv
<1>3. info \in SessionInfo /\ info.service = s /\ info.addr = p
  BY DEF SessionInfo
<1>4. new \in Registration /\ new.service = s /\ new.addr = p /\ new.nth = registrations
  BY <1>1, <1>2 DEF Registration
<1> HIDE DEF info, new
<1>5. /\ past' \in [Fd -> SUBSET Registration]
      /\ \A g \in Fd : past[g] \subseteq past'[g] /\ past'[g] \subseteq past[g] \cup {new}
      /\ new \in past'[fd]
  BY <1>1, <1>2, <1>4
<1>6. /\ session_mapping'[fd] = info
      /\ \A g \in Fd : g # fd => session_mapping'[g] = session_mapping[g]
  BY <1>1, <1>2
<1>7. \A t \in Service, g \in Fd : g \in Instances(t)' => g \in Instances(t) \/ (g = fd /\ t = s)
  BY <1>1, <1>2 DEF Instances
<1>8. \A g \in Fd : \A r \in past'[g] : r.nth < registrations'
  BY <1>1, <1>2, <1>4, <1>5 DEF PastInv, Registration
<1>9. \A g \in Fd : HasSession(g)' => \E r \in past'[g] :
          r.service = session_mapping'[g].service /\ r.addr = session_mapping'[g].addr
  BY <1>3, <1>4, <1>5, <1>6 DEF PastInv, HasSession
<1>10. \A t \in Service : \A g \in Instances(t)' : t \in Served(g)'
  <2> SUFFICES ASSUME NEW t \in Service, NEW g \in Instances(t)' PROVE t \in Served(g)'
    OBVIOUS
  <2>1. g \in Fd
    BY DEF Instances
  <2>2. CASE g \in Instances(t)
    BY <1>5, <2>1, <2>2 DEF PastInv, Served
  <2>3. CASE g = fd /\ t = s
    BY <1>4, <1>5, <2>3 DEF Served
  <2> QED BY <1>7, <2>1, <2>2, <2>3
<1>11. \A i \in LogicalId : backends_map'[i].addr # NoPeer =>
          \E g \in Fd : fd_to_id'[g] = i /\ \E r \in past'[g] : r.addr = backends_map'[i].addr
  BY <1>1, <1>5 DEF PastInv
<1>12. \A g \in Fd : fd_to_id'[g] # -1 => past'[g] # {}
  BY <1>1, <1>5 DEF PastInv
<1>13. registrations' \in 0 .. MaxRegistrations
  BY <1>1, <1>2
<1> QED BY <1>5, <1>8, <1>9, <1>10, <1>11, <1>12, <1>13 DEF PastInv

\* The descriptor that gets an id, and a slot, has a session.
LEMMA RegisterPast ==
    ASSUME LBInv, PastInv, AssignId \/ PublishBackend PROVE PastInv'
<1>1. /\ UNCHANGED <<session_mapping, service_groups, past, registrations>>
      /\ main_pc \in {"id", "add"}
  BY DEF AssignId, PublishBackend, session_vars, MainAt
<1>2. main_fd \in Fd /\ HasSession(main_fd)
  BY <1>1 DEF LBInv, MainTypes
<1>3. PICK reg \in past[main_fd] : reg.addr = session_mapping[main_fd].addr
  BY <1>2 DEF PastInv
<1>4. /\ fd_to_id \in [Fd -> Nat \cup {-1}] /\ backends_map \in [LogicalId -> Slot]
      /\ next_logical_id \in Nat
  BY DEF LBInv, RegistryTypeOK
<1>5. CASE AssignId
  <2>1. UNCHANGED backends_map /\ \A g \in Fd : fd_to_id'[g] # fd_to_id[g] => g = main_fd
    BY <1>4, <1>5 DEF AssignId, RegisterLogicalId, id_vars
  <2>2. \A g \in Fd : fd_to_id[g] # -1 => fd_to_id'[g] = fd_to_id[g]
    BY <1>4, <1>5 DEF AssignId, RegisterLogicalId, id_vars
  <2>3. \A i \in LogicalId : i # -1
    BY DEF LogicalId
  <2>4. \A g \in Fd : fd_to_id'[g] # -1 => past'[g] # {}
    BY <1>1, <1>3, <2>1 DEF PastInv
  <2>5. \A i \in LogicalId : backends_map'[i].addr # NoPeer =>
          \E g \in Fd : fd_to_id'[g] = i /\ \E r \in past'[g] : r.addr = backends_map'[i].addr
    BY <1>1, <2>1, <2>2, <2>3 DEF PastInv
  <2> QED BY <1>1, <2>4, <2>5 DEF PastInv, HasSession, Instances, Served
<1>6. CASE PublishBackend
  <2>1. /\ UNCHANGED fd_to_id
        /\ AddBackend(fd_to_id[main_fd], session_mapping[main_fd].addr)
    BY <1>6 DEF PublishBackend, id_vars
  <2>2. \A i \in LogicalId :
          \/ backends_map'[i] = backends_map[i]
          \/ i = fd_to_id[main_fd] /\ backends_map'[i].addr = session_mapping[main_fd].addr
    BY <1>4, <2>1 DEF AddBackend
  <2>3. \A i \in LogicalId : backends_map'[i].addr # NoPeer =>
          \E g \in Fd : fd_to_id'[g] = i /\ \E r \in past'[g] : r.addr = backends_map'[i].addr
    BY <1>1, <1>2, <1>3, <2>1, <2>2 DEF PastInv
  <2> QED BY <1>1, <2>1, <2>3 DEF PastInv, HasSession, Instances, Served
<1> QED BY <1>5, <1>6

LEMMA PastStep == LBInv /\ PastInv /\ [Next]_vars => PastInv'
<1> SUFFICES ASSUME LBInv, PastInv, [Next]_vars PROVE PastInv'
  OBVIOUS
<1>1. ASSUME NEW fd \in Fd, RemoveSession(fd), UNCHANGED <<vip_vars, id_vars, backends_map,
             needs_rebuild, past, registrations, seen>>
      PROVE  PastInv'
  BY <1>1, RemoveKeeps, KeepPast DEF LBInv, id_vars
<1>2. CASE CloseStatus
  <2>1. /\ UNCHANGED <<session_mapping, service_groups, fd_to_id, past, registrations>>
        /\ UpdateBackendStatus(main_fd, FALSE)
    BY <1>2 DEF CloseStatus, session_vars, id_vars
  <2>2. \A i \in LogicalId : backends_map'[i].addr = backends_map[i].addr
    BY <2>1 DEF UpdateBackendStatus, LBInv, RegistryTypeOK, Slot
  <2> QED BY <2>1, <2>2, KeepPast DEF HasSession, Instances
<1>3. CASE CloseSession
  <2>1. main_fd \in Fd
    BY <1>3 DEF CloseSession, MainAt, LBInv, MainTypes
  <2> QED BY <1>1, <1>3, <2>1 DEF CloseSession, Erase, MainFrame, round_vars
<1>4. CASE CloseTrigger
  BY <1>4, KeepPast DEF CloseTrigger, session_vars, id_vars, HasSession, Instances
<1>5. CASE CloseNotify \/ CloseFd \/ LeaveBuffer
  BY <1>5, SamePast DEF CloseNotify, CloseFd, LeaveBuffer
<1>6. CASE PeerStep
  <2> PICK fd \in Fd : \/ Disconnect(fd)
                       \/ \E p \in Peer : \/ Accept(fd, p) \/ CloseRequest(fd, p)
                                          \/ \E s \in Service : StartRegistration(fd, p, s)
    BY <1>6 DEF PeerStep
  <2>1. CASE Disconnect(fd) \/ \E p \in Peer : Accept(fd, p)
    BY <2>1, SamePast DEF Disconnect, Accept
  <2>2. ASSUME NEW p \in Peer, CloseRequest(fd, p) PROVE PastInv'
    <3>1. /\ RemoveSession(fd) \/ UNCHANGED session_vars
          /\ UNCHANGED <<vip_vars, id_vars, backends_map, needs_rebuild, past, registrations,
                         seen>>
      BY <2>2 DEF CloseRequest, Erase, MainFrame, round_vars
    <3>2. CASE UNCHANGED session_vars
      BY <3>1, <3>2, SamePast DEF registry_vars
    <3> QED BY <1>1, <3>1, <3>2
  <2> QED BY <2>1, <2>2, StartPast
<1>7. CASE MaglevStep \/ SpuriousWakeUp
  <2>1. UNCHANGED <<session_mapping, service_groups, fd_to_id, backends_map, past, registrations>>
    BY <1>7 DEF MaglevStep, CheckFlag, FallAsleep, TimeOut, SpuriousWakeUp, ClearFlag,
       ListServices, NextService, RoundOver, LookUp, ReadId, NoBackends, BuildTable, CreateTable,
       ReopenTable, WriteEntry, TableDone, Waiting, MaglevFrame, session_vars, id_vars, main_vars
  <2> QED BY <2>1, KeepPast DEF HasSession, Instances
<1>8. CASE ClientStep
  BY <1>8, ClientKeeps, SamePast DEF main_vars
<1>9. CASE UNCHANGED vars
  BY <1>9, SamePast DEF vars, main_vars
<1> QED BY <1>2, <1>3, <1>4, <1>5, <1>6, <1>7, <1>8, <1>9, RegisterPast DEF Next, MainStep

-----------------------------------------------------------------------------
(* The pins of the XDP program.                                            *)

LEMMA LeastExists ==
    ASSUME NEW S \in SUBSET Nat, S # {} PROVE \E i \in S : \A j \in S : i <= j
<1>1. \E i \in S : \A j \in S : <<j, i>> \notin OpToRel(<, Nat)
  BY NatLessThanWellFounded, WFMin
<1>2. PICK i \in S : \A j \in S : <<j, i>> \notin OpToRel(<, Nat)
  BY <1>1
<1>3. \A j \in S : ~(j < i)
  BY <1>2 DEF OpToRel
<1>4. i \in Nat /\ \A j \in S : j \in Nat
  OBVIOUS
<1>5. \A j \in S : i <= j
  BY <1>3, <1>4, SMT
<1> QED BY <1>5

\* pick_backend yields INVALID_BACKEND or an id that is active as it looks.
LEMMA PickActive ==
    ASSUME NEW k \in Flow PROVE PickBackend(k) = INVALID_BACKEND \/ IsActive(PickBackend(k))
<1> DEFINE Probe(i) == services_map[FlowService[k]][(Hash[k] + i) % Size]
<1> DEFINE Hit == {i \in 0 .. Probes - 1 : IsActive(Probe(i))}
<1> DEFINE First == CHOOSE i \in Hit : \A j \in Hit : i <= j
<1>1. CASE Hit = {}
  BY <1>1, Zenon DEF PickBackend
<1>2. CASE Hit # {}
  <2>1. Hit \in SUBSET Nat
    BY BalancerAssumption
  <2>2. \E i \in Hit : \A j \in Hit : i <= j
    <3> HIDE DEF Hit
    <3> QED BY <1>2, <2>1, LeastExists
  <2>3. First \in Hit
    <3> HIDE DEF Hit
    <3> QED BY <2>2, Zenon
  <2>4. IsActive(Probe(First))
    <3> HIDE DEF First
    <3>1. \A i \in Hit : IsActive(Probe(i))
      OBVIOUS
    <3> QED BY <2>3, <3>1, Zenon
  <2>5. PickBackend(k) = Probe(First)
    BY <1>2, Zenon DEF PickBackend
  <2> QED BY <2>4, <2>5, Zenon
<1> QED BY <1>1, <1>2, Zenon

OnWire(k) == wire[k] # NoPacket

Known(id) == id = INVALID_BACKEND \/ \E fd \in Fd : fd_to_id[fd] = id

PinnedKnown ==
    /\ sessions_map \in [Flow -> Pin \cup {NoPin}]
    /\ \A k \in Flow : Pinned(k) => Known(sessions_map[k].backend_id)

PinsInv ==
    /\ PinnedKnown
    /\ wire \in [Flow -> Packet \cup {NoPacket}]
    /\ \A k \in Flow : OnWire(k) => Known(wire[k].id)

LEMMA PickKnown ==
    ASSUME LBInv, NEW k \in Flow PROVE PickBackend(k) \in Nat /\ Known(PickBackend(k))
<1>1. CASE PickBackend(k) = INVALID_BACKEND
  BY <1>1 DEF Known, INVALID_BACKEND
<1>2. CASE IsActive(PickBackend(k))
  BY <1>2, RegistryAssumption DEF IsActive, LBInv, SlotsOwned, Owns, Known, LogicalId
<1> QED BY <1>1, <1>2, PickActive

LEMMA BackendKnown ==
    ASSUME LBInv, PinnedKnown, NEW k \in Flow PROVE BackendOf(k) \in Nat /\ Known(BackendOf(k))
<1>1. Pinned(k) => sessions_map[k].backend_id \in Nat /\ Known(sessions_map[k].backend_id)
  BY DEF PinnedKnown, Pinned, Pin
<1> QED BY <1>1, PickKnown DEF BackendOf, Known, INVALID_BACKEND

\* An id once given to a descriptor stays its id.
LEMMA IdsStay ==
    ASSUME LBInv, Next
    PROVE  \A fd \in Fd : fd_to_id[fd] # -1 => fd_to_id'[fd] = fd_to_id[fd]
<1> USE DEF id_vars, registry_vars
<1>1. CASE AssignId
  BY <1>1 DEF AssignId, RegisterLogicalId, LBInv, RegistryTypeOK
<1>2. CASE MainStep /\ ~AssignId
  BY <1>2 DEF MainStep, PublishBackend, CloseStatus, CloseSession, CloseTrigger, CloseNotify,
              CloseFd, LeaveBuffer
<1>3. CASE PeerStep
  BY <1>3 DEF PeerStep, Accept, StartRegistration, CloseRequest, Disconnect
<1>4. CASE MaglevStep \/ SpuriousWakeUp
  BY <1>4 DEF MaglevStep, CheckFlag, FallAsleep, TimeOut, SpuriousWakeUp, ClearFlag,
       ListServices, NextService, RoundOver, LookUp, ReadId, NoBackends, BuildTable, CreateTable,
       ReopenTable, WriteEntry, TableDone, Waiting, MaglevFrame
<1>5. CASE ClientStep
  BY <1>5, ClientKeeps
<1> QED BY <1>1, <1>2, <1>3, <1>4, <1>5 DEF Next

\* The steps that are not packets leave what a flow knows alone.
LEMMA OthersKeep ==
    ASSUME Next, ~ClientStep PROVE UNCHANGED <<sessions_map, client_vars>>
<1>1. CASE MainStep
  BY <1>1 DEF MainStep, AssignId, PublishBackend, CloseStatus, CloseSession, CloseTrigger,
              CloseNotify, CloseFd, LeaveBuffer, MainFrame
<1>2. CASE PeerStep
  BY <1>2 DEF PeerStep, Accept, StartRegistration, CloseRequest, Disconnect, MainFrame
<1>3. CASE MaglevStep \/ SpuriousWakeUp
  BY <1>3 DEF MaglevStep, CheckFlag, FallAsleep, TimeOut, SpuriousWakeUp, ClearFlag,
       ListServices, NextService, RoundOver, LookUp, ReadId, NoBackends, BuildTable, CreateTable,
       ReopenTable, WriteEntry, TableDone, Waiting, MaglevFrame
<1> QED BY <1>1, <1>2, <1>3 DEF Next

\* A packet pins its key to what pick_backend found, keeps its pin or drops it.
LEMMA TrackStep ==
    ASSUME LBInv, PinnedKnown, NEW k \in Flow, NEW syn \in BOOLEAN, NEW ack \in BOOLEAN,
           NEW fin \in BOOLEAN, Track(k, syn, ack, fin), UNCHANGED fd_to_id
    PROVE  PinnedKnown'
<1> USE BalancerAssumption
<1>1. CASE sessions_map' = sessions_map
  BY <1>1 DEF PinnedKnown, Pinned, Known
<1>2. ASSUME NEW g \in [Flow -> Pin \cup {NoPin}], sessions_map' = g,
             \A j \in Flow : g[j] # NoPin => Known(g[j].backend_id)
      PROVE  PinnedKnown'
  BY <1>2 DEF PinnedKnown, Pinned, Known
<1>3. CASE Pinned(k) /\ sessions_map' = [sessions_map EXCEPT ![k] = NoPin]
  BY <1>2, <1>3 DEF PinnedKnown, Pinned
<1>4. CASE Pinned(k) /\ sessions_map' = [sessions_map EXCEPT ![k].fin = @ \/ fin]
  <2> DEFINE f == sessions_map[k].fin \/ fin
  <2> DEFINE pin == [backend_id |-> sessions_map[k].backend_id, fin |-> f]
  <2>1. sessions_map[k] \in Pin
    BY <1>4 DEF PinnedKnown, Pinned
  <2>2. f \in BOOLEAN
    OBVIOUS
  <2> HIDE DEF f
  <2>3. pin \in Pin /\ pin.backend_id = sessions_map[k].backend_id
    BY <2>1, <2>2 DEF Pin
  <2>4. sessions_map' = [sessions_map EXCEPT ![k] = pin]
    <3>1. [sessions_map[k] EXCEPT !.fin = f] = pin
      BY <2>1 DEF Pin
    <3> QED BY <1>4, <3>1 DEF f
  <2> HIDE DEF pin
  <2> QED BY <1>2, <1>4, <2>3, <2>4 DEF PinnedKnown, Pinned
<1>5. CASE Insert(k, [backend_id |-> PickBackend(k), fin |-> FALSE])
  <2> DEFINE pin == [backend_id |-> PickBackend(k), fin |-> FALSE]
  <2>1. Known(PickBackend(k)) /\ PickBackend(k) \in Nat
    BY PickKnown
  <2>2. pin \in Pin /\ Known(pin.backend_id)
    BY <2>1 DEF Pin
  <2> HIDE DEF pin
  <2>3. CASE sessions_map' = [sessions_map EXCEPT ![k] = pin]
    BY <1>2, <2>2, <2>3 DEF PinnedKnown, Pinned
  <2>4. ASSUME NEW v \in Flow, sessions_map' = [sessions_map EXCEPT ![v] = NoPin, ![k] = pin]
        PROVE  PinnedKnown'
    BY <1>2, <2>2, <2>4 DEF PinnedKnown, Pinned
  <2> QED BY <1>5, <2>3, <2>4 DEF Insert, pin
<1> QED BY <1>1, <1>3, <1>4, <1>5 DEF Track

\* Only packets write sessions_map, and they leave the ids alone.
LEMMA PinsStep == LBInv /\ PinsInv /\ [Next]_vars => PinsInv'
<1> SUFFICES ASSUME LBInv, PinsInv, [Next]_vars PROVE PinsInv'
  OBVIOUS
<1>1. CASE UNCHANGED vars
  BY <1>1 DEF vars, registry_vars, id_vars, client_vars, PinsInv, PinnedKnown, Pinned, OnWire, Known
<1>2. CASE ClientStep
  <2> PICK k \in Flow : \/ SendSyn(k) \/ SendData(k) \/ SendFin(k) \/ Arrive(k)
                        \/ ServerFin(k) \/ SendLastAck(k) \/ SendDatagram(k)
    BY <1>2 DEF ClientStep
  <2>1. UNCHANGED fd_to_id
    BY <1>2, ClientKeeps DEF registry_vars, id_vars
  <2>2. CASE Arrive(k)
    BY <2>1, <2>2 DEF Arrive, PinsInv, PinnedKnown, Pinned, OnWire, Known
  <2>3. CASE ServerFin(k)
    BY <2>1, <2>3 DEF ServerFin, PinsInv, PinnedKnown, Pinned, OnWire, Known
  <2>4. CASE SendSyn(k) \/ SendData(k) \/ SendFin(k)
    <3>1. PICK kind \in {"syn", "data", "fin"}, syn \in BOOLEAN, ack \in BOOLEAN,
               fin \in BOOLEAN : Sent(k, kind, syn, ack, fin)
      BY <2>4, Zenon DEF SendSyn, SendData, SendFin
    <3>2. PinnedKnown'
      BY <2>1, <3>1, TrackStep DEF Sent, PinsInv
    <3> DEFINE packet == [kind |-> kind, id |-> BackendOf(k), found |-> Pinned(k)]
    <3>3. BackendOf(k) \in Nat /\ Known(BackendOf(k)) /\ Pinned(k) \in BOOLEAN
      BY BackendKnown DEF PinsInv, Pinned
    <3>4. packet \in Packet /\ packet.id = BackendOf(k)
      BY <3>3 DEF Packet
    <3>5. wire' = [wire EXCEPT ![k] = packet]
      BY <3>1 DEF Sent
    <3> HIDE DEF packet
    <3>6. /\ wire' \in [Flow -> Packet \cup {NoPacket}]
          /\ \A j \in Flow : OnWire(j)' => Known(wire'[j].id)
      BY <3>3, <3>4, <3>5 DEF PinsInv, OnWire
    <3> QED BY <2>1, <3>2, <3>6 DEF PinsInv, Known
  <2>5. CASE SendLastAck(k) \/ SendDatagram(k)
    <3>1. \E syn, ack, fin \in BOOLEAN : Track(k, syn, ack, fin)
      BY <2>5, Zenon DEF SendLastAck, SendDatagram
    <3>2. PinnedKnown'
      BY <2>1, <3>1, TrackStep DEF PinsInv
    <3> QED BY <2>1, <2>5, <3>2 DEF SendLastAck, SendDatagram, client_vars, PinsInv, OnWire, Known
  <2> QED BY <2>2, <2>3, <2>4, <2>5
<1>3. CASE Next /\ ~ClientStep
  <2>1. UNCHANGED <<sessions_map, wire>>
    BY <1>3, OthersKeep DEF client_vars
  <2>2. \A fd \in Fd : fd_to_id[fd] # -1 => fd_to_id'[fd] = fd_to_id[fd]
    BY <1>3, IdsStay
  <2>3. \A id \in Nat : Known(id) => Known(id)'
    BY <2>2 DEF Known
  <2>4. \A k \in Flow : sessions_map[k] # NoPin => sessions_map[k].backend_id \in Nat
    BY DEF PinsInv, PinnedKnown, Pin
  <2>5. ASSUME NEW k \in Flow, OnWire(k) PROVE Known(wire[k].id)'
    <3>1. wire[k].id \in Nat
      BY <2>5 DEF PinsInv, OnWire, Packet
    <3> QED BY <2>1, <2>3, <2>5, <3>1 DEF PinsInv
  <2> QED BY <2>1, <2>3, <2>4, <2>5 DEF PinsInv, PinnedKnown, Pinned, OnWire
<1> QED BY <1>1, <1>2, <1>3

\* Whatever a table shows while it is written, a key is pinned only to an id that a
\* descriptor has, or to none at all.
THEOREM PinsCorrect == Spec => []PinsKnown
<1>1. Init => PinsInv
  BY LoadBalancerAssumption DEF Init, BalancerInit, PinsInv, PinnedKnown, Pinned, OnWire
<1>2. PinsInv => PinsKnown
  BY DEF PinsInv, PinnedKnown, PinsKnown, Known
<1> QED BY <1>1, <1>2, PinsStep, AlwaysLB, PTL DEF Spec

-----------------------------------------------------------------------------
(* Types.  A thread that works on a service, or reads a session, knows which. *)

MaglevTypes ==
    /\ services_map \in [Service -> [Position -> Entry] \cup {NoTable}]
    /\ pc \in {"wait", "block", "sleep", "clear", "services", "next", "score", "read", "update",
              "write"}
    /\ todo \subseteq Service
    /\ svc \in Service \cup {NoService}
    /\ pc \in {"score", "read", "update", "write"} => svc \in Service
    /\ fds \subseteq Fd
    /\ ids \subseteq Entry
    /\ reading \in Fd \cup {NoFd}
    /\ pc = "read" => reading \in Fd
    /\ freed \in BOOLEAN
    /\ table \in [Position -> Entry]
    /\ pos \in 0 .. Size
    /\ target \in Service \cup {NoService}
    /\ target # NoService => services_map[target] # NoTable
    /\ missed \in BOOLEAN
    /\ wild \subseteq Entry
    /\ misfiled \in [Service -> SUBSET Position]

FlowTypes ==
    /\ flow \in [Flow -> {"closed", "open", "half", "done", "reset"}]
    /\ route \in [Flow -> Peer \cup {NoPeer}]

TypeInv == LBInv /\ PastInv /\ PinsInv /\ MaglevTypes /\ FlowTypes

LEMMA TypesInit == Init => TypeInv
<1> SUFFICES ASSUME Init PROVE TypeInv
  OBVIOUS
<1> USE BalancerAssumption, LoadBalancerAssumption
<1>1. MaglevTypes
  <2>1. NoBuild \in [Position -> Entry] /\ 0 \in 0 .. Size
    BY DEF NoBuild, Entry, EMPTY
  <2>2. services_map \in [Service -> [Position -> Entry] \cup {NoTable}]
    BY DEF Init, BalancerInit
  <2>3. misfiled \in [Service -> SUBSET Position]
    BY DEF Init
  <2> QED BY <2>1, <2>2, <2>3 DEF Init, MaglevTypes
<1>2. PinsInv /\ FlowTypes
  BY DEF Init, BalancerInit, PinsInv, PinnedKnown, Pinned, OnWire, FlowTypes
<1> QED BY <1>1, <1>2, LBInit, PastInit DEF TypeInv

\* The main thread may wake the other, and free what it reads.
LEMMA KeepMaglev ==
    ASSUME MaglevTypes, UNCHANGED <<services_map, round_vars>>,
           UNCHANGED pc \/ (pc = "sleep" /\ pc' = "wait"),
           freed' \in BOOLEAN, missed' \in BOOLEAN
    PROVE  MaglevTypes'
BY DEF MaglevTypes, round_vars

LEMMA MaglevTypesMain == ASSUME TypeInv, MainStep \/ PeerStep PROVE MaglevTypes'
<1> USE DEF TypeInv
<1>1. freed \in BOOLEAN /\ missed \in BOOLEAN
  BY DEF MaglevTypes
<1>2. CASE AssignId \/ PublishBackend \/ LeaveBuffer \/ CloseStatus \/ CloseTrigger \/ CloseFd
  <2>1. UNCHANGED <<services_map, round_vars, thread_vars>>
    BY <1>2 DEF AssignId, PublishBackend, LeaveBuffer, CloseStatus, CloseTrigger, CloseFd, MainFrame
  <2> QED BY <1>1, <2>1, KeepMaglev DEF thread_vars
<1>3. ASSUME NEW fd \in Fd, Erase(fd) \/ UNCHANGED freed,
             UNCHANGED <<services_map, round_vars, pc, missed>>
      PROVE  MaglevTypes'
  <2>1. freed' \in BOOLEAN
    BY <1>1, <1>3, Zenon DEF Erase
  <2> QED BY <1>1, <1>3, <2>1, KeepMaglev
<1>4. CASE CloseSession
  <2>1. main_fd \in Fd
    BY <1>4 DEF CloseSession, MainAt, LBInv, MainTypes
  <2> QED BY <1>3, <1>4, <2>1 DEF CloseSession, MainFrame
<1>5. CASE CloseNotify
  <2>1. missed' \in BOOLEAN
    BY <1>1, <1>5, Zenon DEF CloseNotify
  <2> QED BY <1>1, <1>5, <2>1, KeepMaglev DEF CloseNotify, MainFrame
<1>6. CASE PeerStep
  <2> PICK fd \in Fd : \/ Disconnect(fd)
                       \/ \E p \in Peer : \/ Accept(fd, p) \/ CloseRequest(fd, p)
                                          \/ \E s \in Service : StartRegistration(fd, p, s)
    BY <1>6 DEF PeerStep
  <2>1. CASE \E p \in Peer : CloseRequest(fd, p)
    BY <1>3, <2>1 DEF CloseRequest, MainFrame
  <2>2. CASE \/ Disconnect(fd)
             \/ \E p \in Peer : Accept(fd, p) \/ \E s \in Service : StartRegistration(fd, p, s)
    <3>1. UNCHANGED <<services_map, round_vars, thread_vars>>
      BY <2>2 DEF Disconnect, Accept, StartRegistration, MainFrame
    <3> QED BY <1>1, <3>1, KeepMaglev DEF thread_vars
  <2> QED BY <2>1, <2>2
<1> QED BY <1>2, <1>4, <1>5, <1>6 DEF MainStep

LEMMA MaglevTypesStep == ASSUME TypeInv, MaglevStep \/ SpuriousWakeUp PROVE MaglevTypes'
<1> USE BalancerAssumption, LoadBalancerAssumption DEF TypeInv, MaglevTypes
<1>1. CASE CheckFlag \/ FallAsleep \/ TimeOut \/ SpuriousWakeUp \/ ClearFlag \/ RoundOver
  BY <1>1 DEF CheckFlag, FallAsleep, TimeOut, SpuriousWakeUp, ClearFlag, RoundOver, Waiting,
              round_vars
<1>2. CASE ListServices
  BY <1>2 DEF ListServices
<1>3. CASE NextService
  BY <1>3 DEF NextService, Instances
<1>4. CASE LookUp
  <2>1. PICK fd \in fds :
          /\ fds' = fds \ {fd}
          /\ IF HasSession(fd) THEN reading' = fd /\ pc' = "read" ELSE UNCHANGED <<reading, pc>>
    BY <1>4 DEF LookUp
  <2> QED BY <1>4, <2>1 DEF LookUp
<1>5. CASE ReadId
  <2>1. PICK id \in IF freed THEN {EMPTY} \cup {fd_to_id[g] : g \in Fd} ELSE {fd_to_id[reading]} :
          ids' = ids \cup {id} /\ wild' = IF freed THEN wild \cup {id} ELSE wild
    BY <1>5 DEF ReadId
  <2>2. pc = "read" /\ reading \in Fd
    BY <1>5 DEF ReadId
  <2>3. \A g \in Fd : fd_to_id[g] \in Entry
    BY DEF LBInv, RegistryTypeOK, Entry, EMPTY
  <2>4. id \in Entry
    BY <2>1, <2>2, <2>3 DEF Entry
  <2>5. ids' \subseteq Entry /\ wild' \subseteq Entry
    BY <2>1, <2>4
  <2> QED BY <1>5, <2>5 DEF ReadId
<1>6. CASE NoBackends
  BY <1>6 DEF NoBackends
<1>7. CASE BuildTable
  <2>1. table' \in [Position -> Entry]
    BY <1>7 DEF BuildTable
  <2> QED BY <1>7, <2>1 DEF BuildTable
<1>8. CASE CreateTable
  <2>1. [p \in Position |-> 0] \in [Position -> Entry]
    BY DEF Entry
  <2>2. svc \in Service
    BY <1>8 DEF CreateTable
  <2>3. \/ target' = NoService /\ UNCHANGED <<services_map, misfiled>>
        \/ /\ target' = svc
           /\ services_map' = [services_map EXCEPT ![svc] = [p \in Position |-> 0]]
           /\ misfiled' = [misfiled EXCEPT ![svc] = Position]
    BY <1>8 DEF CreateTable
  <2> HIDE DEF Position
  <2>4. /\ services_map' \in [Service -> [Position -> Entry] \cup {NoTable}]
        /\ target' # NoService => services_map'[target'] # NoTable
        /\ misfiled' \in [Service -> SUBSET Position]
    BY <2>1, <2>2, <2>3
  <2> QED BY <1>8, <2>2, <2>3, <2>4 DEF CreateTable
<1>9. CASE ReopenTable
  <2>1. PICK a \in Alias[svc] :
          target' = IF a = NoService \/ services_map[a] = NoTable THEN NoService ELSE a
    BY <1>9 DEF ReopenTable
  <2>2. a \in Service \cup {NoService}
    BY <1>9, <2>1 DEF ReopenTable
  <2> QED BY <1>9, <2>1, <2>2 DEF ReopenTable
<1>10. CASE WriteEntry
  <2>1. pos \in Position /\ pos' = pos + 1 /\ pos' \in 0 .. Size
    BY <1>10 DEF WriteEntry, Position
  <2>2. CASE target = NoService
    BY <1>10, <2>1, <2>2 DEF WriteEntry
  <2>3. CASE target # NoService
    <3>1. services_map[target] \in [Position -> Entry] /\ target \in Service
      BY <2>3
    <3> DEFINE t == [services_map[target] EXCEPT ![pos] = table[pos]]
               m == IF target = svc /\ table[pos] \notin wild
                    THEN misfiled[target] \ {pos} ELSE misfiled[target] \cup {pos}
    <3>2. t \in [Position -> Entry] /\ m \in SUBSET Position
      BY <2>1, <3>1
    <3>3. services_map' = [services_map EXCEPT ![target] = t]
          /\ misfiled' = [misfiled EXCEPT ![target] = m]
      BY <1>10, <2>3 DEF WriteEntry
    <3> HIDE DEF t, m
    <3>4. /\ services_map' \in [Service -> [Position -> Entry] \cup {NoTable}]
          /\ services_map'[target] # NoTable
          /\ misfiled' \in [Service -> SUBSET Position]
      BY <3>1, <3>2, <3>3
    <3> QED BY <1>10, <2>1, <3>4 DEF WriteEntry
  <2> QED BY <2>2, <2>3
<1>11. CASE TableDone
  <2>1. NoBuild \in [Position -> Entry]
    BY DEF NoBuild, Entry, EMPTY
  <2> QED BY <1>11, <2>1 DEF TableDone
<1> QED BY <1>1, <1>2, <1>3, <1>4, <1>5, <1>6, <1>7, <1>8, <1>9, <1>10, <1>11 DEF MaglevStep

\* What the XDP program forwards goes to the address in an active slot.
LEMMA FlowTypesStep == ASSUME TypeInv, ClientStep PROVE FlowTypes'
<1> USE DEF TypeInv, FlowTypes
<1> PICK k \in Flow : \/ SendSyn(k) \/ SendData(k) \/ SendFin(k) \/ Arrive(k)
                      \/ ServerFin(k) \/ SendLastAck(k) \/ SendDatagram(k)
  BY DEF ClientStep
<1>1. CASE Arrive(k)
  <2>1. FlowAfter(k) \in {"closed", "open", "half", "done", "reset"}
    BY DEF FlowAfter
  <2>2. Verdict(k, wire[k].id) = "TX" => backends_map[wire[k].id].addr \in Peer
    BY DEF Verdict, IsActive, LBInv, SlotsOwned
  <2> QED BY <1>1, <2>1, <2>2 DEF Arrive
<1>2. CASE ServerFin(k) \/ SendLastAck(k)
  BY <1>2 DEF ServerFin, SendLastAck
<1>3. CASE SendSyn(k) \/ SendData(k) \/ SendFin(k) \/ SendDatagram(k)
  BY <1>3 DEF SendSyn, SendData, SendFin, Sent, SendDatagram, client_vars
<1> QED BY <1>1, <1>2, <1>3

LEMMA TypesStep == TypeInv /\ [Next]_vars => TypeInv'
<1> SUFFICES ASSUME TypeInv, [Next]_vars PROVE TypeInv'
  OBVIOUS
<1>1. LBInv' /\ PastInv' /\ PinsInv'
  BY LBStep, PastStep, PinsStep DEF TypeInv
<1>2. MaglevTypes'
  <2>1. CASE ClientStep
    BY <2>1, ClientKeeps, KeepMaglev DEF TypeInv, thread_vars, MaglevTypes
  <2>2. CASE UNCHANGED vars
    BY <2>2, KeepMaglev DEF vars, thread_vars, TypeInv, MaglevTypes
  <2> QED BY <2>1, <2>2, MaglevTypesMain, MaglevTypesStep DEF Next
<1>3. FlowTypes'
  <2>1. CASE UNCHANGED client_vars
    BY <2>1 DEF TypeInv, FlowTypes, client_vars
  <2> QED BY <2>1, FlowTypesStep, OthersKeep DEF vars
<1> QED BY <1>1, <1>2, <1>3 DEF TypeInv

LEMMA AlwaysTypes == Spec => []TypeInv
BY TypesInit, TypesStep, PTL DEF Spec

\* Every variable of the three threads keeps its type; in particular a table never holds
\* anything but ids and EMPTY, and what a client talks to is a backend.
THEOREM ThreadsTypeCorrect == Spec => []TypeOK
<1>1. TypeInv => TypeOK
  <2> SUFFICES ASSUME TypeInv PROVE TypeOK
    OBVIOUS
  <2>1. /\ sock \in [Fd -> Peer \cup {NoPeer}] /\ buffer \in Peer \cup {NoPeer}
        /\ main_pc \in MainLabel
        /\ main_fd \in Fd \cup {NoFd}
        /\ main_pc # "idle" => main_fd # NoFd
        /\ strays \subseteq Fd
    BY LoadBalancerAssumption DEF TypeInv, LBInv, MainTypes
  <2>2. BalancerTypeOK /\ RegistryTypeOK /\ seen \in [Service -> SUBSET Fd]
    BY DEF TypeInv, LBInv, PinsInv, PinnedKnown, MaglevTypes, SeenInv, BalancerTypeOK
  <2>3. past \in [Fd -> SUBSET Registration] /\ registrations \in 0 .. MaxRegistrations
    BY DEF TypeInv, PastInv
  <2> QED BY <2>1, <2>2, <2>3 DEF TypeInv, TypeOK, MainLabel, MaglevTypes, FlowTypes, PinsInv
<1> QED BY <1>1, AlwaysTypes, PTL

-----------------------------------------------------------------------------
(* Isolation.  An id in a table stays with services its descriptor has      *)
(* registered for, whoever has the descriptor now.                          *)

\* Ids are given out in order and for good, and no registration is forgotten.
LEMMA RegistryGrows ==
    ASSUME LBInv, PastInv, [Next]_vars
    PROVE  /\ next_logical_id \in Nat /\ next_logical_id' \in Nat
           /\ next_logical_id' >= next_logical_id
           /\ \A fd \in Fd : \/ fd_to_id'[fd] = fd_to_id[fd]
                             \/ fd_to_id[fd] = -1 /\ fd_to_id'[fd] = next_logical_id
           /\ \A fd \in Fd : past[fd] \subseteq past'[fd]
<1> USE DEF id_vars, registry_vars
<1>1. /\ next_logical_id \in Nat /\ fd_to_id \in [Fd -> Nat \cup {-1}]
      /\ past \in [Fd -> SUBSET Registration]
  BY DEF LBInv, RegistryTypeOK, PastInv
<1>2. CASE AssignId
  BY <1>1, <1>2 DEF AssignId, RegisterLogicalId
<1>3. CASE PeerStep
  <2> PICK fd \in Fd : \/ Disconnect(fd)
                       \/ \E p \in Peer : \/ Accept(fd, p) \/ CloseRequest(fd, p)
                                          \/ \E s \in Service : StartRegistration(fd, p, s)
    BY <1>3 DEF PeerStep
  <2>1. CASE Disconnect(fd) \/ \E p \in Peer : Accept(fd, p) \/ CloseRequest(fd, p)
    BY <1>1, <2>1 DEF Disconnect, Accept, CloseRequest
  <2>2. ASSUME NEW p \in Peer, NEW s \in Service, StartRegistration(fd, p, s)
        PROVE  UNCHANGED id_vars /\ \A g \in Fd : past[g] \subseteq past'[g]
    BY <1>1, <2>2 DEF StartRegistration
  <2> QED BY <1>1, <2>1, <2>2
<1>4. CASE Next /\ ~AssignId /\ ~PeerStep
  <2>1. UNCHANGED <<id_vars, past>>
    <3>1. CASE MaglevStep \/ SpuriousWakeUp
      BY <3>1 DEF MaglevStep, CheckFlag, FallAsleep, TimeOut, SpuriousWakeUp, ClearFlag,
         ListServices, NextService, RoundOver, LookUp, ReadId, NoBackends, BuildTable, CreateTable,
         ReopenTable, WriteEntry, TableDone, Waiting, MaglevFrame, main_vars
    <3>2. CASE ClientStep
      BY <3>2, ClientKeeps DEF main_vars
    <3>3. CASE MainStep
      BY <1>4, <3>3 DEF MainStep, PublishBackend, CloseStatus, CloseSession, CloseTrigger,
                        CloseNotify, CloseFd, LeaveBuffer
    <3> QED BY <1>4, <3>1, <3>2, <3>3 DEF Next
  <2> QED BY <1>1, <2>1
<1>5. CASE UNCHANGED vars
  BY <1>1, <1>5 DEF vars, main_vars
<1> QED BY <1>2, <1>3, <1>4, <1>5

\* An id that a table of the service may hold.
Home(s, id) ==
    id # EMPTY =>
        /\ id < next_logical_id
        /\ \A fd \in Fd : fd_to_id[fd] = id => s \in Served(fd)

LEMMA HomesKept ==
    ASSUME LBInv, PastInv, [Next]_vars
    PROVE  \A s \in Service, id \in Entry : Home(s, id) => Home(s, id)'
<1> SUFFICES ASSUME NEW s \in Service, NEW id \in Entry, Home(s, id), id # EMPTY
             PROVE  /\ id < next_logical_id'
                    /\ \A fd \in Fd : fd_to_id'[fd] = id => s \in Served(fd)'
  BY DEF Home
<1>1. id \in Nat /\ id < next_logical_id
  BY DEF Home, Entry
<1>2. ASSUME NEW fd \in Fd, fd_to_id'[fd] = id PROVE s \in Served(fd)'
  <2>1. fd_to_id[fd] = id
    BY <1>1, <1>2, RegistryGrows
  <2>2. s \in Served(fd)
    BY <2>1 DEF Home
  <2> QED BY <2>2, RegistryGrows DEF Served
<1> QED BY <1>1, <1>2, RegistryGrows

\* What is still to be scored, and what is being scored, was an instance of the service.
ListedFds ==
    /\ pc \in {"score", "read"} => \A fd \in fds : svc \in Served(fd)
    /\ pc = "read" => svc \in Served(reading)

BuildHome ==
    /\ pc \in {"score", "read"} => \A id \in ids \ wild : Home(svc, id)
    /\ pc \in {"update", "write"} =>
          \A p \in Position : table[p] \notin wild => Home(svc, table[p])
    /\ pc \notin {"score", "read"} => ids = {}

TablesHome ==
    \A s \in Service :
        services_map[s] # NoTable =>
            \A p \in Position \ misfiled[s] : Home(s, services_map[s][p])

IsoInv == ListedFds /\ BuildHome /\ TablesHome

LEMMA IsoInit == Init => IsoInv
BY DEF Init, BalancerInit, IsoInv, ListedFds, BuildHome, TablesHome

\* Any step that leaves the tables, and what the thread has gathered, alone.
LEMMA KeepListed ==
    ASSUME TypeInv, ListedFds, [Next]_vars, UNCHANGED <<fds, svc>>,
           pc' \in {"score", "read"} => pc \in {"score", "read"},
           pc' = "read" => pc = "read" /\ UNCHANGED reading
    PROVE  ListedFds'
<1>1. \A fd \in Fd : Served(fd) \subseteq Served(fd)'
  BY RegistryGrows DEF TypeInv, Served
<1> QED BY <1>1 DEF ListedFds, TypeInv, MaglevTypes

LEMMA KeepBuild ==
    ASSUME TypeInv, BuildHome, [Next]_vars, UNCHANGED <<svc, ids, table, wild>>,
           \/ UNCHANGED pc
           \/ {pc, pc'} \cap {"score", "read", "update", "write"} = {}
           \/ {pc, pc'} \subseteq {"score", "read"}
           \/ {pc, pc'} \subseteq {"update", "write"}
    PROVE  BuildHome'
<1>1. \A s \in Service, id \in Entry : Home(s, id) => Home(s, id)'
  BY HomesKept DEF TypeInv
<1>2. \A p \in Position : table[p] \in Entry
  BY DEF TypeInv, MaglevTypes
<1>3. ids \subseteq Entry /\ (pc \in {"score", "read", "update", "write"} => svc \in Service)
  BY DEF TypeInv, MaglevTypes
<1> QED BY <1>1, <1>2, <1>3 DEF BuildHome

LEMMA KeepTables ==
    ASSUME TypeInv, TablesHome, [Next]_vars, UNCHANGED <<services_map, misfiled>>
    PROVE  TablesHome'
<1> SUFFICES ASSUME NEW s \in Service, services_map[s] # NoTable,
                    NEW p \in Position \ misfiled[s]
             PROVE  Home(s, services_map[s][p])'
  BY DEF TablesHome
<1>1. Home(s, services_map[s][p])
  BY DEF TablesHome
<1>2. services_map[s][p] \in Entry
  BY DEF TypeInv, MaglevTypes
<1> QED BY <1>1, <1>2, HomesKept DEF TypeInv

LEMMA MaglevIso ==
    ASSUME TypeInv, IsoInv, MaglevStep \/ SpuriousWakeUp, [Next]_vars PROVE IsoInv'
<1> USE LoadBalancerAssumption, BalancerAssumption DEF IsoInv
<1>1. /\ LBInv /\ PastInv /\ MaglevTypes
      /\ fd_to_id \in [Fd -> Nat \cup {-1}] /\ next_logical_id \in Nat
  BY DEF TypeInv, LBInv, RegistryTypeOK
<1>2. CASE CheckFlag \/ FallAsleep \/ TimeOut \/ SpuriousWakeUp \/ ClearFlag \/ RoundOver
           \/ ListServices
  <2>1. /\ {pc, pc'} \subseteq {"wait", "block", "sleep", "clear", "services", "next"}
        /\ UNCHANGED <<services_map, misfiled, svc, fds, ids, table, wild>>
    BY <1>2 DEF CheckFlag, FallAsleep, TimeOut, SpuriousWakeUp, ClearFlag, RoundOver, Waiting,
                ListServices, round_vars
  <2>2. {pc, pc'} \cap {"score", "read", "update", "write"} = {}
    BY <2>1
  <2> QED BY <2>1, <2>2, KeepListed, KeepBuild, KeepTables
<1>3. CASE NextService
  <2>1. PICK s \in todo : svc' = s /\ fds' = Instances(s)
    BY <1>3 DEF NextService
  <2>2. /\ pc = "next" /\ pc' = "score"
        /\ UNCHANGED <<services_map, misfiled, ids, session_mapping, service_groups, past>>
    BY <1>3 DEF NextService, MaglevFrame, session_vars, main_vars
  <2>3. ListedFds'
    BY <1>1, <2>1, <2>2 DEF ListedFds, PastInv, MaglevTypes, Served
  <2>4. BuildHome'
    BY <2>2 DEF BuildHome
  <2> QED BY <2>2, <2>3, <2>4, KeepTables
<1>4. CASE LookUp
  <2>1. PICK fd \in fds :
          /\ fds' = fds \ {fd}
          /\ IF HasSession(fd) THEN reading' = fd /\ pc' = "read" ELSE UNCHANGED <<reading, pc>>
    BY <1>4 DEF LookUp
  <2>2. pc = "score" /\ UNCHANGED <<services_map, misfiled, svc, ids, table, wild, past>>
    BY <1>4 DEF LookUp, MaglevFrame, main_vars
  <2>3. ListedFds'
    BY <2>1, <2>2 DEF ListedFds, Served
  <2>4. {pc, pc'} \subseteq {"score", "read"}
    BY <2>1, <2>2
  <2> QED BY <2>2, <2>3, <2>4, KeepBuild, KeepTables
<1>5. CASE ReadId
  <2>1. PICK id \in IF freed THEN {EMPTY} \cup {fd_to_id[g] : g \in Fd} ELSE {fd_to_id[reading]} :
          ids' = ids \cup {id} /\ wild' = IF freed THEN wild \cup {id} ELSE wild
    BY <1>5 DEF ReadId
  <2>2. /\ pc = "read" /\ pc' = "score" /\ reading \in Fd /\ svc \in Service
        /\ UNCHANGED <<services_map, misfiled, svc, fds, table, past, fd_to_id, next_logical_id>>
    BY <1>1, <1>5 DEF ReadId, MaglevFrame, main_vars, MaglevTypes, id_vars
  <2>3. ListedFds'
    BY <2>2 DEF ListedFds, Served
  <2>4. Home(svc, fd_to_id[reading])
    <3> SUFFICES ASSUME fd_to_id[reading] # -1 PROVE Home(svc, fd_to_id[reading])
      BY DEF Home, EMPTY
    <3>1. /\ fd_to_id[reading] < next_logical_id
          /\ \A g \in Fd : fd_to_id[g] = fd_to_id[reading] => g = reading
      BY <1>1, <2>2 DEF LBInv, IdsInv
    <3> QED BY <2>2, <3>1 DEF Home, ListedFds
  <2>5. \A i \in ids' \ wild' : Home(svc, i)
    BY <2>1, <2>2, <2>4 DEF BuildHome
  <2>6. \A i : Home(svc, i) => Home(svc, i)'
    BY <2>2 DEF Home, Served
  <2>7. BuildHome'
    BY <2>2, <2>5, <2>6 DEF BuildHome
  <2> QED BY <2>2, <2>3, <2>7, KeepTables
<1>6. CASE NoBackends
  <2>1. pc = "score" /\ pc' = "next" /\ ids = {} /\ UNCHANGED <<services_map, misfiled, ids>>
    BY <1>6 DEF NoBackends
  <2>2. BuildHome' /\ ListedFds'
    BY <2>1 DEF BuildHome, ListedFds
  <2> QED BY <2>1, <2>2, KeepTables
<1>7. CASE BuildTable
  <2>1. /\ pc = "score" /\ pc' = "update" /\ table' \in [Position -> ids] /\ ids' = {}
        /\ UNCHANGED <<services_map, misfiled, svc, wild, past, fd_to_id, next_logical_id>>
    BY <1>7 DEF BuildTable, MaglevFrame, main_vars, id_vars
  <2>2. \A p \in Position : table'[p] \notin wild => Home(svc, table'[p])
    BY <2>1 DEF BuildHome
  <2>3. \A i : Home(svc, i) => Home(svc, i)'
    BY <2>1 DEF Home, Served
  <2>4. BuildHome' /\ ListedFds'
    BY <2>1, <2>2, <2>3 DEF BuildHome, ListedFds
  <2> QED BY <2>1, <2>4, KeepTables
<1>8. CASE CreateTable
  <2>1. /\ pc = "update" /\ pc' = "write" /\ svc \in Service
        /\ UNCHANGED <<svc, fds, ids, table, wild>>
    BY <1>1, <1>8 DEF CreateTable, MaglevTypes
  <2>2. BuildHome' /\ ListedFds'
    BY <2>1, KeepBuild DEF ListedFds
  <2>3. CASE UNCHANGED <<services_map, misfiled>>
    BY <2>2, <2>3, KeepTables
  <2>4. CASE /\ services_map' = [services_map EXCEPT ![svc] = [p \in Position |-> 0]]
             /\ misfiled' = [misfiled EXCEPT ![svc] = Position]
    <3> SUFFICES ASSUME NEW s \in Service, services_map'[s] # NoTable,
                        NEW p \in Position \ misfiled'[s]
                 PROVE  Home(s, services_map[s][p])'
      BY <2>2 DEF TablesHome
    <3>1. s # svc /\ services_map'[s] = services_map[s] /\ misfiled'[s] = misfiled[s]
      BY <1>1, <2>1, <2>4 DEF MaglevTypes
    <3>2. PICK id \in Entry : id = services_map[s][p]
      BY <1>1, <3>1 DEF MaglevTypes
    <3>3. Home(s, id)
      BY <3>1, <3>2 DEF TablesHome
    <3>4. Home(s, id)'
      BY <1>1, <3>3, HomesKept
    <3> QED BY <3>1, <3>2, <3>4 DEF Home
  <2> QED BY <1>8, <2>3, <2>4 DEF CreateTable
<1>9. CASE ReopenTable
  <2>1. /\ pc = "update" /\ pc' = "write"
        /\ UNCHANGED <<svc, fds, ids, table, wild, services_map, misfiled>>
    BY <1>9 DEF ReopenTable
  <2> QED BY <2>1, KeepListed, KeepBuild, KeepTables
<1>10. CASE WriteEntry
  <2>1. /\ pc = "write" /\ pos \in Position /\ svc \in Service
        /\ UNCHANGED <<pc, svc, fds, ids, table, wild, past, fd_to_id, next_logical_id>>
    BY <1>1, <1>10 DEF WriteEntry, MaglevTypes, Position, MaglevFrame, main_vars, id_vars
  <2>2. BuildHome' /\ ListedFds'
    BY <2>1, KeepBuild DEF ListedFds
  <2>3. CASE target = NoService
    BY <1>10, <2>2, <2>3, KeepTables DEF WriteEntry
  <2>4. CASE target # NoService
    <3> SUFFICES ASSUME NEW s \in Service, services_map'[s] # NoTable,
                        NEW p \in Position \ misfiled'[s]
                 PROVE  Home(s, services_map'[s][p])
      BY <2>1, <2>2 DEF TablesHome, Home, Served
    <3>1. /\ services_map' = [services_map EXCEPT ![target][pos] = table[pos]]
          /\ misfiled' = [misfiled EXCEPT ![target] =
                             IF target = svc /\ table[pos] \notin wild
                             THEN @ \ {pos} ELSE @ \cup {pos}]
          /\ target \in Service /\ services_map[target] \in [Position -> Entry]
      BY <1>1, <1>10, <2>4 DEF WriteEntry, MaglevTypes
    <3>2. CASE s = target /\ p = pos
      <4>1. s = svc /\ table[pos] \notin wild
        BY <1>1, <3>1, <3>2 DEF MaglevTypes
      <4>2. services_map'[s][p] = table[pos]
        BY <1>1, <2>1, <3>1, <3>2 DEF MaglevTypes
      <4> QED BY <2>1, <4>1, <4>2 DEF BuildHome
    <3>3. CASE s = target /\ p # pos
      <4>1. p \notin misfiled[s] /\ services_map'[s][p] = services_map[s][p]
        BY <1>1, <2>1, <3>1, <3>3 DEF MaglevTypes
      <4> QED BY <2>4, <1>1, <3>3, <4>1 DEF TablesHome, MaglevTypes
    <3>4. CASE s # target
      <4>1. misfiled'[s] = misfiled[s] /\ services_map'[s] = services_map[s]
        BY <1>1, <3>1, <3>4 DEF MaglevTypes
      <4> QED BY <4>1 DEF TablesHome
    <3> QED BY <3>2, <3>3, <3>4
  <2> QED BY <2>3, <2>4
<1>11. CASE TableDone
  <2>1. /\ pc = "write" /\ pc' = "next" /\ UNCHANGED <<services_map, misfiled, ids>>
    BY <1>11 DEF TableDone
  <2>2. BuildHome' /\ ListedFds'
    BY <2>1 DEF BuildHome, ListedFds
  <2> QED BY <2>1, <2>2, KeepTables
<1> QED BY <1>2, <1>3, <1>4, <1>5, <1>6, <1>7, <1>8, <1>9, <1>10, <1>11 DEF MaglevStep

\* Whatever the main thread does meanwhile, and whatever table a rewrite reaches, an entry
\* that leads to another service is a zero of a new array, was written by the rebuild of
\* another service, or was read from freed memory.
THEOREM TablesIsolated == Spec => []Isolated
<1>1. TypeInv /\ IsoInv /\ [Next]_vars => IsoInv'
  <2> SUFFICES ASSUME TypeInv, IsoInv, [Next]_vars PROVE IsoInv'
    OBVIOUS
  <2>1. CASE MaglevStep \/ SpuriousWakeUp
    BY <2>1, MaglevIso
  <2>2. CASE Next /\ ~MaglevStep /\ ~SpuriousWakeUp
    <3>1. /\ UNCHANGED <<services_map, round_vars>>
          /\ UNCHANGED pc \/ (pc = "sleep" /\ pc' = "wait")
      BY <2>2, ClientKeeps
         DEF Next, MainStep, AssignId, PublishBackend, LeaveBuffer, CloseStatus, CloseSession,
             CloseTrigger, CloseNotify, CloseFd, PeerStep, Disconnect, Accept, CloseRequest,
             StartRegistration, MainFrame, thread_vars
    <3> QED BY <3>1, KeepListed, KeepBuild, KeepTables DEF IsoInv, round_vars
  <2>3. CASE UNCHANGED vars
    BY <2>3, KeepListed, KeepBuild, KeepTables DEF IsoInv, vars, round_vars, thread_vars
  <2> QED BY <2>1, <2>2, <2>3
<1>2. TypeInv /\ IsoInv => Isolated
  <2> SUFFICES ASSUME TypeInv, IsoInv, NEW s \in Service, NEW fd \in Fd,
                      services_map[s] # NoTable, NEW p \in Position \ misfiled[s],
                      services_map[s][p] = fd_to_id[fd], IsActive(fd_to_id[fd])
               PROVE  s \in Served(fd)
    BY DEF Isolated
  <2>1. fd_to_id[fd] # EMPTY
    BY DEF IsActive, LogicalId, EMPTY
  <2> QED BY <2>1 DEF IsoInv, TablesHome, Home
<1> QED BY <1>1, <1>2, IsoInit, AlwaysTypes, PTL DEF Spec

-----------------------------------------------------------------------------
(***************************************************************************)
(* Connection tracking, where descriptors are reused and the LRU map is     *)
(* full.  An open connection stays with its backend as long as its entry    *)
(* stays and the slot the entry names keeps its address.  A slot changes    *)
(* its address only if its id is handed on; an entry goes only for another  *)
(* flow, or by the FIN of an earlier connection, which is still in it only  *)
(* if the backend of that connection went and came back.                    *)
(***************************************************************************)

Two(fd) == \E r, q \in past[fd] : r # q

PinId(k) == sessions_map[k].backend_id

\* No entry and no packet is for the slot that add_backend is about to fill.
Unpublished(id) ==
    /\ ~IsActive(id)
    /\ \A k \in Flow :
          /\ Pinned(k) /\ PinId(k) \in LogicalId => PinId(k) # id
          /\ OnWire(k) /\ wire[k].id \in LogicalId => wire[k].id # id

FreshInv ==
    /\ main_pc = "id" /\ ~Two(main_fd) => fd_to_id[main_fd] = -1
    /\ main_pc = "add" /\ ~Two(main_fd) => Unpublished(fd_to_id[main_fd])

\* The slot of this id has the backend that has the other end of the connection, or
\* has changed hands.
RouteOk(k, id) ==
    /\ id \in LogicalId /\ route[k] \in Peer
    /\ backends_map[id].addr = route[k] \/ Handed(id)

\* What a packet between the two looks at backends_map says of its connection.
PacketInv(k) == OnWire(k) =>
    /\ wire[k].kind = "syn" => flow[k] \in {"closed", "reset"}
    /\ wire[k].kind = "data" => flow[k] \in {"open", "half", "done"}
    /\ wire[k].kind = "fin" => flow[k] = "open"
    /\ Pinned(k) => wire[k].id = PinId(k)
    /\ Pinned(k) /\ wire[k].kind # "syn" => wire[k].found
    /\ Pinned(k) /\ wire[k].kind = "data" => ~sessions_map[k].fin
    /\ flow[k] = "open" /\ wire[k].found => RouteOk(k, wire[k].id)

\* The entry of a closed connection may have kept its FIN, if the backend is gone.
FlowInv(k) ==
    /\ k \in UdpFlow => flow[k] = "closed" /\ ~OnWire(k)
    /\ Pinned(k) => IsServiceVip(k)
    /\ flow[k] = "open" /\ Pinned(k) => RouteOk(k, PinId(k))
    /\ k \notin UdpFlow /\ Pinned(k) /\ sessions_map[k].fin =>
          \/ Reopened(PinId(k))
          \/ flow[k] \in {"half", "done"}
          \/ flow[k] \in {"closed", "reset"} /\ ~IsActive(PinId(k))
          \/ flow[k] = "open" /\ OnWire(k) /\ wire[k].kind = "fin"

RouteInv == FreshInv /\ \A k \in Flow : PacketInv(k) /\ FlowInv(k)

LEMMA RouteInit == Init => RouteInv
BY DEF Init, BalancerInit, RouteInv, FreshInv, PacketInv, FlowInv, Pinned, OnWire

\* What is typed.
LEMMA FlowTyped ==
    ASSUME TypeInv, NEW k \in Flow
    PROVE  /\ Pinned(k) => sessions_map[k] \in Pin /\ PinId(k) \in Nat
           /\ OnWire(k) => wire[k] \in Packet /\ wire[k].id \in Nat
BY DEF TypeInv, PinsInv, PinnedKnown, Pinned, OnWire, PinId, Pin, Packet

LEMMA LogicalIds == ASSUME NEW id \in LogicalId PROVE id \in Nat /\ id # INVALID_BACKEND
BY BalancerAssumption, RegistryAssumption DEF LogicalId, INVALID_BACKEND

\* An id that a flow knows has been given out.
LEMMA KnownBelow ==
    ASSUME TypeInv, NEW id \in LogicalId, Known(id) PROVE id < next_logical_id
<1>1. id # INVALID_BACKEND
  BY LogicalIds
<1> QED BY <1>1 DEF Known, TypeInv, LBInv, IdsInv

LEMMA HandedStays ==
    ASSUME TypeInv, [Next]_vars, NEW id \in Nat
    PROVE  (Reopened(id) => Reopened(id)') /\ (Handed(id) => Handed(id)')
<1>1. \A fd \in Fd : fd_to_id[fd] = id => fd_to_id'[fd] = id
  BY RegistryGrows DEF TypeInv
<1>2. \A fd \in Fd : past[fd] \subseteq past'[fd]
  BY RegistryGrows DEF TypeInv
<1> QED BY <1>1, <1>2 DEF Reopened, Handed

\* What holds of a flow keeps as long as nothing is written to what it knows, and its slot
\* neither changes its address nor becomes active without changing hands.
LEMMA FlowKept ==
    ASSUME TypeInv, [Next]_vars, NEW k \in Flow, PacketInv(k), FlowInv(k),
           UNCHANGED flow[k], UNCHANGED route[k], UNCHANGED wire[k],
           UNCHANGED sessions_map[k] \/ ~Pinned(k)',
           IsServiceVip(k) => IsServiceVip(k)',
           \A id \in LogicalId : route[k] \in Peer /\ backends_map[id].addr = route[k] =>
               backends_map'[id].addr = route[k] \/ Handed(id)',
           \A id \in LogicalId : Pinned(k) /\ PinId(k) = id /\ IsActive(id)' =>
               IsActive(id) \/ Reopened(id)'
    PROVE  PacketInv(k)' /\ FlowInv(k)'
<1>1. \A id \in LogicalId : RouteOk(k, id) => RouteOk(k, id)'
  BY HandedStays, LogicalIds DEF RouteOk
<1>2. OnWire(k)' <=> OnWire(k)
  BY DEF OnWire
<1>3. Pinned(k)' => Pinned(k) /\ PinId(k)' = PinId(k) /\ sessions_map'[k] = sessions_map[k]
  BY DEF Pinned, PinId
<1>4. \A id : RouteOk(k, id) => id \in LogicalId
  BY DEF RouteOk
<1>5. PacketInv(k)'
  BY <1>1, <1>2, <1>3, <1>4 DEF PacketInv
<1>6. ASSUME Pinned(k)'
      PROVE  /\ Reopened(PinId(k)) => Reopened(PinId(k))'
             /\ ~IsActive(PinId(k)) => ~IsActive(PinId(k))' \/ Reopened(PinId(k))'
  <2>1. PICK id \in Nat : id = PinId(k)
    BY <1>3, <1>6, FlowTyped
  <2>2. Reopened(id) => Reopened(id)'
    BY HandedStays
  <2>3. ~IsActive(id) => ~IsActive(id)' \/ Reopened(id)'
    BY <1>3, <1>6, <2>1 DEF IsActive
  <2>4. id = PinId(k)'
    BY <1>3, <1>6, <2>1
  <2> QED BY <2>1, <2>2, <2>3, <2>4 DEF Reopened, IsActive
<1>7. FlowInv(k)'
  BY <1>1, <1>2, <1>3, <1>4, <1>6 DEF FlowInv
<1> QED BY <1>5, <1>7

-----------------------------------------------------------------------------
(* Everybody but the clients.                                              *)

\* A step that fills no slot leaves what the flows know as it is.
LEMMA RegistryRoute ==
    ASSUME TypeInv, RouteInv, [Next]_vars, UNCHANGED <<sessions_map, client_vars>>,
           \A s \in Service : services_map[s] # NoTable => services_map'[s] # NoTable,
           \A i \in LogicalId : /\ backends_map'[i].addr = backends_map[i].addr
                                /\ backends_map'[i].is_active => backends_map[i].is_active
    PROVE  \A k \in Flow : PacketInv(k)' /\ FlowInv(k)'
<1> SUFFICES ASSUME NEW k \in Flow PROVE PacketInv(k)' /\ FlowInv(k)'
  OBVIOUS
<1>1. PacketInv(k) /\ FlowInv(k)
  BY DEF RouteInv
<1>2. IsServiceVip(k) => IsServiceVip(k)'
  BY BalancerAssumption DEF IsServiceVip
<1>3. UNCHANGED <<flow[k], route[k], wire[k], sessions_map[k]>>
  BY DEF client_vars
<1>4. \A id \in LogicalId : IsActive(id)' => IsActive(id)
  BY DEF IsActive
<1> QED BY <1>1, <1>2, <1>3, <1>4, FlowKept

\* Such a step keeps the slot that is about to be filled, too.
LEMMA KeepFresh ==
    ASSUME FreshInv, UNCHANGED <<sessions_map, wire, fd_to_id, past>>,
           \A i \in LogicalId : backends_map'[i].is_active => backends_map[i].is_active,
           main_pc' \in {"id", "add"} => UNCHANGED <<main_pc, main_fd>>
    PROVE  FreshInv'
<1>1. ASSUME NEW id, Unpublished(id) PROVE Unpublished(id)'
  BY <1>1 DEF Unpublished, IsActive, Pinned, PinId, OnWire
<1>2. CASE main_pc' = "id"
  BY <1>2 DEF FreshInv, Two
<1>3. CASE main_pc' = "add" /\ ~Two(main_fd)'
  <2>1. PICK id : id = fd_to_id[main_fd]
    OBVIOUS
  <2>2. Unpublished(id)
    BY <1>3, <2>1 DEF FreshInv, Two
  <2>3. Unpublished(id)'
    BY <1>1, <2>2
  <2>4. id = fd_to_id[main_fd]'
    BY <1>3, <2>1
  <2>5. Unpublished(fd_to_id[main_fd])'
    BY <2>3, <2>4 DEF Unpublished, IsActive
  <2> QED BY <1>3, <2>5 DEF FreshInv
<1> QED BY <1>2, <1>3 DEF FreshInv

\* A descriptor that registers for the first time has no id yet.
LEMMA StartRoute ==
    ASSUME TypeInv, RouteInv, [Next]_vars, NEW fd \in Fd, NEW p \in Peer, NEW s \in Service,
           StartRegistration(fd, p, s)
    PROVE  RouteInv'
<1>1. /\ main_pc' = "id" /\ main_fd' = fd /\ fd_to_id' = fd_to_id
      /\ UNCHANGED <<services_map, sessions_map, client_vars, backends_map>>
      /\ past' = [past EXCEPT ![fd] =
                     @ \cup {[service |-> s, addr |-> p, nth |-> registrations]}]
  BY DEF StartRegistration, MainFrame, id_vars
<1> DEFINE new == [service |-> s, addr |-> p, nth |-> registrations]
<1>2. ASSUME past[fd] # {} PROVE Two(fd)'
  <2>1. PICK r \in past[fd] : r.nth < registrations
    BY <1>2 DEF TypeInv, PastInv
  <2>2. r # new
    <3>1. new.nth = registrations /\ registrations \in Int
      BY DEF TypeInv, PastInv
    <3> HIDE DEF new
    <3> QED BY <2>1, <3>1
  <2>3. r \in past'[fd] /\ new \in past'[fd]
    BY <1>1 DEF TypeInv, PastInv
  <2> HIDE DEF new
  <2> QED BY <2>2, <2>3 DEF Two
<1>3. fd_to_id[fd] # -1 => Two(fd)'
  BY <1>2 DEF TypeInv, PastInv
<1>4. FreshInv'
  BY <1>1, <1>3 DEF FreshInv, Two
<1>5. \A k \in Flow : PacketInv(k)' /\ FlowInv(k)'
  BY <1>1, RegistryRoute
<1> QED BY <1>4, <1>5 DEF RouteInv

\* A new id is not yet in anybody's hands.
LEMMA AssignRoute == ASSUME TypeInv, RouteInv, [Next]_vars, AssignId PROVE RouteInv'
<1>1. /\ main_pc = "id" /\ main_pc' = "add" /\ main_fd' = main_fd /\ RegisterLogicalId(main_fd)
      /\ UNCHANGED <<services_map, sessions_map, client_vars, backends_map, past>>
  BY DEF AssignId, MainAt, MainGoto, MainFrame
<1>2. PICK me \in Fd : me = main_fd
  BY <1>1 DEF TypeInv, LBInv, MainTypes
<1>3. ASSUME ~Two(me) PROVE Unpublished(next_logical_id) /\ fd_to_id'[me] = next_logical_id
  <2>1. fd_to_id[me] = -1
    BY <1>1, <1>2, <1>3 DEF RouteInv, FreshInv, Two
  <2>2. fd_to_id'[me] = next_logical_id /\ next_logical_id \in Nat
    BY <1>1, <1>2, <2>1 DEF RegisterLogicalId, TypeInv, LBInv, RegistryTypeOK
  <2>3. ~IsActive(next_logical_id)
    BY <2>2 DEF IsActive, TypeInv, LBInv, SlotsOwned, Owns, IdsInv
  <2>4. ASSUME NEW id \in LogicalId, Known(id) PROVE id # next_logical_id
    BY <2>2, <2>4, KnownBelow, LogicalIds
  <2>5. \A k \in Flow : (Pinned(k) => Known(PinId(k))) /\ (OnWire(k) => Known(wire[k].id))
    BY DEF TypeInv, PinsInv, PinnedKnown, PinId
  <2> QED BY <2>2, <2>3, <2>4, <2>5 DEF Unpublished
<1>4. PICK id : id = next_logical_id
  OBVIOUS
<1>5. ASSUME Unpublished(id) PROVE Unpublished(id)'
  BY <1>1, <1>5 DEF Unpublished, IsActive, Pinned, PinId, OnWire, client_vars
<1>6. FreshInv'
  <2> SUFFICES ASSUME ~Two(me) PROVE Unpublished(fd_to_id[main_fd])'
    BY <1>1, <1>2 DEF FreshInv, Two
  <2>1. Unpublished(id)' /\ id = fd_to_id'[me]
    BY <1>3, <1>4, <1>5
  <2> QED BY <1>1, <1>2, <2>1 DEF Unpublished, IsActive
<1>7. \A k \in Flow : PacketInv(k)' /\ FlowInv(k)'
  BY <1>1, RegistryRoute
<1> QED BY <1>6, <1>7 DEF RouteInv

\* The slot that is filled had the same address, or changes hands; it was not active, and
\* no flow knows it unless its descriptor registers again.
LEMMA PublishRoute == ASSUME TypeInv, RouteInv, [Next]_vars, PublishBackend PROVE RouteInv'
<1>1. /\ main_pc = "add" /\ main_pc' \in {"idle", "freed"}
      /\ AddBackend(fd_to_id[main_fd], session_mapping[main_fd].addr)
      /\ UNCHANGED <<services_map, sessions_map, client_vars, fd_to_id, past>>
  BY DEF PublishBackend, Resume, MainAt, MainGoto, MainFrame, id_vars
<1>2. main_fd \in Fd /\ HasSession(main_fd)
  BY <1>1 DEF TypeInv, LBInv, MainTypes
<1>3. PICK me, id, addr : /\ me \in Fd /\ me = main_fd
                          /\ id = fd_to_id[me] /\ addr = session_mapping[me].addr
  BY <1>2
<1>4. PICK reg \in past[me] : reg.addr = addr
  BY <1>2, <1>3 DEF TypeInv, PastInv
<1>5. /\ \A i \in LogicalId : i # id => backends_map'[i] = backends_map[i]
      /\ id \in LogicalId => backends_map'[id].addr = addr
  BY <1>1, <1>3 DEF AddBackend, TypeInv, LBInv, RegistryTypeOK
<1>6. ASSUME NEW p \in Peer, NEW i \in LogicalId, backends_map[i].addr = p
      PROVE  backends_map'[i].addr = p \/ Handed(i)'
  <2>1. CASE i # id
    BY <1>5, <1>6, <2>1
  <2>2. CASE i = id
    <3>1. PICK fd \in Fd : fd_to_id[fd] = i /\ \E r \in past[fd] : r.addr = p
      BY <1>6, RegistryAssumption DEF TypeInv, PastInv
    <3>2. i # -1
      BY DEF LogicalId
    <3>3. fd = me
      BY <1>3, <2>2, <3>1, <3>2 DEF TypeInv, LBInv, IdsInv
    <3>4. PICK r \in past[me] : r.addr = p
      BY <3>1, <3>3
    <3>5. p # addr => Handed(i)'
      BY <1>1, <1>4, <3>1, <3>3, <3>4 DEF Handed
    <3> QED BY <1>5, <2>2, <3>5
  <2> QED BY <2>1, <2>2
<1>7. ASSUME NEW k \in Flow, NEW i \in LogicalId, Pinned(k), PinId(k) = i, IsActive(i)'
      PROVE  IsActive(i) \/ Reopened(i)'
  <2>1. CASE i # id
    BY <1>5, <1>7, <2>1 DEF IsActive
  <2>2. CASE i = id
    <3>1. Two(me)
      BY <1>1, <1>3, <1>7, <2>2 DEF RouteInv, FreshInv, Unpublished, Two
    <3> QED BY <1>1, <1>3, <2>2, <3>1 DEF Two, Reopened
  <2> QED BY <2>1, <2>2
<1>8. ASSUME NEW k \in Flow PROVE PacketInv(k)' /\ FlowInv(k)'
  <2>1. PacketInv(k) /\ FlowInv(k) /\ UNCHANGED <<flow[k], route[k], wire[k], sessions_map[k]>>
    BY <1>1 DEF RouteInv, client_vars
  <2>2. IsServiceVip(k) => IsServiceVip(k)'
    BY <1>1 DEF IsServiceVip
  <2> QED BY <1>6, <1>7, <2>1, <2>2, FlowKept
<1>9. FreshInv'
  BY <1>1 DEF FreshInv
<1> QED BY <1>8, <1>9 DEF RouteInv

LEMMA MainRoute ==
    ASSUME TypeInv, RouteInv, [Next]_vars, MainStep \/ PeerStep PROVE RouteInv'
<1>1. CASE \/ LeaveBuffer \/ CloseStatus \/ CloseSession \/ CloseTrigger \/ CloseNotify \/ CloseFd
           \/ \E fd \in Fd : \/ Disconnect(fd)
                             \/ \E p \in Peer : Accept(fd, p) \/ CloseRequest(fd, p)
  <2>1. /\ UNCHANGED <<services_map, sessions_map, client_vars, fd_to_id, past>>
        /\ main_pc' \notin {"id", "add"}
    BY <1>1 DEF LeaveBuffer, CloseStatus, CloseSession, CloseTrigger, CloseNotify, CloseFd,
                Disconnect, Accept, CloseRequest, MainFrame, MainGoto, Resume, MainAt, id_vars,
                registry_vars
  <2>2. \A i \in LogicalId : /\ backends_map'[i].addr = backends_map[i].addr
                             /\ backends_map'[i].is_active => backends_map[i].is_active
    <3>1. CASE CloseStatus
      BY <3>1 DEF CloseStatus, UpdateBackendStatus, TypeInv, LBInv, RegistryTypeOK, Slot
    <3>2. CASE UNCHANGED backends_map
      BY <3>2
    <3> QED BY <1>1, <3>1, <3>2 DEF LeaveBuffer, CloseSession, CloseTrigger, CloseNotify, CloseFd,
               Disconnect, Accept, CloseRequest, registry_vars
  <2>3. \A k \in Flow : PacketInv(k)' /\ FlowInv(k)'
    BY <2>1, <2>2, RegistryRoute
  <2>4. FreshInv'
    BY <2>1, <2>2, KeepFresh DEF RouteInv, client_vars
  <2> QED BY <2>3, <2>4 DEF RouteInv
<1> QED BY <1>1, StartRoute, AssignRoute, PublishRoute DEF MainStep, PeerStep

\* The Maglev thread never takes a service's table away.
LEMMA TablesStay ==
    ASSUME TypeInv, MaglevStep \/ SpuriousWakeUp
    PROVE  \A s \in Service : services_map[s] # NoTable => services_map'[s] # NoTable
<1> SUFFICES ASSUME NEW s \in Service, services_map[s] # NoTable PROVE services_map'[s] # NoTable
  OBVIOUS
<1>1. CASE services_map' = services_map
  BY <1>1
<1>2. CASE CreateTable
  <2>1. [p \in Position |-> 0] \in [Position -> Entry]
    BY DEF Entry
  <2>2. services_map'[s] = [p \in Position |-> 0] \/ services_map'[s] = services_map[s]
    BY <1>2 DEF CreateTable, TypeInv, MaglevTypes
  <2> QED BY <2>1, <2>2, BalancerAssumption
<1>3. CASE WriteEntry
  <2>1. MaglevTypes /\ pos \in Position
    BY <1>3, BalancerAssumption DEF WriteEntry, TypeInv, MaglevTypes, Position
  <2>2. services_map[s] \in [Position -> Entry] /\ table[pos] \in Entry
    BY <2>1 DEF MaglevTypes
  <2>3. services_map'[s] = services_map[s]
        \/ services_map'[s] = [services_map[s] EXCEPT ![pos] = table[pos]]
    BY <1>3, <2>1 DEF WriteEntry, MaglevTypes
  <2>4. services_map'[s] \in [Position -> Entry]
    BY <2>2, <2>3
  <2> QED BY <2>4, BalancerAssumption
<1> QED BY <1>1, <1>2, <1>3
        DEF MaglevStep, CheckFlag, FallAsleep, TimeOut, SpuriousWakeUp, ClearFlag, ListServices,
            NextService, RoundOver, LookUp, ReadId, NoBackends, BuildTable, ReopenTable, TableDone,
            Waiting

LEMMA MaglevRoute ==
    ASSUME TypeInv, RouteInv, [Next]_vars, MaglevStep \/ SpuriousWakeUp PROVE RouteInv'
<1>1. UNCHANGED <<sessions_map, client_vars, backends_map, main_pc, main_fd, fd_to_id, past>>
  BY DEF MaglevStep, CheckFlag, FallAsleep, TimeOut, SpuriousWakeUp, ClearFlag,
         ListServices, NextService, RoundOver, LookUp, ReadId, NoBackends, BuildTable, CreateTable,
         ReopenTable, WriteEntry, TableDone, Waiting, MaglevFrame, main_vars, id_vars
<1>2. \A k \in Flow : PacketInv(k)' /\ FlowInv(k)'
  BY <1>1, TablesStay, RegistryRoute
<1>3. FreshInv'
  BY <1>1, KeepFresh DEF RouteInv, client_vars
<1> QED BY <1>2, <1>3 DEF RouteInv

-----------------------------------------------------------------------------
(* Clients.                                                                *)

\* A packet changes no entry but its own, except that a full map gives one up.
LEMMA TrackPin ==
    ASSUME TypeInv, NEW k \in Flow, NEW syn \in BOOLEAN, NEW ack \in BOOLEAN,
           NEW fin \in BOOLEAN, Track(k, syn, ack, fin)
    PROVE  /\ \A j \in Flow \ {k} :
                \/ sessions_map'[j] = sessions_map[j]
                \/ sessions_map'[j] = NoPin /\ Evicted(j)
           /\ ~IsServiceVip(k) => sessions_map'[k] = sessions_map[k]
           /\ IsServiceVip(k) /\ Pinned(k) /\ k \in UdpFlow => sessions_map'[k] = sessions_map[k]
           /\ IsServiceVip(k) /\ Pinned(k) /\ k \notin UdpFlow =>
                IF Finished(sessions_map[k], syn, ack, fin)
                THEN sessions_map'[k] = NoPin
                ELSE /\ sessions_map'[k] \in Pin
                     /\ sessions_map'[k].backend_id = sessions_map[k].backend_id
                     /\ sessions_map'[k].fin <=> sessions_map[k].fin \/ fin
           /\ IsServiceVip(k) /\ ~Pinned(k) =>
                IF k \in UdpFlow \/ syn
                THEN /\ sessions_map'[k] \in Pin
                     /\ sessions_map'[k].backend_id = PickBackend(k)
                     /\ ~sessions_map'[k].fin
                ELSE sessions_map'[k] = sessions_map[k]
<1> USE BalancerAssumption
<1>0. sessions_map \in [Flow -> Pin \cup {NoPin}]
  BY DEF TypeInv, PinsInv, PinnedKnown
<1>1. CASE ~IsServiceVip(k) \/ (Pinned(k) /\ k \in UdpFlow)
  BY <1>1 DEF Track
<1>2. CASE IsServiceVip(k) /\ Pinned(k) /\ k \notin UdpFlow
  <2>1. sessions_map[k] \in Pin
    BY <1>2, FlowTyped
  <2>2. CASE Finished(sessions_map[k], syn, ack, fin)
    BY <1>0, <1>2, <2>2 DEF Track
  <2>3. CASE ~Finished(sessions_map[k], syn, ack, fin)
    <3> DEFINE f == sessions_map[k].fin \/ fin
               pin == [sessions_map[k] EXCEPT !.fin = f]
    <3>1. f \in BOOLEAN
      OBVIOUS
    <3>2. sessions_map' = [sessions_map EXCEPT ![k] = pin]
      BY <1>2, <2>3 DEF Track
    <3> HIDE DEF f
    <3>3. pin \in Pin /\ pin.backend_id = sessions_map[k].backend_id /\ pin.fin = f
      BY <2>1, <3>1 DEF Pin
    <3> HIDE DEF pin
    <3>4. sessions_map'[k] = pin /\ \A j \in Flow : j # k => sessions_map'[j] = sessions_map[j]
      BY <1>0, <3>2
    <3> QED BY <1>2, <2>3, <3>3, <3>4 DEF f
  <2> QED BY <2>2, <2>3
<1>3. CASE IsServiceVip(k) /\ ~Pinned(k) /\ (k \in UdpFlow \/ syn)
  <2> DEFINE pin == [backend_id |-> PickBackend(k), fin |-> FALSE]
             used == {j \in Flow : Pinned(j)}
  <2>1. Insert(k, pin)
    BY <1>3 DEF Track
  <2>2. pin \in Pin /\ pin.backend_id = PickBackend(k) /\ ~pin.fin
    <3>1. PickBackend(k) \in Nat
      BY PickKnown DEF TypeInv
    <3> QED BY <3>1 DEF Pin
  <2> HIDE DEF pin
  <2>3. CASE Cardinality(used) < MaxSessions
    <3>1. sessions_map' = [sessions_map EXCEPT ![k] = pin]
      BY <2>1, <2>3 DEF Insert
    <3>2. sessions_map'[k] = pin /\ \A j \in Flow : j # k => sessions_map'[j] = sessions_map[j]
      BY <1>0, <3>1
    <3> QED BY <1>3, <2>2, <3>2
  <2>4. CASE ~(Cardinality(used) < MaxSessions)
    <3>1. PICK victim \in used :
             sessions_map' = [sessions_map EXCEPT ![victim] = NoPin, ![k] = pin]
      BY <2>1, <2>4 DEF Insert
    <3>2. /\ sessions_map'[k] = pin
          /\ \A j \in Flow : j # k =>
                sessions_map'[j] \in {sessions_map[j], NoPin}
      BY <1>0, <3>1
    <3>3. ~Pinned(k) /\ Pinned(k)'
      BY <1>3, <2>2, <3>2 DEF Pinned
    <3>4. \A j \in Flow \ {k} : Evicted(j)
      BY <2>4, <3>3 DEF Evicted
    <3> QED BY <1>3, <2>2, <3>2, <3>4
  <2> QED BY <2>3, <2>4
<1>4. CASE IsServiceVip(k) /\ ~Pinned(k) /\ ~(k \in UdpFlow \/ syn)
  BY <1>4 DEF Track
<1> QED BY <1>1, <1>2, <1>3, <1>4

\* The entry a packet finds or leaves is for the id that get_or_create_backend returns.
LEMMA TrackBackend ==
    ASSUME TypeInv, RouteInv, NEW k \in Flow, NEW syn \in BOOLEAN, NEW ack \in BOOLEAN,
           NEW fin \in BOOLEAN, Track(k, syn, ack, fin)
    PROVE  /\ Pinned(k)' => /\ IsServiceVip(k)
                            /\ PinId(k)' = BackendOf(k)
                            /\ ~Pinned(k) => ~sessions_map'[k].fin
           /\ Pinned(k) => BackendOf(k) = PinId(k)
<1>1. Pinned(k) => IsServiceVip(k)
  BY DEF RouteInv, FlowInv
<1>2. Pinned(k) => BackendOf(k) = PinId(k)
  BY <1>1 DEF BackendOf, PinId
<1>3. ASSUME Pinned(k)'
      PROVE  IsServiceVip(k) /\ PinId(k)' = BackendOf(k) /\ (~Pinned(k) => ~sessions_map'[k].fin)
  <2>1. CASE Pinned(k)
    BY <1>1, <1>2, <1>3, <2>1, TrackPin DEF Pinned, PinId
  <2>2. CASE ~Pinned(k)
    <3>1. IsServiceVip(k)
      BY <1>3, <2>2, TrackPin DEF Pinned
    <3>2. BackendOf(k) = PickBackend(k)
      BY <2>2, <3>1 DEF BackendOf
    <3> QED BY <1>3, <2>2, <3>1, <3>2, TrackPin DEF Pinned, PinId
  <2> QED BY <2>1, <2>2
<1> QED BY <1>2, <1>3

\* A packet of flow k says nothing about the other flows.
LEMMA OthersKept ==
    ASSUME TypeInv, RouteInv, [Next]_vars, ClientFrame, NEW j \in Flow,
           UNCHANGED flow[j], UNCHANGED route[j], UNCHANGED wire[j],
           UNCHANGED sessions_map[j] \/ ~Pinned(j)'
    PROVE  PacketInv(j)' /\ FlowInv(j)'
<1>1. UNCHANGED <<backends_map, services_map>> /\ PacketInv(j) /\ FlowInv(j)
  BY DEF ClientFrame, registry_vars, RouteInv
<1>2. (IsServiceVip(j) => IsServiceVip(j)') /\ \A id : IsActive(id)' => IsActive(id)
  BY <1>1 DEF IsServiceVip, IsActive
<1> QED BY <1>1, <1>2, FlowKept

\* What a packet is sent to, and what it pins its key to, is not a slot that has yet to
\* be filled.
LEMMA TrackFresh ==
    ASSUME TypeInv, RouteInv, ClientFrame, NEW k \in Flow, NEW syn \in BOOLEAN,
           NEW ack \in BOOLEAN, NEW fin \in BOOLEAN, Track(k, syn, ack, fin),
           \A j \in Flow : OnWire(j)' =>
               \/ OnWire(j) /\ wire'[j].id = wire[j].id
               \/ j = k /\ wire'[j].id = BackendOf(k)
    PROVE  FreshInv'
<1>1. UNCHANGED <<main_pc, main_fd, fd_to_id, backends_map, past>>
  BY DEF ClientFrame, registry_vars, id_vars, main_vars
<1>2. ASSUME NEW id, Unpublished(id) PROVE Unpublished(id)'
  <2>1. ~IsActive(id)'
    BY <1>1, <1>2 DEF Unpublished, IsActive
  <2>2. BackendOf(k) \in LogicalId => BackendOf(k) # id
    <3>1. CASE BackendOf(k) = INVALID_BACKEND
      BY <3>1, LogicalIds
    <3>2. CASE Pinned(k) /\ BackendOf(k) = PinId(k)
      BY <1>2, <3>2 DEF Unpublished
    <3>3. CASE BackendOf(k) = PickBackend(k)
      BY <1>2, <3>3, PickActive, LogicalIds DEF Unpublished
    <3> QED BY <3>1, <3>2, <3>3 DEF BackendOf, PinId
  <2>3. ASSUME NEW j \in Flow, Pinned(j)', PinId(j)' \in LogicalId PROVE PinId(j)' # id
    <3>1. CASE j = k
      BY <2>2, <2>3, <3>1, TrackBackend
    <3>2. CASE j # k
      <4>1. sessions_map'[j] = sessions_map[j]
        BY <2>3, <3>2, TrackPin DEF Pinned
      <4> QED BY <1>2, <2>3, <4>1 DEF Unpublished, Pinned, PinId
    <3> QED BY <3>1, <3>2
  <2>4. ASSUME NEW j \in Flow, OnWire(j)', wire'[j].id \in LogicalId PROVE wire'[j].id # id
    BY <1>2, <2>2, <2>4 DEF Unpublished
  <2> QED BY <2>1, <2>3, <2>4 DEF Unpublished
<1>3. CASE main_pc = "add" /\ ~Two(main_fd)
  <2>1. PICK id : id = fd_to_id[main_fd]
    OBVIOUS
  <2>2. Unpublished(id)'
    BY <1>2, <1>3, <2>1 DEF RouteInv, FreshInv
  <2>3. Unpublished(fd_to_id[main_fd])'
    BY <1>1, <2>1, <2>2 DEF Unpublished, IsActive
  <2> QED BY <1>1, <1>3, <2>3 DEF FreshInv
<1> QED BY <1>1, <1>3 DEF RouteInv, FreshInv, Two

\* What RouteKept says of one flow.
Kept(k) == flow[k] = "open" =>
    /\ flow'[k] \in {"open", "half"} /\ route'[k] # route[k] =>
          ~wire[k].found \/ Handed(wire[k].id)
    /\ Pinned(k) /\ ~Pinned(k)' => Evicted(k) \/ Reopened(sessions_map[k].backend_id)

\* The first half of a packet, but for what it does to its own flow.
LEMMA SentRoute ==
    ASSUME TypeInv, RouteInv, [Next]_vars, NEW k \in Flow, NEW kind \in {"syn", "data", "fin"},
           NEW syn \in BOOLEAN, NEW ack \in BOOLEAN, NEW fin \in BOOLEAN,
           Sent(k, kind, syn, ack, fin), PacketInv(k)', FlowInv(k)', Kept(k)
    PROVE  RouteInv' /\ \A j \in Flow : Kept(j)
<1>1. /\ ClientFrame /\ Track(k, syn, ack, fin) /\ UNCHANGED <<flow, route>>
      /\ wire' = [wire EXCEPT ![k] =
                     [kind |-> kind, id |-> BackendOf(k), found |-> Pinned(k)]]
  BY DEF Sent
<1>2. wire \in [Flow -> Packet \cup {NoPacket}]
  BY DEF TypeInv, PinsInv
<1>3. /\ wire'[k].id = BackendOf(k)
      /\ \A j \in Flow \ {k} : wire'[j] = wire[j]
  BY <1>1, <1>2
<1>4. FreshInv'
  BY <1>1, <1>3, TrackFresh DEF OnWire
<1>5. ASSUME NEW j \in Flow \ {k} PROVE PacketInv(j)' /\ FlowInv(j)' /\ Kept(j)
  <2>1. UNCHANGED sessions_map[j] \/ (~Pinned(j)' /\ Evicted(j))
    BY <1>1, TrackPin DEF Pinned
  <2>2. UNCHANGED flow[j] /\ UNCHANGED route[j] /\ UNCHANGED wire[j]
    BY <1>1, <1>3
  <2>3. PacketInv(j)' /\ FlowInv(j)'
    BY <1>1, <2>1, <2>2, OthersKept
  <2>4. Kept(j)
    BY <2>1, <2>2 DEF Kept, Pinned
  <2> QED BY <2>3, <2>4
<1> QED BY <1>4, <1>5 DEF RouteInv

\* The packet that a flow has on its way now.
LEMMA OwnPacket ==
    ASSUME TypeInv, NEW k \in Flow, NEW kind \in {"syn", "data", "fin"},
           NEW syn \in BOOLEAN, NEW ack \in BOOLEAN, NEW fin \in BOOLEAN,
           Sent(k, kind, syn, ack, fin)
    PROVE  /\ ~OnWire(k) /\ OnWire(k)'
           /\ wire'[k].kind = kind /\ wire'[k].id = BackendOf(k) /\ (wire'[k].found <=> Pinned(k))
           /\ Track(k, syn, ack, fin)
           /\ UNCHANGED <<flow, route, backends_map, services_map, fd_to_id, past>>
           /\ IsServiceVip(k)' <=> IsServiceVip(k)
           /\ \A id : (IsActive(id)' <=> IsActive(id)) /\ (Reopened(id)' <=> Reopened(id))
           /\ \A id : RouteOk(k, id)' <=> RouteOk(k, id)
<1> DEFINE packet == [kind |-> kind, id |-> BackendOf(k), found |-> Pinned(k)]
<1>1. /\ wire[k] = NoPacket /\ ClientFrame /\ Track(k, syn, ack, fin) /\ UNCHANGED <<flow, route>>
      /\ wire' = [wire EXCEPT ![k] = packet]
  BY DEF Sent
<1>2. wire \in [Flow -> Packet \cup {NoPacket}]
  BY DEF TypeInv, PinsInv
<1>3. BackendOf(k) \in Nat /\ Pinned(k) \in BOOLEAN
  BY BackendKnown DEF TypeInv, PinsInv, Pinned
<1>4. packet \in Packet /\ packet.kind = kind /\ packet.id = BackendOf(k)
      /\ (packet.found <=> Pinned(k))
  BY <1>3 DEF Packet
<1> HIDE DEF packet
<1>5. wire'[k] = packet
  BY <1>1, <1>2
<1>6. UNCHANGED <<backends_map, services_map, fd_to_id, past>>
  BY <1>1 DEF ClientFrame, registry_vars, id_vars, main_vars
<1> QED BY <1>1, <1>4, <1>5, <1>6, LoadBalancerAssumption
        DEF OnWire, IsServiceVip, IsActive, Reopened, RouteOk, Handed

LEMMA SynRoute ==
    ASSUME TypeInv, RouteInv, [Next]_vars, NEW k \in Flow, SendSyn(k)
    PROVE  RouteInv' /\ \A j \in Flow : Kept(j)
<1>1. /\ k \notin UdpFlow /\ flow[k] \in {"closed", "reset"}
      /\ Sent(k, "syn", TRUE, FALSE, FALSE) /\ FlowInv(k)
  BY DEF SendSyn, RouteInv
<1>2. /\ Pinned(k)' => IsServiceVip(k) /\ PinId(k)' = BackendOf(k)
      /\ Pinned(k)' /\ ~Pinned(k) => ~sessions_map'[k].fin
      /\ Pinned(k) => BackendOf(k) = PinId(k)
  BY <1>1, TrackBackend, OwnPacket
<1>3. Pinned(k) => (sessions_map'[k].fin <=> sessions_map[k].fin)
  <2> SUFFICES ASSUME Pinned(k) PROVE sessions_map'[k].fin <=> sessions_map[k].fin
    OBVIOUS
  <2>1. IsServiceVip(k) /\ ~Finished(sessions_map[k], TRUE, FALSE, FALSE)
    BY <1>1 DEF FlowInv, Finished
  <2> QED BY <1>1, <2>1, TrackPin, OwnPacket
<1>4. PacketInv(k)'
  BY <1>1, <1>2, OwnPacket DEF PacketInv
<1>5. FlowInv(k)'
  <2>1. ASSUME Pinned(k)', sessions_map'[k].fin
        PROVE  Reopened(PinId(k))' \/ ~IsActive(PinId(k))'
    <3>1. Pinned(k) /\ sessions_map[k].fin
      BY <1>2, <1>3, <2>1
    <3>2. Reopened(PinId(k)) \/ ~IsActive(PinId(k))
      BY <1>1, <3>1 DEF FlowInv
    <3>3. PICK id : id = PinId(k)
      OBVIOUS
    <3>4. Reopened(id)' \/ ~IsActive(id)'
      BY <1>1, <3>2, <3>3, OwnPacket
    <3>5. id = PinId(k)'
      BY <1>2, <2>1, <3>1, <3>3
    <3> QED BY <3>4, <3>5 DEF Reopened, IsActive
  <2>2. flow'[k] = flow[k] /\ (IsServiceVip(k)' <=> IsServiceVip(k))
    BY <1>1, OwnPacket
  <2> QED BY <1>1, <1>2, <2>1, <2>2 DEF FlowInv
<1>6. Kept(k)
  BY <1>1 DEF Kept
<1> QED BY <1>1, <1>4, <1>5, <1>6, SentRoute

\* A segment of an established connection: its FIN stays in the entry until the next one.
LEMMA SegmentRoute ==
    ASSUME TypeInv, RouteInv, [Next]_vars, NEW k \in Flow, SendData(k) \/ SendFin(k)
    PROVE  RouteInv' /\ \A j \in Flow : Kept(j)
<1>1. PICK kind \in {"data", "fin"}, fin \in BOOLEAN :
          /\ Sent(k, kind, FALSE, TRUE, fin)
          /\ fin <=> kind = "fin"
          /\ flow[k] \in {"open", "half"}
          /\ fin => flow[k] = "open"
  <2>1. CASE SendData(k)
    <3>1. Sent(k, "data", FALSE, TRUE, FALSE) /\ flow[k] \in {"open", "half"}
      BY <2>1 DEF SendData
    <3> QED BY <3>1
  <2>2. CASE SendFin(k)
    <3>1. Sent(k, "fin", FALSE, TRUE, TRUE) /\ flow[k] = "open"
      BY <2>2 DEF SendFin
    <3> QED BY <3>1
  <2> QED BY <2>1, <2>2
<1>2. FlowInv(k) /\ k \notin UdpFlow
  BY <1>1 DEF RouteInv, FlowInv
<1>3. Track(k, FALSE, TRUE, fin) /\ ~OnWire(k)
  BY <1>1, OwnPacket
<1>4. /\ Pinned(k)' => PinId(k)' = BackendOf(k)
      /\ Pinned(k) => BackendOf(k) = PinId(k) /\ IsServiceVip(k)
  BY <1>2, <1>3, TrackBackend DEF FlowInv
<1>5. /\ Pinned(k)' => Pinned(k) /\ (sessions_map'[k].fin <=> fin)
      /\ Pinned(k) /\ ~Pinned(k)' => sessions_map[k].fin /\ ~fin
  <2>1. CASE Pinned(k)
    <3>1. Finished(sessions_map[k], FALSE, TRUE, fin) <=> sessions_map[k].fin /\ ~fin
      BY DEF Finished
    <3>2. IF sessions_map[k].fin /\ ~fin
          THEN sessions_map'[k] = NoPin
          ELSE sessions_map'[k] \in Pin /\ (sessions_map'[k].fin <=> sessions_map[k].fin \/ fin)
      BY <1>2, <1>3, <1>4, <2>1, <3>1, TrackPin
    <3>3. Pinned(k)' => ~(sessions_map[k].fin /\ ~fin)
      BY <3>2 DEF Pinned
    <3>4. ~Pinned(k)' => sessions_map[k].fin /\ ~fin
      BY <3>2, BalancerAssumption DEF Pinned
    <3> QED BY <2>1, <3>2, <3>3, <3>4
  <2>2. CASE ~Pinned(k)
    BY <1>2, <1>3, <2>2, TrackPin DEF Pinned
  <2> QED BY <2>1, <2>2
<1>6. flow[k] = "open" /\ Pinned(k) => RouteOk(k, BackendOf(k))
  BY <1>2, <1>4 DEF FlowInv
<1>7. PICK id : id = BackendOf(k)
  OBVIOUS
<1>8. /\ OnWire(k)' /\ wire'[k].kind = kind /\ wire'[k].id = id /\ (wire'[k].found <=> Pinned(k))
      /\ flow'[k] = flow[k] /\ (IsServiceVip(k)' <=> IsServiceVip(k))
      /\ RouteOk(k, id)' <=> RouteOk(k, id)
  BY <1>1, <1>7, OwnPacket
<1>9. flow[k] = "open" /\ Pinned(k) => RouteOk(k, wire[k].id)'
  BY <1>6, <1>7, <1>8 DEF RouteOk, Handed
<1>10. PacketInv(k)'
  BY <1>1, <1>4, <1>5, <1>7, <1>8, <1>9 DEF PacketInv
<1>11. flow[k] = "open" /\ Pinned(k)' => RouteOk(k, PinId(k))'
  BY <1>4, <1>5, <1>6, <1>7, <1>8 DEF RouteOk, Handed
<1>12. FlowInv(k)'
  BY <1>1, <1>2, <1>4, <1>5, <1>8, <1>11 DEF FlowInv
<1>13. Kept(k)
  <2>1. ASSUME flow[k] = "open", Pinned(k), ~Pinned(k)' PROVE Reopened(PinId(k))
    BY <1>2, <1>3, <1>5, <2>1 DEF FlowInv
  <2> QED BY <1>1, <2>1, OwnPacket DEF Kept, PinId
<1> QED BY <1>1, <1>10, <1>12, <1>13, SentRoute

\* Nor does it matter what becomes of the packets there are, as long as none is added.
LEMMA FewerPackets ==
    ASSUME FreshInv, UNCHANGED <<sessions_map, fd_to_id, past, backends_map, main_pc, main_fd>>,
           \A j \in Flow : OnWire(j)' => OnWire(j) /\ wire'[j] = wire[j]
    PROVE  FreshInv'
<1>1. ASSUME NEW id, Unpublished(id) PROVE Unpublished(id)'
  BY <1>1 DEF Unpublished, IsActive, Pinned, PinId
<1>2. CASE main_pc' = "add" /\ ~Two(main_fd)'
  <2>1. PICK id : id = fd_to_id[main_fd]
    OBVIOUS
  <2>2. Unpublished(id)
    BY <1>2, <2>1 DEF FreshInv, Two
  <2>3. Unpublished(id)'
    BY <1>1, <2>2
  <2>4. Unpublished(fd_to_id[main_fd])'
    BY <2>1, <2>3 DEF Unpublished, IsActive
  <2> QED BY <1>2, <2>4 DEF FreshInv
<1> QED BY <1>2 DEF FreshInv, Two

\* The second half of a packet.
LEMMA ArriveRoute ==
    ASSUME TypeInv, RouteInv, [Next]_vars, NEW k \in Flow, Arrive(k)
    PROVE  RouteInv' /\ \A j \in Flow : Kept(j)
<1>1. /\ OnWire(k) /\ ClientFrame /\ UNCHANGED sessions_map
      /\ wire' = [wire EXCEPT ![k] = NoPacket]
      /\ wire \in [Flow -> Packet \cup {NoPacket}]
      /\ flow \in [Flow -> {"closed", "open", "half", "done", "reset"}]
      /\ route \in [Flow -> Peer \cup {NoPeer}]
  BY DEF Arrive, OnWire, TypeInv, PinsInv, FlowTypes
<1>2. ~OnWire(k)' /\ \A j \in Flow \ {k} : wire'[j] = wire[j]
  BY <1>1 DEF OnWire
<1>3. UNCHANGED <<backends_map, services_map, fd_to_id, past, main_pc, main_fd>>
  BY <1>1 DEF ClientFrame, registry_vars, id_vars, main_vars
<1>4. PacketInv(k) /\ FlowInv(k) /\ wire[k] \in Packet
  BY <1>1 DEF RouteInv, OnWire
<1>5. \A j \in Flow \ {k} : flow'[j] = flow[j] /\ route'[j] = route[j]
  BY <1>1 DEF Arrive
<1>6. PacketInv(k)'
  BY <1>2 DEF PacketInv
<1>7. /\ Pinned(k)' <=> Pinned(k)
      /\ PinId(k)' = PinId(k)
      /\ IsServiceVip(k)' <=> IsServiceVip(k)
      /\ \A id : (IsActive(id)' <=> IsActive(id)) /\ (Reopened(id)' <=> Reopened(id))
      /\ \A id : Handed(id)' <=> Handed(id)
  BY <1>1, <1>3 DEF Pinned, PinId, IsServiceVip, IsActive, Reopened, Handed
<1>8. PICK id : id = wire[k].id
  OBVIOUS
<1>9. k \notin UdpFlow /\ wire[k].kind \in {"syn", "data", "fin"}
  BY <1>1, <1>4 DEF FlowInv, Packet
<1>10. ASSUME Verdict(k, id) = "TX" PROVE FlowInv(k)' /\ Kept(k)
  <2>1. /\ flow' = [flow EXCEPT ![k] = FlowAfter(k)]
        /\ route' = [route EXCEPT ![k] = backends_map[id].addr]
    BY <1>8, <1>10 DEF Arrive
  <2>2. flow'[k] = FlowAfter(k) /\ route'[k] = backends_map[id].addr
    BY <1>1, <2>1
  <2>3. IsActive(id) /\ id \in LogicalId
    BY <1>10 DEF Verdict, IsActive
  <2>4. backends_map[id].addr \in Peer
    BY <2>3 DEF IsActive, TypeInv, LBInv, SlotsOwned
  <2>5. Pinned(k) => RouteOk(k, PinId(k))'
    <3>1. RouteOk(k, id)'
      BY <1>3, <2>2, <2>3, <2>4 DEF RouteOk
    <3> QED BY <1>4, <1>1, <1>7, <1>8, <3>1 DEF PacketInv, RouteOk, Handed
  <2>6. wire[k].kind # "syn" /\ Pinned(k) /\ wire[k].kind = "data" => ~sessions_map[k].fin
    BY <1>1, <1>4 DEF PacketInv
  <2>7. flow'[k] = "open" /\ Pinned(k) /\ sessions_map[k].fin => Reopened(PinId(k))
    <3>1. CASE wire[k].kind = "syn"
      <4>1. Pinned(k) => PinId(k) = id /\ flow[k] \in {"closed", "reset"}
        BY <1>1, <1>4, <1>8, <3>1 DEF PacketInv
      <4> QED BY <1>4, <1>9, <2>3, <4>1 DEF FlowInv
    <3>2. CASE wire[k].kind = "data"
      BY <2>6, <3>2
    <3>3. CASE wire[k].kind = "fin"
      BY <2>2, <3>3 DEF FlowAfter
    <3> QED BY <1>9, <3>1, <3>2, <3>3
  <2>8. flow'[k] \in {"open", "half", "done"}
    BY <1>1, <1>4, <1>9, <2>2 DEF PacketInv, FlowAfter
  <2>9. FlowInv(k)'
    <3>1. ASSUME Pinned(k)', sessions_map'[k].fin PROVE Reopened(PinId(k))' \/ flow'[k] \in {"half", "done"}
      <4>1. Reopened(PinId(k)) => Reopened(PinId(k))'
        BY <1>1, <1>3, <1>7 DEF Reopened
      <4> QED BY <1>1, <1>7, <2>7, <2>8, <3>1, <4>1
    <3> QED BY <1>4, <1>7, <1>9, <2>5, <3>1 DEF FlowInv
  <2>10. flow[k] = "open" /\ wire[k].found => backends_map[id].addr = route[k] \/ Handed(id)
    BY <1>1, <1>4, <1>8 DEF PacketInv, RouteOk
  <2>11. Kept(k)
    BY <1>7, <1>8, <2>2, <2>10 DEF Kept
  <2> QED BY <2>9, <2>11
<1>11. ASSUME Verdict(k, id) = "RST" PROVE FlowInv(k)' /\ Kept(k)
  <2>1. flow' = [flow EXCEPT ![k] = "reset"]
    BY <1>8, <1>11 DEF Arrive
  <2>2. flow'[k] = "reset"
    BY <1>1, <2>1
  <2>3. ~IsActive(id)
    BY <1>11 DEF Verdict
  <2>4. Pinned(k) => ~IsActive(PinId(k))
    BY <1>1, <1>4, <1>8, <2>3 DEF PacketInv
  <2>5. Pinned(k)' => ~IsActive(PinId(k))'
    BY <1>1, <1>3, <1>7, <2>4 DEF IsActive
  <2>6. FlowInv(k)'
    BY <1>4, <1>7, <1>9, <2>2, <2>5 DEF FlowInv
  <2>7. Kept(k)
    BY <1>7, <2>2 DEF Kept
  <2> QED BY <2>6, <2>7
<1>12. ASSUME Verdict(k, id) \notin {"TX", "RST"} PROVE FlowInv(k)' /\ Kept(k)
  <2>1. UNCHANGED <<flow, route>>
    BY <1>8, <1>12 DEF Arrive
  <2>2. ~(id \in LogicalId)
    BY <1>9, <1>12, LogicalIds DEF Verdict
  <2>3. ~(flow[k] = "open" /\ Pinned(k) /\ wire[k].kind = "fin")
    BY <1>1, <1>4, <1>8, <2>2 DEF PacketInv, RouteOk
  <2>4. flow[k] = "open" /\ Pinned(k) => RouteOk(k, PinId(k))'
    BY <1>1, <1>3, <1>4, <1>7, <2>1 DEF FlowInv, RouteOk, Handed
  <2>5. ASSUME Pinned(k)', sessions_map'[k].fin
        PROVE  \/ Reopened(PinId(k))'
               \/ flow'[k] \in {"half", "done"}
               \/ flow'[k] \in {"closed", "reset"} /\ ~IsActive(PinId(k))'
    <3>1. Reopened(PinId(k)) => Reopened(PinId(k))'
      BY <1>1, <1>3, <1>7 DEF Reopened
    <3>2. ~IsActive(PinId(k)) => ~IsActive(PinId(k))'
      BY <1>1, <1>3, <1>7 DEF IsActive
    <3> QED BY <1>1, <1>4, <1>7, <1>9, <2>1, <2>3, <2>5, <3>1, <3>2 DEF FlowInv
  <2>6. FlowInv(k)'
    BY <1>4, <1>7, <1>9, <2>1, <2>4, <2>5 DEF FlowInv
  <2>7. Kept(k)
    BY <1>7, <2>1 DEF Kept
  <2> QED BY <2>6, <2>7
<1>13. ASSUME NEW j \in Flow \ {k} PROVE PacketInv(j)' /\ FlowInv(j)' /\ Kept(j)
  <2>1. UNCHANGED <<flow[j], route[j], wire[j], sessions_map[j]>>
    BY <1>1, <1>2, <1>5
  <2>2. PacketInv(j)' /\ FlowInv(j)'
    BY <1>1, <2>1, OthersKept
  <2>3. Kept(j)
    BY <2>1 DEF Kept, Pinned
  <2> QED BY <2>2, <2>3
<1>14. FreshInv'
  BY <1>1, <1>2, <1>3, FewerPackets DEF RouteInv, OnWire
<1> QED BY <1>6, <1>10, <1>11, <1>12, <1>13, <1>14 DEF RouteInv

\* The backend's FIN does not pass here; what answers it may.
LEMMA ServerFinRoute ==
    ASSUME TypeInv, RouteInv, [Next]_vars, NEW k \in Flow, ServerFin(k)
    PROVE  RouteInv' /\ \A j \in Flow : Kept(j)
<1>1. /\ flow[k] = "half" /\ ClientFrame /\ UNCHANGED <<sessions_map, wire, route>>
      /\ flow' = [flow EXCEPT ![k] = "done"]
      /\ flow \in [Flow -> {"closed", "open", "half", "done", "reset"}]
  BY DEF ServerFin, TypeInv, FlowTypes
<1>2. flow'[k] = "done" /\ \A j \in Flow \ {k} : flow'[j] = flow[j]
  BY <1>1
<1>3. UNCHANGED <<backends_map, services_map, fd_to_id, past, main_pc, main_fd>>
  BY <1>1 DEF ClientFrame, registry_vars, id_vars, main_vars
<1>4. PacketInv(k)' /\ FlowInv(k)'
  <2>1. PacketInv(k) /\ FlowInv(k)
    BY DEF RouteInv
  <2>2. IsServiceVip(k)' <=> IsServiceVip(k)
    BY <1>3 DEF IsServiceVip
  <2>3. PacketInv(k)'
    BY <1>1, <1>2, <2>1 DEF PacketInv, OnWire, Pinned, PinId
  <2>4. FlowInv(k)'
    BY <1>1, <1>2, <2>1, <2>2 DEF FlowInv, Pinned
  <2> QED BY <2>3, <2>4
<1>5. ASSUME NEW j \in Flow \ {k} PROVE PacketInv(j)' /\ FlowInv(j)' /\ Kept(j)
  <2>1. UNCHANGED <<flow[j], route[j], wire[j], sessions_map[j]>>
    BY <1>1, <1>2
  <2>2. PacketInv(j)' /\ FlowInv(j)'
    BY <1>1, <2>1, OthersKept
  <2>3. Kept(j)
    BY <2>1 DEF Kept, Pinned
  <2> QED BY <2>2, <2>3
<1>6. Kept(k)
  BY <1>1 DEF Kept
<1>7. FreshInv'
  BY <1>1, <1>3, FewerPackets DEF RouteInv, OnWire
<1> QED BY <1>4, <1>5, <1>6, <1>7 DEF RouteInv

\* A packet whose way ends here: the last acknowledgement of a connection, or a datagram.
LEMMA LastRoute ==
    ASSUME TypeInv, RouteInv, [Next]_vars, NEW k \in Flow, SendLastAck(k) \/ SendDatagram(k)
    PROVE  RouteInv' /\ \A j \in Flow : Kept(j)
<1>1. PICK ack \in BOOLEAN :
          /\ Track(k, FALSE, ack, FALSE)
          /\ ClientFrame /\ UNCHANGED wire
          /\ \A j \in Flow \ {k} : flow'[j] = flow[j] /\ route'[j] = route[j]
          /\ flow'[k] = "closed"
          /\ \/ k \notin UdpFlow /\ flow[k] = "done" /\ ack
             \/ k \in UdpFlow /\ UNCHANGED <<flow, route>>
          /\ ~OnWire(k)
  <2>1. CASE SendLastAck(k)
    <3>1. flow \in [Flow -> {"closed", "open", "half", "done", "reset"}]
          /\ route \in [Flow -> Peer \cup {NoPeer}] /\ FlowInv(k)
      BY DEF TypeInv, FlowTypes, RouteInv
    <3>2. k \notin UdpFlow
      BY <2>1, <3>1 DEF SendLastAck, FlowInv
    <3>3. flow'[k] = "closed" /\ \A j \in Flow \ {k} : flow'[j] = flow[j] /\ route'[j] = route[j]
      BY <2>1, <3>1 DEF SendLastAck
    <3> QED BY <2>1, <3>2, <3>3 DEF SendLastAck, OnWire
  <2>2. CASE SendDatagram(k)
    <3>1. FlowInv(k) /\ k \in UdpFlow
      BY <2>2 DEF SendDatagram, RouteInv
    <3> QED BY <2>2, <3>1 DEF SendDatagram, client_vars, FlowInv
  <2> QED BY <2>1, <2>2
<1>2. /\ UNCHANGED <<backends_map, services_map>>
      /\ FlowInv(k)
  BY <1>1 DEF ClientFrame, registry_vars, RouteInv
<1>3. IsServiceVip(k)' <=> IsServiceVip(k)
  BY <1>2 DEF IsServiceVip
<1>4. Pinned(k)' => IsServiceVip(k)
  BY <1>1, TrackBackend
<1>5. k \notin UdpFlow /\ Pinned(k)' => ~sessions_map'[k].fin
  <2> SUFFICES ASSUME k \notin UdpFlow, Pinned(k)' PROVE ~sessions_map'[k].fin
    OBVIOUS
  <2>1. Pinned(k) => ~Finished(sessions_map[k], FALSE, TRUE, FALSE)
    BY <1>1, <1>2, TrackPin DEF Pinned, FlowInv
  <2>2. Pinned(k) => ~sessions_map[k].fin
    BY <2>1 DEF Finished
  <2>3. Pinned(k) => (sessions_map'[k].fin <=> sessions_map[k].fin)
    <3> SUFFICES ASSUME Pinned(k) PROVE sessions_map'[k].fin <=> sessions_map[k].fin
      OBVIOUS
    <3>1. IsServiceVip(k) /\ ~Finished(sessions_map[k], FALSE, ack, FALSE)
      BY <1>1, <1>2, <2>1 DEF FlowInv
    <3>2. IF Finished(sessions_map[k], FALSE, ack, FALSE)
          THEN sessions_map'[k] = NoPin
          ELSE sessions_map'[k] \in Pin /\ (sessions_map'[k].fin <=> sessions_map[k].fin \/ FALSE)
      BY <1>1, <3>1, TrackPin
    <3> QED BY <3>1, <3>2
  <2> QED BY <1>1, <2>2, <2>3, TrackBackend
<1>6. PacketInv(k)' /\ FlowInv(k)'
  <2>1. ~OnWire(k)'
    BY <1>1 DEF OnWire
  <2> QED BY <1>1, <1>3, <1>4, <1>5, <2>1 DEF PacketInv, FlowInv
<1>7. ASSUME NEW j \in Flow \ {k} PROVE PacketInv(j)' /\ FlowInv(j)' /\ Kept(j)
  <2>1. UNCHANGED sessions_map[j] \/ (~Pinned(j)' /\ Evicted(j))
    BY <1>1, TrackPin DEF Pinned
  <2>2. UNCHANGED flow[j] /\ UNCHANGED route[j] /\ UNCHANGED wire[j]
    BY <1>1
  <2>3. PacketInv(j)' /\ FlowInv(j)'
    BY <1>1, <2>1, <2>2, OthersKept
  <2>4. Kept(j)
    BY <2>1, <2>2 DEF Kept, Pinned
  <2> QED BY <2>3, <2>4
<1>8. Kept(k)
  BY <1>1, <1>2 DEF Kept, FlowInv
<1>9. FreshInv'
  BY <1>1, TrackFresh DEF OnWire
<1> QED BY <1>6, <1>7, <1>8, <1>9 DEF RouteInv

LEMMA ClientRoute ==
    ASSUME TypeInv, RouteInv, ClientStep PROVE RouteInv' /\ \A j \in Flow : Kept(j)
<1> PICK k \in Flow : \/ SendSyn(k) \/ SendData(k) \/ SendFin(k) \/ Arrive(k)
                      \/ ServerFin(k) \/ SendLastAck(k) \/ SendDatagram(k)
  BY DEF ClientStep
<1>1. [Next]_vars
  BY DEF Next
<1> QED BY <1>1, SynRoute, SegmentRoute, ArriveRoute, ServerFinRoute, LastRoute

LEMMA RouteStep ==
    ASSUME TypeInv, RouteInv, [Next]_vars
    PROVE  RouteInv' /\ (UNCHANGED vars \/ \A k \in Flow : Kept(k))
<1>1. CASE ClientStep
  BY <1>1, ClientRoute
<1>2. CASE Next /\ ~ClientStep
  <2>1. UNCHANGED <<sessions_map, client_vars>>
    BY <1>2, OthersKeep
  <2>2. \A k \in Flow : Kept(k)
    BY <2>1 DEF Kept, Pinned, client_vars
  <2> QED BY <1>2, <2>2, MainRoute, MaglevRoute DEF Next
<1>3. CASE UNCHANGED vars
  <2>1. UNCHANGED <<services_map, sessions_map, client_vars, backends_map, main_pc, main_fd,
                    fd_to_id, past>>
    BY <1>3 DEF vars, main_vars, registry_vars, id_vars
  <2>2. FreshInv'
    BY <2>1, KeepFresh DEF RouteInv, client_vars
  <2>3. \A k \in Flow : PacketInv(k)' /\ FlowInv(k)'
    BY <2>1, RegistryRoute
  <2> QED BY <1>3, <2>2, <2>3 DEF RouteInv
<1> QED BY <1>1, <1>2, <1>3

\* Whatever backends come and go, with whatever descriptors, and however full the session
\* table is: a packet of an open connection goes to another backend only if the flow has
\* lost its entry or its slot has changed hands, and the entry is lost only to another
\* flow, or by the FIN of an earlier connection whose backend came back.
THEOREM ConnectionsKeepBackend == Spec => RouteKept
<1>1. TypeInv /\ RouteInv /\ [Next]_vars => RouteInv'
  BY RouteStep
<1>2. TypeInv /\ RouteInv /\ [Next]_vars =>
        [\A k \in Flow : flow[k] = "open" =>
          /\ flow'[k] \in {"open", "half"} /\ route'[k] # route[k]
                => ~wire[k].found \/ Handed(wire[k].id)
          /\ Pinned(k) /\ ~Pinned(k)'
                => Evicted(k) \/ Reopened(sessions_map[k].backend_id)]_vars
  BY RouteStep DEF Kept
<1> QED BY <1>1, <1>2, RouteInit, AlwaysTypes, PTL DEF Spec, RouteKept

=============================================================================
