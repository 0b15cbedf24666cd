-------------------------- MODULE StatisticsProofs --------------------------
(***************************************************************************)
(* The sampler of the packet counters beside the main thread, for every    *)
(* number of descriptors, backends, CPUs, packets and registrations: types, *)
(* the end of the program, that no packet is reported twice, and that rows *)
(* are about the backend they name.                                        *)
(***************************************************************************)
EXTENDS Statistics, SumProofs

-----------------------------------------------------------------------------
(* What the main thread keeps of sessions, ids and slots.  A registration is *)
(* two steps here, and its backend has a session before it has an id.        *)

MainLabel == {"load", "attach", "start", "hello", "listen", "run", "id", "log",
              "stop", "join", "detach", "exit", "refused", "killed"}

BookInv ==
    /\ RegistryTypeOK
    /\ main \in MainLabel
    /\ main_fd \in Fd \cup {NoFd}
    /\ main = "id" => /\ main_fd \in Fd /\ HasSession(main_fd)
                      /\ main_fd \notin ReusedFds => fd_to_id[main_fd] = -1

IdsInv ==
    /\ \A f \in Fd : fd_to_id[f] < next_logical_id
    /\ \A f, g \in Fd : fd_to_id[f] = fd_to_id[g] /\ fd_to_id[f] # -1 => f = g

\* The slot of a descriptor that is not reused holds the address of its session.
SlotsInv ==
    /\ \A i \in LogicalId :
          backends_map[i].is_active => backends_map[i].addr \in Peer /\ i < next_logical_id
    /\ \A f \in Fd :
          HasSession(f) /\ f \notin ReusedFds /\ fd_to_id[f] \in LogicalId =>
              backends_map[fd_to_id[f]].addr = session_mapping[f].addr

RegInv == BookInv /\ IdsInv /\ SlotsInv

\* The id that is sampled belongs to the descriptor at hand, and a session that was
\* found is there unless the main thread has removed it since.
ReadInv ==
    /\ pc \in {"copy", "row"} => fd \in Fd /\ fd_to_id[fd] = id
    /\ pc = "row" /\ found /\ ~freed => HasSession(fd)

\* The types of what the sampler and the XDP program write.
SampleTypes ==
    /\ registrations \in 0 .. MaxRegistrations
    /\ loaded \in BOOLEAN /\ attached \in BOOLEAN
    /\ counters \in [LogicalId -> [Cpu -> Nat]]
    /\ running \in BOOLEAN
    /\ pc \in {"none", "top", "sleep", "next", "copy", "row", "export", "done"}
    /\ todo \subseteq Fd
    /\ fd \in Fd \cup {NoFd}
    /\ id \in LogicalId
    /\ cpu \in 1 .. Cpus + 1
    /\ total \in Nat
    /\ found \in BOOLEAN /\ freed \in BOOLEAN
    /\ delta \in Nat
    /\ snapshots \in [LogicalId -> Nat]
    /\ sample \in Seq(Row)
    /\ forwarded \in [Peer -> Nat]
    /\ stored \in [LogicalId -> [Name -> Nat]]

TypeInv == RegInv /\ ReadInv /\ SampleTypes

LEMMA TypeInvInit == Init => TypeInv
<1> SUFFICES ASSUME Init PROVE TypeInv
  OBVIOUS
<1> USE RegistryAssumption, StatisticsAssumption DEF Init, RegistryInit
<1>1. BookInv
  BY DEF BookInv, RegistryTypeOK, Slot, StartSuffix, MainLabel
<1>2. IdsInv
  BY DEF IdsInv
<1>3. SlotsInv
  BY DEF SlotsInv, HasSession
<1>4. ReadInv
  BY DEF ReadInv
<1>5. SampleTypes
  <2>1. sample \in Seq(Row)
    BY DEF Row
  <2>2. /\ counters \in [LogicalId -> [Cpu -> Nat]]
        /\ stored \in [LogicalId -> [Name -> Nat]]
        /\ snapshots \in [LogicalId -> Nat] /\ forwarded \in [Peer -> Nat]
    OBVIOUS
  <2>3. 0 \in LogicalId /\ 1 \in 1 .. Cpus + 1 /\ 0 \in 0 .. MaxRegistrations
    BY DEF LogicalId
  <2> QED BY <2>1, <2>2, <2>3, Zenon DEF SampleTypes
<1> QED BY <1>1, <1>2, <1>3, <1>4, <1>5 DEF TypeInv, RegInv

-----------------------------------------------------------------------------
(* The steps by what they do to sessions, ids and slots.                   *)

Elsewhere == /\ UNCHANGED <<registry_vars, main_fd>>
             /\ main' = main \/ main' \in MainLabel \ {"id"}

LEMMA RegistrySteps ==
    ASSUME Next
    PROVE  \/ Elsewhere
           \/ \E f \in Fd, p \in Peer, s \in Service : StartRegistration(f, p, s)
           \/ FinishRegistration
           \/ \E f \in Fd : Close(f)
<1> USE DEF Elsewhere, MainLabel
<1>1. CASE MainOwn
  BY <1>1 DEF MainOwn, LoadProgram, Attach, StartWorker, LogReturns, Listen, StopWorker, Join,
     Detach, NetFrame
<1>2. CASE PeerStep
  BY <1>2 DEF PeerStep
<1>3. CASE LeaveLoop
  BY <1>3 DEF LeaveLoop, NetFrame
<1>4. CASE SamplerStep
  BY <1>4 DEF SamplerStep, WorkerTop, BeginSample, SkipSession, NextSession, CopyCounter,
     TakeDelta, AddRow, ReadFaults, EndSample, ExportReturns, SamplerFrame, main_vars
<1>5. CASE \E i \in LogicalId, c \in Cpu : Forward(i, c)
  BY <1>5 DEF Forward, main_vars
<1>6. CASE Ended /\ UNCHANGED vars
  BY <1>6 DEF vars, main_vars
<1> QED BY <1>1, <1>2, <1>3, <1>4, <1>5, <1>6 DEF Next

\* What a registration leaves behind before its backend has an id.
LEMMA StartRegistrationInv ==
    ASSUME RegInv, NEW f \in Fd, NEW p \in Peer, NEW s \in Service, StartRegistration(f, p, s)
    PROVE  RegInv'
<1> USE RegistryAssumption, StatisticsAssumption
<1> DEFINE info == [service |-> s, addr |-> p, load |-> IdleLoad, idle |-> 0]
<1>1. /\ session_mapping' = [session_mapping EXCEPT ![f] = info]
      /\ service_groups' = [service_groups EXCEPT ![s][f] = @ + 1]
      /\ main' = "id" /\ main_fd' = f
      /\ UNCHANGED <<fd_to_id, next_logical_id, backends_map, needs_rebuild>>
  BY DEF StartRegistration, CreateSession, id_vars
<1>2. info \in SessionInfo
  BY DEF SessionInfo
<1>3. RegistryTypeOK'
  <2>1. service_vips' \in [Service -> Nat] /\ next_vip_suffix' \in Nat
    <3>1. EnsureVip(s)
      BY DEF StartRegistration
    <3>2. service_vips \in [Service -> Nat] /\ next_vip_suffix \in Nat
      BY DEF RegInv, BookInv, RegistryTypeOK
    <3> QED BY <3>1, <3>2 DEF EnsureVip, vip_vars
  <2>2. session_mapping' \in [Fd -> SessionInfo \cup {NoSession}]
    BY <1>1, <1>2 DEF RegInv, BookInv, RegistryTypeOK
  <2>3. service_groups' \in [Service -> [Fd -> Nat]]
    BY <1>1 DEF RegInv, BookInv, RegistryTypeOK
  <2> QED BY <1>1, <2>1, <2>2, <2>3 DEF RegInv, BookInv, RegistryTypeOK
<1>4. BookInv'
  <2>1. session_mapping'[f] = info
    BY <1>1 DEF RegInv, BookInv, RegistryTypeOK
  <2>2. HasSession(f)'
    BY <1>2, <2>1 DEF HasSession
  <2>3. f \notin ReusedFds => fd_to_id[f] = -1
    BY DEF StartRegistration
  <2> QED BY <1>1, <1>3, <2>2, <2>3 DEF BookInv, MainLabel
<1>5. IdsInv'
  BY <1>1 DEF RegInv, IdsInv
<1>6. SlotsInv'
  <2>1. \A i \in LogicalId : backends_map'[i].is_active =>
            backends_map'[i].addr \in Peer /\ i < next_logical_id'
    BY <1>1 DEF RegInv, SlotsInv
  <2>2. ASSUME NEW g \in Fd, HasSession(g)'
        PROVE  g \notin ReusedFds /\ fd_to_id'[g] \in LogicalId =>
                   backends_map'[fd_to_id'[g]].addr = session_mapping'[g].addr
    <3>1. CASE g = f
      <4>1. f \notin ReusedFds => fd_to_id[f] = -1
        BY DEF StartRegistration
      <4> QED BY <1>1, <3>1, <4>1 DEF LogicalId
    <3>2. CASE g # f
      <4>1. session_mapping'[g] = session_mapping[g]
        BY <1>1, <3>2 DEF RegInv, BookInv, RegistryTypeOK
      <4> QED BY <1>1, <2>2, <4>1 DEF RegInv, SlotsInv, HasSession
    <3> QED BY <3>1, <3>2
  <2> QED BY <2>1, <2>2 DEF SlotsInv
<1> QED BY <1>4, <1>5, <1>6 DEF RegInv

\* What the id of a new backend is, and what nobody else loses by it.
LEMMA FinishRegistrationIds ==
    ASSUME RegInv, FinishRegistration
    PROVE  /\ main_fd \in Fd /\ session_mapping[main_fd].addr \in Peer
           /\ fd_to_id' \in [Fd -> Nat \cup {-1}] /\ next_logical_id' \in Nat
           /\ next_logical_id <= next_logical_id'
           /\ fd_to_id'[main_fd] \in Nat
           /\ \A f \in Fd \ {main_fd} : fd_to_id'[f] = fd_to_id[f]
           /\ fd_to_id[main_fd] # -1 => fd_to_id'[main_fd] = fd_to_id[main_fd]
           /\ fd_to_id[main_fd] = -1 => fd_to_id'[main_fd] = next_logical_id
           /\ main_fd \notin ReusedFds => fd_to_id[main_fd] = -1
           /\ IdsInv'
           /\ backends_map' =
                IF fd_to_id'[main_fd] \in LogicalId
                THEN [backends_map EXCEPT ![fd_to_id'[main_fd]] =
                        [addr |-> session_mapping[main_fd].addr, is_active |-> TRUE]]
                ELSE backends_map
<1>1. /\ main_fd \in Fd /\ HasSession(main_fd)
      /\ main_fd \notin ReusedFds => fd_to_id[main_fd] = -1
  BY DEF FinishRegistration, RegInv, BookInv
<1>5. session_mapping[main_fd].addr \in Peer
  BY <1>1 DEF RegInv, BookInv, RegistryTypeOK, HasSession, SessionInfo
<1>2. fd_to_id \in [Fd -> Nat \cup {-1}] /\ next_logical_id \in Nat
  BY DEF RegInv, BookInv, RegistryTypeOK
<1>3. CASE fd_to_id[main_fd] = -1
  BY <1>1, <1>2, <1>3, <1>5
     DEF FinishRegistration, RegisterLogicalId, AddBackend, RegInv, IdsInv
<1>4. CASE fd_to_id[main_fd] # -1
  BY <1>1, <1>2, <1>4, <1>5
     DEF FinishRegistration, RegisterLogicalId, AddBackend, RegInv, IdsInv, id_vars
<1> QED BY <1>3, <1>4

LEMMA FinishRegistrationInv ==
    ASSUME RegInv, FinishRegistration PROVE RegInv'
<1> USE RegistryAssumption, StatisticsAssumption
<1> DEFINE i0 == fd_to_id'[main_fd]
<1>1. /\ UNCHANGED <<session_mapping, service_groups, service_vips, next_vip_suffix,
                     needs_rebuild>>
      /\ main' = "log" /\ main_fd' = NoFd
  BY DEF FinishRegistration, session_vars, vip_vars
<1>2. backends_map' \in [LogicalId -> Slot]
  <2>1. [addr |-> session_mapping[main_fd].addr, is_active |-> TRUE] \in Slot
    BY FinishRegistrationIds DEF Slot
  <2>2. backends_map \in [LogicalId -> Slot]
    BY DEF RegInv, BookInv, RegistryTypeOK
  <2> QED BY <2>1, <2>2, FinishRegistrationIds
<1>3. RegistryTypeOK'
  BY <1>1, <1>2, FinishRegistrationIds DEF RegInv, BookInv, RegistryTypeOK
<1>4. BookInv'
  BY <1>1, <1>3 DEF RegInv, BookInv, MainLabel
<1>5. /\ \A i \in LogicalId : i # i0 => backends_map'[i] = backends_map[i]
      /\ i0 \in LogicalId => backends_map'[i0] = [addr |-> session_mapping[main_fd].addr, is_active |-> TRUE]
  BY FinishRegistrationIds DEF RegInv, BookInv, RegistryTypeOK
<1>6. i0 < next_logical_id' /\ next_logical_id <= next_logical_id'
  BY FinishRegistrationIds DEF IdsInv
<1>7. SlotsInv'
  <2>1. ASSUME NEW i \in LogicalId, backends_map'[i].is_active
        PROVE  backends_map'[i].addr \in Peer /\ i < next_logical_id'
    <3>1. CASE i = i0
      BY <1>5, <1>6, <3>1, FinishRegistrationIds
    <3>2. CASE i # i0
      <4>1. backends_map[i].addr \in Peer /\ i < next_logical_id
        BY <1>5, <2>1, <3>2 DEF RegInv, SlotsInv
      <4>2. i \in Int /\ next_logical_id \in Int /\ next_logical_id' \in Int
        BY FinishRegistrationIds DEF LogicalId, RegInv, BookInv, RegistryTypeOK
      <4> QED BY <1>5, <1>6, <3>2, <4>1, <4>2
    <3> QED BY <3>1, <3>2
  <2>2. ASSUME NEW g \in Fd, HasSession(g)'
        PROVE  g \notin ReusedFds /\ fd_to_id'[g] \in LogicalId =>
                   backends_map'[fd_to_id'[g]].addr = session_mapping'[g].addr
    <3>1. session_mapping'[g] = session_mapping[g]
      BY <1>1
    <3>2. CASE g = main_fd
      BY <1>5, <3>1, <3>2
    <3>3. CASE g # main_fd
      <4>1. fd_to_id'[g] = fd_to_id[g]
        BY <3>3, FinishRegistrationIds
      <4>2. fd_to_id'[g] \in LogicalId => fd_to_id'[g] # i0
        BY <3>3, FinishRegistrationIds DEF IdsInv, LogicalId
      <4>3. g \notin ReusedFds /\ fd_to_id[g] \in LogicalId =>
               backends_map[fd_to_id[g]].addr = session_mapping[g].addr
        BY <1>1, <2>2 DEF RegInv, SlotsInv, HasSession
      <4> QED BY <1>1, <1>5, <3>1, <4>1, <4>2, <4>3
    <3> QED BY <3>2, <3>3
  <2> QED BY <2>1, <2>2 DEF SlotsInv
<1> QED BY <1>4, <1>7, FinishRegistrationIds DEF RegInv

\* A close empties the session of its descriptor and clears the flag of its slot.
LEMMA CloseEffect ==
    ASSUME RegInv, NEW f \in Fd, Close(f)
    PROVE  /\ session_mapping' = [session_mapping EXCEPT ![f] = NoSession]
           /\ \A i \in LogicalId : /\ backends_map'[i].addr = backends_map[i].addr
                                   /\ backends_map'[i].is_active => backends_map[i].is_active
           /\ backends_map' \in [LogicalId -> Slot]
           /\ main = "run"
           /\ UNCHANGED <<service_vips, next_vip_suffix, fd_to_id, next_logical_id, main, main_fd>>
<1>1. backends_map \in [LogicalId -> Slot]
  BY DEF RegInv, BookInv, RegistryTypeOK
<1>2. /\ \A i \in LogicalId : /\ backends_map'[i].addr = backends_map[i].addr
                              /\ backends_map'[i].is_active => backends_map[i].is_active
      /\ backends_map' \in [LogicalId -> Slot]
  BY <1>1 DEF Close, Deregister, UpdateBackendStatus, Slot
<1> QED BY <1>2 DEF Close, Deregister, RemoveSession, vip_vars, id_vars

LEMMA CloseInv ==
    ASSUME RegInv, NEW f \in Fd, Close(f) PROVE RegInv'
<1> USE RegistryAssumption, StatisticsAssumption
<1>1. service_groups' \in [Service -> [Fd -> Nat]] /\ needs_rebuild' \in BOOLEAN
  <2>1. HasSession(f) => session_mapping[f].service \in Service
    BY DEF HasSession, RegInv, BookInv, RegistryTypeOK, SessionInfo
  <2> QED BY <2>1 DEF Close, Deregister, RemoveSession, TriggerRebuild, RegInv, BookInv, RegistryTypeOK
<1>2. RegistryTypeOK'
  BY <1>1, CloseEffect DEF RegInv, BookInv, RegistryTypeOK
<1>3. BookInv'
  BY <1>2, CloseEffect DEF RegInv, BookInv
<1>4. IdsInv'
  BY CloseEffect DEF RegInv, IdsInv
<1>5. \A g \in Fd : HasSession(g)' => /\ g # f /\ HasSession(g)
                                      /\ session_mapping'[g] = session_mapping[g]
  BY CloseEffect DEF RegInv, BookInv, RegistryTypeOK, HasSession
<1>6. SlotsInv'
  BY <1>5, CloseEffect DEF RegInv, SlotsInv
<1> QED BY <1>3, <1>4, <1>6 DEF RegInv

LEMMA RegStep == ASSUME RegInv, [Next]_vars PROVE RegInv'
<1>1. CASE Elsewhere \/ UNCHANGED vars
  BY <1>1 DEF Elsewhere, vars, main_vars, registry_vars, session_vars, vip_vars, id_vars, RegInv,
     BookInv, RegistryTypeOK, IdsInv, SlotsInv, HasSession
<1>2. CASE Next
  BY <1>1, <1>2, RegistrySteps, StartRegistrationInv, FinishRegistrationInv, CloseInv
<1> QED BY <1>1, <1>2

-----------------------------------------------------------------------------
(* Types.                                                                  *)

\* What the main thread and the packets leave to the sampler.
LEMMA ReadKept ==
    ASSUME TypeInv, Next, UNCHANGED <<pc, fd, id, found>>,
           \A f \in Fd : ~Close(f), UNCHANGED freed
    PROVE  ReadInv'
<1>1. \A f \in Fd : fd_to_id[f] \in LogicalId => fd_to_id'[f] = fd_to_id[f]
  <2>1. CASE Elsewhere \/ \E f \in Fd, p \in Peer, s \in Service : StartRegistration(f, p, s)
    BY <2>1 DEF Elsewhere, StartRegistration, registry_vars, id_vars
  <2>2. CASE FinishRegistration
    BY <2>2, FinishRegistrationIds DEF TypeInv, LogicalId
  <2> QED BY <2>1, <2>2, RegistrySteps
<1>2. \A f \in Fd : HasSession(f) => HasSession(f)'
  <2>1. CASE Elsewhere \/ FinishRegistration
    BY <2>1 DEF Elsewhere, FinishRegistration, registry_vars, session_vars, HasSession
  <2>2. ASSUME NEW f \in Fd, NEW p \in Peer, NEW s \in Service, StartRegistration(f, p, s)
        PROVE  \A g \in Fd : HasSession(g) => HasSession(g)'
    <3>1. [service |-> s, addr |-> p, load |-> IdleLoad, idle |-> 0] \in SessionInfo
      BY RegistryAssumption DEF SessionInfo
    <3> QED BY <2>2, <3>1, RegistryAssumption
            DEF StartRegistration, CreateSession, HasSession, TypeInv, RegInv, BookInv,
                RegistryTypeOK
  <2> QED BY <2>1, <2>2, RegistrySteps
<1>3. id \in LogicalId
  BY DEF TypeInv, SampleTypes
<1> QED BY <1>1, <1>2, <1>3 DEF TypeInv, ReadInv

LEMMA CloseRead ==
    ASSUME TypeInv, NEW f \in Fd, Close(f) PROVE ReadInv'
<1>1. /\ UNCHANGED <<pc, fd, id, found, fd_to_id>>
      /\ freed' = (freed \/ (pc = "row" /\ found /\ fd = f))
  BY CloseEffect DEF Close, WorkerFrame, sample_vars, TypeInv
<1>2. \A g \in Fd : g # f => session_mapping'[g] = session_mapping[g]
  BY CloseEffect DEF TypeInv, RegInv, BookInv, RegistryTypeOK
<1> QED BY <1>1, <1>2 DEF TypeInv, ReadInv, HasSession

LEMMA SamplerRead ==
    ASSUME TypeInv, SamplerStep PROVE ReadInv'
<1> USE DEF ReadInv, SamplerFrame, registry_vars, session_vars, id_vars, HasSession, sample_vars
<1>1. CASE WorkerTop
  BY <1>1 DEF WorkerTop, TypeInv
<1>2. CASE BeginSample
  BY <1>2 DEF BeginSample, TypeInv
<1>3. CASE SkipSession
  BY <1>3 DEF SkipSession, TypeInv
<1>4. CASE NextSession
  BY <1>4 DEF NextSession, TypeInv, SampleTypes
<1>5. CASE CopyCounter
  BY <1>5 DEF CopyCounter, TypeInv
<1>6. CASE TakeDelta
  BY <1>6 DEF TakeDelta, TypeInv
<1>7. CASE AddRow
  BY <1>7 DEF AddRow, TypeInv
<1>8. CASE ReadFaults
  BY <1>8 DEF ReadFaults, TypeInv
<1>9. CASE EndSample
  BY <1>9 DEF EndSample, TypeInv
<1>10. CASE ExportReturns
  BY <1>10 DEF ExportReturns, TypeInv
<1> QED BY <1>1, <1>2, <1>3, <1>4, <1>5, <1>6, <1>7, <1>8, <1>9, <1>10 DEF SamplerStep

\* The main thread, a packet or the end: what is left alone, and that a close is one of
\* these steps.
MainMoves == MainOwn \/ LeaveLoop \/ PeerStep

LEMMA MainFrame ==
    ASSUME MainMoves
    PROVE  /\ WorkerFrame
           /\ pc' = pc \/ (main = "start" /\ pc' = "top")
           /\ (\E f \in Fd : Close(f)) \/ UNCHANGED freed
BY DEF MainMoves, MainOwn, LeaveLoop, PeerStep, LoadProgram, Attach, StartWorker, LogReturns,
   Listen, StartRegistration, FinishRegistration, Close, StopWorker, Join, Detach

LEMMA ReadStep == ASSUME TypeInv, [Next]_vars PROVE ReadInv'
<1>1. CASE Next /\ MainMoves
  <2>1. CASE \E f \in Fd : Close(f)
    BY <2>1, CloseRead
  <2>2. CASE pc' # pc
    BY <1>1, <2>2, MainFrame DEF ReadInv
  <2>3. CASE pc' = pc /\ \A f \in Fd : ~Close(f)
    BY <1>1, <2>3, MainFrame, ReadKept DEF WorkerFrame, sample_vars
  <2> QED BY <2>1, <2>2, <2>3
<1>2. CASE SamplerStep
  BY <1>2, SamplerRead
<1>3. CASE \E i \in LogicalId, c \in Cpu : Forward(i, c)
  BY <1>3 DEF Forward, ReadInv, TypeInv, sample_vars, registry_vars, session_vars, id_vars,
     HasSession
<1>4. CASE UNCHANGED vars
  BY <1>4 DEF vars, ReadInv, TypeInv, sample_vars, registry_vars, session_vars, id_vars,
     HasSession
<1> QED BY <1>1, <1>2, <1>3, <1>4 DEF Next, MainMoves


\* The rows of the sample at hand: what they weigh, and those of an id.
Packets(s) == [r \in DOMAIN s |-> s[r].packets]
RowsOf(s, i) == {r \in DOMAIN s : s[r].id = i}

LEMMA SampleRows ==
    ASSUME SampleTypes
    PROVE  /\ Len(sample) \in Nat /\ DOMAIN sample = 1 .. Len(sample)
           /\ IsFiniteSet(DOMAIN sample)
           /\ \A r \in DOMAIN sample : /\ sample[r] \in Row
                                       /\ sample[r].packets \in Nat
                                       /\ sample[r].id \in LogicalId
                                       /\ sample[r].name \in Name
<1>1. sample \in Seq(Row)
  BY DEF SampleTypes
<1>2. Len(sample) \in Nat /\ DOMAIN sample = 1 .. Len(sample)
  BY <1>1
<1>3. \A r \in DOMAIN sample : sample[r] \in Row
  BY <1>1
<1>4. IsFiniteSet(DOMAIN sample)
  BY <1>2, FS_Interval
<1> QED BY <1>2, <1>3, <1>4 DEF Row

\* What the database gets of an id under a name when the first n rows are stored.
LEMMA AfterType ==
    ASSUME SampleTypes, NEW n \in 0 .. Len(sample)
    PROVE  After(n) \in [LogicalId -> [Name -> Nat]]
<1>1. ASSUME NEW i \in LogicalId, NEW name \in Name
      PROVE  stored[i][name]
                + SumFunctionOnSet([r \in 1 .. n |-> sample[r].packets],
                       {r \in 1 .. n : sample[r].id = i /\ sample[r].name = name}) \in Nat
  <2> DEFINE w == [r \in 1 .. n |-> sample[r].packets]
             R == {r \in 1 .. n : sample[r].id = i /\ sample[r].name = name}
  <2>1. n \in Int /\ \A r \in 1 .. n : r \in DOMAIN sample
    BY SampleRows
  <2>2. IsFiniteSet(R)
    <3>1. IsFiniteSet(1 .. n)
      BY <2>1, FS_Interval
    <3>2. R \subseteq 1 .. n
      OBVIOUS
    <3> QED BY <3>1, <3>2, FS_Subset
  <2>3. \A r \in R : w[r] \in Nat
    BY <2>1, SampleRows
  <2> HIDE DEF w, R
  <2>4. SumFunctionOnSet(w, R) \in Nat
    BY <2>2, <2>3, SumNat
  <2>5. stored[i][name] \in Nat
    BY DEF SampleTypes
  <2> QED BY <2>4, <2>5 DEF w, R
<1> QED BY <1>1 DEF After

\* The row a session becomes.
LEMMA NewRow ==
    ASSUME TypeInv, AddRow
    PROVE  \E n \in Name : /\ n \in Names
                           /\ sample' = Append(sample, [id |-> id, name |-> n, packets |-> delta])
                           /\ [id |-> id, name |-> n, packets |-> delta] \in Row
<1>1. Names \subseteq Name
  <2>1. CASE found /\ ~freed
    <3>1. pc = "row" /\ fd \in Fd /\ HasSession(fd)
      BY <2>1 DEF AddRow, TypeInv, ReadInv
    <3>2. session_mapping[fd].addr \in Peer
      BY <3>1 DEF TypeInv, RegInv, BookInv, RegistryTypeOK, HasSession, SessionInfo
    <3> QED BY <2>1, <3>2 DEF Names, Name
  <2>2. CASE ~found
    BY <2>2 DEF Names, Name
  <2>3. CASE found /\ freed
    <3>1. Names = [about : Peer \cup {NoPeer}, freed : {TRUE}]
      BY <2>3 DEF Names
    <3> QED BY <3>1 DEF Name
  <2> QED BY <2>1, <2>2, <2>3
<1>2. PICK n \in Names : sample' = Append(sample, [id |-> id, name |-> n, packets |-> delta])
  BY DEF AddRow
<1>3. id \in LogicalId /\ delta \in Nat
  BY DEF TypeInv, SampleTypes
<1> QED BY <1>1, <1>2, <1>3 DEF Row

LEMMA SamplerTypes ==
    ASSUME TypeInv, SamplerStep PROVE SampleTypes'
<1> USE StatisticsAssumption DEF TypeInv, SampleTypes, SamplerFrame, main_vars, sample_vars
<1>1. CASE WorkerTop
  BY <1>1 DEF WorkerTop
<1>2. CASE BeginSample
  BY <1>2 DEF BeginSample, SessionFds
<1>3. CASE SkipSession
  BY <1>3 DEF SkipSession
<1>4. CASE NextSession
  BY <1>4 DEF NextSession, Uncounted
<1>5. CASE CopyCounter
  <2>1. cpu \in Cpu /\ cpu + 1 \in 1 .. Cpus + 1
    BY <1>5 DEF CopyCounter, Cpu
  <2>2. total + counters[id][cpu] \in Nat
    BY <2>1
  <2> QED BY <1>5, <2>1, <2>2 DEF CopyCounter
<1>6. CASE TakeDelta
  <2>1. (total - snapshots[id]) % Word \in Nat
    BY SMT
  <2> QED BY <1>6, <2>1 DEF TakeDelta, HasSession
<1>7. CASE AddRow
  <2>1. sample' \in Seq(Row)
    <3>1. PICK n \in Name :
              /\ sample' = Append(sample, [id |-> id, name |-> n, packets |-> delta])
              /\ [id |-> id, name |-> n, packets |-> delta] \in Row
      BY <1>7, NewRow
    <3> QED BY <3>1
  <2>2. 0 \in LogicalId /\ 1 \in 1 .. Cpus + 1
    BY RegistryAssumption DEF LogicalId
  <2> QED BY <1>7, <2>1, <2>2 DEF AddRow
<1>8. CASE ReadFaults
  BY <1>8 DEF ReadFaults
<1>9. CASE EndSample
  BY <1>9 DEF EndSample
<1>10. CASE ExportReturns
  <2>1. stored' \in [LogicalId -> [Name -> Nat]]
    BY <1>10, AfterType DEF ExportReturns
  <2> QED BY <1>10, <2>1 DEF ExportReturns
<1> QED BY <1>1, <1>2, <1>3, <1>4, <1>5, <1>6, <1>7, <1>8, <1>9, <1>10 DEF SamplerStep

\* A packet that is forwarded is counted for a backend.
LEMMA ForwardEffect ==
    ASSUME TypeInv, NEW i \in LogicalId, NEW c \in Cpu, Forward(i, c)
    PROVE  /\ backends_map[i].addr \in Peer /\ i < next_logical_id
           /\ counters' = [counters EXCEPT ![i][c] = @ + 1]
           /\ counters' \in [LogicalId -> [Cpu -> Nat]]
           /\ forwarded' = [forwarded EXCEPT ![backends_map[i].addr] = @ + 1]
           /\ forwarded' \in [Peer -> Nat]
           /\ UNCHANGED <<registry_vars, main_vars, running, pc, sample_vars, freed, stored>>
<1>1. backends_map[i].addr \in Peer /\ i < next_logical_id
  BY DEF Forward, TypeInv, RegInv, SlotsInv
<1>2. /\ counters' = [counters EXCEPT ![i][c] = @ + 1]
      /\ forwarded' = [forwarded EXCEPT ![backends_map[i].addr] = @ + 1]
      /\ UNCHANGED <<registry_vars, main_vars, running, pc, sample_vars, freed, stored>>
  BY DEF Forward
<1>3. /\ counters \in [LogicalId -> [Cpu -> Nat]]
      /\ forwarded \in [Peer -> Nat]
  BY DEF TypeInv, SampleTypes
<1>4. counters' \in [LogicalId -> [Cpu -> Nat]]
  <2> DEFINE row == [counters[i] EXCEPT ![c] = @ + 1]
  <2>1. row \in [Cpu -> Nat]
    BY <1>3
  <2>2. counters' = [counters EXCEPT ![i] = row]
    BY <1>2
  <2> HIDE DEF row
  <2> QED BY <1>3, <2>1, <2>2
<1>5. forwarded' \in [Peer -> Nat]
  <2> DEFINE more == forwarded[backends_map[i].addr] + 1
  <2>1. more \in Nat
    BY <1>1, <1>3
  <2>2. forwarded' = [forwarded EXCEPT ![backends_map[i].addr] = more]
    BY <1>2
  <2> HIDE DEF more
  <2> QED BY <1>3, <2>1, <2>2
<1> QED BY <1>1, <1>2, <1>4, <1>5

LEMMA SampleTypesStep == ASSUME TypeInv, [Next]_vars PROVE SampleTypes'
<1> USE StatisticsAssumption DEF SampleTypes
<1>1. CASE MainMoves
  <2>1. /\ UNCHANGED <<counters, todo, fd, id, cpu, total, found, delta, snapshots, sample,
                       forwarded, stored>>
        /\ pc' \in {pc, "top"}
    BY <1>1, MainFrame DEF WorkerFrame, sample_vars
  <2>2. \/ UNCHANGED registrations
        \/ registrations < MaxRegistrations /\ registrations' = registrations + 1
    BY <1>1 DEF MainMoves, MainOwn, LeaveLoop, PeerStep, LoadProgram, Attach, StartWorker,
       LogReturns, Listen, StartRegistration, FinishRegistration, Close, StopWorker, Join,
       Detach, NetFrame
  <2>3. registrations' \in 0 .. MaxRegistrations
    <3>1. registrations \in 0 .. MaxRegistrations
      BY DEF TypeInv
    <3> QED BY <2>2, <3>1, SMT
  <2>4. freed' \in BOOLEAN
    <3>1. freed \in BOOLEAN
      BY DEF TypeInv
    <3>2. UNCHANGED freed \/ \E f \in Fd : freed' = (freed \/ (pc = "row" /\ found /\ fd = f))
      BY <1>1, MainFrame, Zenon DEF Close
    <3> QED BY <3>1, <3>2, Zenon
  <2>5. loaded' \in {loaded, TRUE, FALSE} /\ attached' \in {attached, TRUE, FALSE}
           /\ running' \in {running, TRUE, FALSE}
    BY <1>1 DEF MainMoves, MainOwn, LeaveLoop, PeerStep, LoadProgram, Attach, StartWorker,
       LogReturns, Listen, StartRegistration, FinishRegistration, Close, StopWorker, Join,
       Detach
  <2>6. loaded' \in BOOLEAN /\ attached' \in BOOLEAN /\ running' \in BOOLEAN
    BY <2>5 DEF TypeInv
  <2> QED BY <2>1, <2>3, <2>4, <2>6 DEF TypeInv
<1>2. CASE SamplerStep
  BY <1>2, SamplerTypes
<1>3. CASE \E i \in LogicalId, c \in Cpu : Forward(i, c)
  BY <1>3, ForwardEffect DEF TypeInv, main_vars, sample_vars
<1>4. CASE UNCHANGED vars
  BY <1>4 DEF TypeInv, vars, main_vars, sample_vars
<1> QED BY <1>1, <1>2, <1>3, <1>4 DEF Next, MainMoves

LEMMA TypeInvStep == TypeInv /\ [Next]_vars => TypeInv'
BY RegStep, ReadStep, SampleTypesStep DEF TypeInv

\* Every variable of the main thread, the sampler and the XDP program keeps its type.
THEOREM SamplerTypeCorrect == Spec => []TypeOK
<1>1. TypeInv => TypeOK
  BY DEF TypeInv, RegInv, BookInv, SampleTypes, TypeOK, MainLabel
<1> QED BY <1>1, TypeInvInit, TypeInvStep, PTL DEF Spec

-----------------------------------------------------------------------------
(* The end of the program.                                                 *)

EndInv ==
    /\ main \in {"load", "attach", "start"} => pc = "none"
    /\ main \in {"detach", "exit", "refused"} => pc \in {"none", "done"}
    /\ main = "exit" => ~attached

LEMMA EndStep == EndInv /\ [Next]_vars => EndInv'
<1> SUFFICES ASSUME EndInv, [Next]_vars PROVE EndInv'
  OBVIOUS
<1> USE DEF EndInv
<1>1. CASE MainMoves
  BY <1>1 DEF MainMoves, MainOwn, LeaveLoop, PeerStep, LoadProgram, Attach, StartWorker,
     LogReturns, Listen, StartRegistration, FinishRegistration, Close, StopWorker, Join, Detach
<1>2. CASE SamplerStep
  BY <1>2 DEF SamplerStep, WorkerTop, BeginSample, SkipSession, NextSession, CopyCounter,
     TakeDelta, AddRow, ReadFaults, EndSample, ExportReturns, SamplerFrame, main_vars
<1>3. CASE (\E i \in LogicalId, c \in Cpu : Forward(i, c)) \/ UNCHANGED vars
  BY <1>3 DEF Forward, vars, main_vars
<1> QED BY <1>1, <1>2, <1>3 DEF Next, MainMoves

\* A program that ends without a crash takes the XDP program off the interface, unless the
\* kernel refuses, and its sampler has ended before.
THEOREM EndOrderly == Spec => []OrderlyEnd
<1>1. Init => EndInv
  BY DEF Init, EndInv
<1>2. EndInv => OrderlyEnd
  BY DEF EndInv, OrderlyEnd
<1> QED BY <1>1, <1>2, EndStep, PTL DEF Spec


-----------------------------------------------------------------------------
(* What was counted, snapshot, and reported.                               *)

Counted(i) == SumFunctionOnSet(counters[i], Cpu)
Stored(i) == SumFunctionOnSet(stored[i], Name)
Rows(s, i) == SumFunctionOnSet(Packets(s), RowsOf(s, i))

\* What is reported of an id is below its snapshot, and the snapshot below the counters.
\* While they are copied, the sum is below what it was copied from, and the last snapshot
\* below the sum with what is still to be copied.  No id is counted up to Word.
CountInv ==
    /\ \A i \in LogicalId : /\ Stored(i) + Pending(i) <= snapshots[i]
                            /\ snapshots[i] <= Counted(i)
                            /\ Counted(i) <= Sent
    /\ Sent <= MaxPackets
    /\ pc = "copy" => /\ total <= SumFunctionOnSet(counters[id], 1 .. cpu - 1)
                      /\ snapshots[id] <= total + SumFunctionOnSet(counters[id], cpu .. Cpus)

LEMMA PairFinite ==
    ASSUME NEW a, NEW b PROVE IsFiniteSet({a, b})
<1>1. IsFiniteSet({a})
  BY FS_Singleton
<1>2. {a, b} = {a} \cup {b}
  OBVIOUS
<1> QED BY <1>1, <1>2, FS_AddElement

LEMMA FiniteSets == IsFiniteSet(Cpu) /\ IsFiniteSet(Name) /\ IsFiniteSet(LogicalId)
<1>1. IsFiniteSet(Cpu)
  BY StatisticsAssumption, FS_Interval DEF Cpu
<1>2. IsFiniteSet(LogicalId)
  BY RegistryAssumption, FS_Interval DEF LogicalId
<1>3. IsFiniteSet(Name)
  <2>1. IsFiniteSet(Peer \cup {NoPeer})
    BY StatisticsAssumption, FS_AddElement
  <2>2. IsFiniteSet({TRUE, FALSE})
    BY PairFinite, Zenon
  <2>3. IsFiniteSet((Peer \cup {NoPeer}) \X {TRUE, FALSE})
    BY <2>1, <2>2, FS_Product
  <2> DEFINE pairs == (Peer \cup {NoPeer}) \X {TRUE, FALSE}
             name == [x \in pairs |-> [about |-> x[1], freed |-> x[2]]]
  <2>4. name \in Surjection(pairs, Name)
    <3>1. name \in [pairs -> Name]
      BY DEF Name
    <3>2. \A n \in Name : \E x \in pairs : name[x] = n
      <4> SUFFICES ASSUME NEW n \in Name PROVE \E x \in pairs : name[x] = n
        OBVIOUS
      <4>1. <<n.about, n.freed>> \in pairs /\ name[<<n.about, n.freed>>] = n
        BY DEF Name
      <4> QED BY <4>1
    <3> HIDE DEF pairs, name
    <3> QED BY <3>1, <3>2 DEF Surjection
  <2> HIDE DEF name
  <2> QED BY <2>3, <2>4, FS_Surjection
<1> QED BY <1>1, <1>2, <1>3

LEMMA SumTypes ==
    ASSUME SampleTypes, NEW i \in LogicalId
    PROVE  /\ Counted(i) \in Nat /\ Stored(i) \in Nat /\ snapshots[i] \in Nat
           /\ Rows(sample, i) \in Nat
           /\ Pending(i) = Rows(sample, i) + (IF pc = "row" /\ id = i THEN delta ELSE 0)
           /\ Pending(i) \in Nat
<1>1. Counted(i) \in Nat
  <2>1. \A c \in Cpu : counters[i][c] \in Nat
    BY DEF SampleTypes
  <2> QED BY <2>1, FiniteSets, SumNat DEF Counted
<1>2. Stored(i) \in Nat
  <2>1. \A n \in Name : stored[i][n] \in Nat
    BY DEF SampleTypes
  <2> QED BY <2>1, FiniteSets, SumNat DEF Stored
<1>3. Rows(sample, i) \in Nat
  <2>1. IsFiniteSet(RowsOf(sample, i)) /\ \A r \in RowsOf(sample, i) : Packets(sample)[r] \in Nat
    BY SampleRows, FS_Subset DEF RowsOf, Packets
  <2> QED BY <2>1, SumNat DEF Rows
<1>4. Pending(i) = Rows(sample, i) + (IF pc = "row" /\ id = i THEN delta ELSE 0)
  BY DEF Pending, Rows, RowsOf, Packets
<1>5. delta \in Nat /\ snapshots[i] \in Nat
  BY DEF SampleTypes
<1> QED BY <1>1, <1>2, <1>3, <1>4, <1>5

LEMMA PendingType ==
    SampleTypes => \A i \in LogicalId : Stored(i) \in Nat /\ Pending(i) \in Nat
BY SumTypes

LEMMA PendingTypeNext ==
    SampleTypes' => (\A i \in LogicalId : Stored(i) \in Nat /\ Pending(i) \in Nat)'
BY PendingType, PTL

LEMMA CountedType == SampleTypes => \A i \in LogicalId : Counted(i) \in Nat
BY SumTypes

LEMMA CountedTypeNext ==
    ASSUME SampleTypes, SampleTypes'
    PROVE  \A i \in LogicalId : Counted(i) \in Nat /\ Counted(i)' \in Nat
<1>1. (\A i \in LogicalId : Counted(i) \in Nat)'
  BY CountedType, PTL
<1> QED BY <1>1, CountedType

LEMMA SentType == SampleTypes => Sent \in Nat
<1> SUFFICES ASSUME SampleTypes PROVE Sent \in Nat
  OBVIOUS
<1>1. \A p \in Peer : forwarded[p] \in Nat
  BY DEF SampleTypes
<1> QED BY <1>1, StatisticsAssumption, SumNat DEF Sent

LEMMA CountInit == Init => CountInv
<1> SUFFICES ASSUME Init PROVE CountInv
  OBVIOUS
<1>1. SampleTypes
  BY TypeInvInit DEF TypeInv
<1>2. Sent = 0
  <2>1. \A p \in Peer : forwarded[p] = 0
    BY DEF Init
  <2> QED BY <2>1, StatisticsAssumption, SumZero DEF Sent
<1>3. ASSUME NEW i \in LogicalId
      PROVE  Counted(i) = 0 /\ Stored(i) = 0 /\ Pending(i) = 0 /\ snapshots[i] = 0
  <2>1. Counted(i) = 0
    <3>1. \A c \in Cpu : counters[i][c] = 0
      BY DEF Init
    <3> QED BY <3>1, FiniteSets, SumZero DEF Counted
  <2>2. Stored(i) = 0
    <3>1. \A n \in Name : stored[i][n] = 0
      BY DEF Init
    <3> QED BY <3>1, FiniteSets, SumZero DEF Stored
  <2>3. RowsOf(sample, i) = {} /\ pc # "row"
    BY DEF Init, RowsOf
  <2>4. Rows(sample, i) = 0
    BY <2>3, SumEmpty DEF Rows
  <2>5. Pending(i) = 0
    BY <1>1, <2>3, <2>4, SumTypes
  <2> QED BY <2>1, <2>2, <2>5 DEF Init
<1>4. pc # "copy"
  BY DEF Init
<1> QED BY <1>2, <1>3, <1>4, StatisticsAssumption DEF CountInv

\* Steps that count, snapshot and store nothing.
LEMMA CountKept ==
    ASSUME TypeInv, SampleTypes', CountInv, UNCHANGED <<counters, forwarded, stored, snapshots>>,
           \A i \in LogicalId : Pending(i)' <= Pending(i),
           pc' = "copy" => pc = "copy" /\ UNCHANGED <<id, total, cpu>>
    PROVE  CountInv'
<1>1. SampleTypes
  BY DEF TypeInv
<1>2. Sent' = Sent /\ \A i \in LogicalId : Pending(i)' \in Nat
  <2>1. (\A i \in LogicalId : Stored(i) \in Nat /\ Pending(i) \in Nat)'
    BY PendingTypeNext
  <2> QED BY <2>1 DEF Sent
<1>3. ASSUME NEW i \in LogicalId
      PROVE  /\ (Stored(i) + Pending(i) <= snapshots[i])'
             /\ (snapshots[i] <= Counted(i))' /\ (Counted(i) <= Sent)'
  <2>1. Stored(i)' = Stored(i) /\ Counted(i)' = Counted(i) /\ snapshots'[i] = snapshots[i]
    BY DEF Stored, Counted
  <2>2. Pending(i) \in Nat /\ Pending(i)' \in Nat /\ Stored(i) \in Nat /\ snapshots[i] \in Nat
    BY <1>1, <1>2, SumTypes
  <2>3. /\ Stored(i) + Pending(i) <= snapshots[i]
        /\ snapshots[i] <= Counted(i) /\ Counted(i) <= Sent
    BY DEF CountInv
  <2>4. Pending(i)' <= Pending(i)
    OBVIOUS
  <2>5. Stored(i) + Pending(i)' <= snapshots[i]
    BY <2>2, <2>3, <2>4, SMT
  <2> QED BY <1>2, <2>1, <2>3, <2>5
<1>4. Sent' <= MaxPackets
  BY <1>2 DEF CountInv
<1>5. pc' = "copy" => /\ (total <= SumFunctionOnSet(counters[id], 1 .. cpu - 1))'
                      /\ (snapshots[id] <= total + SumFunctionOnSet(counters[id], cpu .. Cpus))'
  BY DEF CountInv
<1> QED BY <1>3, <1>4, <1>5 DEF CountInv


\* The counters and the history one by one.
LEMMA ForwardValues ==
    ASSUME TypeInv, NEW i \in LogicalId, NEW c \in Cpu, Forward(i, c)
    PROVE  /\ \A j \in LogicalId \ {i} : counters'[j] = counters[j]
           /\ \A d \in Cpu \ {c} : counters'[i][d] = counters[i][d]
           /\ counters'[i][c] = counters[i][c] + 1
           /\ \A q \in Peer \ {backends_map[i].addr} : forwarded'[q] = forwarded[q]
           /\ forwarded'[backends_map[i].addr] = forwarded[backends_map[i].addr] + 1
<1>1. counters \in [LogicalId -> [Cpu -> Nat]] /\ forwarded \in [Peer -> Nat]
  BY DEF TypeInv, SampleTypes
<1>2. backends_map[i].addr \in Peer
  BY ForwardEffect
<1>3. counters' = [counters EXCEPT ![i][c] = @ + 1]
  BY ForwardEffect
<1>4. forwarded' = [forwarded EXCEPT ![backends_map[i].addr] = @ + 1]
  BY ForwardEffect
<1>5. /\ \A j \in LogicalId \ {i} : counters'[j] = counters[j]
      /\ \A d \in Cpu \ {c} : counters'[i][d] = counters[i][d]
      /\ counters'[i][c] = counters[i][c] + 1
  BY <1>1, <1>3
<1> QED BY <1>1, <1>2, <1>4, <1>5

\* A packet is one more for a CPU, for its id and for all of them.
LEMMA ForwardCount ==
    ASSUME TypeInv, SampleTypes', CountInv, NEW i \in LogicalId, NEW c \in Cpu, Forward(i, c)
    PROVE  CountInv'
<1> DEFINE p == backends_map[i].addr
<1>1. SampleTypes
  BY DEF TypeInv
<1>2. Sent' = Sent + 1 /\ Sent' <= MaxPackets
  <2>1. \A q \in Peer : forwarded[q] \in Nat /\ forwarded'[q] \in Nat
    BY ForwardEffect DEF TypeInv, SampleTypes
  <2>2. p \in Peer /\ forwarded'[p] = forwarded[p] + 1
           /\ \A q \in Peer \ {p} : forwarded'[q] = forwarded[q]
    BY ForwardEffect, ForwardValues
  <2> HIDE DEF p
  <2>3. Sent' + forwarded[p] = Sent + forwarded'[p]
    BY <2>1, <2>2, StatisticsAssumption, SumChange DEF Sent
  <2>4. Sent \in Nat /\ Sent' \in Nat
    <3>1. (Sent \in Nat)'
      BY SentType, PTL
    <3> QED BY <1>1, <3>1, SentType
  <2>5. Sent < MaxPackets
    BY DEF Forward
  <2> QED BY <2>1, <2>2, <2>3, <2>4, <2>5, StatisticsAssumption, SMT
<1>3. \A j \in LogicalId, d \in Cpu : /\ counters[j][d] \in Nat /\ counters'[j][d] \in Nat
                                      /\ counters[j][d] <= counters'[j][d]
  <2>1. \A j \in LogicalId, d \in Cpu :
           counters'[j][d] = IF j = i /\ d = c THEN counters[j][d] + 1 ELSE counters[j][d]
    BY ForwardValues
  <2>2. \A j \in LogicalId, d \in Cpu : counters[j][d] \in Nat
    BY <1>1 DEF SampleTypes
  <2> QED BY <2>1, <2>2, SMT
<1>4. ASSUME NEW j \in LogicalId
      PROVE  Counted(j) <= Counted(j)' /\ Counted(j)' <= Sent' /\ Counted(j) \in Nat
                /\ Counted(j)' \in Nat
  <2>1. Counted(j) <= Counted(j)'
    BY <1>3, FiniteSets, SumMonotone DEF Counted
  <2>2. Counted(j) \in Nat
    BY <1>1, SumTypes
  <2>3. Counted(j)' \in Nat
    BY <1>3, FiniteSets, SumNat DEF Counted
  <2>4. Counted(j)' <= Sent'
    <3>1. Counted(j) <= Sent
      BY DEF CountInv
    <3>2. Sent \in Nat
      BY <1>1, SentType
    <3>3. CASE j = i
      <4>1. counters'[j][c] = counters[j][c] + 1
               /\ \A d \in Cpu \ {c} : counters'[j][d] = counters[j][d]
        BY <3>3, ForwardValues
      <4>2. Counted(j)' + counters[j][c] = Counted(j) + counters'[j][c]
        BY <1>3, <4>1, FiniteSets, SumChange DEF Counted
      <4>3. counters[j][c] \in Nat
        BY <1>3
      <4> QED BY <1>2, <2>2, <2>3, <3>1, <3>2, <4>1, <4>2, <4>3, SMT
    <3>4. CASE j # i
      <4>1. counters'[j] = counters[j]
        BY <3>4, ForwardValues
      <4>2. Counted(j)' = Counted(j)
        BY <4>1 DEF Counted
      <4> QED BY <1>2, <2>2, <3>1, <3>2, <4>2, SMT
    <3> QED BY <3>3, <3>4
  <2> QED BY <2>1, <2>2, <2>3, <2>4
<1>5. /\ UNCHANGED <<pc, id, cpu, total, delta, snapshots, sample, stored>>
  BY ForwardEffect DEF sample_vars
<1>6. ASSUME NEW j \in LogicalId
      PROVE  /\ (Stored(j) + Pending(j) <= snapshots[j])'
             /\ (snapshots[j] <= Counted(j))' /\ (Counted(j) <= Sent)'
  <2>1. Stored(j)' = Stored(j) /\ Pending(j)' = Pending(j) /\ snapshots'[j] = snapshots[j]
    BY <1>5 DEF Stored, Pending
  <2>2. snapshots[j] \in Nat
    BY <1>1, SumTypes
  <2>3. Stored(j) + Pending(j) <= snapshots[j] /\ snapshots[j] <= Counted(j)
    BY DEF CountInv
  <2>4. snapshots[j] <= Counted(j)'
    BY <1>4, <2>2, <2>3, SMT
  <2> QED BY <1>4, <2>1, <2>3, <2>4
<1>7. ASSUME pc = "copy"
      PROVE  /\ total <= SumFunctionOnSet(counters'[id], 1 .. cpu - 1)
             /\ snapshots[id] <= total + SumFunctionOnSet(counters'[id], cpu .. Cpus)
  <2>1. id \in LogicalId /\ cpu \in 1 .. Cpus + 1 /\ total \in Nat /\ snapshots[id] \in Nat
    BY <1>1 DEF SampleTypes
  <2>2. /\ 1 .. cpu - 1 \subseteq Cpu /\ cpu .. Cpus \subseteq Cpu
        /\ IsFiniteSet(1 .. cpu - 1) /\ IsFiniteSet(cpu .. Cpus)
    <3>1. 1 .. cpu - 1 \subseteq Cpu /\ cpu .. Cpus \subseteq Cpu
      BY <2>1, StatisticsAssumption DEF Cpu
    <3> QED BY <3>1, FiniteSets, FS_Subset
  <2>3. \A d \in Cpu : /\ counters[id][d] \in Nat /\ counters'[id][d] \in Nat
                       /\ counters[id][d] <= counters'[id][d]
    BY <1>3, <2>1
  <2>4. /\ SumFunctionOnSet(counters[id], 1 .. cpu - 1)
              <= SumFunctionOnSet(counters'[id], 1 .. cpu - 1)
        /\ SumFunctionOnSet(counters[id], cpu .. Cpus)
              <= SumFunctionOnSet(counters'[id], cpu .. Cpus)
    BY <2>2, <2>3, SumMonotone
  <2>5. /\ SumFunctionOnSet(counters[id], 1 .. cpu - 1) \in Nat
        /\ SumFunctionOnSet(counters'[id], 1 .. cpu - 1) \in Nat
        /\ SumFunctionOnSet(counters[id], cpu .. Cpus) \in Nat
        /\ SumFunctionOnSet(counters'[id], cpu .. Cpus) \in Nat
    BY <2>2, <2>3, SumNat
  <2>6. /\ total <= SumFunctionOnSet(counters[id], 1 .. cpu - 1)
        /\ snapshots[id] <= total + SumFunctionOnSet(counters[id], cpu .. Cpus)
    BY <1>7 DEF CountInv
  <2> QED BY <2>1, <2>4, <2>5, <2>6, SMT
<1> QED BY <1>2, <1>5, <1>6, <1>7 DEF CountInv


\* The sampler is about to copy the counters of an id: none is, and all are to be.
LEMMA NextSessionCount ==
    ASSUME TypeInv, SampleTypes', CountInv, NextSession PROVE CountInv'
<1>1. /\ UNCHANGED <<counters, forwarded, stored, snapshots, sample>>
      /\ pc = "next" /\ pc' = "copy" /\ cpu' = 1 /\ total' = 0
  BY DEF NextSession, SamplerFrame
<1>2. SampleTypes /\ id' \in LogicalId
  BY DEF TypeInv, SampleTypes
<1>3. \A i \in LogicalId : Pending(i)' = Pending(i)
  BY <1>1 DEF Pending
<1>4. (1 .. cpu - 1)' = {} /\ (cpu .. Cpus)' = Cpu
  BY <1>1 DEF Cpu
<1>5. SumFunctionOnSet(counters'[id'], (1 .. cpu - 1)') = 0
  BY <1>4, SumEmpty
<1>6. snapshots[id'] <= Counted(id') /\ Counted(id') \in Nat
  BY <1>2, SumTypes DEF CountInv
<1>7. SumFunctionOnSet(counters'[id'], (cpu .. Cpus)') = Counted(id')
  BY <1>1, <1>4 DEF Counted
<1>8. /\ total' <= SumFunctionOnSet(counters'[id'], (1 .. cpu - 1)')
      /\ snapshots'[id'] <= total' + SumFunctionOnSet(counters'[id'], (cpu .. Cpus)')
  <2>1. 0 + Counted(id') = Counted(id')
    BY <1>6
  <2> QED BY <1>1, <1>5, <1>6, <1>7, <2>1
<1>9. ASSUME NEW i \in LogicalId
      PROVE  /\ (Stored(i) + Pending(i) <= snapshots[i])'
             /\ (snapshots[i] <= Counted(i))' /\ (Counted(i) <= Sent)'
  BY <1>1, <1>3 DEF CountInv, Stored, Counted, Sent
<1>10. Sent' <= MaxPackets
  BY <1>1 DEF CountInv, Sent
<1> QED BY <1>8, <1>9, <1>10 DEF CountInv

\* One CPU moves from those to be copied to those that are.
LEMMA CopyCount ==
    ASSUME TypeInv, SampleTypes', CountInv, CopyCounter PROVE CountInv'
<1> DEFINE w == counters[id]
           A == 1 .. cpu - 1
           B == cpu + 1 .. Cpus
<1>1. /\ UNCHANGED <<counters, forwarded, stored, snapshots, sample, id>>
      /\ pc = "copy" /\ pc' = "copy" /\ cpu <= Cpus
      /\ total' = total + w[cpu] /\ cpu' = cpu + 1
  BY DEF CopyCounter, SamplerFrame
<1>2. /\ SampleTypes /\ id \in LogicalId /\ cpu \in Cpu /\ cpu \in Nat /\ total \in Nat
      /\ snapshots[id] \in Nat
  <2>1. SampleTypes
    BY DEF TypeInv
  <2>2. /\ id \in LogicalId /\ total \in Nat /\ snapshots[id] \in Nat
        /\ cpu \in 1 .. Cpus + 1
    BY <2>1 DEF SampleTypes
  <2>3. cpu \in Cpu /\ cpu \in Nat
    BY <1>1, <2>2, StatisticsAssumption DEF Cpu
  <2> QED BY <2>1, <2>2, <2>3
<1>3. \A c \in Cpu : w[c] \in Nat
  BY <1>2 DEF SampleTypes
<1>4. /\ cpu \notin A /\ cpu \notin B /\ A \subseteq Cpu /\ B \subseteq Cpu
      /\ 1 .. (cpu + 1) - 1 = A \cup {cpu}
      /\ cpu .. Cpus = B \cup {cpu}
  BY <1>2, StatisticsAssumption DEF Cpu
<1>5. IsFiniteSet(A) /\ IsFiniteSet(B)
  BY <1>4, FiniteSets, FS_Subset
<1> HIDE DEF w, A, B
<1>6. /\ SumFunctionOnSet(w, A \cup {cpu}) = SumFunctionOnSet(w, A) + w[cpu]
      /\ SumFunctionOnSet(w, B \cup {cpu}) = SumFunctionOnSet(w, B) + w[cpu]
  <2>1. (\A x \in A \cup {cpu} : w[x] \in Nat) /\ (\A x \in B \cup {cpu} : w[x] \in Nat)
    BY <1>2, <1>3, <1>4
  <2> QED BY <1>4, <1>5, <2>1, SumPutIn
<1>7. /\ SumFunctionOnSet(w, A) \in Nat /\ SumFunctionOnSet(w, B) \in Nat
      /\ w[cpu] \in Nat
  <2>1. (\A x \in A : w[x] \in Nat) /\ (\A x \in B : w[x] \in Nat)
    BY <1>3, <1>4
  <2> QED BY <1>2, <1>3, <1>5, <2>1, SumNat
<1>8. /\ total <= SumFunctionOnSet(w, A)
      /\ snapshots[id] <= total + SumFunctionOnSet(w, cpu .. Cpus)
  BY <1>1 DEF CountInv, w, A
<1>9. /\ total' <= SumFunctionOnSet(w, 1 .. (cpu + 1) - 1)
      /\ snapshots[id] <= total' + SumFunctionOnSet(w, B)
  <2>1. /\ SumFunctionOnSet(w, 1 .. (cpu + 1) - 1) = SumFunctionOnSet(w, A) + w[cpu]
        /\ SumFunctionOnSet(w, cpu .. Cpus) = SumFunctionOnSet(w, B) + w[cpu]
    BY <1>4, <1>6
  <2>2. total' = total + w[cpu]
    BY <1>1
  <2> QED BY <1>2, <1>7, <1>8, <2>1, <2>2, SMT
<1>10. /\ total' <= SumFunctionOnSet(counters'[id'], 1 .. cpu' - 1)
       /\ snapshots'[id'] <= total' + SumFunctionOnSet(counters'[id'], cpu' .. Cpus)
  BY <1>1, <1>9, Zenon DEF w, B
<1>11. ASSUME NEW i \in LogicalId
       PROVE  /\ (Stored(i) + Pending(i) <= snapshots[i])'
              /\ (snapshots[i] <= Counted(i))' /\ (Counted(i) <= Sent)'
  <2>1. Pending(i)' = Pending(i)
    BY <1>1 DEF Pending
  <2> QED BY <1>1, <2>1 DEF CountInv, Stored, Counted, Sent
<1>12. Sent' <= MaxPackets
  BY <1>1 DEF CountInv, Sent
<1> QED BY <1>10, <1>11, <1>12 DEF CountInv


LEMMA SmallModulus == ASSUME NEW m \in Nat, NEW n \in Nat, n < m PROVE n % m = n
BY SMT

\* The sum of all CPUs is not below the last snapshot, so that their difference is the
\* one meant, and not above what was counted, which it replaces as the snapshot.
LEMMA TakeDeltaCount ==
    ASSUME TypeInv, SampleTypes', CountInv, TakeDelta PROVE CountInv'
<1>1. /\ UNCHANGED <<counters, forwarded, stored, sample, id, total>>
      /\ pc = "copy" /\ pc' = "row" /\ cpu > Cpus
      /\ delta' = (total - snapshots[id]) % Word
      /\ snapshots' = [snapshots EXCEPT ![id] = total]
  BY DEF TakeDelta, SamplerFrame
<1>2. /\ SampleTypes /\ id \in LogicalId /\ total \in Nat /\ snapshots[id] \in Nat
      /\ Counted(id) \in Nat /\ Sent \in Nat
  <2>1. SampleTypes
    BY DEF TypeInv
  <2>2. id \in LogicalId /\ total \in Nat
    BY <2>1 DEF SampleTypes
  <2> QED BY <2>1, <2>2, SumTypes, SentType
<1>3. snapshots[id] <= total /\ total <= Counted(id)
  <2>1. cpu = Cpus + 1
    BY <1>1, <1>2, StatisticsAssumption DEF SampleTypes
  <2>2. 1 .. cpu - 1 = Cpu /\ cpu .. Cpus = {}
    BY <2>1, StatisticsAssumption DEF Cpu
  <2>3. /\ total <= SumFunctionOnSet(counters[id], Cpu)
        /\ snapshots[id] <= total + SumFunctionOnSet(counters[id], {})
    BY <1>1, <2>2 DEF CountInv
  <2>4. SumFunctionOnSet(counters[id], {}) = 0
    BY SumEmpty
  <2> QED BY <1>2, <2>3, <2>4 DEF Counted
<1>4. delta' = total - snapshots[id]
  <2>1. Counted(id) <= Sent /\ Sent <= MaxPackets
    BY <1>2 DEF CountInv
  <2>2. total - snapshots[id] \in Nat /\ total - snapshots[id] < Word
    BY <1>2, <1>3, <2>1, StatisticsAssumption, SMT
  <2> QED BY <1>1, <2>2, StatisticsAssumption, SmallModulus
<1>5. ASSUME NEW i \in LogicalId
      PROVE  /\ (Stored(i) + Pending(i) <= snapshots[i])'
             /\ (snapshots[i] <= Counted(i))' /\ (Counted(i) <= Sent)'
  <2>1. /\ Stored(i)' = Stored(i) /\ Counted(i)' = Counted(i) /\ Sent' = Sent
        /\ Rows(sample, i)' = Rows(sample, i)
    BY <1>1 DEF Stored, Counted, Sent, Rows, RowsOf, Packets
  <2>2. Pending(i) = Rows(sample, i)
    <3>1. Pending(i) = Rows(sample, i) + (IF pc = "row" /\ id = i THEN delta ELSE 0)
      BY <1>2, SumTypes
    <3>2. Rows(sample, i) \in Nat
      BY <1>2, SumTypes
    <3> QED BY <1>1, <3>1, <3>2
  <2>3. Pending(i)' = Rows(sample, i) + (IF id = i THEN delta' ELSE 0)
    BY <1>1 DEF Pending, Rows, RowsOf, Packets
  <2>4. /\ Stored(i) \in Nat /\ Rows(sample, i) \in Nat /\ snapshots[i] \in Nat
        /\ Counted(i) \in Nat
    BY <1>2, SumTypes
  <2>5. /\ Stored(i) + Rows(sample, i) <= snapshots[i]
        /\ snapshots[i] <= Counted(i) /\ Counted(i) <= Sent
    BY <2>2 DEF CountInv
  <2>6. CASE i = id
    <3>1. snapshots'[i] = total
      BY <1>1, <1>2, <2>6 DEF SampleTypes
    <3>2. Pending(i)' = Rows(sample, i) + (total - snapshots[id])
      BY <1>4, <2>3, <2>6
    <3>3. Stored(i) + Pending(i)' <= total
      BY <1>2, <2>4, <2>5, <2>6, <3>2, SMT
    <3> QED BY <1>3, <2>1, <2>5, <2>6, <3>1, <3>3
  <2>7. CASE i # id
    <3>1. snapshots'[i] = snapshots[i]
      BY <1>1, <1>2, <2>7 DEF SampleTypes
    <3>2. Pending(i)' = Rows(sample, i)
      BY <2>3, <2>4, <2>7
    <3> QED BY <2>1, <2>5, <3>1, <3>2
  <2> QED BY <2>6, <2>7
<1>6. Sent' <= MaxPackets
  BY <1>1 DEF CountInv, Sent
<1> QED BY <1>1, <1>5, <1>6 DEF CountInv

\* What is new becomes a row.
LEMMA AppendRows ==
    ASSUME NEW s \in Seq(Row), NEW row \in Row, NEW i \in LogicalId
    PROVE  Rows(Append(s, row), i) = Rows(s, i) + (IF row.id = i THEN row.packets ELSE 0)
<1> DEFINE t == Append(s, row)
           n == Len(s)
<1>1. /\ n \in Nat /\ DOMAIN s = 1 .. n /\ DOMAIN t = 1 .. n + 1
      /\ t[n + 1] = row /\ \A r \in 1 .. n : t[r] = s[r]
  OBVIOUS
<1>2. \A r \in 1 .. n : s[r] \in Row
  OBVIOUS
<1> HIDE DEF t, n
<1>3. /\ \A r \in 1 .. n : Packets(s)[r] \in Nat /\ Packets(t)[r] = Packets(s)[r]
      /\ Packets(t)[n + 1] = row.packets /\ row.packets \in Nat
  BY <1>1, <1>2 DEF Packets, Row
<1>4. RowsOf(s, i) \subseteq 1 .. n /\ IsFiniteSet(RowsOf(s, i)) /\ n + 1 \notin RowsOf(s, i)
  <2>1. RowsOf(s, i) \subseteq 1 .. n
    BY <1>1 DEF RowsOf
  <2>2. IsFiniteSet(1 .. n) /\ n + 1 \notin 1 .. n
    BY <1>1, FS_Interval
  <2>3. IsFiniteSet(RowsOf(s, i))
    BY <2>1, <2>2, FS_Subset
  <2> QED BY <2>1, <2>2, <2>3
<1>5. SumFunctionOnSet(Packets(t), RowsOf(s, i)) = Rows(s, i)
  BY <1>3, <1>4, SumSame DEF Rows
<1>6. Rows(s, i) \in Nat
  BY <1>3, <1>4, SumNat DEF Rows
<1>7. CASE row.id = i
  <2>1. RowsOf(t, i) = RowsOf(s, i) \cup {n + 1}
    BY <1>1, <1>7 DEF RowsOf
  <2>2. \A r \in RowsOf(s, i) \cup {n + 1} : Packets(t)[r] \in Nat
    BY <1>3, <1>4
  <2>3. SumFunctionOnSet(Packets(t), RowsOf(s, i) \cup {n + 1})
           = SumFunctionOnSet(Packets(t), RowsOf(s, i)) + Packets(t)[n + 1]
    BY <1>4, <2>2, SumPutIn
  <2> QED BY <1>3, <1>5, <1>7, <2>1, <2>3 DEF Rows, t
<1>8. CASE row.id # i
  <2>1. RowsOf(t, i) = RowsOf(s, i)
    BY <1>1, <1>8 DEF RowsOf
  <2> QED BY <1>5, <1>6, <1>8, <2>1 DEF Rows, t
<1> QED BY <1>7, <1>8

LEMMA AddRowCount ==
    ASSUME TypeInv, SampleTypes', CountInv, AddRow PROVE CountInv'
<1>1. /\ UNCHANGED <<counters, forwarded, stored, snapshots>>
      /\ pc = "row" /\ pc' = "next"
  BY DEF AddRow, SamplerFrame
<1>2. SampleTypes /\ sample \in Seq(Row)
  BY DEF TypeInv, SampleTypes
<1>3. PICK n \in Name :
          /\ sample' = Append(sample, [id |-> id, name |-> n, packets |-> delta])
          /\ [id |-> id, name |-> n, packets |-> delta] \in Row
  BY NewRow
<1>4. ASSUME NEW i \in LogicalId PROVE Pending(i)' = Pending(i)
  <2>1. Rows(sample', i) = Rows(sample, i) + (IF id = i THEN delta ELSE 0)
    BY <1>2, <1>3, AppendRows
  <2>2. Pending(i) = Rows(sample, i) + (IF id = i THEN delta ELSE 0)
    BY <1>1 DEF Pending, Rows, RowsOf, Packets
  <2>3. Pending(i)' = Rows(sample', i) + 0
    BY <1>1 DEF Pending, Rows, RowsOf, Packets
  <2>4. Pending(i) \in Nat
    BY <1>2, SumTypes
  <2> QED BY <2>1, <2>2, <2>3, <2>4
<1>5. \A i \in LogicalId : Pending(i)' <= Pending(i)
  BY <1>2, <1>4, PendingType
<1> QED BY <1>1, <1>5, CountKept


\* An export gives an id no more than the sample has of it.
LEMMA StoredAfter ==
    ASSUME SampleTypes, NEW n \in 0 .. Len(sample), NEW i \in LogicalId, stored' = After(n)
    PROVE  Stored(i)' <= Stored(i) + Rows(sample, i)
<1> DEFINE w == [r \in 1 .. n |-> sample[r].packets]
           key == [r \in 1 .. n |-> sample[r].name]
           R == {r \in 1 .. n : sample[r].id = i}
           x == ByKey(w, R, key, Name)
<1>1. n \in Nat /\ 1 .. n \subseteq DOMAIN sample
  BY SampleRows
<1>2. \A r \in 1 .. n : /\ w[r] \in Nat /\ w[r] = Packets(sample)[r]
                        /\ key[r] \in Name /\ key[r] = sample[r].name
  BY <1>1, SampleRows DEF Packets
<1>3. IsFiniteSet(R) /\ R \subseteq 1 .. n /\ R \subseteq RowsOf(sample, i)
  <2>1. IsFiniteSet(1 .. n)
    BY <1>1, FS_Interval
  <2>2. R \subseteq 1 .. n
    OBVIOUS
  <2>3. IsFiniteSet(R)
    BY <2>1, <2>2, FS_Subset
  <2>4. R \subseteq RowsOf(sample, i)
    BY <1>1 DEF RowsOf
  <2> QED BY <2>2, <2>3, <2>4
<1>4. \A name \in Name : stored'[i][name] = stored[i][name] + x[name]
  <2>1. ASSUME NEW name \in Name
        PROVE  {r \in 1 .. n : sample[r].id = i /\ sample[r].name = name}
                  = {r \in R : key[r] = name}
    OBVIOUS
  <2>2. \A name \in Name :
           stored'[i][name] = stored[i][name] + SumFunctionOnSet(w,
               {r \in 1 .. n : sample[r].id = i /\ sample[r].name = name})
    BY DEF After
  <2> QED BY <2>1, <2>2 DEF ByKey
<1>5. \A r \in R : w[r] \in Nat /\ key[r] \in Name
  BY <1>2, <1>3
<1> HIDE DEF w, key, R
<1>6. SumFunctionOnSet(x, Name) = SumFunctionOnSet(w, R)
  <2>1. IsFiniteSet(R) /\ IsFiniteSet(Name)
    BY <1>3, FiniteSets
  <2>2. \A r \in R : w[r] \in Nat
    BY <1>5
  <2>3. \A r \in R : key[r] \in Name
    BY <1>5
  <2> QED BY <2>1, <2>2, <2>3, SumByKey, SMT
<1>7. \A name \in Name : x[name] \in Nat /\ stored[i][name] \in Nat
  <2>1. ASSUME NEW name \in Name PROVE SumFunctionOnSet(w, {r \in R : key[r] = name}) \in Nat
    <3>1. IsFiniteSet({r \in R : key[r] = name})
      BY <1>3, FS_Subset
    <3> QED BY <1>5, <3>1, SumNat
  <2> QED BY <2>1 DEF SampleTypes, ByKey
<1> HIDE DEF x
<1>8. Stored(i)' = Stored(i) + SumFunctionOnSet(x, Name)
  BY <1>4, <1>7, FiniteSets, SumPlus DEF Stored
<1>9. SumFunctionOnSet(w, R) = SumFunctionOnSet(Packets(sample), R)
  <2>1. \A r \in R : w[r] \in Nat /\ Packets(sample)[r] = w[r]
    BY <1>2, <1>3
  <2> QED BY <1>3, <2>1, SumSame
<1>10. SumFunctionOnSet(Packets(sample), R) <= Rows(sample, i)
  <2>1. IsFiniteSet(RowsOf(sample, i)) /\ \A r \in RowsOf(sample, i) : Packets(sample)[r] \in Nat
    BY SampleRows, FS_Subset DEF RowsOf, Packets
  <2> QED BY <1>3, <2>1, SumPart DEF Rows
<1>11. SumFunctionOnSet(Packets(sample), R) \in Nat
  <2>1. \A r \in R : Packets(sample)[r] \in Nat
    BY <1>2, <1>3
  <2> QED BY <1>3, <2>1, SumNat
<1> QED BY <1>6, <1>8, <1>9, <1>10, <1>11, SumTypes, SMT

LEMMA ExportCount ==
    ASSUME TypeInv, SampleTypes', CountInv, ExportReturns PROVE CountInv'
<1>1. /\ UNCHANGED <<counters, forwarded, snapshots>>
      /\ pc = "export" /\ pc' = "top" /\ sample' = <<>>
  BY DEF ExportReturns, SamplerFrame
<1>2. SampleTypes
  BY DEF TypeInv
<1>5. (\A i \in LogicalId : Stored(i) \in Nat /\ Pending(i) \in Nat)'
  BY PendingTypeNext
<1>3. ASSUME NEW i \in LogicalId
      PROVE  /\ (Stored(i) + Pending(i) <= snapshots[i])'
             /\ (snapshots[i] <= Counted(i))' /\ (Counted(i) <= Sent)'
  <2>1. Pending(i) = Rows(sample, i) /\ Rows(sample, i) \in Nat
    <3>1. Pending(i) = Rows(sample, i) + (IF pc = "row" /\ id = i THEN delta ELSE 0)
             /\ Rows(sample, i) \in Nat
      BY <1>2, SumTypes
    <3> QED BY <1>1, <3>1
  <2>2. Pending(i)' = 0
    <3>1. RowsOf(sample', i) = {}
      BY <1>1 DEF RowsOf
    <3>2. Rows(sample', i) = 0
      BY <3>1, SumEmpty DEF Rows
    <3>3. Pending(i)' = Rows(sample', i) + 0
      BY <1>1 DEF Pending, Rows, RowsOf, Packets
    <3> QED BY <3>2, <3>3
  <2>3. Stored(i)' <= Stored(i) + Rows(sample, i)
    BY <1>2, StoredAfter DEF ExportReturns
  <2>4. Stored(i)' \in Nat /\ Stored(i) \in Nat /\ snapshots[i] \in Nat
    <3>1. \A j \in LogicalId : Stored(j)' \in Nat
      BY <1>5
    <3> QED BY <1>2, <3>1, SumTypes
  <2>5. Counted(i)' = Counted(i) /\ Sent' = Sent /\ snapshots'[i] = snapshots[i]
    BY <1>1 DEF Counted, Sent
  <2>6. /\ Stored(i) + Rows(sample, i) <= snapshots[i]
        /\ snapshots[i] <= Counted(i) /\ Counted(i) <= Sent
    BY <2>1 DEF CountInv
  <2>7. Stored(i)' + 0 <= snapshots[i]
    BY <2>1, <2>3, <2>4, <2>6, SMT
  <2> QED BY <2>2, <2>5, <2>6, <2>7
<1>4. Sent' <= MaxPackets
  BY <1>1 DEF CountInv, Sent
<1> QED BY <1>1, <1>3, <1>4 DEF CountInv

\* A sample that begins forgets the rows of the one before.
LEMMA BeginCount ==
    ASSUME TypeInv, SampleTypes', CountInv, BeginSample PROVE CountInv'
<1>1. /\ UNCHANGED <<counters, forwarded, stored, snapshots>>
      /\ pc' = "next" /\ sample' = <<>>
  BY DEF BeginSample, SamplerFrame
<1>2. ASSUME NEW i \in LogicalId PROVE Pending(i)' <= Pending(i)
  <2>1. RowsOf(sample', i) = {}
    BY <1>1 DEF RowsOf
  <2>2. Rows(sample', i) = 0
    BY <2>1, SumEmpty DEF Rows
  <2>3. Pending(i)' = Rows(sample', i) + 0
    BY <1>1 DEF Pending, Rows, RowsOf, Packets
  <2>4. Pending(i) \in Nat
    BY SumTypes DEF TypeInv
  <2> QED BY <2>2, <2>3, <2>4
<1> QED BY <1>1, <1>2, CountKept

\* Of the other steps, some take the sampler elsewhere, and none touches its books.
LEMMA QuietCount ==
    ASSUME TypeInv, SampleTypes', CountInv,
           UNCHANGED <<counters, forwarded, stored, snapshots, sample, id, total, cpu, delta>>,
           pc' = pc \/ pc' \notin {"copy", "row"}
    PROVE  CountInv'
<1>1. ASSUME NEW i \in LogicalId PROVE Pending(i)' <= Pending(i)
  <2>1. SampleTypes
    BY DEF TypeInv
  <2>2. /\ Pending(i) = Rows(sample, i) + (IF pc = "row" /\ id = i THEN delta ELSE 0)
        /\ Rows(sample, i) \in Nat /\ delta \in Nat
    BY <2>1, SumTypes DEF SampleTypes
  <2>3. Pending(i)' = Rows(sample, i) + (IF pc' = "row" /\ id = i THEN delta ELSE 0)
    BY DEF Pending, Rows, RowsOf, Packets
  <2> QED BY <2>2, <2>3
<1> QED BY <1>1, CountKept

LEMMA CountStep == ASSUME TypeInv, CountInv, [Next]_vars PROVE CountInv'
<1>1. SampleTypes'
  BY SampleTypesStep
<1>2. CASE MainMoves
  <2>1. /\ UNCHANGED <<counters, forwarded, stored, snapshots, sample, id, total, cpu, delta>>
        /\ pc' = pc \/ pc' \notin {"copy", "row"}
    BY <1>2, MainFrame DEF WorkerFrame, sample_vars
  <2> QED BY <1>1, <2>1, QuietCount
<1>3. CASE SamplerStep
  <2>1. CASE WorkerTop \/ SkipSession \/ ReadFaults \/ EndSample
    <3>1. /\ UNCHANGED <<counters, forwarded, stored, snapshots, sample, id, total, cpu, delta>>
          /\ pc' = pc \/ pc' \notin {"copy", "row"}
      BY <2>1 DEF WorkerTop, SkipSession, ReadFaults, EndSample, SamplerFrame, sample_vars
    <3> QED BY <1>1, <3>1, QuietCount
  <2> QED BY <1>1, <1>3, <2>1, BeginCount, NextSessionCount, CopyCount, TakeDeltaCount, AddRowCount,
          ExportCount DEF SamplerStep
<1>4. CASE \E i \in LogicalId, c \in Cpu : Forward(i, c)
  BY <1>1, <1>4, ForwardCount
<1>5. CASE UNCHANGED vars
  <2>1. /\ UNCHANGED <<counters, forwarded, stored, snapshots, sample, id, total, cpu, delta>>
        /\ pc' = pc
    BY <1>5 DEF vars, sample_vars
  <2> QED BY <1>1, <2>1, QuietCount
<1> QED BY <1>2, <1>3, <1>4, <1>5 DEF Next, MainMoves

LEMMA CountedFromInv == ASSUME TypeInv, CountInv PROVE CountedOnce
<1>1. SampleTypes
  BY DEF TypeInv
<1>2. ASSUME NEW i \in LogicalId PROVE Stored(i) + Pending(i) <= Counted(i)
  <2>1. /\ Stored(i) \in Nat /\ Pending(i) \in Nat /\ snapshots[i] \in Nat
        /\ Counted(i) \in Nat
    BY <1>1, SumTypes
  <2>2. Stored(i) + Pending(i) <= snapshots[i] /\ snapshots[i] <= Counted(i)
    BY DEF CountInv
  <2> QED BY <2>1, <2>2, SMT
<1> QED BY <1>2 DEF CountedOnce, Stored, Counted

LEMMA AlwaysCounted == Spec => [](TypeInv /\ CountInv)
<1>1. TypeInv /\ CountInv /\ [Next]_vars => (TypeInv /\ CountInv)'
  BY TypeInvStep, CountStep
<1> QED BY <1>1, TypeInvInit, CountInit, PTL DEF Spec

\* No packet is reported twice, for any number of CPUs, backends and samples, however the
\* counting, the copying and the failing exports interleave.
THEOREM PacketsCountedOnce == Spec => []CountedOnce
<1>1. TypeInv /\ CountInv => CountedOnce
  BY CountedFromInv
<1> QED BY <1>1, AlwaysCounted, PTL


-----------------------------------------------------------------------------
(* Who the rows are about.                                                 *)

Totals == [i \in LogicalId |-> Counted(i)]
Mine(p) == {i \in OwnIds : backends_map[i].addr = p}

\* An id of its own names one backend for ever: what is stored and sampled of it is under
\* that name, and what is counted of it went there.  Before it is given, nothing is.
OwnInv ==
    /\ \A i \in LogicalId :
          i >= next_logical_id => /\ \A c \in Cpu : counters[i][c] = 0
                                  /\ \A n \in Name : stored[i][n] = 0
    /\ \A i \in OwnIds, n \in Peer : stored[i][Known(n)] # 0 => backends_map[i].addr = n
    /\ \A r \in DOMAIN sample :
          /\ sample[r].id < next_logical_id
          /\ \A n \in Peer : sample[r].id \in OwnIds /\ sample[r].name = Known(n) =>
                 backends_map[sample[r].id].addr = n
    /\ \A p \in Peer : SumFunctionOnSet(Totals, Mine(p)) <= forwarded[p]

LEMMA MineTypes ==
    ASSUME SampleTypes, NEW p \in Peer
    PROVE  /\ Mine(p) \in SUBSET LogicalId /\ IsFiniteSet(Mine(p))
           /\ \A i \in Mine(p) : Totals[i] \in Nat /\ Totals[i] = Counted(i)
           /\ SumFunctionOnSet(Totals, Mine(p)) \in Nat
<1>1. Mine(p) \in SUBSET LogicalId
  BY DEF Mine, OwnIds
<1>2. IsFiniteSet(Mine(p))
  BY <1>1, FiniteSets, FS_Subset
<1>3. \A i \in Mine(p) : Totals[i] \in Nat /\ Totals[i] = Counted(i)
  BY <1>1, SumTypes DEF Totals
<1> QED BY <1>1, <1>2, <1>3, SumNat

LEMMA OwnInit == Init => OwnInv
<1> SUFFICES ASSUME Init PROVE OwnInv
  OBVIOUS
<1>1. \A f \in Fd : fd_to_id[f] = -1
  BY DEF Init, RegistryInit
<1>2. OwnIds = {}
  BY <1>1, StatisticsAssumption DEF OwnIds, LogicalId
<1>3. DOMAIN sample = {}
  BY DEF Init
<1>4. \A p \in Peer : SumFunctionOnSet(Totals, Mine(p)) <= forwarded[p]
  <2>1. \A p \in Peer : Mine(p) = {} /\ forwarded[p] = 0
    BY <1>2 DEF Mine, Init
  <2>2. SumFunctionOnSet(Totals, {}) = 0
    BY SumEmpty
  <2> QED BY <2>1, <2>2
<1>5. \A i \in LogicalId : /\ \A c \in Cpu : counters[i][c] = 0
                           /\ \A n \in Name : stored[i][n] = 0
  BY DEF Init
<1> QED BY <1>2, <1>3, <1>4, <1>5 DEF OwnInv

\* Steps that give no id and no name, count nothing and store nothing.
LEMMA OwnKept ==
    ASSUME OwnInv, UNCHANGED <<fd_to_id, next_logical_id, counters, forwarded, stored>>,
           \A i \in LogicalId : backends_map'[i].addr = backends_map[i].addr,
           sample' = sample \/ sample' = <<>>
    PROVE  OwnInv'
<1>1. OwnIds' = OwnIds /\ OwnIds \subseteq LogicalId
  BY DEF OwnIds
<1>2. \A p : Mine(p)' = Mine(p)
  BY <1>1 DEF Mine
<1>3. Totals' = Totals
  BY DEF Totals, Counted
<1>4. \A p \in Peer : SumFunctionOnSet(Totals', Mine(p)') <= forwarded'[p]
  BY <1>2, <1>3 DEF OwnInv
<1>5. \A i \in OwnIds', n \in Peer : stored'[i][Known(n)] # 0 => backends_map'[i].addr = n
  BY <1>1 DEF OwnInv
<1>6. \A r \in DOMAIN sample' :
          /\ sample'[r].id < next_logical_id'
          /\ \A n \in Peer : sample'[r].id \in OwnIds' /\ sample'[r].name = Known(n) =>
                 backends_map'[sample'[r].id].addr = n
  <2>1. CASE sample' = sample
    BY <1>1, <2>1 DEF OwnInv
  <2>2. CASE sample' = <<>>
    BY <2>2
  <2> QED BY <2>1, <2>2
<1>7. \A i \in LogicalId :
          i >= next_logical_id' => /\ \A c \in Cpu : counters'[i][c] = 0
                                   /\ \A n \in Name : stored'[i][n] = 0
  BY DEF OwnInv
<1> QED BY <1>4, <1>5, <1>6, <1>7 DEF OwnInv

\* A registration takes no slot away from an id that is not reused, and an id that is new
\* has no packets yet.
LEMMA FinishOwn ==
    ASSUME TypeInv, OwnInv, FinishRegistration
    PROVE  OwnInv'
<1> DEFINE i0 == fd_to_id'[main_fd]
<1>0. RegInv /\ SampleTypes
  BY DEF TypeInv
<1>1. UNCHANGED <<counters, forwarded, stored, sample>>
  BY DEF FinishRegistration, WorkerFrame, sample_vars
<1>2. /\ fd_to_id \in [Fd -> Nat \cup {-1}] /\ next_logical_id \in Nat
      /\ backends_map \in [LogicalId -> Slot]
      /\ ReusedFds \subseteq Fd
  BY <1>0, StatisticsAssumption DEF RegInv, BookInv, RegistryTypeOK
<1>3. \A i \in OwnIds : i \in OwnIds' /\ backends_map'[i].addr = backends_map[i].addr
  <2> SUFFICES ASSUME NEW f \in Fd \ ReusedFds, fd_to_id[f] \in LogicalId
               PROVE  /\ fd_to_id[f] \in OwnIds'
                      /\ backends_map'[fd_to_id[f]].addr = backends_map[fd_to_id[f]].addr
    BY DEF OwnIds
  <2>1. f # main_fd
    BY <1>0, FinishRegistrationIds DEF LogicalId
  <2>2. fd_to_id'[f] = fd_to_id[f]
    BY <1>0, <2>1, FinishRegistrationIds
  <2>3. fd_to_id[f] # i0
    BY <1>0, <2>1, <2>2, FinishRegistrationIds DEF IdsInv, LogicalId
  <2>4. backends_map'[fd_to_id[f]] = backends_map[fd_to_id[f]]
    BY <1>0, <1>2, <2>3, FinishRegistrationIds
  <2> QED BY <2>2, <2>4 DEF OwnIds
<1>4. \A i \in OwnIds' : i \in OwnIds \/ (i = i0 /\ i = next_logical_id)
  <2> SUFFICES ASSUME NEW f \in Fd \ ReusedFds, fd_to_id'[f] \in LogicalId
               PROVE  \/ fd_to_id'[f] \in OwnIds
                      \/ fd_to_id'[f] = i0 /\ fd_to_id'[f] = next_logical_id
    BY DEF OwnIds
  <2>1. CASE f = main_fd
    BY <1>0, <2>1, FinishRegistrationIds
  <2>2. CASE f # main_fd
    <3>1. fd_to_id'[f] = fd_to_id[f]
      BY <1>0, <2>2, FinishRegistrationIds
    <3> QED BY <3>1 DEF OwnIds
  <2> QED BY <2>1, <2>2
<1>5. next_logical_id <= next_logical_id' /\ next_logical_id' \in Nat
  BY <1>0, FinishRegistrationIds
<1>6. \A i \in LogicalId :
          i >= next_logical_id' => /\ \A c \in Cpu : counters'[i][c] = 0
                                   /\ \A n \in Name : stored'[i][n] = 0
  <2>1. \A i \in LogicalId : i >= next_logical_id' => i >= next_logical_id
    BY <1>2, <1>5 DEF LogicalId
  <2> QED BY <1>1, <2>1 DEF OwnInv
<1>7. \A i \in OwnIds', n \in Peer : stored'[i][Known(n)] # 0 => backends_map'[i].addr = n
  <2> SUFFICES ASSUME NEW i \in OwnIds', NEW n \in Peer, stored'[i][Known(n)] # 0
               PROVE  backends_map'[i].addr = n
    OBVIOUS
  <2>1. i \in LogicalId /\ Known(n) \in Name
    BY DEF OwnIds, Name, Known
  <2>2. CASE i \in OwnIds
    BY <1>1, <1>3, <2>2 DEF OwnInv
  <2>3. CASE i = next_logical_id
    <3>1. stored[i][Known(n)] = 0
      BY <1>2, <2>1, <2>3 DEF OwnInv
    <3> QED BY <1>1, <3>1
  <2> QED BY <1>4, <2>2, <2>3
<1>8. \A r \in DOMAIN sample' :
          /\ sample'[r].id < next_logical_id'
          /\ \A n \in Peer : sample'[r].id \in OwnIds' /\ sample'[r].name = Known(n) =>
                 backends_map'[sample'[r].id].addr = n
  <2> SUFFICES ASSUME NEW r \in DOMAIN sample
               PROVE  /\ sample[r].id < next_logical_id'
                      /\ \A n \in Peer : sample[r].id \in OwnIds' /\ sample[r].name = Known(n)
                            => backends_map'[sample[r].id].addr = n
    BY <1>1
  <2>1. sample[r].id \in LogicalId /\ sample[r].id < next_logical_id
    BY <1>0, SampleRows DEF OwnInv
  <2>2. sample[r].id < next_logical_id' /\ sample[r].id # next_logical_id
    BY <1>2, <1>5, <2>1 DEF LogicalId
  <2>3. sample[r].id \in OwnIds' => sample[r].id \in OwnIds
    BY <1>4, <2>2
  <2> QED BY <1>3, <2>2, <2>3 DEF OwnInv
<1>9. ASSUME NEW p \in Peer PROVE SumFunctionOnSet(Totals', Mine(p)') <= forwarded'[p]
  <2>1. Totals' = Totals
    BY <1>1 DEF Totals, Counted
  <2>2. SumFunctionOnSet(Totals, Mine(p)) <= forwarded[p]
    BY DEF OwnInv
  <2>3. CASE i0 \in Mine(p)' /\ i0 \notin Mine(p)
    <3>1. i0 \in OwnIds' /\ i0 \in LogicalId
      BY <2>3 DEF Mine, OwnIds
    <3>2. i0 \notin OwnIds
      BY <1>3, <2>3 DEF Mine
    <3>3. Mine(p)' = Mine(p) \cup {i0}
      <4>1. Mine(p) \subseteq Mine(p)'
        BY <1>3 DEF Mine
      <4>2. Mine(p)' \subseteq Mine(p) \cup {i0}
        BY <1>3, <1>4 DEF Mine
      <4> QED BY <2>3, <4>1, <4>2
    <3>4. Totals[i0] = 0
      <4>1. i0 = next_logical_id
        BY <1>4, <3>1, <3>2
      <4>2. \A c \in Cpu : counters[i0][c] = 0
        BY <1>2, <3>1, <4>1 DEF OwnInv
      <4>3. Counted(i0) = 0
        BY <4>2, FiniteSets, SumZero DEF Counted
      <4> QED BY <3>1, <4>3 DEF Totals
    <3>5. /\ IsFiniteSet(Mine(p)) /\ \A i \in Mine(p) \cup {i0} : Totals[i] \in Nat
          /\ SumFunctionOnSet(Totals, Mine(p)) \in Nat
      BY <1>0, <3>4, MineTypes
    <3> HIDE DEF i0
    <3>6. SumFunctionOnSet(Totals, Mine(p) \cup {i0})
             = SumFunctionOnSet(Totals, Mine(p)) + Totals[i0]
      BY <2>3, <3>5, SumPutIn
    <3> QED BY <1>1, <2>1, <2>2, <3>3, <3>4, <3>5, <3>6
  <2>4. CASE i0 \notin Mine(p)' \/ i0 \in Mine(p)
    <3>1. Mine(p)' = Mine(p)
      <4>1. Mine(p) \subseteq Mine(p)'
        BY <1>3 DEF Mine
      <4>2. Mine(p)' \subseteq Mine(p)
        BY <1>3, <1>4, <2>4 DEF Mine
      <4> QED BY <4>1, <4>2
    <3> QED BY <1>1, <2>1, <2>2, <3>1
  <2> QED BY <2>3, <2>4
<1> QED BY <1>6, <1>7, <1>8, <1>9 DEF OwnInv


\* A packet is counted for the backend it goes to.
LEMMA ForwardOwn ==
    ASSUME TypeInv, SampleTypes', OwnInv, NEW i \in LogicalId, NEW c \in Cpu, Forward(i, c)
    PROVE  OwnInv'
<1> DEFINE addr == backends_map[i].addr
<1>0. SampleTypes /\ addr \in Peer
  BY ForwardEffect DEF TypeInv
<1>1. UNCHANGED <<fd_to_id, next_logical_id, backends_map, stored, sample>>
  BY ForwardEffect DEF registry_vars, id_vars, sample_vars
<1>2. OwnIds' = OwnIds /\ \A p : Mine(p)' = Mine(p)
  BY <1>1 DEF OwnIds, Mine
<1>3. \A j \in LogicalId :
          j >= next_logical_id' => /\ \A d \in Cpu : counters'[j][d] = 0
                                   /\ \A n \in Name : stored'[j][n] = 0
  <2> SUFFICES ASSUME NEW j \in LogicalId, j >= next_logical_id
               PROVE  /\ \A d \in Cpu : counters'[j][d] = 0
                      /\ \A n \in Name : stored'[j][n] = 0
    BY <1>1
  <2>1. i < next_logical_id
    BY ForwardEffect
  <2>2. j # i
    BY <2>1 DEF LogicalId, TypeInv, RegInv, BookInv, RegistryTypeOK
  <2>3. counters'[j] = counters[j]
    BY <2>2, ForwardValues
  <2> QED BY <1>1, <2>3 DEF OwnInv
<1>4. ASSUME NEW p \in Peer PROVE SumFunctionOnSet(Totals', Mine(p)') <= forwarded'[p]
  <2>1. \A j \in LogicalId : Counted(j) \in Nat /\ Counted(j)' \in Nat
    BY <1>0, CountedTypeNext
  <2>2. \A j \in LogicalId \ {i} : Counted(j)' = Counted(j)
    BY ForwardValues DEF Counted
  <2>3. Counted(i)' = Counted(i) + 1
    <3>1. \A d \in Cpu : counters[i][d] \in Nat /\ counters'[i][d] \in Nat
      BY <1>0, ForwardEffect DEF SampleTypes
    <3>2. /\ counters'[i][c] = counters[i][c] + 1
          /\ \A d \in Cpu \ {c} : counters'[i][d] = counters[i][d]
      BY ForwardValues
    <3>3. Counted(i)' + counters[i][c] = Counted(i) + counters'[i][c]
      BY <3>1, <3>2, FiniteSets, SumChange DEF Counted
    <3>4. counters[i][c] \in Nat
      BY <3>1
    <3> QED BY <2>1, <3>2, <3>3, <3>4, SMT
  <2>4. /\ IsFiniteSet(Mine(p)) /\ Mine(p) \in SUBSET LogicalId
        /\ SumFunctionOnSet(Totals, Mine(p)) \in Nat
        /\ forwarded[p] \in Nat /\ forwarded'[p] \in Nat
    BY <1>0, MineTypes, ForwardEffect DEF SampleTypes
  <2>5. \A j \in Mine(p) : /\ Totals[j] \in Nat /\ Totals[j] = Counted(j)
                           /\ Totals'[j] \in Nat /\ Totals'[j] = Counted(j)'
    BY <2>1, <2>4 DEF Totals
  <2>6. SumFunctionOnSet(Totals, Mine(p)) <= forwarded[p]
    BY DEF OwnInv
  <2>7. CASE i \in Mine(p)
    <3>1. p = addr
      BY <2>7 DEF Mine
    <3>2. forwarded'[p] = forwarded[p] + 1
      BY <3>1, ForwardValues
    <3>3. \A j \in Mine(p) \ {i} : Totals'[j] = Totals[j]
      BY <2>2, <2>4, <2>5
    <3>4. SumFunctionOnSet(Totals', Mine(p)) + Totals[i] = SumFunctionOnSet(Totals, Mine(p)) + Totals'[i]
      BY <2>4, <2>5, <2>7, <3>3, SumChange
    <3>5. Totals'[i] = Totals[i] + 1 /\ Totals[i] \in Nat
      BY <2>3, <2>5, <2>7
    <3>6. SumFunctionOnSet(Totals', Mine(p)) \in Nat
      BY <2>4, <2>5, SumNat
    <3> QED BY <1>2, <2>4, <2>6, <3>2, <3>4, <3>5, <3>6, SMT
  <2>8. CASE i \notin Mine(p)
    <3>1. \A j \in Mine(p) : Totals'[j] = Totals[j]
      BY <2>2, <2>4, <2>5, <2>8
    <3>2. SumFunctionOnSet(Totals', Mine(p)) = SumFunctionOnSet(Totals, Mine(p))
      BY <2>4, <2>5, <3>1, SumSame
    <3>3. forwarded[p] <= forwarded'[p]
      <4>1. CASE p = addr
        BY <2>4, <4>1, ForwardValues
      <4>2. CASE p # addr
        BY <2>4, <4>2, ForwardValues
      <4> QED BY <4>1, <4>2
    <3> QED BY <1>2, <2>4, <2>6, <3>2, <3>3, SMT
  <2> QED BY <2>7, <2>8
<1>5. /\ \A j \in OwnIds', n \in Peer : stored'[j][Known(n)] # 0 => backends_map'[j].addr = n
      /\ \A r \in DOMAIN sample' :
            /\ sample'[r].id < next_logical_id'
            /\ \A n \in Peer : sample'[r].id \in OwnIds' /\ sample'[r].name = Known(n) =>
                   backends_map'[sample'[r].id].addr = n
  BY <1>1, <1>2 DEF OwnInv
<1> QED BY <1>3, <1>4, <1>5 DEF OwnInv

\* The name in a row is that of the session of the descriptor whose id was sampled.
LEMMA AddRowOwn ==
    ASSUME TypeInv, OwnInv, AddRow PROVE OwnInv'
<1>0. RegInv /\ SampleTypes /\ ReadInv
  BY DEF TypeInv
<1>1. /\ UNCHANGED <<fd_to_id, next_logical_id, backends_map, counters, forwarded, stored>>
      /\ pc = "row"
  BY DEF AddRow, SamplerFrame, registry_vars, id_vars
<1>2. PICK n \in Name : /\ n \in Names
                        /\ sample' = Append(sample, [id |-> id, name |-> n, packets |-> delta])
  BY NewRow
<1>3. fd \in Fd /\ fd_to_id[fd] = id /\ id \in LogicalId
  BY <1>0, <1>1 DEF ReadInv, SampleTypes
<1>4. id < next_logical_id
  BY <1>0, <1>3 DEF RegInv, IdsInv
<1>5. \A p \in Peer : id \in OwnIds /\ n = Known(p) => backends_map[id].addr = p
  <2> SUFFICES ASSUME NEW p \in Peer, id \in OwnIds, n = Known(p)
               PROVE  backends_map[id].addr = p
    OBVIOUS
  <2>1. found /\ ~freed /\ p = session_mapping[fd].addr
    <3>1. ~(found /\ freed)
      BY <1>2 DEF Names, Known
    <3>2. n = [about |-> IF found THEN session_mapping[fd].addr ELSE NoPeer, freed |-> FALSE]
      BY <1>2, <3>1 DEF Names
    <3>3. p = IF found THEN session_mapping[fd].addr ELSE NoPeer
      BY <3>2 DEF Known
    <3> QED BY <3>1, <3>3, RegistryAssumption
  <2>2. HasSession(fd)
    BY <1>0, <1>1, <2>1 DEF ReadInv
  <2>3. fd \notin ReusedFds
    <3>1. PICK f \in Fd \ ReusedFds : fd_to_id[f] = id
      BY DEF OwnIds
    <3>2. f = fd
      BY <1>0, <1>3, <3>1 DEF RegInv, IdsInv, LogicalId
    <3> QED BY <3>1, <3>2
  <2> QED BY <1>0, <1>3, <2>1, <2>2, <2>3 DEF RegInv, SlotsInv
<1>6. \A r \in DOMAIN sample' :
          /\ sample'[r].id < next_logical_id
          /\ \A p \in Peer : sample'[r].id \in OwnIds /\ sample'[r].name = Known(p) =>
                 backends_map[sample'[r].id].addr = p
  <2> SUFFICES ASSUME NEW r \in DOMAIN sample'
               PROVE  /\ sample'[r].id < next_logical_id
                      /\ \A p \in Peer : sample'[r].id \in OwnIds /\ sample'[r].name = Known(p)
                             => backends_map[sample'[r].id].addr = p
    OBVIOUS
  <2>1. \/ r \in DOMAIN sample /\ sample'[r] = sample[r]
        \/ sample'[r] = [id |-> id, name |-> n, packets |-> delta]
    <3>1. sample \in Seq(Row)
      BY <1>0 DEF SampleTypes
    <3> QED BY <1>2, <3>1
  <2>2. CASE r \in DOMAIN sample /\ sample'[r] = sample[r]
    BY <2>2 DEF OwnInv
  <2>3. CASE sample'[r] = [id |-> id, name |-> n, packets |-> delta]
    BY <1>4, <1>5, <2>3
  <2> QED BY <2>1, <2>2, <2>3
<1>7. OwnIds' = OwnIds /\ Totals' = Totals /\ \A p : Mine(p)' = Mine(p)
  BY <1>1 DEF OwnIds, Totals, Counted, Mine
<1> QED BY <1>1, <1>6, <1>7 DEF OwnInv

\* What an export stores of an id is under the names of its rows.
LEMMA ExportOwn ==
    ASSUME TypeInv, OwnInv, ExportReturns PROVE OwnInv'
<1>0. SampleTypes
  BY DEF TypeInv
<1>1. /\ UNCHANGED <<fd_to_id, next_logical_id, backends_map, counters, forwarded>>
      /\ sample' = <<>>
  BY DEF ExportReturns, SamplerFrame, registry_vars, id_vars
<1>2. PICK n \in 0 .. Len(sample) : stored' = After(n)
  BY DEF ExportReturns
<1>3. 1 .. n \subseteq DOMAIN sample
  BY <1>0, SampleRows
<1>4. ASSUME NEW i \in LogicalId, NEW name \in Name,
             \A r \in DOMAIN sample : ~(sample[r].id = i /\ sample[r].name = name)
      PROVE  stored'[i][name] = stored[i][name]
  <2>1. {r \in 1 .. n : sample[r].id = i /\ sample[r].name = name} = {}
    BY <1>3, <1>4
  <2>2. stored'[i][name] = stored[i][name]
           + SumFunctionOnSet([r \in 1 .. n |-> sample[r].packets],
                {r \in 1 .. n : sample[r].id = i /\ sample[r].name = name})
    BY <1>2 DEF After
  <2>3. SumFunctionOnSet([r \in 1 .. n |-> sample[r].packets], {}) = 0
    BY SumEmpty
  <2>4. stored'[i][name] = stored[i][name]
           + SumFunctionOnSet([r \in 1 .. n |-> sample[r].packets], {})
    BY <2>1, <2>2, Zenon
  <2>5. stored[i][name] \in Nat
    BY <1>0 DEF SampleTypes
  <2> QED BY <2>3, <2>4, <2>5
<1>5. OwnIds' = OwnIds /\ Totals' = Totals /\ \A p : Mine(p)' = Mine(p)
  BY <1>1 DEF OwnIds, Totals, Counted, Mine
<1>6. \A i \in LogicalId :
          i >= next_logical_id' => /\ \A c \in Cpu : counters'[i][c] = 0
                                   /\ \A name \in Name : stored'[i][name] = 0
  <2> SUFFICES ASSUME NEW i \in LogicalId, i >= next_logical_id, NEW name \in Name
               PROVE  stored'[i][name] = 0
    BY <1>1 DEF OwnInv
  <2>1. \A r \in DOMAIN sample : sample[r].id # i
    <3>1. \A r \in DOMAIN sample : sample[r].id < next_logical_id /\ sample[r].id \in LogicalId
      BY <1>0, SampleRows DEF OwnInv
    <3>2. next_logical_id \in Nat
      BY DEF TypeInv, RegInv, BookInv, RegistryTypeOK
    <3> QED BY <3>1, <3>2 DEF LogicalId
  <2> QED BY <1>4, <2>1 DEF OwnInv
<1>7. \A i \in OwnIds, p \in Peer : stored'[i][Known(p)] # 0 => backends_map[i].addr = p
  <2> SUFFICES ASSUME NEW i \in OwnIds, NEW p \in Peer, stored'[i][Known(p)] # 0
               PROVE  backends_map[i].addr = p
    OBVIOUS
  <2>1. i \in LogicalId /\ Known(p) \in Name
    BY DEF OwnIds, Name, Known
  <2>2. CASE \A r \in DOMAIN sample : ~(sample[r].id = i /\ sample[r].name = Known(p))
    BY <1>4, <2>1, <2>2 DEF OwnInv
  <2>3. CASE \E r \in DOMAIN sample : sample[r].id = i /\ sample[r].name = Known(p)
    BY <2>3 DEF OwnInv
  <2> QED BY <2>2, <2>3
<1> QED BY <1>1, <1>5, <1>6, <1>7 DEF OwnInv

LEMMA OwnStep == ASSUME TypeInv, OwnInv, [Next]_vars PROVE OwnInv'
<1>1. SampleTypes' /\ RegInv
  BY SampleTypesStep DEF TypeInv
<1>2. CASE MainMoves
  <2>1. CASE FinishRegistration
    BY <2>1, FinishOwn
  <2>2. CASE ~FinishRegistration
    <3>1. UNCHANGED <<fd_to_id, next_logical_id>>
             /\ \A i \in LogicalId : backends_map'[i].addr = backends_map[i].addr
      <4>1. CASE \E f \in Fd : Close(f)
        BY <1>1, <4>1, CloseEffect
      <4>2. CASE \A f \in Fd : ~Close(f)
        BY <1>2, <2>2, <4>2 DEF MainMoves, MainOwn, LeaveLoop, PeerStep, LoadProgram, Attach,
           StartWorker, LogReturns, Listen, StartRegistration, StopWorker, Join, Detach,
           registry_vars, id_vars
      <4> QED BY <4>1, <4>2
    <3>2. UNCHANGED <<counters, forwarded, stored, sample>>
      BY <1>2, MainFrame DEF WorkerFrame, sample_vars
    <3> QED BY <3>1, <3>2, OwnKept
  <2> QED BY <2>1, <2>2
<1>3. CASE SamplerStep
  <2>1. CASE ~AddRow /\ ~ExportReturns
    <3>1. /\ UNCHANGED <<fd_to_id, next_logical_id, backends_map, counters, forwarded, stored>>
          /\ sample' = sample \/ sample' = <<>>
      BY <1>3, <2>1 DEF SamplerStep, WorkerTop, BeginSample, SkipSession, NextSession,
         CopyCounter, TakeDelta, ReadFaults, EndSample, SamplerFrame, sample_vars,
         registry_vars, id_vars
    <3> QED BY <3>1, OwnKept
  <2> QED BY <2>1, AddRowOwn, ExportOwn
<1>4. CASE \E i \in LogicalId, c \in Cpu : Forward(i, c)
  BY <1>1, <1>4, ForwardOwn
<1>5. CASE UNCHANGED vars
  <2>1. /\ UNCHANGED <<fd_to_id, next_logical_id, backends_map, counters, forwarded, stored>>
        /\ sample' = sample
    BY <1>5 DEF vars, sample_vars, registry_vars, id_vars
  <2> QED BY <2>1, OwnKept
<1> QED BY <1>2, <1>3, <1>4, <1>5 DEF Next, MainMoves

\* What is reported under a name, of ids of their own, is what is reported of the ids of
\* that backend, hence not more than was counted of them, hence went to it.
LEMMA RowsFromInv == ASSUME TypeInv, CountInv, OwnInv PROVE RowsNameTheirBackend
<1>0. SampleTypes
  BY DEF TypeInv
<1> SUFFICES ASSUME NEW p \in Peer
             PROVE  SumFunctionOnSet([i \in LogicalId |-> stored[i][Known(p)]], OwnIds)
                      + SumFunctionOnSet(Packets(sample),
                            {r \in DOMAIN sample :
                                sample[r].name = Known(p) /\ sample[r].id \in OwnIds})
                      <= forwarded[p]
  BY DEF RowsNameTheirBackend, Packets
<1> DEFINE M == Mine(p)
           under == [i \in LogicalId |-> stored[i][Known(p)]]
           all == [i \in LogicalId |-> Stored(i)]
           Rp == {r \in DOMAIN sample : sample[r].name = Known(p) /\ sample[r].id \in OwnIds}
           R == {r \in DOMAIN sample : sample[r].id \in M}
           key == [r \in DOMAIN sample |-> sample[r].id]
           rows == ByKey(Packets(sample), R, key, M)
           both == [i \in LogicalId |-> Stored(i) + Rows(sample, i)]
<1>1. /\ M \in SUBSET LogicalId /\ IsFiniteSet(M) /\ M \subseteq OwnIds
      /\ OwnIds \in SUBSET LogicalId /\ IsFiniteSet(OwnIds)
  <2>1. OwnIds \in SUBSET LogicalId
    BY DEF OwnIds
  <2>2. IsFiniteSet(OwnIds)
    BY <2>1, FiniteSets, FS_Subset
  <2> QED BY <1>0, <2>1, <2>2, MineTypes DEF Mine
<1>2. \A i \in LogicalId : /\ stored[i][Known(p)] \in Nat /\ Stored(i) \in Nat
                           /\ stored[i][Known(p)] <= Stored(i)
                           /\ Rows(sample, i) \in Nat
                           /\ Stored(i) + Rows(sample, i) <= Counted(i)
  <2> SUFFICES ASSUME NEW i \in LogicalId
               PROVE  /\ stored[i][Known(p)] \in Nat /\ Stored(i) \in Nat
                      /\ stored[i][Known(p)] <= Stored(i)
                      /\ Rows(sample, i) \in Nat
                      /\ Stored(i) + Rows(sample, i) <= Counted(i)
    OBVIOUS
  <2>1. Known(p) \in Name /\ \A n \in Name : stored[i][n] \in Nat
    BY <1>0 DEF SampleTypes, Name, Known
  <2>2. Stored(i) = stored[i][Known(p)] + SumFunctionOnSet(stored[i], Name \ {Known(p)})
    BY <2>1, FiniteSets, SumTakeOut DEF Stored
  <2>3. SumFunctionOnSet(stored[i], Name \ {Known(p)}) \in Nat
    <3>1. IsFiniteSet(Name \ {Known(p)})
      BY FiniteSets, FS_Subset
    <3> QED BY <2>1, <3>1, SumNat
  <2>4. /\ Stored(i) \in Nat /\ Rows(sample, i) \in Nat /\ Pending(i) \in Nat
        /\ Counted(i) \in Nat /\ snapshots[i] \in Nat
        /\ Pending(i) = Rows(sample, i) + (IF pc = "row" /\ id = i THEN delta ELSE 0)
    BY <1>0, SumTypes
  <2>5. Rows(sample, i) <= Pending(i)
    <3>1. delta \in Nat
      BY <1>0 DEF SampleTypes
    <3> QED BY <2>4, <3>1
  <2>6. Stored(i) + Pending(i) <= snapshots[i] /\ snapshots[i] <= Counted(i)
    BY DEF CountInv
  <2>7. Stored(i) + Rows(sample, i) <= Counted(i)
    BY <2>4, <2>5, <2>6, SMT
  <2> QED BY <2>1, <2>2, <2>3, <2>4, <2>7
<1>3. SumFunctionOnSet(under, OwnIds) = SumFunctionOnSet(under, M)
  <2>1. \A i \in OwnIds : under[i] \in Nat
    BY <1>1, <1>2
  <2>2. \A i \in OwnIds \ M : under[i] = 0
    BY <1>1 DEF Mine, OwnInv
  <2> HIDE DEF under, M
  <2> QED BY <1>1, <2>1, <2>2, SumSupport
<1>4. SumFunctionOnSet(under, M) <= SumFunctionOnSet(all, M)
  <2>1. \A i \in M : under[i] \in Nat /\ all[i] \in Nat /\ under[i] <= all[i]
    BY <1>1, <1>2
  <2> HIDE DEF under, all, M
  <2> QED BY <1>1, <2>1, SumMonotone
<1>5. /\ IsFiniteSet(R) /\ Rp \in SUBSET R
      /\ \A r \in R : Packets(sample)[r] \in Nat
      /\ \A r \in R : key[r] \in M
  <2>1. IsFiniteSet(R)
    BY <1>0, SampleRows, FS_Subset
  <2>2. Rp \in SUBSET R
    BY DEF OwnInv, Mine
  <2> QED BY <1>0, <2>1, <2>2, SampleRows DEF Packets
<1>6. SumFunctionOnSet(Packets(sample), Rp) <= SumFunctionOnSet(Packets(sample), R)
  BY <1>5, SumPart
<1>7. SumFunctionOnSet(rows, M) = SumFunctionOnSet(Packets(sample), R)
  <2> HIDE DEF R, key, M
  <2> QED BY <1>1, <1>5, SumByKey
<1>8. \A i \in M : rows[i] = Rows(sample, i)
  <2>1. \A i \in M : {r \in R : key[r] = i} = RowsOf(sample, i)
    BY DEF RowsOf
  <2> QED BY <2>1 DEF ByKey, Rows
<1>9. SumFunctionOnSet(both, M) = SumFunctionOnSet(all, M) + SumFunctionOnSet(rows, M)
  <2>1. \A i \in M : all[i] \in Nat /\ rows[i] \in Nat /\ both[i] = all[i] + rows[i]
    BY <1>1, <1>2, <1>8
  <2> HIDE DEF all, rows, both, M
  <2> QED BY <1>1, <2>1, SumPlus
<1>10. SumFunctionOnSet(both, M) <= SumFunctionOnSet(Totals, M)
  <2>1. \A i \in M : both[i] \in Nat /\ Totals[i] \in Nat /\ both[i] <= Totals[i]
    BY <1>0, <1>1, <1>2, MineTypes
  <2> HIDE DEF both, M
  <2> QED BY <1>1, <2>1, SumMonotone
<1>11. SumFunctionOnSet(Totals, M) <= forwarded[p]
  BY DEF OwnInv
<1>12. /\ SumFunctionOnSet(under, M) \in Nat /\ SumFunctionOnSet(all, M) \in Nat
       /\ SumFunctionOnSet(Packets(sample), Rp) \in Nat
       /\ SumFunctionOnSet(Packets(sample), R) \in Nat
       /\ SumFunctionOnSet(Totals, M) \in Nat /\ forwarded[p] \in Nat
  <2>1. \A i \in M : under[i] \in Nat /\ all[i] \in Nat
    BY <1>1, <1>2
  <2>2. IsFiniteSet(Rp) /\ \A r \in Rp : Packets(sample)[r] \in Nat
    BY <1>5, FS_Subset
  <2>3. SumFunctionOnSet(Totals, M) \in Nat /\ forwarded[p] \in Nat
    BY <1>0, MineTypes DEF SampleTypes
  <2> HIDE DEF under, all, M, Rp, R
  <2> QED BY <1>1, <1>5, <2>1, <2>2, <2>3, SumNat
<1> HIDE DEF under, all, rows, both, M, R, Rp
<1> QED BY <1>3, <1>4, <1>6, <1>7, <1>9, <1>10, <1>11, <1>12, SMT DEF under, Rp

\* But for ids that were taken over and sessions that were freed while they were read, a
\* backend is credited with no packet that went to another one, although its session is
\* looked up after its counters were read.
THEOREM RowsCorrect == Spec => []RowsNameTheirBackend
<1>1. TypeInv /\ CountInv /\ OwnInv => RowsNameTheirBackend
  BY RowsFromInv
<1>2. TypeInv /\ OwnInv /\ [Next]_vars => OwnInv'
  BY OwnStep
<1> QED BY <1>1, <1>2, OwnInit, AlwaysCounted, PTL DEF Spec

=============================================================================
