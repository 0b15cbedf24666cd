-------------------------- MODULE EventLoopProofs --------------------------
(***************************************************************************)
(* The safety of EventLoop for every number of descriptors, peers and      *)
(* services, any limits, any mix of messages and faults: types, the         *)
(* registry invariant of RegistryProofs, from which most invariants of the  *)
(* runs follow, the books on the sockets, and why connections are closed.   *)
(***************************************************************************)
EXTENDS EventLoop, RegistryProofs, FiniteSetTheorems

IInv == TypeOK /\ RegistryInv

-----------------------------------------------------------------------------
\* The initial state satisfies the inductive invariant.
LEMMA InitInv == Init => IInv
<1> SUFFICES ASSUME Init PROVE IInv
  OBVIOUS
<1>1. RegistryInv
  BY RegistryInitInv DEF Init
<1>2. <<>> \in Seq(Message)
  OBVIOUS
<1>3. TypeOK
  <2>1. RegistryTypeOK
    BY <1>1 DEF RegistryInv
  <2>2. /\ sock \in [Fd -> Peer \cup {NoPeer}]
        /\ conn \in [Peer -> {"idle", "backlog", "open", "gone", "closed"}]
        /\ stream \in [Peer -> Seq(Message)]
        /\ frames \in Seq(Message)
    BY <1>2 DEF Init
  <2>3. /\ stalled \subseteq Peer /\ conn_map \subseteq Fd /\ pending \subseteq Fd
        /\ batch \subseteq Event /\ cur \in Fd \cup {NoFd}
        /\ add_fails \in Nat /\ active_connections \in Int /\ strays \subseteq Fd
    BY DEF Init
  <2>5. timer_pending \in BOOLEAN /\ running \in BOOLEAN
    BY Zenon DEF Init
  <2>4. pc \in PcValue /\ pc \notin {"decode", "reply", "closeack"}
    BY DEF Init, PcValue
  <2> QED BY <2>1, <2>2, <2>3, <2>4, <2>5 DEF TypeOK
<1> QED BY <1>1, <1>3 DEF IInv

\* A message has the fields its type says.
LEMMA MessageFields ==
    ASSUME NEW m \in Message
    PROVE  /\ m.type = "INIT" => m.service \in Service /\ m.addr \in Peer
           /\ m.type = "REPORT" => m.load \in Load
BY DEF Message, MsgType

\* A batch event of a connection names a descriptor.
LEMMA EventFd ==
    ASSUME NEW e \in Event, e.kind = "conn" PROVE e.fd \in Fd
BY DEF Event

\* The handlers that have a frame to handle serve a descriptor, and the frame
\* is a message.
LEMMA FrameAtHand ==
    ASSUME TypeOK, pc = "decode", frames # <<>>
    PROVE  cur \in Fd /\ Head(frames) \in Message /\ Tail(frames) \in Seq(Message)
BY DEF TypeOK

-----------------------------------------------------------------------------
\* Every step keeps the registry invariant.
LEMMA RegistryStep == ASSUME IInv, Next PROVE RegistryInv'
<1> USE DEF IInv
<1>1. ASSUME NEW fd \in Fd, CloseClient(fd) PROVE RegistryInv'
  BY <1>1, DeregisterInv DEF CloseClient
<1>2. ASSUME UNCHANGED registry_vars PROVE RegistryInv'
  BY <1>2, RegistryStutter
<1>3. CASE PeerNext
  BY <1>2, <1>3 DEF PeerNext, Connect, PeerSend, Hangup, Stall, Resume
<1>4. CASE Second
  <2>1. Refresh
    BY <1>4, AgeSessionsRefresh DEF Second, RegistryInv
  <2> QED BY <2>1, RefreshInv
<1>5. CASE Signal
  BY <1>2, <1>5 DEF Signal
<1>6. CASE LoopTop \/ EpollWait \/ BatchDone
  BY <1>2, <1>6 DEF LoopTop, EpollWait, BatchDone
<1>7. CASE EventNext
  <2> PICK e \in batch : Listen(e) \/ Timer(e) \/ HangupEvent(e) \/ RecvClosed(e) \/ Recv(e)
    BY <1>7 DEF EventNext
  <2>1. CASE Listen(e) \/ Timer(e) \/ Recv(e)
    BY <1>2, <2>1 DEF Listen, Timer, Recv
  <2>2. CASE HangupEvent(e) \/ RecvClosed(e)
    <3>1. e.fd \in Fd
      BY <2>2, EventFd DEF HangupEvent, RecvClosed, TypeOK
    <3> QED BY <1>1, <2>2, <3>1 DEF HangupEvent, RecvClosed
  <2> QED BY <2>1, <2>2
<1>8. CASE AcceptNext
  BY <1>2, <1>8 DEF AcceptNext, Accept, AcceptAddFails, AcceptDone
<1>9. CASE TimerNext
  BY <1>1, <1>2, <1>9
     DEF TimerNext, Expire, SendKeepalive, SendKeepaliveDies, Die, ExpireDone, KeepaliveDone
<1>10. CASE FrameNext
  <2>1. CASE DecodeDone \/ RefuseInit \/ HandleClose \/ UnknownIgnored \/ Reply \/ ReplyDies
    BY <1>2, <2>1 DEF DecodeDone, RefuseInit, HandleClose, UnknownIgnored, Reply, ReplyDies, Die
  <2>2. CASE HandleInit
    <3>1. pc = "decode" /\ frames # <<>> /\ Head(frames).type = "INIT"
      BY <2>2 DEF HandleInit, NextFrame
    <3>2. cur \in Fd /\ Head(frames).service \in Service /\ Head(frames).addr \in Peer
      BY <3>1, FrameAtHand, MessageFields
    <3> QED BY <2>2, <3>2, RegisterInv DEF HandleInit
  <2>3. CASE HandleKeepalive
    <3>1. cur \in Fd
      BY <2>3, FrameAtHand DEF HandleKeepalive, NextFrame
    <3>2. CASE HasSession(cur)
      <4>1. Refresh
        BY <2>3, <3>1, <3>2, UpdateLastSeenRefresh DEF HandleKeepalive, RegistryInv
      <4> QED BY <4>1, RefreshInv
    <3>3. CASE ~HasSession(cur)
      BY <1>2, <2>3, <3>3 DEF HandleKeepalive, registry_vars, session_vars
    <3> QED BY <3>2, <3>3
  <2>4. CASE HandleReport
    <3>1. pc = "decode" /\ frames # <<>> /\ Head(frames).type = "REPORT"
      BY <2>4 DEF HandleReport, NextFrame
    <3>2. cur \in Fd /\ Head(frames).load \in Load
      BY <3>1, FrameAtHand, MessageFields
    <3>3. CASE HasSession(cur)
      <4>1. Refresh
        BY <2>4, <3>2, <3>3, UpdateMetricsRefresh DEF HandleReport, RegistryInv
      <4> QED BY <4>1, RefreshInv
    <3>4. CASE ~HasSession(cur)
      BY <1>2, <2>4, <3>4 DEF HandleReport, registry_vars, session_vars
    <3> QED BY <3>3, <3>4
  <2>5. CASE HandleCloseUnknown \/ UnknownCloses \/ Garbage
    <3>1. cur \in Fd
      BY <2>5, FrameAtHand DEF HandleCloseUnknown, UnknownCloses, Garbage, NextFrame
    <3> QED BY <1>1, <2>5, <3>1 DEF HandleCloseUnknown, UnknownCloses, Garbage
  <2>6. CASE CloseAck
    <3>1. cur \in Fd
      BY <2>6 DEF CloseAck, TypeOK
    <3> QED BY <1>1, <2>6, <3>1 DEF CloseAck
  <2> QED BY <1>10, <2>1, <2>2, <2>3, <2>4, <2>5, <2>6 DEF FrameNext
<1> QED BY <1>3, <1>4, <1>5, <1>6, <1>7, <1>8, <1>9, <1>10 DEF Next, LoopNext

-----------------------------------------------------------------------------
(* Types.  The conjuncts of TypeOK fall into the network's, the counters'  *)
(* and the loop's; each is preserved by every step.                        *)

ConnState == {"idle", "backlog", "open", "gone", "closed"}

NetTypeOK ==
    /\ sock \in [Fd -> Peer \cup {NoPeer}]
    /\ conn \in [Peer -> ConnState]
    /\ stalled \subseteq Peer
    /\ stream \in [Peer -> Seq(Message)]
    /\ add_fails \in Nat
    /\ strays \subseteq Fd

LoopTypeOK ==
    /\ timer_pending \in BOOLEAN
    /\ running \in BOOLEAN
    /\ active_connections \in Int
    /\ conn_map \subseteq Fd
    /\ pc \in PcValue
    /\ batch \subseteq Event
    /\ pending \subseteq Fd
    /\ cur \in Fd \cup {NoFd}
    /\ frames \in Seq(Message)
    /\ pc \in {"decode", "reply", "closeack"} => cur \in Fd
    /\ pc = "closeack" => frames # <<>>

LEMMA TypeParts == TypeOK <=> RegistryTypeOK /\ NetTypeOK /\ LoopTypeOK
BY DEF TypeOK, NetTypeOK, LoopTypeOK, ConnState

\* Closing a socket and leaving the network alone keep its types.
LEMMA CloseSocketType ==
    ASSUME NetTypeOK, NEW fd \in Fd, CloseSocket(fd), UNCHANGED <<add_fails, strays>>
    PROVE  NetTypeOK'
<1>1. <<>> \in Seq(Message)
  OBVIOUS
<1> QED BY <1>1 DEF NetTypeOK, CloseSocket, ConnState

LEMMA NetStutter == ASSUME NetTypeOK, UNCHANGED net_vars PROVE NetTypeOK'
BY DEF NetTypeOK, net_vars

\* Every step keeps the network's types.
LEMMA NetTypeStep == ASSUME NetTypeOK, LoopTypeOK, Next PROVE NetTypeOK'
<1>0. <<>> \in Seq(Message)
  OBVIOUS
<1>1. ASSUME NEW fd \in Fd, CloseClient(fd) PROVE NetTypeOK'
  BY <1>1, CloseSocketType DEF CloseClient
<1>2. CASE PeerNext
  <2> PICK p \in Peer : \/ Connect(p) \/ \E m \in Message : PeerSend(p, m)
                        \/ Hangup(p) \/ Stall(p) \/ Resume(p)
    BY <1>2 DEF PeerNext
  <2>1. CASE Connect(p) \/ Hangup(p) \/ Stall(p) \/ Resume(p)
    BY <2>1 DEF Connect, Hangup, Stall, Resume, NetTypeOK, ConnState
  <2>2. ASSUME NEW m \in Message, PeerSend(p, m) PROVE NetTypeOK'
    <3>1. Append(stream[p], m) \in Seq(Message)
      BY DEF NetTypeOK
    <3>2. stream' \in [Peer -> Seq(Message)]
      BY <2>2, <3>1 DEF PeerSend, NetTypeOK
    <3> QED BY <2>2, <3>2 DEF PeerSend, NetTypeOK
  <2> QED BY <2>1, <2>2
<1>3. CASE Second \/ Signal
  BY <1>3, NetStutter DEF Second, Signal
<1>4. CASE LoopTop
  BY <1>0, <1>4 DEF LoopTop, NetTypeOK, ConnState
<1>5. CASE EpollWait \/ BatchDone
  BY <1>5, NetStutter DEF EpollWait, BatchDone
<1>6. CASE EventNext
  <2> PICK e \in batch : Listen(e) \/ Timer(e) \/ HangupEvent(e) \/ RecvClosed(e) \/ Recv(e)
    BY <1>6 DEF EventNext
  <2>1. CASE Listen(e) \/ Timer(e)
    BY <2>1, NetStutter DEF Listen, Timer
  <2>2. CASE HangupEvent(e) \/ RecvClosed(e)
    <3>1. e.fd \in Fd
      BY <2>2, EventFd DEF HangupEvent, RecvClosed, LoopTypeOK
    <3> QED BY <1>1, <2>2, <3>1 DEF HangupEvent, RecvClosed
  <2>3. CASE Recv(e)
    BY <1>0, <2>3 DEF Recv, NetTypeOK
  <2> QED BY <2>1, <2>2, <2>3
<1>7. CASE AcceptNext
  <2>1. ASSUME NEW p \in Peer, NEW fd \in Fd, Accept(p, fd) PROVE NetTypeOK'
    BY <2>1 DEF Accept, NetTypeOK, ConnState
  <2>2. ASSUME NEW p \in Peer, AcceptAddFails(p) PROVE NetTypeOK'
    BY <1>0, <2>2 DEF AcceptAddFails, NetTypeOK, ConnState
  <2>3. CASE AcceptDone
    BY <2>3, NetStutter DEF AcceptDone
  <2> QED BY <1>7, <2>1, <2>2, <2>3 DEF AcceptNext
<1>8. CASE TimerNext
  BY <1>1, <1>8, NetStutter
     DEF TimerNext, Expire, SendKeepalive, SendKeepaliveDies, Die, ExpireDone, KeepaliveDone
<1>9. CASE FrameNext
  <2>1. CASE HandleCloseUnknown \/ UnknownCloses \/ Garbage \/ CloseAck
    <3>1. cur \in Fd
      BY <2>1 DEF HandleCloseUnknown, UnknownCloses, Garbage, CloseAck, NextFrame, LoopTypeOK
    <3> QED BY <1>1, <2>1, <3>1 DEF HandleCloseUnknown, UnknownCloses, Garbage, CloseAck
  <2>2. CASE \/ DecodeDone \/ RefuseInit \/ HandleKeepalive \/ HandleReport
             \/ HandleClose \/ UnknownIgnored \/ Reply \/ ReplyDies
    BY <2>2, NetStutter
       DEF DecodeDone, RefuseInit, HandleKeepalive, HandleReport,
           HandleClose, UnknownIgnored, Reply, ReplyDies, Die
  <2>3. CASE HandleInit
    <3>1. cur \in Fd
      BY <2>3 DEF HandleInit, NextFrame, LoopTypeOK
    <3> QED BY <2>3, <3>1 DEF HandleInit, NetTypeOK
  <2> QED BY <1>9, <2>1, <2>2, <2>3 DEF FrameNext
<1> QED BY <1>2, <1>3, <1>4, <1>5, <1>6, <1>7, <1>8, <1>9 DEF Next, LoopNext

\* What epoll_wait reports are events.
LEMMA ReadyType == ASSUME NetTypeOK PROVE Ready \subseteq Event
<1> SUFFICES ASSUME NEW e \in Ready PROVE e \in Event
  OBVIOUS
<1>1. CASE e = [kind |-> "timer"] \/ e = [kind |-> "listen"]
  BY <1>1 DEF Event
<1>2. CASE e # [kind |-> "timer"] /\ e # [kind |-> "listen"]
  <2>1. PICK fd \in Fd :
           /\ sock[fd] # NoPeer
           /\ e = [kind |-> "conn", fd |-> fd, hup |-> conn[sock[fd]] = "gone", who |-> sock[fd]]
    BY <1>2 DEF Ready
  <2>2. sock[fd] \in Peer
    <3>1. sock[fd] # NoPeer
      BY <2>1, Zenon
    <3> QED BY <3>1 DEF NetTypeOK
  <2>3. (conn[sock[fd]] = "gone") \in BOOLEAN
    OBVIOUS
  <2> DEFINE h == conn[sock[fd]] = "gone"
  <2>4. e = [kind |-> "conn", fd |-> fd, hup |-> h, who |-> sock[fd]] /\ h \in BOOLEAN
    BY <2>1, <2>3
  <2> HIDE DEF h
  <2>5. e \in [kind : {"conn"}, fd : Fd, hup : BOOLEAN, who : Peer]
    BY <2>2, <2>4
  <2> QED BY <2>5 DEF Event
<1> QED BY <1>1, <1>2

\* Every step keeps the loop's types.
LEMMA LoopTypeStep ==
    ASSUME RegistryTypeOK, NetTypeOK, LoopTypeOK, Next PROVE LoopTypeOK'
<1> USE DEF LoopTypeOK, PcValue
<1>1. CASE PeerNext
  BY <1>1 DEF PeerNext, Connect, PeerSend, Hangup, Stall, Resume, controller_vars, loop_vars
<1>2. CASE Second \/ Signal
  BY <1>2 DEF Second, Signal, controller_vars, loop_vars
<1>3. CASE LoopTop \/ BatchDone
  BY <1>3 DEF LoopTop, BatchDone
<1>4. CASE EpollWait
  BY <1>4, ReadyType DEF EpollWait
<1>5. CASE EventNext
  <2> PICK e \in batch : Listen(e) \/ Timer(e) \/ HangupEvent(e) \/ RecvClosed(e) \/ Recv(e)
    BY <1>5 DEF EventNext
  <2>1. CASE Listen(e)
    BY <2>1 DEF Listen, Take
  <2>2. CASE Timer(e)
    <3>1. ExpiredSessions \subseteq Fd
      BY DEF ExpiredSessions, SessionFds
    <3> QED BY <2>2, <3>1 DEF Timer, Take
  <2>3. CASE HangupEvent(e) \/ RecvClosed(e)
    BY <2>3 DEF HangupEvent, RecvClosed, Take, CloseClient
  <2>4. CASE Recv(e)
    <3>1. e.fd \in Fd
      BY <2>4, EventFd DEF Recv
    <3>2. sock[e.fd] \in Peer
      BY <2>4, <3>1 DEF Recv, RecvCloses, NetTypeOK
    <3> QED BY <2>4, <3>1, <3>2 DEF Recv, Take, NetTypeOK
  <2> QED BY <2>1, <2>2, <2>3, <2>4
<1>6. CASE AcceptNext
  <2>1. ASSUME NEW p \in Peer, NEW fd \in Fd, Accept(p, fd) PROVE LoopTypeOK'
    BY <2>1 DEF Accept, loop_vars
  <2>2. ASSUME NEW p \in Peer, AcceptAddFails(p) PROVE LoopTypeOK'
    BY <2>2 DEF AcceptAddFails, loop_vars
  <2>3. CASE AcceptDone
    BY <2>3 DEF AcceptDone
  <2> QED BY <1>6, <2>1, <2>2, <2>3 DEF AcceptNext
<1>7. CASE TimerNext
  <2>1. ASSUME NEW fd \in Fd, Expire(fd) PROVE LoopTypeOK'
    BY <2>1 DEF Expire, CloseClient
  <2>2. ASSUME NEW fd \in Fd, SendKeepalive(fd) \/ SendKeepaliveDies(fd) PROVE LoopTypeOK'
    BY <2>2 DEF SendKeepalive, SendKeepaliveDies, Die
  <2>3. CASE ExpireDone \/ KeepaliveDone
    BY <2>3 DEF ExpireDone, KeepaliveDone, SessionFds
  <2> QED BY <1>7, <2>1, <2>2, <2>3 DEF TimerNext
<1>8. CASE FrameNext
  <2>1. CASE DecodeDone \/ Reply \/ ReplyDies
    BY <2>1 DEF DecodeDone, Reply, ReplyDies, Die
  <2>2. CASE \/ HandleInit \/ RefuseInit \/ HandleKeepalive \/ HandleReport \/ HandleClose
             \/ UnknownIgnored
    <3>1. cur \in Fd /\ Tail(frames) \in Seq(Message)
      BY <2>2 DEF HandleInit, RefuseInit, HandleKeepalive, HandleReport, HandleClose,
                  UnknownIgnored, NextFrame
    <3> QED BY <2>2, <3>1
            DEF HandleInit, RefuseInit, HandleKeepalive, HandleReport, HandleClose,
                UnknownIgnored, NextFrame, Enter, Continue
  <2>3. CASE HandleCloseUnknown \/ UnknownCloses \/ Garbage
    <3>1. /\ cur \in Fd /\ Tail(frames) \in Seq(Message) /\ <<>> \in Seq(Message)
          /\ pc' \in {"dispatch", "decode", "killed"}
          /\ frames' \in {Tail(frames), <<>>}
          /\ cur' \in {cur, NoFd}
          /\ pc' = "decode" => cur' = cur
      BY <2>3 DEF HandleCloseUnknown, UnknownCloses, Garbage, NextFrame, ContinueFreed
    <3>2. /\ UNCHANGED <<timer_pending, running, batch, pending>>
          /\ active_connections' = active_connections - 1
          /\ conn_map' = conn_map \ {cur}
      BY <2>3 DEF HandleCloseUnknown, UnknownCloses, Garbage, NextFrame, CloseClient
    <3>3. /\ frames' \in Seq(Message) /\ cur' \in Fd \cup {NoFd}
          /\ pc' \in PcValue \ {"closeack"}
          /\ pc' \in {"decode", "reply", "closeack"} => cur' \in Fd
      BY <3>1
    <3>4. /\ active_connections' \in Int /\ conn_map' \subseteq Fd
          /\ batch' \subseteq Event /\ pending' \subseteq Fd
      BY <3>2
    <3>5. timer_pending' \in BOOLEAN /\ running' \in BOOLEAN
      BY <3>2
    <3> QED BY <3>3, <3>4, <3>5
  <2>4. CASE CloseAck
    <3>1. /\ cur \in Fd /\ <<>> \in Seq(Message)
          /\ pc' \in {"dispatch", "decode", "killed"}
          /\ frames' \in {Tail(frames), <<>>}
          /\ cur' \in {cur, NoFd}
          /\ pc' = "decode" => cur' = cur
      BY <2>4 DEF CloseAck, ContinueFreed
    <3>2. /\ UNCHANGED <<timer_pending, running, batch, pending>>
          /\ active_connections' = active_connections - 1
          /\ conn_map' = conn_map \ {cur}
      BY <2>4 DEF CloseAck, CloseClient
    <3>3. Tail(frames) \in Seq(Message)
      BY <2>4 DEF CloseAck
    <3>4. /\ frames' \in Seq(Message) /\ cur' \in Fd \cup {NoFd}
          /\ pc' \in PcValue \ {"closeack"}
          /\ pc' \in {"decode", "reply", "closeack"} => cur' \in Fd
      BY <3>1, <3>3
    <3>5. /\ active_connections' \in Int /\ conn_map' \subseteq Fd
          /\ batch' \subseteq Event /\ pending' \subseteq Fd
      BY <3>2
    <3>6. timer_pending' \in BOOLEAN /\ running' \in BOOLEAN
      BY <3>2
    <3> QED BY <3>4, <3>5, <3>6
  <2> QED BY <1>8, <2>1, <2>2, <2>3, <2>4 DEF FrameNext
<1> QED BY <1>1, <1>2, <1>3, <1>4, <1>5, <1>6, <1>7, <1>8 DEF Next, LoopNext

-----------------------------------------------------------------------------
\* The invariant is inductive.
LEMMA StepInv == IInv /\ [Next]_vars => IInv'
<1> SUFFICES ASSUME IInv, [Next]_vars PROVE IInv'
  OBVIOUS
<1>1. RegistryTypeOK /\ NetTypeOK /\ LoopTypeOK
  BY TypeParts DEF IInv
<1>2. CASE Next
  <2>1. RegistryInv'
    BY <1>2, RegistryStep
  <2>2. RegistryTypeOK'
    BY <2>1 DEF RegistryInv
  <2>3. NetTypeOK'
    BY <1>1, <1>2, NetTypeStep
  <2>4. LoopTypeOK'
    BY <1>1, <1>2, LoopTypeStep
  <2>5. TypeOK'
    BY <2>2, <2>3, <2>4 DEF TypeOK, NetTypeOK, LoopTypeOK, ConnState
  <2> QED BY <2>1, <2>5 DEF IInv
<1>3. CASE UNCHANGED vars
  <2>1. UNCHANGED registry_vars /\ UNCHANGED net_vars
    BY <1>3 DEF vars
  <2>2. RegistryInv'
    BY <2>1, RegistryStutter DEF IInv
  <2>3. NetTypeOK'
    BY <1>1, <2>1, NetStutter
  <2>4. LoopTypeOK'
    BY <1>1, <1>3 DEF vars, loop_vars, LoopTypeOK
  <2>5. TypeOK'
    BY <2>2, <2>3, <2>4 DEF RegistryInv, TypeOK, NetTypeOK, LoopTypeOK, ConnState
  <2> QED BY <2>2, <2>5 DEF IInv
<1> QED BY <1>2, <1>3

LEMMA AlwaysInv == Spec => []IInv
BY InitInv, StepInv, PTL DEF Spec

-----------------------------------------------------------------------------
\* Every variable of the loop keeps its type, the connection being decoded is a
\* descriptor, and a CLOSE_ACK is sent only with its frame still at hand.
THEOREM TypeCorrect == Spec => []TypeOK
<1>1. IInv => TypeOK
  BY DEF IInv
<1> QED BY <1>1, AlwaysInv, PTL

\* The scorer's view of a service is exactly its live sessions, whatever
\* sequence of registrations, disconnects, expiries and reused descriptors, the
\* use of the freed buffer included, led there.
THEOREM GroupsCorrect == Spec => []GroupsMatchSessions
<1>1. IInv => GroupsMatchSessions
  BY DEF IInv, RegistryInv
<1> QED BY <1>1, AlwaysInv, PTL

\* The XDP program's array has an active slot for exactly the descriptors with
\* a session whose id fits, each with the address of its session.
THEOREM MirrorCorrect == Spec => []BackendsMirror
<1>1. IInv => BackendsMirror
  BY DEF IInv, RegistryInv
<1> QED BY <1>1, AlwaysInv, PTL

\* Services have distinct addresses from the block, and a service with a
\* session has one.
THEOREM VipsCorrect == Spec => []VipsDistinct
<1>1. IInv => VipsDistinct
  BY DEF IInv, RegistryInv
<1> QED BY <1>1, AlwaysInv, PTL

-----------------------------------------------------------------------------
\* A step that is no registration closes a descriptor, or leaves slots and
\* addresses alone.
LEMMA SlotsOnlyByClose ==
    ASSUME IInv, Next, ~HandleInit
    PROVE  (\E fd \in Fd : Deregister(fd)) \/ UNCHANGED <<backends_map, service_vips>>
<1> USE DEF registry_vars, vip_vars
<1>1. CASE PeerNext
  BY <1>1 DEF PeerNext, Connect, PeerSend, Hangup, Stall, Resume
<1>2. CASE Second \/ Signal \/ LoopTop \/ EpollWait \/ BatchDone
  BY <1>2 DEF Second, Signal, LoopTop, EpollWait, BatchDone
<1>3. CASE EventNext
  <2> PICK e \in batch : Listen(e) \/ Timer(e) \/ HangupEvent(e) \/ RecvClosed(e) \/ Recv(e)
    BY <1>3 DEF EventNext
  <2>1. CASE Listen(e) \/ Timer(e) \/ Recv(e)
    BY <2>1 DEF Listen, Timer, Recv
  <2>2. CASE HangupEvent(e) \/ RecvClosed(e)
    <3>1. e.fd \in Fd
      BY <2>2, EventFd DEF HangupEvent, RecvClosed, IInv, TypeOK
    <3> QED BY <2>2, <3>1 DEF HangupEvent, RecvClosed, CloseClient
  <2> QED BY <2>1, <2>2
<1>4. CASE AcceptNext
  BY <1>4 DEF AcceptNext, Accept, AcceptAddFails, AcceptDone
<1>5. CASE TimerNext
  BY <1>5 DEF TimerNext, Expire, SendKeepalive, SendKeepaliveDies, Die, ExpireDone,
              KeepaliveDone, CloseClient
<1>6. CASE FrameNext
  <2>1. CASE HandleCloseUnknown \/ UnknownCloses \/ Garbage \/ CloseAck
    <3>1. cur \in Fd
      BY <2>1 DEF HandleCloseUnknown, UnknownCloses, Garbage, CloseAck, NextFrame, IInv, TypeOK
    <3> QED BY <2>1, <3>1 DEF HandleCloseUnknown, UnknownCloses, Garbage, CloseAck, CloseClient
  <2>2. CASE \/ DecodeDone \/ RefuseInit \/ HandleKeepalive \/ HandleReport
             \/ HandleClose \/ UnknownIgnored \/ Reply \/ ReplyDies
    BY <2>2 DEF DecodeDone, RefuseInit, HandleKeepalive, HandleReport, HandleClose,
                UnknownIgnored, Reply, ReplyDies, Die
  <2> QED BY <1>6, <2>1, <2>2 DEF FrameNext
<1> QED BY <1>1, <1>2, <1>3, <1>4, <1>5, <1>6 DEF Next, LoopNext

\* The controller implements the contract packets rely on: a slot is nobody's
\* between two backends, and a service keeps the one address it was given.
THEOREM MembershipImplemented == Spec => ImplementsMembership
<1>1. Init => Contract!Init
  BY MembershipInit DEF Init
<1>2. ASSUME IInv, [Next]_vars PROVE [Contract!Next]_(Contract!vars)
  <2>1. CASE UNCHANGED vars
    BY <2>1, MembershipStutter DEF vars, registry_vars, vip_vars
  <2>2. CASE HandleInit
    <3>1. pc = "decode" /\ frames # <<>> /\ Head(frames).type = "INIT"
      BY <2>2 DEF HandleInit, NextFrame
    <3>2. TypeOK /\ RegistryInv
      BY <1>2 DEF IInv
    <3>3. cur \in Fd /\ Head(frames).service \in Service /\ Head(frames).addr \in Peer
      BY <3>1, <3>2, FrameAtHand, MessageFields
    <3>4. Register(cur, Head(frames).service, Head(frames).addr)
      BY <2>2 DEF HandleInit
    <3> QED BY <3>2, <3>3, <3>4, RegisterStep
  <2>3. CASE Next /\ ~HandleInit
    <3>1. CASE \E fd \in Fd : Deregister(fd)
      BY <1>2, <3>1, DeregisterStep DEF IInv, RegistryInv
    <3>2. CASE UNCHANGED <<backends_map, service_vips>>
      BY <3>2, MembershipStutter
    <3> QED BY <1>2, <2>3, <3>1, <3>2, SlotsOnlyByClose
  <2> QED BY <1>2, <2>1, <2>2, <2>3
<1>3. IInv /\ [Next]_vars => [Contract!Next]_(Contract!vars)
  BY <1>2
<1> QED BY <1>1, <1>3, AlwaysInv, PTL DEF Spec, ImplementsMembership, Contract!Spec

-----------------------------------------------------------------------------
(* What the sockets have to do with the books: the connection counter, and  *)
(* who owns the session of a descriptor the kernel has handed out again.    *)
(* Steps by what they do to the sockets.                                   *)

SocketsKept == UNCHANGED <<sock, add_fails, active_connections>>

\* A loop that has ended or was killed stays so.
LEMMA DownStays == ASSUME Next, Down PROVE Down'
<1> USE DEF Down
<1>1. CASE PeerNext
  BY <1>1 DEF PeerNext, Connect, PeerSend, Hangup, Stall, Resume, controller_vars, loop_vars
<1>2. CASE Second \/ Signal
  BY <1>2 DEF Second, Signal, controller_vars, loop_vars
<1>3. CASE LoopTop \/ EpollWait \/ BatchDone
  BY <1>3 DEF LoopTop, EpollWait, BatchDone
<1>4. CASE EventNext
  BY <1>4 DEF EventNext, Listen, Timer, HangupEvent, RecvClosed, Recv, Take
<1>5. CASE AcceptNext
  BY <1>5 DEF AcceptNext, Accept, AcceptAddFails, AcceptDone
<1>6. CASE TimerNext
  BY <1>6 DEF TimerNext, Expire, SendKeepalive, SendKeepaliveDies, ExpireDone, KeepaliveDone
<1>7. CASE FrameNext
  BY <1>7 DEF FrameNext, DecodeDone, HandleInit, RefuseInit, HandleKeepalive, HandleReport,
              HandleClose, HandleCloseUnknown, UnknownIgnored, UnknownCloses, Garbage,
              NextFrame, Reply, CloseAck, ReplyDies
<1> QED BY <1>1, <1>2, <1>3, <1>4, <1>5, <1>6, <1>7 DEF Next, LoopNext

\* Descriptors are opened by the accepts and closed by close_client and by the
\* end of the loop.
LEMMA SocketSteps ==
    ASSUME TypeOK, Next
    PROVE  \/ SocketsKept
           \/ \E fd \in Fd : CloseClient(fd)
           \/ \E p \in Peer : AcceptAddFails(p) \/ \E fd \in Fd : Accept(p, fd)
           \/ Down'
<1> USE DEF SocketsKept
<1>1. CASE PeerNext
  BY <1>1 DEF PeerNext, Connect, PeerSend, Hangup, Stall, Resume, controller_vars
<1>2. CASE Second \/ Signal
  BY <1>2 DEF Second, Signal, controller_vars, net_vars
<1>3. CASE LoopTop \/ EpollWait \/ BatchDone
  BY <1>3 DEF LoopTop, EpollWait, BatchDone, net_vars, Down
<1>4. CASE EventNext
  <2> PICK e \in batch : Listen(e) \/ Timer(e) \/ HangupEvent(e) \/ RecvClosed(e) \/ Recv(e)
    BY <1>4 DEF EventNext
  <2>1. CASE Listen(e) \/ Timer(e) \/ Recv(e)
    BY <2>1 DEF Listen, Timer, Recv, net_vars
  <2>2. CASE HangupEvent(e) \/ RecvClosed(e)
    BY <2>2, EventFd DEF HangupEvent, RecvClosed, TypeOK
  <2> QED BY <2>1, <2>2
<1>5. CASE AcceptNext
  BY <1>5 DEF AcceptNext, AcceptDone, net_vars
<1>6. CASE TimerNext
  BY <1>6 DEF TimerNext, Expire, SendKeepalive, SendKeepaliveDies, Die, ExpireDone,
              KeepaliveDone, net_vars
<1>7. CASE FrameNext
  <2>1. CASE HandleCloseUnknown \/ UnknownCloses \/ Garbage \/ CloseAck
    <3>1. cur \in Fd
      BY <2>1 DEF HandleCloseUnknown, UnknownCloses, Garbage, CloseAck, NextFrame, TypeOK
    <3> QED BY <2>1, <3>1 DEF HandleCloseUnknown, UnknownCloses, Garbage, CloseAck
  <2>2. CASE \/ DecodeDone \/ HandleInit \/ RefuseInit \/ HandleKeepalive \/ HandleReport
             \/ HandleClose \/ UnknownIgnored \/ Reply \/ ReplyDies
    BY <2>2 DEF DecodeDone, HandleInit, RefuseInit, HandleKeepalive, HandleReport, HandleClose,
                UnknownIgnored, Reply, ReplyDies, Die, net_vars
  <2> QED BY <1>7, <2>1, <2>2 DEF FrameNext
<1> QED BY <1>1, <1>2, <1>3, <1>4, <1>5, <1>6, <1>7 DEF Next, LoopNext

-----------------------------------------------------------------------------
\* The connection counter never runs ahead of the sockets that are open and of
\* what failed epoll_ctl adds leaked: every close_client gives back at least
\* what it closes.
THEOREM CountCorrect == Spec => []CountNotAbove
<1> USE EventLoopAssumption
<1>1. Init => CountNotAbove
  <2> SUFFICES ASSUME Init PROVE CountNotAbove
    OBVIOUS
  <2>1. OpenFds = {}
    BY DEF Init, OpenFds
  <2> QED BY <2>1, FS_EmptySet DEF Init, CountNotAbove
<1>2. ASSUME TypeOK, CountNotAbove, [Next]_vars PROVE CountNotAbove'
  <2>1. IsFiniteSet(OpenFds) /\ Cardinality(OpenFds) \in Nat
    BY FS_Subset, FS_CardinalityType DEF OpenFds
  <2>2. active_connections \in Int /\ add_fails \in Nat
    BY <1>2 DEF TypeOK
  <2> SUFFICES ASSUME ~Down'
               PROVE  active_connections' <= Cardinality(OpenFds') + add_fails'
    BY DEF CountNotAbove
  <2>3. CASE UNCHANGED vars
    BY <1>2, <2>3 DEF vars, net_vars, loop_vars, CountNotAbove, Down, OpenFds
  <2>4. CASE Next
    <3>1. active_connections <= Cardinality(OpenFds) + add_fails
      BY <1>2, <2>4, DownStays DEF CountNotAbove
    <3>2. CASE SocketsKept
      BY <3>1, <3>2 DEF SocketsKept, OpenFds
    <3>3. ASSUME NEW fd \in Fd, CloseClient(fd)
          PROVE  active_connections' <= Cardinality(OpenFds') + add_fails'
      <4>1. OpenFds' = OpenFds \ {fd}
        BY <1>2, <3>3 DEF CloseClient, CloseSocket, OpenFds, TypeOK
      <4>2. Cardinality(OpenFds') = IF fd \in OpenFds THEN Cardinality(OpenFds) - 1
                                                     ELSE Cardinality(OpenFds)
        <5>1. Cardinality(OpenFds \ {fd}) = IF fd \in OpenFds THEN Cardinality(OpenFds) - 1
                                                              ELSE Cardinality(OpenFds)
          BY <2>1, FS_RemoveElement, Zenon
        <5> QED BY <4>1, <5>1
      <4>3. active_connections' = active_connections - 1 /\ add_fails' = add_fails
        BY <3>3 DEF CloseClient
      <4> QED BY <2>1, <2>2, <3>1, <4>2, <4>3
    <3>4. ASSUME NEW p \in Peer, NEW fd \in Fd, Accept(p, fd)
          PROVE  active_connections' <= Cardinality(OpenFds') + add_fails'
      <4>1. OpenFds' = OpenFds \cup {fd} /\ fd \notin OpenFds
        BY <1>2, <3>4, RegistryAssumption DEF Accept, Backlog, OpenFds, TypeOK
      <4>2. Cardinality(OpenFds') = Cardinality(OpenFds) + 1
        <5>1. Cardinality(OpenFds \cup {fd}) = IF fd \in OpenFds THEN Cardinality(OpenFds)
                                                                ELSE Cardinality(OpenFds) + 1
          BY <2>1, FS_AddElement, Zenon
        <5> QED BY <4>1, <5>1
      <4>3. active_connections' = active_connections + 1 /\ add_fails' = add_fails
        BY <3>4 DEF Accept
      <4> QED BY <2>1, <2>2, <3>1, <4>2, <4>3
    <3>5. ASSUME NEW p \in Peer, AcceptAddFails(p)
          PROVE  active_connections' <= Cardinality(OpenFds') + add_fails'
      <4>1. OpenFds' = OpenFds
        BY <3>5 DEF AcceptAddFails, OpenFds
      <4>2. active_connections' = active_connections + 1 /\ add_fails' = add_fails + 1
        BY <3>5 DEF AcceptAddFails
      <4> QED BY <2>1, <2>2, <3>1, <4>1, <4>2
    <3> QED BY <1>2, <2>4, <3>2, <3>3, <3>4, <3>5, SocketSteps
  <2> QED BY <1>2, <2>3, <2>4
<1>3. TypeOK /\ CountNotAbove /\ [Next]_vars => CountNotAbove'
  BY <1>2
<1> QED BY <1>1, <1>3, TypeCorrect, PTL DEF Spec

-----------------------------------------------------------------------------
(* Whose session it is.  SessionOwner is not inductive: a registration is   *)
(* read from a stream and handled from a buffer, and it matters whose they  *)
(* are.                                                                    *)

\* A peer registers its own address.
InitsOwn(seq, p) == \A i \in 1 .. Len(seq) : seq[i].type = "INIT" => seq[i].addr = p

StreamsOwn == \A p \in Peer : InitsOwn(stream[p], p)

\* The buffer being decoded is that of the peer its descriptor is connected to,
\* as long as it is connected.
FramesOwn ==
    pc \in {"decode", "reply", "closeack"} /\ sock[cur] # NoPeer
        => InitsOwn(frames, sock[cur])

OwnerInv == StreamsOwn /\ FramesOwn /\ SessionOwner

LEMMA InitsOwnTail ==
    ASSUME NEW seq \in Seq(Message), NEW p, seq # <<>>, InitsOwn(seq, p)
    PROVE  InitsOwn(Tail(seq), p) /\ (Head(seq).type = "INIT" => Head(seq).addr = p)
<1>1. Head(seq) = seq[1] /\ 1 \in 1 .. Len(seq)
  OBVIOUS
<1>2. \A i \in 1 .. Len(Tail(seq)) : i + 1 \in 1 .. Len(seq) /\ Tail(seq)[i] = seq[i + 1]
  OBVIOUS
<1> QED BY <1>1, <1>2 DEF InitsOwn

LEMMA InitsOwnAppend ==
    ASSUME NEW seq \in Seq(Message), NEW p, NEW m \in Message, InitsOwn(seq, p),
           m.type = "INIT" => m.addr = p
    PROVE  InitsOwn(Append(seq, m), p)
<1>1. \A i \in 1 .. Len(Append(seq, m)) :
        \/ i \in 1 .. Len(seq) /\ Append(seq, m)[i] = seq[i]
        \/ Append(seq, m)[i] = m
  OBVIOUS
<1> QED BY <1>1 DEF InitsOwn

LEMMA InitsOwnEmpty == ASSUME NEW p PROVE InitsOwn(<<>>, p)
BY DEF InitsOwn

\* Streams grow by what their own peer sends and shrink to nothing.
LEMMA StreamsOwnStep == ASSUME TypeOK, StreamsOwn, Next PROVE StreamsOwn'
<1>1. ASSUME \A p \in Peer : stream'[p] \in {stream[p], <<>>} PROVE StreamsOwn'
  BY <1>1, InitsOwnEmpty DEF StreamsOwn
<1>2. ASSUME NEW fd \in Fd, CloseClient(fd) PROVE StreamsOwn'
  BY <1>1, <1>2 DEF CloseClient, CloseSocket
<1>3. CASE PeerNext
  <2> PICK p \in Peer : \/ Connect(p) \/ \E m \in Message : PeerSend(p, m)
                        \/ Hangup(p) \/ Stall(p) \/ Resume(p)
    BY <1>3 DEF PeerNext
  <2>1. CASE Connect(p) \/ Hangup(p) \/ Stall(p) \/ Resume(p)
    BY <1>1, <2>1 DEF Connect, Hangup, Stall, Resume
  <2>2. ASSUME NEW m \in Message, PeerSend(p, m) PROVE StreamsOwn'
    <3>1. stream' = [stream EXCEPT ![p] = Append(stream[p], m)] /\ (m.type = "INIT" => m.addr = p)
      BY <2>2 DEF PeerSend
    <3>2. stream[p] \in Seq(Message) /\ InitsOwn(stream[p], p)
      BY DEF TypeOK, StreamsOwn
    <3>3. InitsOwn(Append(stream[p], m), p)
      BY <3>1, <3>2, InitsOwnAppend
    <3>4. \A q \in Peer : stream'[q] = IF q = p THEN Append(stream[p], m) ELSE stream[q]
      BY <3>1 DEF TypeOK
    <3> QED BY <3>3, <3>4 DEF StreamsOwn
  <2> QED BY <2>1, <2>2
<1>4. CASE Second \/ Signal \/ EpollWait \/ BatchDone
  BY <1>1, <1>4 DEF Second, Signal, EpollWait, BatchDone, net_vars
<1>5. CASE LoopTop
  BY <1>1, <1>5 DEF LoopTop
<1>6. CASE EventNext
  <2> PICK e \in batch : Listen(e) \/ Timer(e) \/ HangupEvent(e) \/ RecvClosed(e) \/ Recv(e)
    BY <1>6 DEF EventNext
  <2>1. CASE Listen(e) \/ Timer(e)
    BY <1>1, <2>1 DEF Listen, Timer, net_vars
  <2>2. CASE Recv(e)
    BY <1>1, <2>2 DEF Recv, TypeOK
  <2>3. CASE HangupEvent(e) \/ RecvClosed(e)
    BY <1>2, <2>3, EventFd DEF HangupEvent, RecvClosed, TypeOK
  <2> QED BY <2>1, <2>2, <2>3
<1>7. CASE AcceptNext
  BY <1>1, <1>7 DEF AcceptNext, Accept, AcceptAddFails, AcceptDone, net_vars, TypeOK
<1>8. CASE TimerNext
  BY <1>1, <1>2, <1>8 DEF TimerNext, Expire, SendKeepalive, SendKeepaliveDies, Die, ExpireDone,
                          KeepaliveDone, net_vars
<1>9. CASE FrameNext
  <2>1. CASE HandleCloseUnknown \/ UnknownCloses \/ Garbage \/ CloseAck
    <3>1. cur \in Fd
      BY <2>1 DEF HandleCloseUnknown, UnknownCloses, Garbage, CloseAck, NextFrame, TypeOK
    <3> QED BY <1>2, <2>1, <3>1 DEF HandleCloseUnknown, UnknownCloses, Garbage, CloseAck
  <2>2. CASE \/ DecodeDone \/ HandleInit \/ RefuseInit \/ HandleKeepalive \/ HandleReport
             \/ HandleClose \/ UnknownIgnored \/ Reply \/ ReplyDies
    BY <1>1, <2>2 DEF DecodeDone, HandleInit, RefuseInit, HandleKeepalive, HandleReport,
                      HandleClose, UnknownIgnored, Reply, ReplyDies, Die, net_vars
  <2> QED BY <1>9, <2>1, <2>2 DEF FrameNext
<1> QED BY <1>3, <1>4, <1>5, <1>6, <1>7, <1>8, <1>9 DEF Next, LoopNext

\* A closed connection leaves nothing to decode that is anybody's.
LEMMA FreedOwnsNothing ==
    ASSUME TypeOK, NEW fd \in Fd, CloseClient(fd) PROVE sock'[fd] = NoPeer
BY DEF CloseClient, CloseSocket, TypeOK

\* The buffer is filled from the stream of its own peer, and only loses frames.
LEMMA FramesOwnStep ==
    ASSUME TypeOK, StreamsOwn, FramesOwn, Next PROVE FramesOwn'
<1>1. ASSUME UNCHANGED <<sock, cur, frames, pc>> PROVE FramesOwn'
  BY <1>1 DEF FramesOwn
<1>2. ASSUME pc' \notin {"decode", "reply", "closeack"} PROVE FramesOwn'
  BY <1>2 DEF FramesOwn
<1>3. CASE PeerNext
  BY <1>1, <1>3 DEF PeerNext, Connect, PeerSend, Hangup, Stall, Resume, controller_vars,
                    loop_vars
<1>4. CASE Second
  BY <1>1, <1>4 DEF Second, controller_vars, loop_vars, net_vars
<1>5. CASE Signal
  BY <1>1, <1>2, <1>5 DEF Signal, net_vars
<1>6. CASE LoopTop \/ EpollWait \/ BatchDone
  BY <1>2, <1>6 DEF LoopTop, EpollWait, BatchDone
<1>7. CASE EventNext
  <2> PICK e \in batch : Listen(e) \/ Timer(e) \/ HangupEvent(e) \/ RecvClosed(e) \/ Recv(e)
    BY <1>7 DEF EventNext
  <2>1. CASE Listen(e) \/ Timer(e) \/ HangupEvent(e) \/ RecvClosed(e)
    BY <1>2, <2>1 DEF Listen, Timer, HangupEvent, RecvClosed, Take
  <2>2. CASE Recv(e)
    <3>1. e.fd \in Fd /\ sock[e.fd] # NoPeer
      BY <2>2, EventFd DEF Recv, RecvCloses, TypeOK
    <3>2. sock[e.fd] \in Peer
      BY <3>1 DEF TypeOK
    <3>3. frames' = stream[sock[e.fd]] /\ cur' = e.fd /\ sock' = sock
      BY <2>2 DEF Recv
    <3> QED BY <3>2, <3>3 DEF FramesOwn, StreamsOwn
  <2> QED BY <2>1, <2>2
<1>8. CASE AcceptNext
  BY <1>2, <1>8 DEF AcceptNext, Accept, AcceptAddFails, AcceptDone, loop_vars
<1>9. CASE TimerNext
  BY <1>2, <1>9 DEF TimerNext, Expire, SendKeepalive, SendKeepaliveDies, Die, ExpireDone,
                    KeepaliveDone
<1>10. CASE FrameNext
  <2>1. CASE DecodeDone \/ ReplyDies
    BY <1>2, <2>1 DEF DecodeDone, ReplyDies, Die
  <2>2. CASE HandleInit \/ RefuseInit \/ HandleKeepalive \/ HandleReport \/ UnknownIgnored
    <3>1. frames # <<>> /\ pc = "decode" /\ frames \in Seq(Message)
      BY <2>2 DEF HandleInit, RefuseInit, HandleKeepalive, HandleReport, UnknownIgnored,
                  NextFrame, TypeOK
    <3>2. sock' = sock /\ cur' = cur /\ frames' = Tail(frames)
      BY <2>2 DEF HandleInit, RefuseInit, HandleKeepalive, HandleReport, UnknownIgnored,
                  Continue, net_vars
    <3> QED BY <3>1, <3>2, InitsOwnTail DEF FramesOwn
  <2>3. CASE HandleClose
    BY <2>3 DEF HandleClose, NextFrame, FramesOwn, net_vars
  <2>4. CASE Reply
    BY <2>4 DEF Reply, FramesOwn, net_vars
  <2>5. CASE HandleCloseUnknown \/ UnknownCloses \/ Garbage \/ CloseAck
    <3>1. cur \in Fd
      BY <2>5 DEF HandleCloseUnknown, UnknownCloses, Garbage, CloseAck, NextFrame, TypeOK
    <3>2. sock'[cur] = NoPeer
      BY <2>5, <3>1, FreedOwnsNothing DEF HandleCloseUnknown, UnknownCloses, Garbage, CloseAck
    <3>3. pc' = "decode" => cur' = cur
      BY <2>5 DEF HandleCloseUnknown, UnknownCloses, Garbage, CloseAck, ContinueFreed
    <3>4. pc' \notin {"reply", "closeack"}
      BY <2>5 DEF HandleCloseUnknown, UnknownCloses, Garbage, CloseAck, ContinueFreed
    <3> QED BY <1>2, <3>2, <3>3, <3>4 DEF FramesOwn
  <2> QED BY <1>10, <2>1, <2>2, <2>3, <2>4, <2>5 DEF FrameNext
<1> QED BY <1>3, <1>4, <1>5, <1>6, <1>7, <1>8, <1>9, <1>10 DEF Next, LoopNext

\* The sessions, and who they are for, stay what they are.
SessionsKept ==
    \A fd \in Fd :
        /\ HasSession(fd)' <=> HasSession(fd)
        /\ HasSession(fd) => session_mapping'[fd].addr = session_mapping[fd].addr

\* A step that is no registration and closes nothing keeps the sessions.
LEMMA SessionSteps ==
    ASSUME IInv, Next, ~HandleInit
    PROVE  (\E fd \in Fd : CloseClient(fd)) \/ (SessionsKept /\ UNCHANGED strays)
<1> USE DEF IInv, net_vars
<1>1. ASSUME UNCHANGED registry_vars PROVE SessionsKept
  BY <1>1 DEF registry_vars, session_vars, SessionsKept, HasSession
<1>2. ASSUME Refresh PROVE SessionsKept
  BY <1>2 DEF Refresh, SessionsKept
<1>3. CASE PeerNext
  BY <1>1, <1>3 DEF PeerNext, Connect, PeerSend, Hangup, Stall, Resume
<1>4. CASE Second
  BY <1>2, <1>4, AgeSessionsRefresh DEF Second, RegistryInv
<1>5. CASE Signal \/ LoopTop \/ EpollWait \/ BatchDone
  BY <1>1, <1>5 DEF Signal, LoopTop, EpollWait, BatchDone
<1>6. CASE EventNext
  <2> PICK e \in batch : Listen(e) \/ Timer(e) \/ HangupEvent(e) \/ RecvClosed(e) \/ Recv(e)
    BY <1>6 DEF EventNext
  <2>1. CASE Listen(e) \/ Timer(e) \/ Recv(e)
    BY <1>1, <2>1 DEF Listen, Timer, Recv
  <2>2. CASE HangupEvent(e) \/ RecvClosed(e)
    BY <2>2, EventFd DEF HangupEvent, RecvClosed, TypeOK
  <2> QED BY <2>1, <2>2
<1>7. CASE AcceptNext
  BY <1>1, <1>7 DEF AcceptNext, Accept, AcceptAddFails, AcceptDone
<1>8. CASE TimerNext
  BY <1>1, <1>8 DEF TimerNext, Expire, SendKeepalive, SendKeepaliveDies, Die, ExpireDone,
                    KeepaliveDone
<1>9. CASE FrameNext
  <2>1. CASE \/ DecodeDone \/ RefuseInit \/ HandleClose \/ UnknownIgnored \/ Reply \/ ReplyDies
    BY <1>1, <2>1 DEF DecodeDone, RefuseInit, HandleClose, UnknownIgnored, Reply, ReplyDies, Die
  <2>2. CASE HandleKeepalive
    <3>1. cur \in Fd
      BY <2>2, FrameAtHand DEF HandleKeepalive, NextFrame
    <3>2. CASE HasSession(cur)
      BY <1>2, <2>2, <3>1, <3>2, UpdateLastSeenRefresh DEF HandleKeepalive, RegistryInv
    <3>3. CASE ~HasSession(cur)
      BY <2>2, <3>3 DEF HandleKeepalive, SessionsKept, HasSession
    <3> QED BY <3>2, <3>3
  <2>3. CASE HandleReport
    <3>1. pc = "decode" /\ frames # <<>> /\ Head(frames).type = "REPORT"
      BY <2>3 DEF HandleReport, NextFrame
    <3>2. cur \in Fd /\ Head(frames).load \in Load
      BY <3>1, FrameAtHand, MessageFields
    <3>3. CASE HasSession(cur)
      BY <1>2, <2>3, <3>2, <3>3, UpdateMetricsRefresh DEF HandleReport, RegistryInv
    <3>4. CASE ~HasSession(cur)
      BY <2>3, <3>4 DEF HandleReport, SessionsKept, HasSession
    <3> QED BY <3>3, <3>4, <2>3 DEF HandleReport
  <2>4. CASE HandleCloseUnknown \/ UnknownCloses \/ Garbage \/ CloseAck
    <3>1. cur \in Fd
      BY <2>4 DEF HandleCloseUnknown, UnknownCloses, Garbage, CloseAck, NextFrame, TypeOK
    <3> QED BY <2>4, <3>1 DEF HandleCloseUnknown, UnknownCloses, Garbage, CloseAck
  <2> QED BY <1>9, <2>1, <2>2, <2>3, <2>4 DEF FrameNext
<1> QED BY <1>3, <1>4, <1>5, <1>6, <1>7, <1>8, <1>9 DEF Next, LoopNext

LEMMA OwnerStep ==
    ASSUME IInv, OwnerInv, Next, ~Down' PROVE SessionOwner'
<1> USE RegistryAssumption
<1>1. TypeOK /\ RegistryTypeOK
  BY DEF IInv, RegistryInv
<1>2. ~Down
  BY DownStays
<1>3. \A fd \in SessionFds \ strays : sock[fd] = session_mapping[fd].addr
  BY <1>2 DEF OwnerInv, SessionOwner
<1> SUFFICES ASSUME NEW fd \in Fd, HasSession(fd)', fd \notin strays'
             PROVE  sock'[fd] = session_mapping'[fd].addr
  BY DEF SessionOwner, SessionFds
<1>4. ASSUME NEW g \in Fd, CloseClient(g) PROVE sock'[fd] = session_mapping'[fd].addr
  <2>1. session_mapping' = [session_mapping EXCEPT ![g] = NoSession] /\ strays' = strays
    BY <1>4 DEF CloseClient, Deregister, RemoveSession
  <2>2. fd # g /\ fd \in SessionFds /\ session_mapping'[fd] = session_mapping[fd]
    BY <1>1, <2>1 DEF HasSession, SessionFds, RegistryTypeOK
  <2>3. sock'[fd] = sock[fd]
    BY <1>1, <1>4, <2>2 DEF CloseClient, CloseSocket, TypeOK
  <2> QED BY <1>3, <2>1, <2>2, <2>3
<1>5. CASE HandleInit
  <2>1. /\ pc = "decode" /\ frames # <<>> /\ frames \in Seq(Message)
        /\ Head(frames).type = "INIT" /\ cur \in Fd
    BY <1>1, <1>5 DEF HandleInit, NextFrame, TypeOK
  <2>2. /\ session_mapping' = [session_mapping EXCEPT ![cur] =
                [service |-> Head(frames).service, addr |-> Head(frames).addr,
                 load |-> IdleLoad, idle |-> 0]]
        /\ sock' = sock
        /\ strays' = IF sock[cur] = NoPeer THEN strays \cup {cur} ELSE strays \ {cur}
    BY <1>5 DEF HandleInit, Register, CreateSession
  <2>3. CASE fd = cur
    <3>1. sock[cur] # NoPeer
      BY <2>2, <2>3
    <3>2. InitsOwn(frames, sock[cur])
      BY <2>1, <3>1 DEF OwnerInv, FramesOwn
    <3>3. Head(frames).addr = sock[cur]
      BY <2>1, <3>2, InitsOwnTail
    <3> QED BY <1>1, <2>1, <2>2, <2>3, <3>3 DEF RegistryTypeOK
  <2>4. CASE fd # cur
    <3>1. session_mapping'[fd] = session_mapping[fd] /\ fd \in SessionFds \ strays
      BY <1>1, <2>1, <2>2, <2>4 DEF RegistryTypeOK, HasSession, SessionFds
    <3> QED BY <1>3, <2>2, <3>1
  <2> QED BY <2>3, <2>4
<1>6. CASE SessionsKept /\ UNCHANGED strays
  <2>1. fd \in SessionFds \ strays /\ session_mapping'[fd].addr = session_mapping[fd].addr
    BY <1>6 DEF SessionsKept, SessionFds
  <2>2. sock[fd] = session_mapping[fd].addr /\ session_mapping[fd].addr \in Peer
    BY <1>1, <1>3, <2>1 DEF SessionFds, HasSession, RegistryTypeOK, SessionInfo
  <2>3. CASE SocketsKept
    BY <2>1, <2>2, <2>3 DEF SocketsKept
  <2>4. ASSUME NEW p \in Peer, NEW g \in Fd, Accept(p, g)
        PROVE  sock'[fd] = session_mapping'[fd].addr
    <3>1. sock[g] = NoPeer /\ sock' = [sock EXCEPT ![g] = p]
      BY <2>4 DEF Accept
    <3> QED BY <1>1, <2>1, <2>2, <3>1 DEF TypeOK
  <2>5. ASSUME NEW p \in Peer, AcceptAddFails(p) PROVE sock' = sock
    BY <2>5 DEF AcceptAddFails
  <2> QED BY <1>1, <1>4, <2>1, <2>2, <2>3, <2>4, <2>5, SocketSteps
<1> QED BY <1>4, <1>5, <1>6, SessionSteps

\* The session on a descriptor is its peer's own, however often the kernel has
\* reused the number and whatever a freed buffer made the loop do: the
\* exceptions are the registrations in strays, and nothing else.
THEOREM OwnerCorrect == Spec => []SessionOwner
<1>1. Init => OwnerInv
  <2> SUFFICES ASSUME Init PROVE OwnerInv
    OBVIOUS
  <2>1. StreamsOwn
    BY InitsOwnEmpty DEF Init, StreamsOwn
  <2>2. FramesOwn /\ SessionOwner
    BY DEF Init, FramesOwn, SessionOwner, RegistryInit, SessionFds, HasSession
  <2> QED BY <2>1, <2>2 DEF OwnerInv
<1>2. ASSUME IInv, OwnerInv, [Next]_vars PROVE OwnerInv'
  <2>1. CASE UNCHANGED vars
    BY <1>2, <2>1 DEF vars, registry_vars, session_vars, net_vars, loop_vars, OwnerInv,
       StreamsOwn, FramesOwn, SessionOwner, Down, SessionFds, HasSession
  <2>2. CASE Next
    <3>1. StreamsOwn'
      BY <1>2, <2>2, StreamsOwnStep DEF IInv, OwnerInv
    <3>2. FramesOwn'
      BY <1>2, <2>2, FramesOwnStep DEF IInv, OwnerInv
    <3>3. SessionOwner'
      BY <1>2, <2>2, OwnerStep DEF SessionOwner
    <3> QED BY <3>1, <3>2, <3>3 DEF OwnerInv
  <2> QED BY <1>2, <2>1, <2>2
<1>3. IInv /\ OwnerInv /\ [Next]_vars => OwnerInv'
  BY <1>2
<1>4. OwnerInv => SessionOwner
  BY DEF OwnerInv
<1> QED BY <1>1, <1>3, <1>4, AlwaysInv, PTL DEF Spec

-----------------------------------------------------------------------------
(* Why connections are closed.                                             *)

\* A socket is the only one of its peer, whose connection is open or has been hung up.
SocketsLive ==
    /\ \A fd \in OpenFds : conn[sock[fd]] \in {"open", "gone"}
    /\ \A fd, g \in OpenFds : sock[fd] = sock[g] => fd = g

\* What a hangup event reported stays true, however late in the batch its turn comes.
HangupsTrue == \A e \in batch : e.kind = "conn" /\ e.hup => conn[e.who] \in {"gone", "closed"}

\* A session on the list of the timer is still there and still silent.
PendingExpired ==
    pc = "expire" => \A fd \in pending : HasSession(fd) /\ session_mapping[fd].idle > Timeout

CauseInv == SocketsLive /\ HangupsTrue /\ PendingExpired

\* Steps by what they do to the connections.
LEMMA ConnSteps ==
    ASSUME TypeOK, Next
    PROVE  \/ /\ UNCHANGED sock
              /\ \A q \in Peer : \/ conn'[q] = conn[q]
                                 \/ conn[q] = "idle" /\ conn'[q] = "backlog"
                                 \/ conn[q] = "open" /\ conn'[q] = "gone"
           \/ \E fd \in Fd : CloseClient(fd)
           \/ \E p \in Peer : AcceptAddFails(p) \/ \E fd \in Fd : Accept(p, fd)
           \/ LoopTop
<1>1. CASE PeerNext
  BY <1>1 DEF PeerNext, Connect, PeerSend, Hangup, Stall, Resume, TypeOK
<1>2. CASE Second \/ Signal
  BY <1>2 DEF Second, Signal, net_vars
<1>3. CASE EpollWait \/ BatchDone
  BY <1>3 DEF EpollWait, BatchDone, net_vars
<1>4. CASE EventNext
  <2> PICK e \in batch : Listen(e) \/ Timer(e) \/ HangupEvent(e) \/ RecvClosed(e) \/ Recv(e)
    BY <1>4 DEF EventNext
  <2>1. CASE Listen(e) \/ Timer(e) \/ Recv(e)
    BY <2>1 DEF Listen, Timer, Recv, net_vars
  <2>2. CASE HangupEvent(e) \/ RecvClosed(e)
    BY <2>2, EventFd DEF HangupEvent, RecvClosed, TypeOK
  <2> QED BY <2>1, <2>2
<1>5. CASE AcceptNext
  BY <1>5 DEF AcceptNext, AcceptDone, net_vars
<1>6. CASE TimerNext
  BY <1>6 DEF TimerNext, Expire, SendKeepalive, SendKeepaliveDies, Die, ExpireDone,
              KeepaliveDone, net_vars
<1>7. CASE FrameNext
  <2>1. CASE HandleCloseUnknown \/ UnknownCloses \/ Garbage \/ CloseAck
    <3>1. cur \in Fd
      BY <2>1 DEF HandleCloseUnknown, UnknownCloses, Garbage, CloseAck, NextFrame, TypeOK
    <3> QED BY <2>1, <3>1 DEF HandleCloseUnknown, UnknownCloses, Garbage, CloseAck
  <2>2. CASE \/ DecodeDone \/ HandleInit \/ RefuseInit \/ HandleKeepalive \/ HandleReport
             \/ HandleClose \/ UnknownIgnored \/ Reply \/ ReplyDies
    BY <2>2 DEF DecodeDone, HandleInit, RefuseInit, HandleKeepalive, HandleReport, HandleClose,
                UnknownIgnored, Reply, ReplyDies, Die, net_vars
  <2> QED BY <1>7, <2>1, <2>2 DEF FrameNext
<1> QED BY <1>1, <1>2, <1>3, <1>4, <1>5, <1>6, <1>7 DEF Next, LoopNext

\* close_client closes one socket.
LEMMA OneClosed ==
    ASSUME TypeOK, NEW fd \in Fd, CloseClient(fd)
    PROVE  /\ sock'[fd] = NoPeer /\ \A g \in Fd : g # fd => sock'[g] = sock[g]
           /\ \A q \in Peer : conn'[q] = IF q = sock[fd] THEN "closed" ELSE conn[q]
BY DEF CloseClient, CloseSocket, TypeOK

LEMMA SocketsLiveStep == ASSUME TypeOK, SocketsLive, Next PROVE SocketsLive'
<1> USE EventLoopAssumption, RegistryAssumption
<1>0. /\ sock \in [Fd -> Peer \cup {NoPeer}]
      /\ conn \in [Peer -> ConnState]
  BY DEF TypeOK, ConnState
<1>1. \A fd \in OpenFds : fd \in Fd /\ sock[fd] \in Peer
  BY <1>0 DEF OpenFds
<1>2. CASE /\ UNCHANGED sock
           /\ \A q \in Peer : \/ conn'[q] = conn[q]
                              \/ conn[q] = "idle" /\ conn'[q] = "backlog"
                              \/ conn[q] = "open" /\ conn'[q] = "gone"
  <2>1. OpenFds' = OpenFds
    BY <1>2 DEF OpenFds
  <2> QED BY <1>1, <1>2, <2>1 DEF SocketsLive
<1>3. ASSUME NEW fd \in Fd, CloseClient(fd) PROVE SocketsLive'
  <2>1. /\ \A g \in Fd : g # fd => sock'[g] = sock[g] /\ sock'[fd] = NoPeer
        /\ \A q \in Peer : conn'[q] = IF q = sock[fd] THEN "closed" ELSE conn[q]
    BY <1>3, OneClosed
  <2>2. \A g \in OpenFds' : g \in OpenFds /\ g # fd /\ sock'[g] = sock[g]
    BY <1>3, <2>1, OneClosed DEF OpenFds
  <2>3. \A g \in OpenFds' : sock[g] # sock[fd]
    <3> SUFFICES ASSUME NEW g \in OpenFds', sock[g] = sock[fd] PROVE FALSE
      OBVIOUS
    <3>1. g \in OpenFds /\ g # fd
      BY <2>2
    <3>2. fd \in OpenFds
      BY <3>1 DEF OpenFds
    <3> QED BY <3>1, <3>2 DEF SocketsLive
  <2>4. ASSUME NEW g \in OpenFds' PROVE conn'[sock'[g]] \in {"open", "gone"}
    <3>1. g \in OpenFds /\ sock'[g] = sock[g] /\ sock[g] # sock[fd] /\ sock[g] \in Peer
      BY <1>1, <2>2, <2>3
    <3>2. conn'[sock[g]] = conn[sock[g]]
      BY <2>1, <3>1
    <3> QED BY <3>1, <3>2 DEF SocketsLive
  <2> QED BY <2>2, <2>4 DEF SocketsLive
<1>4. ASSUME NEW p \in Peer, AcceptAddFails(p) PROVE SocketsLive'
  <2>1. conn[p] = "backlog" /\ sock' = sock /\ conn' = [conn EXCEPT ![p] = "closed"]
    BY <1>4 DEF AcceptAddFails, Backlog
  <2>2. OpenFds' = OpenFds /\ \A fd \in OpenFds : sock[fd] # p
    BY <2>1 DEF OpenFds, SocketsLive
  <2>3. \A q \in Peer : q # p => conn'[q] = conn[q]
    BY <1>0, <2>1
  <2> QED BY <1>1, <2>1, <2>2, <2>3 DEF SocketsLive
<1>5. ASSUME NEW p \in Peer, NEW fd \in Fd, Accept(p, fd) PROVE SocketsLive'
  <2>1. /\ conn[p] = "backlog" /\ sock' = [sock EXCEPT ![fd] = p]
        /\ conn' = [conn EXCEPT ![p] = "open"]
    BY <1>5 DEF Accept, Backlog
  <2>2. /\ \A q \in Peer : q # p => conn'[q] = conn[q]
        /\ conn'[p] = "open" /\ sock'[fd] = p
        /\ \A g \in Fd : g # fd => sock'[g] = sock[g]
    BY <1>0, <2>1
  <2>3. \A g \in OpenFds : sock[g] # p
    BY <2>1 DEF SocketsLive
  <2>4. \A g \in OpenFds' : g = fd \/ (g # fd /\ g \in OpenFds /\ sock'[g] = sock[g])
    BY <2>2 DEF OpenFds
  <2>5. ASSUME NEW g \in OpenFds' PROVE conn'[sock'[g]] \in {"open", "gone"}
    BY <1>1, <2>2, <2>3, <2>4 DEF SocketsLive
  <2>6. ASSUME NEW g \in OpenFds', NEW h \in OpenFds', sock'[g] = sock'[h] PROVE g = h
    BY <2>2, <2>3, <2>4, <2>6 DEF SocketsLive
  <2> QED BY <2>5, <2>6 DEF SocketsLive
<1>6. CASE LoopTop
  <2>1. CASE running
    BY <1>6, <2>1 DEF LoopTop, SocketsLive, OpenFds
  <2>2. CASE ~running
    <3>1. /\ \A fd \in Fd : sock'[fd] = IF fd \in conn_map THEN NoPeer ELSE sock[fd]
          /\ \A q \in Peer : conn'[q] = IF \E fd \in conn_map : sock[fd] = q
                                        THEN "closed" ELSE conn[q]
          /\ conn_map \subseteq Fd
      BY <1>6, <2>2 DEF LoopTop, TypeOK
    <3>2. \A g \in OpenFds' : g \in OpenFds /\ g \notin conn_map /\ sock'[g] = sock[g]
      BY <3>1 DEF OpenFds
    <3>3. ASSUME NEW g \in OpenFds' PROVE conn'[sock'[g]] \in {"open", "gone"}
      <4>1. g \in OpenFds /\ g \notin conn_map /\ sock'[g] = sock[g] /\ sock[g] \in Peer
        BY <1>1, <3>2
      <4>2. ~ \E fd \in conn_map : sock[fd] = sock[g]
        <5> SUFFICES ASSUME NEW fd \in conn_map, sock[fd] = sock[g] PROVE FALSE
          OBVIOUS
        <5>1. fd \in OpenFds /\ fd # g
          BY <3>1, <4>1 DEF OpenFds
        <5> QED BY <4>1, <5>1 DEF SocketsLive
      <4> QED BY <3>1, <4>1, <4>2 DEF SocketsLive
    <3> QED BY <3>2, <3>3 DEF SocketsLive
  <2> QED BY <2>1, <2>2
<1> QED BY <1>2, <1>3, <1>4, <1>5, <1>6, ConnSteps

\* A connection that was hung up is not taken up again.
LEMMA GoneStays ==
    ASSUME TypeOK, Next, NEW q \in Peer, conn[q] \in {"gone", "closed"}
    PROVE  conn'[q] \in {"gone", "closed"}
<1>1. ASSUME NEW fd \in Fd, CloseClient(fd) PROVE conn'[q] \in {"gone", "closed"}
  BY <1>1, OneClosed
<1>2. CASE \E p \in Peer : AcceptAddFails(p) \/ \E fd \in Fd : Accept(p, fd)
  BY <1>2 DEF AcceptAddFails, Accept, Backlog, TypeOK
<1>3. CASE LoopTop
  BY <1>3 DEF LoopTop
<1> QED BY <1>1, <1>2, <1>3, ConnSteps

\* Events leave the batch one by one.
LEMMA BatchShrinks == ASSUME Next, ~EpollWait PROVE batch' \subseteq batch
<1>1. CASE PeerNext \/ Second \/ Signal
  BY <1>1 DEF PeerNext, Connect, PeerSend, Hangup, Stall, Resume, Second, Signal,
              controller_vars, loop_vars
<1>2. CASE LoopTop \/ BatchDone \/ AcceptNext
  BY <1>2 DEF LoopTop, BatchDone, AcceptNext, Accept, AcceptAddFails, AcceptDone, loop_vars
<1>3. CASE EventNext
  BY <1>3 DEF EventNext, Listen, Timer, HangupEvent, RecvClosed, Recv, Take
<1>4. CASE TimerNext
  BY <1>4 DEF TimerNext, Expire, SendKeepalive, SendKeepaliveDies, Die, ExpireDone, KeepaliveDone
<1>5. CASE FrameNext
  BY <1>5 DEF FrameNext, DecodeDone, HandleInit, RefuseInit, HandleKeepalive, HandleReport,
              HandleClose, HandleCloseUnknown, UnknownIgnored, UnknownCloses, Garbage,
              NextFrame, Reply, CloseAck, ReplyDies, Die
<1> QED BY <1>1, <1>2, <1>3, <1>4, <1>5 DEF Next, LoopNext

LEMMA HangupsTrueStep == ASSUME TypeOK, HangupsTrue, Next PROVE HangupsTrue'
<1>1. CASE EpollWait
  <2>1. batch' = Ready /\ conn' = conn
    BY <1>1 DEF EpollWait, net_vars
  <2>2. ASSUME NEW e \in Ready, e.kind = "conn", e.hup PROVE conn[e.who] = "gone"
    <3> DEFINE told(fd) == [kind |-> "conn", fd |-> fd, hup |-> conn[sock[fd]] = "gone",
                            who |-> sock[fd]]
    <3>1. e # [kind |-> "timer"] /\ e # [kind |-> "listen"]
      BY <2>2
    <3>2. \E fd \in Fd : e = told(fd)
      BY <3>1, Zenon DEF Ready
    <3>3. PICK fd \in Fd : e = told(fd)
      BY <3>2
    <3>4. e.who = sock[fd] /\ e.hup = (conn[sock[fd]] = "gone")
      BY <3>3
    <3> QED BY <2>2, <3>4
  <2> QED BY <2>1, <2>2 DEF HangupsTrue
<1>2. CASE ~EpollWait
  <2>1. \A e \in batch' : e \in batch
    BY <1>2, BatchShrinks
  <2>2. \A e \in batch : e.kind = "conn" => e.who \in Peer
    BY DEF TypeOK, Event
  <2> QED BY <2>1, <2>2, GoneStays DEF HangupsTrue
<1> QED BY <1>1, <1>2

\* Only the list of the timer is visited while sessions expire, and silence does not end
\* meanwhile.
LEMMA PendingExpiredStep == ASSUME IInv, PendingExpired, Next PROVE PendingExpired'
<1> USE DEF IInv
<1>1. ASSUME UNCHANGED <<session_mapping, pending>>, pc' = "expire" => pc = "expire"
      PROVE  PendingExpired'
  BY <1>1 DEF PendingExpired, HasSession
<1>2. ASSUME pc' # "expire" PROVE PendingExpired'
  BY <1>2 DEF PendingExpired
<1>3. CASE PeerNext
  BY <1>1, <1>3 DEF PeerNext, Connect, PeerSend, Hangup, Stall, Resume, controller_vars,
                    loop_vars, registry_vars, session_vars
<1>4. CASE Signal
  BY <1>1, <1>4 DEF Signal, registry_vars, session_vars
<1>5. CASE Second
  <2>1. AgeSessions /\ UNCHANGED <<pc, pending>>
    BY <1>5 DEF Second, controller_vars, loop_vars
  <2>2. ASSUME NEW fd \in Fd, HasSession(fd), session_mapping[fd].idle > Timeout
        PROVE  session_mapping'[fd] = session_mapping[fd]
    <3>1. session_mapping[fd].idle \in 0 .. Timeout + 1
      BY <2>2 DEF TypeOK, RegistryTypeOK, HasSession, SessionInfo
    <3>2. ~(session_mapping[fd].idle <= Timeout)
      BY <2>2, <3>1, RegistryAssumption
    <3> QED BY <2>1, <2>2, <3>2 DEF AgeSessions
  <2>3. pending \subseteq Fd
    BY DEF TypeOK
  <2> QED BY <2>1, <2>2, <2>3 DEF PendingExpired, HasSession
<1>6. CASE LoopTop \/ EpollWait \/ BatchDone \/ AcceptDone
  BY <1>2, <1>6 DEF LoopTop, EpollWait, BatchDone, AcceptDone
<1>7. CASE EventNext
  <2> PICK e \in batch : Listen(e) \/ Timer(e) \/ HangupEvent(e) \/ RecvClosed(e) \/ Recv(e)
    BY <1>7 DEF EventNext
  <2>1. CASE Timer(e)
    <3>1. pending' = ExpiredSessions /\ session_mapping' = session_mapping
      BY <2>1 DEF Timer, registry_vars, session_vars
    <3> QED BY <3>1 DEF PendingExpired, ExpiredSessions, SessionFds, HasSession
  <2>2. CASE Listen(e) \/ HangupEvent(e) \/ RecvClosed(e) \/ Recv(e)
    BY <1>2, <2>2 DEF Listen, HangupEvent, RecvClosed, Recv, Take
  <2> QED BY <2>1, <2>2
<1>8. CASE AcceptNext
  BY <1>1, <1>6, <1>8 DEF AcceptNext, Accept, AcceptAddFails, loop_vars, registry_vars,
                          session_vars
<1>9. CASE TimerNext
  <2>1. ASSUME NEW fd \in Fd, Expire(fd) PROVE PendingExpired'
    <3>1. /\ pending' = pending \ {fd} /\ pc = "expire" /\ pending \subseteq Fd
          /\ session_mapping' = [session_mapping EXCEPT ![fd] = NoSession]
      BY <2>1 DEF Expire, CloseClient, Deregister, RemoveSession, TypeOK
    <3>2. \A g \in pending' : g \in pending /\ session_mapping'[g] = session_mapping[g]
      BY <3>1 DEF TypeOK, RegistryTypeOK
    <3> QED BY <3>1, <3>2 DEF PendingExpired, HasSession
  <2>2. CASE ExpireDone \/ KeepaliveDone
    BY <1>2, <2>2 DEF ExpireDone, KeepaliveDone
  <2>3. CASE \E fd \in Fd : SendKeepalive(fd) \/ SendKeepaliveDies(fd)
    BY <1>2, <2>3 DEF SendKeepalive, SendKeepaliveDies, Die
  <2> QED BY <1>9, <2>1, <2>2, <2>3 DEF TimerNext
<1>10. CASE FrameNext
  BY <1>2, <1>10 DEF FrameNext, DecodeDone, HandleInit, RefuseInit, HandleKeepalive,
     HandleReport, HandleClose, HandleCloseUnknown, UnknownIgnored, UnknownCloses, Garbage,
     Continue, ContinueFreed, Reply, CloseAck, ReplyDies, Die
<1> QED BY <1>3, <1>4, <1>5, <1>6, <1>7, <1>8, <1>9, <1>10 DEF Next, LoopNext

LEMMA AlwaysCause == Spec => []CauseInv
<1>1. Init => CauseInv
  BY DEF Init, CauseInv, SocketsLive, OpenFds, HangupsTrue, PendingExpired
<1>2. CauseInv /\ UNCHANGED vars => CauseInv'
  BY DEF CauseInv, vars, registry_vars, session_vars, net_vars, loop_vars, SocketsLive, OpenFds,
         HangupsTrue, PendingExpired, HasSession
<1>3. IInv /\ CauseInv /\ [Next]_vars => CauseInv'
  BY <1>2, SocketsLiveStep, HangupsTrueStep, PendingExpiredStep DEF CauseInv, IInv
<1> QED BY <1>1, <1>3, AlwaysInv, PTL DEF Spec

\* The reason behind a socket that an event or the timer closes.
Cause(fd) ==
    LET p == sock[fd] IN
    pc \in {"dispatch", "expire"} /\ p # NoPeer /\ sock'[fd] = NoPeer =>
        \/ conn[p] = "gone"
        \/ pc = "expire" /\ session_mapping[fd].idle > Timeout
        \/ pc = "dispatch" /\ \E i \in 1 .. Len(stream[p]) : stream[p][i].type = "FLOOD"
        \/ \E e \in batch \ batch' : e.kind = "conn" /\ e.fd = fd /\ e.who # p

LEMMA CloseHasCause == ASSUME IInv, CauseInv, Next, NEW fd \in Fd PROVE Cause(fd)
<1> SUFFICES ASSUME pc \in {"dispatch", "expire"}, sock[fd] # NoPeer, sock'[fd] = NoPeer
             PROVE  \/ conn[sock[fd]] = "gone"
                    \/ pc = "expire" /\ session_mapping[fd].idle > Timeout
                    \/ pc = "dispatch" /\ \E i \in 1 .. Len(stream[sock[fd]]) :
                                              stream[sock[fd]][i].type = "FLOOD"
                    \/ \E e \in batch \ batch' : e.kind = "conn" /\ e.fd = fd /\ e.who # sock[fd]
  BY DEF Cause
<1> USE DEF IInv, CauseInv
<1>1. CASE EventNext
  <2> PICK e \in batch : Listen(e) \/ Timer(e) \/ HangupEvent(e) \/ RecvClosed(e) \/ Recv(e)
    BY <1>1 DEF EventNext
  <2>1. CASE Listen(e) \/ Timer(e) \/ Recv(e)
    BY <2>1 DEF Listen, Timer, Recv, net_vars
  <2>2. CASE HangupEvent(e) \/ RecvClosed(e)
    <3>1. /\ e.kind = "conn" /\ e.fd \in Fd /\ CloseClient(e.fd)
          /\ pc = "dispatch" /\ e \in batch \ batch'
      BY <2>2, EventFd DEF HangupEvent, RecvClosed, Take, TypeOK
    <3>2. e.fd = fd
      BY <3>1, OneClosed
    <3>3. CASE RecvClosed(e)
      BY <3>1, <3>2, <3>3 DEF RecvClosed, RecvCloses
    <3>4. CASE HangupEvent(e)
      <4>1. conn[e.who] \in {"gone", "closed"}
        BY <3>1, <3>4 DEF HangupEvent, HangupsTrue
      <4>2. conn[sock[fd]] \in {"open", "gone"}
        BY DEF SocketsLive, OpenFds
      <4> QED BY <3>1, <3>2, <4>1, <4>2
    <3> QED BY <2>2, <3>3, <3>4
  <2> QED BY <2>1, <2>2
<1>2. CASE TimerNext
  <2>1. PICK g \in Fd : Expire(g) \/ UNCHANGED sock
    BY <1>2 DEF TimerNext, Expire, SendKeepalive, SendKeepaliveDies, Die, ExpireDone,
                KeepaliveDone, net_vars
  <2>2. Expire(g) /\ g = fd
    BY <2>1, OneClosed DEF Expire
  <2> QED BY <2>2 DEF Expire, PendingExpired
<1>3. CASE PeerNext \/ Second \/ Signal
  BY <1>3 DEF PeerNext, Connect, PeerSend, Hangup, Stall, Resume, Second, Signal, net_vars
<1>4. CASE LoopTop \/ EpollWait \/ BatchDone \/ AcceptNext \/ FrameNext
  BY <1>4 DEF LoopTop, EpollWait, BatchDone, AcceptNext, Accept, AcceptAddFails, AcceptDone,
     net_vars, FrameNext, DecodeDone, HandleInit, RefuseInit, HandleKeepalive, HandleReport,
     HandleClose, HandleCloseUnknown, UnknownIgnored, UnknownCloses, Garbage, NextFrame, Reply,
     CloseAck, ReplyDies
<1> QED BY <1>1, <1>2, <1>3, <1>4 DEF Next, LoopNext

\* Events and the timer close a live connection only for a cause of its own, or on an event
\* that was about an earlier connection of the same descriptor: whatever the events before it
\* in the batch have closed, and however late it is handled.
THEOREM ClosesHaveCause == Spec => ClosedForCause
<1> DEFINE Causes == \A fd \in Fd : Cause(fd)
<1>1. IInv /\ CauseInv /\ [Next]_vars => [Causes]_vars
  BY CloseHasCause
<1> QED BY <1>1, AlwaysInv, AlwaysCause, PTL DEF Spec, ClosedForCause, Cause
=============================================================================
