----------------------------- MODULE EventLoop -----------------------------
(***************************************************************************)
(* The controller's main thread: io_epoll::run_loop, the handlers it calls *)
(* for every frame and the registry they update (module Registry), with the *)
(* kernel's sockets and the backend processes at the other end of them.     *)
(*                                                                         *)
(* One action is one stretch of the loop that no peer and no clock can      *)
(* observe from the inside: the read of the events, the handling of one     *)
(* event or one frame, one send.  Peers connect, send, hang up and stop     *)
(* reading between any two of them, so what epoll_wait reported may be out  *)
(* of date when the loop gets to it: events later in a batch are handled    *)
(* with the flags they had when the batch was read.                         *)
(*                                                                         *)
(* A frame is one message; how bytes become frames is not modelled here.   *)
(***************************************************************************)
EXTENDS Registry, Sequences

CONSTANTS
    MaxConnections,  \* MAX_CONNECTIONS, 1000 in the code
    NoFd,            \* the loop serves no connection
    PeerMsgs,        \* the types of message peers send
    PeerFaults,      \* what peers may do besides
    MaxStream,       \* bound: unread messages of one connection
    MaxAddFails      \* bound: how often EPOLL_CTL_ADD may fail

MsgType == {"INIT", "KEEPALIVE", "REPORT", "CLOSE", "BADCLOSE", "BROKENCLOSE",
            "REFUSED", "UNKNOWN", "GARBAGE", "FLOOD"}

\* With the session's token, with another one, and with a payload that does not
\* parse.
CloseType == {"CLOSE", "BADCLOSE", "BROKENCLOSE"}

ASSUME EventLoopAssumption ==
    /\ IsFiniteSet(Fd)
    /\ MaxConnections \in Nat \ {0}
    /\ NoFd \notin Fd
    /\ PeerMsgs \subseteq MsgType
    /\ PeerFaults \subseteq {"hangup", "stall", "slow", "tail"}
    /\ MaxStream \in Nat \ {0}
    /\ MaxAddFails \in Nat

VARIABLES
    sock,                \* Fd -> the peer the descriptor is connected to
    conn,                \* Peer -> where its connection is
    stalled,             \* peers whose receive buffer is full and unread
    stream,              \* Peer -> what it sent and the loop has not read
    timer_pending,       \* the 1 s timerfd has rung since it was last read
    running,             \* keep_running
    add_fails,
    strays,              \* history: where a session was registered after the close
    active_connections,
    conn_map,            \* descriptors with a ConnectionState
    pc,                  \* where the loop is
    batch,               \* events of the last epoll_wait not yet handled
    pending,             \* sessions a loop over sessions has still to visit
    cur,                 \* the connection whose buffer is being decoded
    frames               \* that buffer

net_vars  == <<sock, conn, stalled, stream, add_fails, strays>>
loop_vars == <<pc, batch, pending, cur, frames>>
vars == <<registry_vars, net_vars, timer_pending, running, active_connections,
          conn_map, loop_vars>>

Message ==
    [type : {"INIT"}, service : Service, addr : Peer]
        \cup [type : {"REPORT"}, load : Load]
        \cup [type : MsgType \ {"INIT", "REPORT"}]

\* What epoll_wait reports.  who, the connection the event is about, is a
\* history field: the code has only fd.
Event ==
    [kind : {"timer", "listen"}]
        \cup [kind : {"conn"}, fd : Fd, hup : BOOLEAN, who : Peer]

PcValue == {"top", "wait", "dispatch", "accept", "expire", "keepalive", "decode",
            "reply", "closeack", "stopped", "killed"}

Down == pc \in {"stopped", "killed"}

TypeOK ==
    /\ RegistryTypeOK
    /\ sock \in [Fd -> Peer \cup {NoPeer}]
    /\ conn \in [Peer -> {"idle", "backlog", "open", "gone", "closed"}]
    /\ stalled \subseteq Peer
    /\ stream \in [Peer -> Seq(Message)]
    /\ timer_pending \in BOOLEAN
    /\ running \in BOOLEAN
    /\ add_fails \in Nat
    /\ strays \subseteq Fd
    /\ active_connections \in Int
    /\ conn_map \subseteq Fd
    /\ pc \in PcValue
    /\ batch \subseteq Event
    /\ pending \subseteq Fd
    /\ cur \in Fd \cup {NoFd}
    /\ frames \in Seq(Message)
    /\ pc \in {"decode", "reply", "closeack"} => cur \in Fd
    /\ pc = "closeack" => frames # <<>>

Init ==
    /\ RegistryInit
    /\ sock = [fd \in Fd |-> NoPeer]
    /\ conn = [p \in Peer |-> "idle"]
    /\ stalled = {}
    /\ stream = [p \in Peer |-> <<>>]
    /\ timer_pending = FALSE
    /\ running = TRUE
    /\ add_fails = 0
    /\ strays = {}
    /\ active_connections = 0
    /\ conn_map = {}
    /\ pc = "top"
    /\ batch = {}
    /\ pending = {}
    /\ cur = NoFd
    /\ frames = <<>>

-----------------------------------------------------------------------------
(* The backend processes, the clock and the operator's signal.             *)

controller_vars == <<active_connections, conn_map, loop_vars>>

Connect(p) ==
    /\ conn[p] = "idle"
    /\ conn' = [conn EXCEPT ![p] = "backlog"]
    /\ UNCHANGED <<registry_vars, sock, stalled, stream, add_fails, strays, timer_pending,
                   running, controller_vars>>

\* Peers without the "tail" fault follow the protocol: CLOSE is the last frame
\* they send.  What is sent before the accept is read as if sent right after it.
PeerSend(p, m) ==
    /\ conn[p] = "open"
    /\ Len(stream[p]) < MaxStream
    /\ m.type \in PeerMsgs
    /\ m.type = "INIT" => m.addr = p
    /\ "tail" \in PeerFaults
          \/ \A i \in 1 .. Len(stream[p]) : stream[p][i].type \notin CloseType
    /\ stream' = [stream EXCEPT ![p] = Append(@, m)]
    /\ UNCHANGED <<registry_vars, sock, conn, stalled, add_fails, strays, timer_pending,
                   running, controller_vars>>

\* The peer exits or shuts its socket down: EPOLLRDHUP or EPOLLHUP.
Hangup(p) ==
    /\ "hangup" \in PeerFaults
    /\ conn[p] = "open"
    /\ conn' = [conn EXCEPT ![p] = "gone"]
    /\ stalled' = stalled \ {p}
    /\ UNCHANGED <<registry_vars, sock, stream, add_fails, strays, timer_pending, running,
                   controller_vars>>

\* The peer stops reading and the socket buffers between it and the controller
\* fill up.  A slow peer may drain them later, one that stalls does not.
Stall(p) ==
    /\ PeerFaults \cap {"stall", "slow"} # {}
    /\ conn[p] = "open"
    /\ p \notin stalled
    /\ stalled' = stalled \cup {p}
    /\ UNCHANGED <<registry_vars, sock, conn, stream, add_fails, strays, timer_pending,
                   running, controller_vars>>

Resume(p) ==
    /\ "slow" \in PeerFaults
    /\ p \in stalled
    /\ stalled' = stalled \ {p}
    /\ UNCHANGED <<registry_vars, sock, conn, stream, add_fails, strays, timer_pending,
                   running, controller_vars>>

\* A second passes: every session is silent for a second more, and the
\* periodic timer rings.
Second ==
    /\ AgeSessions
    /\ timer_pending' = TRUE
    /\ UNCHANGED <<service_groups, vip_vars, id_vars, backends_map, needs_rebuild,
                   net_vars, running, controller_vars>>

\* SIGINT or SIGTERM.  The signal interrupts epoll_wait only if the kernel
\* delivers it to this thread while it waits.
Signal ==
    /\ running
    /\ running' = FALSE
    /\ pc' \in {pc} \cup (IF pc = "wait" THEN {"top"} ELSE {})
    /\ UNCHANGED <<registry_vars, net_vars, timer_pending, active_connections,
                   conn_map, batch, pending, cur, frames>>

-----------------------------------------------------------------------------
(* Steps the handlers share.                                               *)

\* close(fd): the kernel drops the connection with its unread bytes.
CloseSocket(fd) ==
    /\ sock' = [sock EXCEPT ![fd] = NoPeer]
    /\ conn' = [p \in Peer |-> IF p = sock[fd] THEN "closed" ELSE conn[p]]
    /\ stream' = [p \in Peer |-> IF p = sock[fd] THEN <<>> ELSE stream[p]]
    /\ stalled' = stalled \ {sock[fd]}

\* Mutant: the counter is not given back.
MutCloseKeepsCount(fd) ==
    /\ Deregister(fd)
    /\ conn_map' = conn_map \ {fd}
    /\ CloseSocket(fd)
    /\ UNCHANGED <<active_connections, add_fails, strays>>

\* close_client.  Nothing in it tells an open connection from a descriptor
\* that is closed already: the counter goes down each time.
CloseClient(fd) ==
    /\ Deregister(fd)
    /\ active_connections' = active_connections - 1
    /\ conn_map' = conn_map \ {fd}
    /\ CloseSocket(fd)
    /\ UNCHANGED <<add_fails, strays>>

\* send_all to a descriptor: a full buffer is retried for ever, a closed
\* descriptor is an ignored error, and a send to a peer that is gone may
\* raise SIGPIPE, which nobody handles.
SendReturns(fd) == sock[fd] \notin stalled
SendKills(fd) == sock[fd] # NoPeer /\ conn[sock[fd]] = "gone"

Die ==
    /\ pc' = "killed"
    /\ UNCHANGED <<registry_vars, net_vars, timer_pending, running, active_connections,
                   conn_map, batch, pending, cur, frames>>

-----------------------------------------------------------------------------
(* The loop: while (external_running && running) epoll_wait ...            *)

\* Mutant: the flag is not looked at again.
MutLoopTop ==
    /\ pc = "top"
    /\ pc' = "wait"
    /\ UNCHANGED <<registry_vars, net_vars, timer_pending, running,
                   active_connections, conn_map, batch, pending, cur, frames>>

LoopTop ==
    /\ pc = "top"
    /\ pc' = IF running THEN "wait" ELSE "stopped"
    /\ IF running
       THEN UNCHANGED <<sock, conn, stalled, stream>>
       ELSE /\ sock' = [fd \in Fd |-> IF fd \in conn_map THEN NoPeer ELSE sock[fd]]
            /\ conn' = [p \in Peer |-> IF \E fd \in conn_map : sock[fd] = p
                                       THEN "closed" ELSE conn[p]]
            /\ stream' = [p \in Peer |-> IF \E fd \in conn_map : sock[fd] = p
                                         THEN <<>> ELSE stream[p]]
            /\ stalled' = {p \in stalled : \A fd \in conn_map : sock[fd] # p}
    /\ UNCHANGED <<registry_vars, add_fails, strays, timer_pending, running,
                   active_connections, conn_map, batch, pending, cur, frames>>

Backlog == {p \in Peer : conn[p] = "backlog"}

Ready ==
    (IF timer_pending THEN {[kind |-> "timer"]} ELSE {})
        \cup (IF Backlog # {} THEN {[kind |-> "listen"]} ELSE {})
        \cup {[kind |-> "conn", fd |-> fd, hup |-> conn[sock[fd]] = "gone",
               who |-> sock[fd]] :
                 fd \in {f \in Fd : /\ sock[f] # NoPeer
                                    /\ conn[sock[f]] = "gone" \/ stream[sock[f]] # <<>>}}

EpollWait ==
    /\ pc = "wait"
    /\ Ready # {}
    /\ batch' = Ready
    /\ pc' = "dispatch"
    /\ UNCHANGED <<registry_vars, net_vars, timer_pending, running,
                   active_connections, conn_map, pending, cur, frames>>

BatchDone ==
    /\ pc = "dispatch"
    /\ batch = {}
    /\ pc' = "top"
    /\ UNCHANGED <<registry_vars, net_vars, timer_pending, running,
                   active_connections, conn_map, batch, pending, cur, frames>>

\* Events of one batch come in the order of the kernel's ready list: any.
Take(e) ==
    /\ pc = "dispatch"
    /\ e \in batch
    /\ batch' = batch \ {e}

-----------------------------------------------------------------------------
(* The listening sockets: accept until the limit or an empty backlog.      *)

Listen(e) ==
    /\ Take(e)
    /\ e.kind = "listen"
    /\ pc' = "accept"
    /\ UNCHANGED <<registry_vars, net_vars, timer_pending, running,
                   active_connections, conn_map, pending, cur, frames>>

BelowLimit == active_connections < MaxConnections

\* Other threads open descriptors too (gRPC, BPF maps): accept returns any
\* free one.
Accept(p, fd) ==
    /\ pc = "accept"
    /\ BelowLimit
    /\ p \in Backlog
    /\ sock[fd] = NoPeer
    /\ active_connections' = active_connections + 1
    /\ sock' = [sock EXCEPT ![fd] = p]
    /\ conn' = [conn EXCEPT ![p] = "open"]
    /\ conn_map' = conn_map \cup {fd}
    /\ UNCHANGED <<registry_vars, stalled, stream, add_fails, strays, timer_pending, running,
                   loop_vars>>

\* EPOLL_CTL_ADD fails: the client is closed, the counter keeps it.
AcceptAddFails(p) ==
    /\ pc = "accept"
    /\ BelowLimit
    /\ p \in Backlog
    /\ \E fd \in Fd : sock[fd] = NoPeer
    /\ add_fails < MaxAddFails
    /\ add_fails' = add_fails + 1
    /\ active_connections' = active_connections + 1
    /\ conn' = [conn EXCEPT ![p] = "closed"]
    /\ stream' = [stream EXCEPT ![p] = <<>>]
    /\ UNCHANGED <<registry_vars, sock, stalled, strays, timer_pending, running,
                   conn_map, loop_vars>>

\* The limit, EAGAIN, or EMFILE when no descriptor is left.
AcceptDone ==
    /\ pc = "accept"
    /\ ~BelowLimit \/ Backlog = {} \/ \A fd \in Fd : sock[fd] # NoPeer
    /\ pc' = "dispatch"
    /\ UNCHANGED <<registry_vars, net_vars, timer_pending, running,
                   active_connections, conn_map, batch, pending, cur, frames>>

-----------------------------------------------------------------------------
(* The timer: close what expired, then ask every session for a sign of     *)
(* life.  The report request of every fifth tick is one more send to the   *)
(* same connection, with the same outcomes: it is not told apart.          *)

\* Mutant: the tick forgets the expired sessions.
MutTimer(e) ==
    /\ Take(e)
    /\ e.kind = "timer"
    /\ timer_pending' = FALSE
    /\ pending' = {}
    /\ pc' = "expire"
    /\ UNCHANGED <<registry_vars, net_vars, running, active_connections, conn_map,
                   cur, frames>>

Timer(e) ==
    /\ Take(e)
    /\ e.kind = "timer"
    /\ timer_pending' = FALSE
    /\ pending' = ExpiredSessions
    /\ pc' = "expire"
    /\ UNCHANGED <<registry_vars, net_vars, running, active_connections, conn_map,
                   cur, frames>>

Expire(fd) ==
    /\ pc = "expire"
    /\ fd \in pending
    /\ CloseClient(fd)
    /\ pending' = pending \ {fd}
    /\ UNCHANGED <<timer_pending, running, pc, batch, cur, frames>>

ExpireDone ==
    /\ pc = "expire"
    /\ pending = {}
    /\ pending' = SessionFds
    /\ pc' = "keepalive"
    /\ UNCHANGED <<registry_vars, net_vars, timer_pending, running,
                   active_connections, conn_map, batch, cur, frames>>

SendKeepalive(fd) ==
    /\ pc = "keepalive"
    /\ fd \in pending
    /\ SendReturns(fd)
    /\ pending' = pending \ {fd}
    /\ UNCHANGED <<registry_vars, net_vars, timer_pending, running,
                   active_connections, conn_map, pc, batch, cur, frames>>

SendKeepaliveDies(fd) ==
    /\ pc = "keepalive"
    /\ fd \in pending
    /\ SendKills(fd)
    /\ Die

KeepaliveDone ==
    /\ pc = "keepalive"
    /\ pending = {}
    /\ pc' = "dispatch"
    /\ UNCHANGED <<registry_vars, net_vars, timer_pending, running,
                   active_connections, conn_map, batch, pending, cur, frames>>

-----------------------------------------------------------------------------
(* An event of a connection.                                               *)

\* Mutant: a hangup is logged and left to the next recv.
MutHangupEvent(e) ==
    /\ Take(e)
    /\ e.kind = "conn"
    /\ e.hup
    /\ UNCHANGED <<registry_vars, net_vars, timer_pending, running,
                   active_connections, conn_map, pc, pending, cur, frames>>

HangupEvent(e) ==
    /\ Take(e)
    /\ e.kind = "conn"
    /\ e.hup
    /\ CloseClient(e.fd)
    /\ UNCHANGED <<timer_pending, running, pc, pending, cur, frames>>

\* recv fails on a closed descriptor, returns 0 after the last byte of a peer
\* that is gone, and a peer that floods fills the 1 MB buffer.
RecvCloses(fd) ==
    sock[fd] # NoPeer =>
        \/ conn[sock[fd]] = "gone"
        \/ \E i \in 1 .. Len(stream[sock[fd]]) : stream[sock[fd]][i].type = "FLOOD"

RecvClosed(e) ==
    /\ Take(e)
    /\ e.kind = "conn"
    /\ ~e.hup
    /\ RecvCloses(e.fd)
    /\ CloseClient(e.fd)
    /\ UNCHANGED <<timer_pending, running, pc, pending, cur, frames>>

Recv(e) ==
    /\ Take(e)
    /\ e.kind = "conn"
    /\ ~e.hup
    /\ ~RecvCloses(e.fd)
    /\ frames' = stream[sock[e.fd]]
    /\ stream' = [stream EXCEPT ![sock[e.fd]] = <<>>]
    /\ cur' = e.fd
    /\ pc' = "decode"
    /\ UNCHANGED <<registry_vars, sock, conn, stalled, add_fails, strays, timer_pending,
                   running, active_connections, conn_map, pending>>

-----------------------------------------------------------------------------
(* The decode loop: choose_handler for every complete frame.               *)

DecodeDone ==
    /\ pc = "decode"
    /\ frames = <<>>
    /\ pc' = "dispatch"
    /\ cur' = NoFd
    /\ UNCHANGED <<registry_vars, net_vars, timer_pending, running,
                   active_connections, conn_map, batch, pending, frames>>

\* The next frame, and conn_map[fd], which inserts a missing entry.
NextFrame(types) ==
    /\ pc = "decode"
    /\ frames # <<>>
    /\ Head(frames).type \in types
    /\ UNCHANGED <<timer_pending, running, batch, pending>>

Enter == conn_map' = conn_map \cup {cur}

\* The handler returned, the loop goes on with the next frame, after the reply
\* if there is one.
Continue(next_pc) ==
    /\ pc' = next_pc
    /\ frames' = Tail(frames)
    /\ UNCHANGED cur

\* The buffer lives in the ConnectionState that close_client has freed, and the
\* loop reads and erases it all the same: the build may find it empty, find the
\* frames that follow, or crash.
ContinueFreed ==
    \/ pc' = "dispatch" /\ frames' = <<>> /\ cur' = NoFd
    \/ pc' = "decode" /\ frames' = Tail(frames) /\ UNCHANGED cur
    \/ pc' = "killed" /\ frames' = <<>> /\ cur' = NoFd

\* handle_init_req, accepted.
HandleInit ==
    /\ NextFrame({"INIT"})
    /\ Register(cur, Head(frames).service, Head(frames).addr)
    /\ strays' = IF sock[cur] = NoPeer THEN strays \cup {cur} ELSE strays \ {cur}
    /\ Enter
    /\ Continue("reply")
    /\ UNCHANGED <<needs_rebuild, sock, conn, stalled, stream, add_fails,
                   active_connections>>

\* handle_init_req, refused: a session already, or no address left.  Nothing is
\* sent back.  A payload that does not parse ends the same way, REFUSED.
RefuseInit ==
    /\ NextFrame({"INIT", "REFUSED"})
    /\ Head(frames).type = "INIT" =>
          HasSession(cur) \/ (~HasVip(Head(frames).service) /\ ~VipLeft)
    /\ Enter
    /\ Continue("decode")
    /\ UNCHANGED <<registry_vars, net_vars, active_connections>>

HandleKeepalive ==
    /\ NextFrame({"KEEPALIVE"})
    /\ IF HasSession(cur) THEN UpdateLastSeen(cur) ELSE UNCHANGED session_mapping
    /\ Enter
    /\ Continue("decode")
    /\ UNCHANGED <<service_groups, vip_vars, id_vars, backends_map, needs_rebuild,
                   net_vars, active_connections>>

HandleReport ==
    /\ NextFrame({"REPORT"})
    /\ IF HasSession(cur)
       THEN UpdateMetrics(cur, Head(frames).load) /\ Continue("reply")
       ELSE UNCHANGED session_mapping /\ Continue("decode")
    /\ Enter
    /\ UNCHANGED <<service_groups, vip_vars, id_vars, backends_map, needs_rebuild,
                   net_vars, active_connections>>

\* handle_close_req before its send: with the session's token or without, a
\* session is acknowledged and then closed.
HandleClose ==
    /\ NextFrame({"CLOSE", "BADCLOSE"})
    /\ HasSession(cur)
    /\ Enter
    /\ pc' = "closeack"
    /\ UNCHANGED <<registry_vars, net_vars, active_connections, cur, frames>>

\* No session to close, or a request that does not parse: the connection is
\* closed without an answer.
HandleCloseUnknown ==
    /\ NextFrame(CloseType)
    /\ Head(frames).type # "BROKENCLOSE" => ~HasSession(cur)
    /\ CloseClient(cur)
    /\ ContinueFreed

\* A type choose_handler does not know leaves res unset, and it may compare
\* equal to CLOSE_CONNECTION.
UnknownIgnored ==
    /\ NextFrame({"UNKNOWN"})
    /\ Enter
    /\ Continue("decode")
    /\ UNCHANGED <<registry_vars, net_vars, active_connections>>

UnknownCloses ==
    /\ NextFrame({"UNKNOWN"})
    /\ CloseClient(cur)
    /\ ContinueFreed

\* A frame without the signature or too long: this close ends the loop.
Garbage ==
    /\ NextFrame({"GARBAGE"})
    /\ CloseClient(cur)
    /\ pc' = "dispatch"
    /\ frames' = <<>>
    /\ cur' = NoFd

\* INIT_ACK, GET_REPORTS_RESP.
Reply ==
    /\ pc = "reply"
    /\ SendReturns(cur)
    /\ pc' = "decode"
    /\ UNCHANGED <<registry_vars, net_vars, timer_pending, running,
                   active_connections, conn_map, batch, pending, cur, frames>>

\* CLOSE_ACK, then remove_session and close_client.
CloseAck ==
    /\ pc = "closeack"
    /\ SendReturns(cur)
    /\ CloseClient(cur)
    /\ ContinueFreed
    /\ UNCHANGED <<timer_pending, running, batch, pending>>

ReplyDies ==
    /\ pc \in {"reply", "closeack"}
    /\ SendKills(cur)
    /\ Die

-----------------------------------------------------------------------------
PeerNext ==
    \E p \in Peer :
        \/ Connect(p)
        \/ \E m \in Message : PeerSend(p, m)
        \/ Hangup(p)
        \/ Stall(p)
        \/ Resume(p)

AcceptNext ==
    \/ \E p \in Peer : AcceptAddFails(p) \/ \E fd \in Fd : Accept(p, fd)
    \/ AcceptDone

TimerNext ==
    \/ \E fd \in Fd : Expire(fd) \/ SendKeepalive(fd) \/ SendKeepaliveDies(fd)
    \/ ExpireDone
    \/ KeepaliveDone

EventNext ==
    \E e \in batch : Listen(e) \/ Timer(e) \/ HangupEvent(e) \/ RecvClosed(e) \/ Recv(e)

FrameNext ==
    \/ DecodeDone
    \/ HandleInit \/ RefuseInit
    \/ HandleKeepalive \/ HandleReport
    \/ HandleClose \/ HandleCloseUnknown
    \/ UnknownIgnored \/ UnknownCloses \/ Garbage
    \/ Reply \/ CloseAck \/ ReplyDies

LoopNext == LoopTop \/ EpollWait \/ BatchDone \/ EventNext \/ AcceptNext
                \/ TimerNext \/ FrameNext

Next == PeerNext \/ Second \/ Signal \/ LoopNext

Spec == Init /\ [][Next]_vars

\* The loop runs whenever it is not blocked, and time passes.  Peers owe
\* nothing: they may be silent, stall or stay away for ever.
Fairness == WF_vars(LoopNext) /\ WF_vars(Second)

FairSpec == Spec /\ Fairness

-----------------------------------------------------------------------------
(* Properties.                                                             *)

OpenFds == {fd \in Fd : sock[fd] # NoPeer}

\* The session on a descriptor belongs to the process connected to it, however
\* often the kernel reuses the number: close_client leaves no session behind
\* that the next connection would inherit.  The exception are registrations read
\* from the buffer of a connection that is closed already.
SessionOwner ==
    ~Down => \A fd \in SessionFds \ strays : sock[fd] = session_mapping[fd].addr

\* The connection counter never exceeds what is open plus what failed epoll_ctl
\* adds have leaked: no path that closes a connection forgets to count it, so
\* the limit turns nobody away while there is room.
CountNotAbove ==
    ~Down => active_connections <= Cardinality(OpenFds) + add_fails

\* Handling an event closes a live connection only for a reason of its own (the
\* session was silent for more than Timeout seconds, the peer flooded or is gone)
\* or because the event was about an earlier connection with the same descriptor.
ClosedForCause ==
    [][\A fd \in Fd :
          LET p == sock[fd] IN
          pc \in {"dispatch", "expire"} /\ p # NoPeer /\ sock'[fd] = NoPeer =>
              \/ conn[p] = "gone"
              \/ pc = "expire" /\ session_mapping[fd].idle > Timeout
              \/ pc = "dispatch" /\ \E i \in 1 .. Len(stream[p]) : stream[p][i].type = "FLOOD"
              \/ \E e \in batch \ batch' : e.kind = "conn" /\ e.fd = fd /\ e.who # p]_vars

\* A peer that disconnects suddenly does not take the controller with it.
SurvivesDisconnects == pc # "killed"

\* A session that has been silent for too long is closed or heard of again: no
\* zombie keeps its share of the traffic.
ZombieClosed ==
    \A fd \in Fd : fd \in ExpiredSessions ~> (fd \notin ExpiredSessions \/ Down)

\* Every sudden disconnect is noticed: the descriptor is closed and, with
\* SessionOwner, its session removed.
HangupCleanedUp ==
    \A p \in Peer : conn[p] = "gone" ~> (conn[p] = "closed" \/ Down)

\* A signal ends the loop, wherever it finds it.
SignalStops == ~running ~> Down
=============================================================================
