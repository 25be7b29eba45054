----------------------------- MODULE LocalSocket -----------------------------
(***************************************************************************)
(* Data and connections of the sockets of a namespace                      *)
(* (internal/sandbox/local_unix.go), as guests use them through the WASI   *)
(* calls of internal/sandbox/system.go and wasi.go.                        *)
(*                                                                         *)
(* A socket is a pair of UNIX sockets: the guest reads and writes fd0; fd1 *)
(* is sent to the server it connects to, written by those who send it      *)
(* datagrams, or given to a goroutine that copies between it and a         *)
(* connection to a host outside (a bridge).  Which bridges exist depends   *)
(* on the functions the namespace was created with:                        *)
(*   "dial"    socket 1 is a stream that connects to a host;               *)
(*   "udp"     socket 1 is a datagram socket that connects to a host, in a *)
(*             namespace that has a dial function only;                    *)
(*   "local"   socket 1 connects to socket 2, which accepts socket 4;      *)
(*   "listen"  socket 2 listens and a host connects to it, through socket  *)
(*             3 of the bridge;                                            *)
(*   "packets" datagram sockets 1, with a packet connection, and 2.        *)
(* Addresses and ports are those of LocalNetwork: a socket stands for the  *)
(* address it is bound to.                                                 *)
(***************************************************************************)
EXTENDS Integers, Sequences, FiniteSets, SequencesExt

CONSTANTS Modes,      \* the namespaces looked at
          MaxSends,   \* what each guest, and each host of a stream, sends
          MaxHeard,   \* datagrams of hosts
          NonBlock,   \* whether each socket is opened non-blocking
          QueueSize,  \* what a UNIX socket queues
          None

ASSUME SocketsAssumption ==
    /\ Modes \subseteq {"dial", "udp", "local", "listen", "packets"}
    /\ MaxSends \in [Modes -> Nat \ {0}] /\ MaxHeard \in Nat
    /\ NonBlock \in [Modes -> [{1, 2, 4} -> SUBSET BOOLEAN]]
    /\ QueueSize \in Nat \ {0}

VARIABLES
    mode,    \* which functions the namespace has
    sock,    \* localSocket of each guest
    ep,      \* the UNIX sockets: who holds them and what they queue
    task,    \* the goroutine that bridges a socket, and its errors channel
    conn,    \* connections with hosts outside, as both ends see them
    tun,     \* the two goroutines of tunnel, per connection
    heard    \* datagrams the hosts have sent to socket 1

vars == <<mode, sock, ep, task, conn, tun, heard>>

Sockets == 1 .. 4
host == 8
stray == 9
Hosts == {host, stray}
Conns == {"out", "in"}
Ends == {1, 2, 3} \X {0, 1}

ASSUME NoneAssumption ==
    /\ None \notin Ends /\ None \notin 1 .. stray
    /\ None \notin {"STREAM", "DGRAM", "send", "recv"}

(* Who holds a UNIX socket: the socketFD of a socket, the duplicates of    *)
(* its fd0 and fd1 for blocking calls, a goroutine of a bridge, a message  *)
(* that carries it, and someone that has acquired it from its owner.       *)
Holders == {"fd", "file0", "file1", "net", "msg", "peer"}

Data(by, from, n) == [kind |-> "data", by |-> by, from |-> from, n |-> n, fd |-> None]
Connection(from, e) == [kind |-> "conn", by |-> from, from |-> from, n |-> 0, fd |-> e]

idle == [op |-> None, to |-> None, fd |-> None]
NoSocket == [at |-> "none", type |-> None, st |-> {}, peer |-> None, fd0 |-> None, fd1 |-> None,
             htls |-> "none", call |-> idle,
             sent |-> 0, got |-> <<>>, eof |-> FALSE]
NoTask == [at |-> "none", stop |-> FALSE, errs |-> <<>>, made |-> FALSE, closed |-> FALSE]
NoConn == [at |-> "none", end |-> "no", sent |-> 0, down |-> <<>>, got |-> <<>>, upEnd |-> FALSE, tls |-> FALSE]
NoTunnel == [at |-> "none", d |-> None, up |-> TRUE, down |-> TRUE, err |-> FALSE]

TypeOf(m) == IF m \in {"dial", "local", "listen"} THEN "STREAM" ELSE "DGRAM"
(* A server is not connected, and not bound without listening. *)
Server(s) == mode \in {"local", "listen"} /\ s = 2

Opens(m) ==
    CASE m \in {"dial", "udp"} -> {1}
      [] m = "listen" -> {2}
      [] OTHER -> {1, 2}

Init ==
    /\ mode \in Modes
    /\ sock = [s \in Sockets |-> NoSocket]
    /\ ep = [e \in Ends |-> [refs |-> {}, q |-> <<>>, shut |-> FALSE]]
    /\ task = [s \in {1, 2} |-> NoTask]
    /\ conn = [c \in Conns |-> NoConn]
    /\ tun = [c \in Conns |-> NoTunnel]
    /\ heard = 0

-----------------------------------------------------------------------------
(* The UNIX sockets: operators on the function ep.                         *)

Partner(e) == <<e[1], 1 - e[2]>>

Hold(E, e, h) == [E EXCEPT ![e].refs = @ \cup {h}]

Drop(E, e, hs) ==
    LET r == E[e].refs \ hs
    IN  [E EXCEPT ![e] = [refs |-> r, q |-> IF r = {} THEN <<>> ELSE E[e].q, shut |-> E[e].shut]]

(* A UNIX socket that nobody holds is gone, with the descriptors that it   *)
(* queues.                                                                 *)
Release(E, e, hs) ==
    LET queued == {m.fd : m \in Range(E[e].q)} \ {None}
        E1 == Drop(E, e, hs)
    IN  IF E1[e].refs # {} THEN E1
        ELSE [x \in Ends |-> IF x \in queued THEN Drop(E1, x, {"msg"})[x] ELSE E1[x]]

(* The outcome of writing to e. *)
Gone(E, e) == E[Partner(e)].refs = {} \/ E[Partner(e)].shut
Full(E, e) == Len(E[Partner(e)].q) >= QueueSize
Put(E, e, m) == [E EXCEPT ![Partner(e)].q = Append(@, m)]

Readable(E, e) == E[e].q # <<>>
Take(E, e) == [E EXCEPT ![e].q = Tail(@)]

(* The other end of a stream was closed or shut down; a datagram socket    *)
(* is not told.                                                            *)
AtEnd(E, e) == TypeOf(mode) = "STREAM" /\ E[e].q = <<>> /\ (E[e].shut \/ E[Partner(e)].refs = {})

-----------------------------------------------------------------------------
(* Errors of the bridges, and the state of a socket.                       *)

Is(s, flag) == flag \in sock[s].st
Ready(s) == sock[s].at = "open" /\ sock[s].call = idle
Bridged(s) == s \in {1, 2} /\ task[s].made

(* Error: takes the error in the channel, if there is one. *)
Error(s) == Bridged(s) /\ task[s].errs # <<>>
TakeError(s) == task' = [task EXCEPT ![s].errs = <<>>]

Blocking(s) == ~Is(s, "nonblocking")

(* Blocking calls go through duplicates of fd0 and fd1, made by the first  *)
(* one and kept until Close.                                               *)
socketFile0(E, e) == Hold(E, e, "file0")
socketFile1(E, e) == Hold(E, e, "file1")

htlsClear(r) == IF r.htls = "open" THEN [r EXCEPT !.htls = "plain"] ELSE r

(* SockOpen and socket, for the type and protocol the guest asks for. *)
SocketType(st, proto) ==
    CASE st = "ANY" /\ proto = "TCP" -> "STREAM"
      [] st = "ANY" /\ proto = "UDP" -> "DGRAM"
      [] st = "ANY" -> None
      [] OTHER -> st

socketpair(E, s) == Hold(Hold(E, <<s, 0>>, "fd"), <<s, 1>>, "fd")

SockOpen(s, st, proto, nonblock) ==
    /\ s \in Opens(mode) /\ sock[s].at = "none"
    /\ SocketType(st, proto) = TypeOf(mode)
    /\ ep' = socketpair(ep, s)
    /\ sock' = [sock EXCEPT ![s] = [NoSocket EXCEPT !.at = "open", !.type = TypeOf(mode),
                                        !.st = IF nonblock THEN {"nonblocking"} ELSE {},
                                        !.fd0 = <<s, 0>>, !.fd1 = <<s, 1>>]]
    /\ UNCHANGED <<mode, task, conn, tun, heard>>

(* bindAny with listenPacket: a datagram socket whose namespace has a      *)
(* packet listen function gets a goroutine that shares its fd1.            *)
Packets(s) == mode = "packets" /\ s = 1

listenPacket(s) ==
    /\ task' = [task EXCEPT ![s] = [NoTask EXCEPT !.at = "reading", !.made = TRUE]]
    /\ ep' = Hold(ep, sock[s].fd1, "net")

Bind(s, ok) ==
    /\ Ready(s) /\ ~Is(s, "bound")
    /\ sock' = [sock EXCEPT ![s].st = @ \cup {"bound"}]
    /\ IF Packets(s) /\ ok THEN listenPacket(s) ELSE UNCHANGED <<task, ep>>
    /\ UNCHANGED <<mode, conn, tun, heard>>

-----------------------------------------------------------------------------
(* The goroutine of listenPacket.                                          *)

EndTask(s, errs) == task' = [task EXCEPT ![s] = [@ EXCEPT !.at = "done", !.errs = errs, !.closed = TRUE]]

(* A datagram of a host is read and written to fd1, which fails when the   *)
(* guest has closed the socket and when it is behind by a full queue.      *)
PacketRead(s, from) ==
    LET e == <<s, 1>>
    IN  /\ task[s].at = "reading" /\ Packets(s) /\ ~task[s].stop
        /\ heard < MaxHeard
        /\ heard' = heard + 1
        /\ IF Gone(ep, e) \/ Full(ep, e)
           THEN EndTask(s, <<"error">>) /\ ep' = Release(ep, e, {"net"})
           ELSE ep' = Put(ep, e, Data(from, from, heard')) /\ UNCHANGED task
        /\ UNCHANGED <<mode, sock, conn, tun>>

(* The packet connection was closed by Close. *)
PacketEnd(s) ==
    /\ task[s].at = "reading" /\ Packets(s) /\ task[s].stop
    /\ EndTask(s, <<"error">>)
    /\ ep' = Release(ep, <<s, 1>>, {"net"})
    /\ UNCHANGED <<mode, sock, conn, tun, heard>>

-----------------------------------------------------------------------------
(* listen and serve: connections of hosts to socket 2.                     *)

\* Mutant: the descriptor sent to the server is kept.
connectKeeps(E, e, from, fd1) == Hold(Put(E, e, Connection(from, fd1)), fd1, "msg")

(* connect: fd1 is sent to the server, and closed. *)
connect(E, e, from, fd1) == Drop(Hold(Put(E, e, Connection(from, fd1)), fd1, "msg"), fd1, {"fd"})

SockListen(s) ==
    /\ Server(s) /\ Ready(s) /\ ~Is(s, "listening")
    /\ sock' = [sock EXCEPT ![s].st = @ \cup {"bound", "listening"}]
    /\ task' = IF mode = "listen"
               THEN [task EXCEPT ![s] = [NoTask EXCEPT !.at = "accepting", !.made = TRUE]]
               ELSE task
    /\ UNCHANGED <<mode, ep, conn, tun, heard>>

(* A host connects: its connection is in the queue of the listener. *)
HostConnect ==
    /\ task[2].at \in {"accepting", "serving"} /\ ~task[2].stop
    /\ conn["in"].at = "none"
    /\ conn' = [conn EXCEPT !["in"].at = "queued"]
    /\ UNCHANGED <<mode, sock, ep, task, tun, heard>>

(* Accept returns it; serve acquires fd1 of the listener, which may be     *)
(* closed by now.                                                          *)
Serve(s) ==
    LET fd1 == sock[s].fd1
    IN  /\ task[s].at = "accepting" /\ ~task[s].stop /\ conn["in"].at = "queued"
        /\ conn' = [conn EXCEPT !["in"].at = "open"]
        /\ task' = [task EXCEPT ![s].at = "serving"]
        /\ ep' = IF fd1 = None THEN ep ELSE Hold(ep, fd1, "peer")
        /\ UNCHANGED <<mode, sock, tun, heard>>

\* Mutant: a connection that is not served stays open.
ServeFailsOpen(s) ==
    /\ conn' = conn
    /\ task' = [task EXCEPT ![s] = [task[s] EXCEPT !.at = "accepting", !.errs = IF @ = <<>> THEN <<"aborted">> ELSE @]]
    /\ ep' = Release(ep, <<s, 1>>, {"peer"})
    /\ UNCHANGED tun

(* No descriptors are left, or the listener takes no more: the connection  *)
(* is closed, and the error dropped when there is one already.             *)
ServeFails(s) ==
    /\ conn' = [conn EXCEPT !["in"].at = "closed"]
    /\ task' = [task EXCEPT ![s] = [task[s] EXCEPT !.at = "accepting", !.errs = IF @ = <<>> THEN <<"aborted">> ELSE @]]
    /\ ep' = Release(ep, <<s, 1>>, {"peer"})
    /\ UNCHANGED tun

(* Socket 3 is made, its fd1 sent to the listener and its fd0 given to the *)
(* tunnel.                                                                 *)
Served(s, ok) ==
    LET e == <<s, 1>>
        fits == ~Gone(ep, e) /\ ~Full(ep, e)
    IN  /\ task[s].at = "serving"
        /\ IF ok /\ "peer" \in ep[e].refs /\ fits
           THEN /\ ep' = LET sent == connect(socketpair(ep, 3), e, host, <<3, 1>>)
                         IN  Release(Drop(Hold(sent, <<3, 0>>, "net"), <<3, 0>>, {"fd"}), e, {"peer"})
                /\ tun' = [tun EXCEPT !["in"] = [NoTunnel EXCEPT !.at = "run", !.d = <<3, 0>>, !.up = FALSE, !.down = FALSE]]
                /\ task' = [task EXCEPT ![s].at = "accepting"]
                /\ UNCHANGED conn
           ELSE ServeFails(s)
        /\ UNCHANGED <<mode, sock, heard>>

(* No descriptor is left for the tunnel when fd1 was sent: the listener     *)
(* has a connection that nobody serves.                                    *)
FileConnFails(s) ==
    LET e == <<s, 1>>
        sent == connect(socketpair(ep, 3), e, host, <<3, 1>>)
    IN  /\ task[s].at = "serving"
        /\ "peer" \in ep[e].refs /\ ~Gone(ep, e) /\ ~Full(ep, e)
        /\ ep' = Release(Drop(sent, <<3, 0>>, {"fd"}), e, {"peer"})
        /\ tun' = [tun EXCEPT !["in"] = [NoTunnel EXCEPT !.at = "failed", !.d = <<3, 0>>, !.up = FALSE, !.down = FALSE]]
        /\ conn' = [conn EXCEPT !["in"].at = "closed"]
        /\ task' = [task EXCEPT ![s] = [task[s] EXCEPT !.at = "accepting", !.errs = IF @ = <<>> THEN <<"aborted">> ELSE @]]
        /\ UNCHANGED <<mode, sock, heard>>

(* Accept of the closed listener fails; the goroutine waits until there is *)
(* room for its error.                                                     *)
ListenEnd(s) ==
    /\ task[s].at = "accepting" /\ task[s].stop
    /\ task[s].errs = <<>>
    /\ EndTask(s, <<"error">>)
    /\ UNCHANGED <<mode, sock, ep, conn, tun, heard>>

(* SockAccept: the error of the bridge comes first; a guest without room   *)
(* for another descriptor closes what it has accepted.                     *)
SockAccept(s, nonblock, room) ==
    LET m == Head(ep[<<s, 0>>].q)
        held == IF Blocking(s) THEN socketFile0(ep, <<s, 0>>) ELSE ep
    IN  /\ Ready(s) /\ Is(s, "listening")
        /\ IF Error(s)
           THEN TakeError(s) /\ UNCHANGED <<sock, ep>>
           ELSE /\ Readable(ep, <<s, 0>>) /\ sock[4].at = "none"
                /\ IF room
                   THEN /\ sock' = [sock EXCEPT
                               ![4] = [NoSocket EXCEPT !.at = "open", !.type = sock[s].type, !.peer = m.from,
                                          !.st = {"bound", "accepted", "connected"} \cup
                                                 IF nonblock THEN {"nonblocking"} ELSE {},
                                          !.fd0 = m.fd]]
                        /\ ep' = Drop(Hold(Take(held, <<s, 0>>), m.fd, "fd"), m.fd, {"msg"})
                   ELSE /\ ep' = Drop(Take(held, <<s, 0>>), m.fd, {"msg"})
                        /\ UNCHANGED sock
                /\ UNCHANGED task
        /\ UNCHANGED <<mode, conn, tun, heard>>

-----------------------------------------------------------------------------
(* SockConnect, connect and dial.                                          *)

Connected(r, to, flags) == [r EXCEPT !.peer = to, !.st = @ \cup {"connected"} \cup flags]

(* To a socket of the network: a stream sends its fd1 to the server. *)
ConnectLocal(s, p) ==
    LET e == <<p, 1>>
        fits == ~Gone(ep, e) /\ ~Full(ep, e)
    IN  /\ sock[p].at = "open" /\ Is(p, "bound")
        /\ IF TypeOf(mode) = "DGRAM"
           THEN sock' = [sock EXCEPT ![s] = Connected(sock[s], p, {})] /\ UNCHANGED ep
           ELSE /\ sock[p].fd1 # None /\ sock[s].fd1 # None /\ fits
                /\ ep' = connect(ep, e, s, sock[s].fd1)
                /\ sock' = [sock EXCEPT ![s] = [Connected(sock[s], p, {}) EXCEPT !.fd1 = None]]
        /\ UNCHANGED task

(* To a host: a socket with a packet connection only notes its peer; the   *)
(* others give their fd1 to a goroutine that dials.                        *)
dial(s) ==
    IF Packets(s) /\ Bridged(s)
    THEN sock' = [sock EXCEPT ![s] = Connected(sock[s], host, {})] /\ UNCHANGED <<task, ep>>
    ELSE /\ mode \in {"dial", "udp"} /\ sock[s].fd1 # None
         /\ ep' = Drop(Hold(ep, sock[s].fd1, "net"), sock[s].fd1, {"fd"})
         /\ sock' = [sock EXCEPT ![s] = [Connected(sock[s], host, {"tunneled"}) EXCEPT !.fd1 = None, !.htls = "open"]]
         /\ task' = [task EXCEPT ![s] = [NoTask EXCEPT !.at = "dialing", !.made = TRUE]]

SockConnect(s, to) ==
    /\ s \in {1, 2} /\ Ready(s)
    /\ ~Is(s, "listening") /\ ~Is(s, "connected") /\ Is(s, "bound")
    /\ IF to = host THEN dial(s) ELSE to # s /\ ConnectLocal(s, to)
    /\ UNCHANGED <<mode, conn, tun, heard>>

(* The goroutine of dial ends: both connections are closed. *)
DialEnds(s, errs) ==
    /\ EndTask(s, errs)
    /\ ep' = Release(ep, <<s, 1>>, {"net"})
    /\ conn' = [conn EXCEPT !["out"].at = "closed"]

Dialed(s, ok) ==
    /\ task[s].at = "dialing"
    /\ IF ok
       THEN /\ conn' = [conn EXCEPT !["out"].at = "open"]
            /\ task' = [task EXCEPT ![s].at = "decide"]
            /\ UNCHANGED ep
       ELSE DialEnds(s, <<"error">>)
    /\ UNCHANGED <<mode, sock, tun, heard>>

StartTunnel(s, tls) ==
    /\ task' = [task EXCEPT ![s].at = "tunnel"]
    /\ conn' = [conn EXCEPT !["out"].tls = tls]
    /\ tun' = [tun EXCEPT !["out"] = [NoTunnel EXCEPT !.at = "run", !.d = <<s, 1>>, !.up = FALSE, !.down = FALSE]]
    /\ UNCHANGED ep

\* Mutant: the goroutine does not wait for the guest's choice.
DecideNow(s) ==
    /\ task[s].at = "decide"
    /\ \/ task[s].stop /\ DialEnds(s, <<"error">>) /\ UNCHANGED tun
       \/ sock[s].htls \in {"open", "plain"} /\ StartTunnel(s, FALSE)
       \/ sock[s].htls = "name" /\ task' = [task EXCEPT ![s].at = "handshake"] /\ UNCHANGED <<ep, conn, tun>>
    /\ UNCHANGED <<mode, sock, heard>>

(* The guest names the server before it sends, receives or shuts down, or  *)
(* there is no TLS; or it closes the socket.                               *)
Decide(s) ==
    /\ task[s].at = "decide"
    /\ \/ task[s].stop /\ DialEnds(s, <<"error">>) /\ UNCHANGED tun
       \/ sock[s].htls = "plain" /\ StartTunnel(s, FALSE)
       \/ sock[s].htls = "name" /\ task' = [task EXCEPT ![s].at = "handshake"] /\ UNCHANGED <<ep, conn, tun>>
    /\ UNCHANGED <<mode, sock, heard>>

Handshake(s, ok) ==
    /\ task[s].at = "handshake"
    /\ IF ok THEN StartTunnel(s, TRUE) ELSE DialEnds(s, <<"error">>) /\ UNCHANGED tun
    /\ UNCHANGED <<mode, sock, heard>>

-----------------------------------------------------------------------------
(* tunnel and copyAndClose, between the UNIX socket d and a host.          *)

CopyEnds(c, dir, failed) ==
    tun' = [tun EXCEPT ![c] = [tun[c] EXCEPT !.up = @ \/ dir = "up", !.down = @ \/ dir = "down", !.err = @ \/ failed]]

\* Mutant: the end of what the guest sends closes the connection.
CloseUpBoth(c, failed) ==
    /\ tun' = [tun EXCEPT ![c] = [@ EXCEPT !.up = TRUE, !.down = TRUE, !.err = @ \/ failed]]
    /\ conn' = [conn EXCEPT ![c] = [@ EXCEPT !.upEnd = TRUE, !.down = <<>>]]
    /\ ep' = [ep EXCEPT ![Partner(tun[c].d)].shut = TRUE]

(* What was copied is over: CloseWrite on the connection. *)
CloseUp(c, failed) ==
    /\ CopyEnds(c, "up", failed)
    /\ conn' = [conn EXCEPT ![c].upEnd = TRUE]
    /\ UNCHANGED ep

CopyUp(c) ==
    LET d == tun[c].d
    IN  /\ tun[c].at = "run" /\ ~tun[c].up
        /\ IF Readable(ep, d)
           THEN IF conn[c].end = "full"
                THEN /\ CopyEnds(c, "up", TRUE)
                     /\ ep' = Take(ep, d)
                     /\ conn' = [conn EXCEPT ![c].upEnd = TRUE]
                ELSE /\ ep' = Take(ep, d)
                     /\ conn' = [conn EXCEPT ![c].got = Append(@, [n |-> Head(ep[d].q).n, tls |-> conn[c].tls])]
                     /\ UNCHANGED tun
           ELSE AtEnd(ep, d) /\ CloseUp(c, FALSE)
        /\ UNCHANGED <<mode, sock, task, heard>>

CloseDown(c, failed) ==
    /\ CopyEnds(c, "down", failed)
    /\ ep' = [ep EXCEPT ![Partner(tun[c].d)].shut = @ \/ TypeOf(mode) = "STREAM"]
    /\ UNCHANGED conn

CopyDown(c) ==
    LET d == tun[c].d
    IN  /\ tun[c].at = "run" /\ ~tun[c].down
        /\ IF conn[c].down # <<>>
           THEN IF Gone(ep, d)
                THEN CloseDown(c, TRUE)
                ELSE /\ ~Full(ep, d)
                     /\ ep' = Put(ep, d, Data(host, host, Head(conn[c].down)))
                     /\ conn' = [conn EXCEPT ![c].down = Tail(@)]
                     /\ UNCHANGED tun
           ELSE conn[c].end # "no" /\ CloseDown(c, FALSE)
        /\ UNCHANGED <<mode, sock, task, heard>>

TunnelEnd(c) ==
    /\ tun[c].at = "run" /\ tun[c].up /\ tun[c].down
    /\ tun' = [tun EXCEPT ![c].at = "done"]
    /\ IF c = "out"
       THEN DialEnds(1, IF tun[c].err THEN <<"error">> ELSE <<>>)
       ELSE /\ ep' = Release(ep, tun[c].d, {"net"})
            /\ conn' = [conn EXCEPT ![c].at = "closed"]
            /\ UNCHANGED task
    /\ UNCHANGED <<mode, sock, heard>>

(* The host sends, and ends its side or all of the connection. *)
HostSend(c) ==
    /\ tun[c].at = "run" /\ conn[c].end = "no" /\ conn[c].sent < MaxSends[mode]
    /\ conn' = [conn EXCEPT ![c] = [conn[c] EXCEPT !.sent = @ + 1, !.down = Append(@, conn[c].sent + 1)]]
    /\ UNCHANGED <<mode, sock, ep, task, tun, heard>>

HostEnd(c, how) ==
    /\ mode # "udp" /\ conn[c].at = "open"
    /\ conn[c].end # "full" /\ conn[c].end # how
    /\ conn' = [conn EXCEPT ![c].end = how]
    /\ UNCHANGED <<mode, sock, ep, task, tun, heard>>

-----------------------------------------------------------------------------
(* SockSend and SockSendTo, in two steps: what comes before the system     *)
(* call, and the system call.  bindAny, with which the first call on a     *)
(* socket starts, is Bind.                                                 *)

Linked(p) == sock[p].at = "open" /\ Is(p, "bound")

Dest(s, to) == IF TypeOf(mode) = "DGRAM" /\ ~Is(s, "tunneled") /\ to = None THEN sock[s].peer ELSE to

(* To a host: through the packet connection, if it is still open. *)
writeTo(s) ==
    /\ Packets(s) /\ task[s].at = "reading"
    /\ sock' = [sock EXCEPT ![s].sent = @ + 1]

SendTo(s, to) ==
    LET dest == Dest(s, to)
        clear == htlsClear(sock[s])
        start(e) == sock' = [sock EXCEPT ![s] = [clear EXCEPT !.call = [op |-> "send", to |-> dest, fd |-> e]]]
    IN  /\ Ready(s) /\ Is(s, "bound") /\ ~Is(s, "listening")
        /\ sock[s].sent < MaxSends[mode] /\ to # s
        /\ CASE (to # None) = Is(s, "connected") ->
                    sock' = [sock EXCEPT ![s] = clear] /\ UNCHANGED <<ep, task>>
             [] OTHER ->
                    \/ /\ Error(s)
                       /\ TakeError(s) /\ sock' = [sock EXCEPT ![s] = clear] /\ UNCHANGED ep
                    \/ /\ ~Error(s) /\ dest = None
                       /\ start(sock[s].fd0) /\ UNCHANGED <<ep, task>>
                    \/ /\ ~Error(s) /\ dest \in Hosts
                       /\ writeTo(s) /\ UNCHANGED <<ep, task>>
                    \/ /\ ~Error(s) /\ dest \in {1, 2} /\ TypeOf(mode) = "DGRAM"
                       /\ Linked(dest) /\ sock[dest].fd1 # None
                       /\ start(sock[dest].fd1) /\ ep' = Hold(ep, sock[dest].fd1, "peer") /\ UNCHANGED task
        /\ UNCHANGED <<mode, conn, tun, heard>>

(* sendto: to fd0 or, for a datagram of the network, to fd1 of the peer,   *)
(* with the sender's address before it.  A blocking call waits for room,   *)
(* unless the guest has set a timeout; one to a peer takes the peer's      *)
(* mutex, which Close holds.                                               *)
Sent(s) ==
    LET c == sock[s].call
        local == c.to # None
        closed == local /\ sock[c.to].at # "open"
        E1 == IF ~Blocking(s) \/ closed THEN ep
              ELSE IF local THEN socketFile1(ep, c.fd) ELSE socketFile0(ep, c.fd)
        failed == closed \/ Gone(ep, c.fd)
        done(E) == ep' = IF local THEN Release(E, c.fd, {"peer"}) ELSE E
        r == [sock[s] EXCEPT !.call = idle]
    IN  /\ c.op = "send"
        /\ (local /\ Blocking(s)) => sock[c.to].at # "closing"
        /\ \/ /\ ~failed /\ ~Full(ep, c.fd)
              /\ done(Put(E1, c.fd, Data(s, s, r.sent + 1)))
              /\ sock' = [sock EXCEPT ![s] = [r EXCEPT !.sent = @ + 1]]
           \/ /\ failed \/ Full(ep, c.fd)
              /\ done(E1)
              /\ sock' = [sock EXCEPT ![s] = r]
        /\ UNCHANGED <<mode, task, conn, tun, heard>>

-----------------------------------------------------------------------------
(* SockRecv and SockRecvFrom, in the same two steps; a blocking call       *)
(* returns without a message when the timeout set by the guest is over.    *)

RecvFrom(s) ==
    LET clear == htlsClear(sock[s])
    IN  /\ Ready(s) /\ Is(s, "bound") /\ ~Is(s, "listening")
        /\ IF Error(s)
           THEN TakeError(s) /\ sock' = [sock EXCEPT ![s] = clear] /\ UNCHANGED ep
           ELSE /\ sock' = [sock EXCEPT ![s] = [clear EXCEPT !.call = [idle EXCEPT !.op = "recv"]]]
                /\ ep' = IF Blocking(s) THEN socketFile0(ep, sock[s].fd0) ELSE ep
                /\ UNCHANGED task
        /\ UNCHANGED <<mode, conn, tun, heard>>

(* handleRecvFrom: a connected datagram socket drops what others send. *)
Accepts(s, m) ==
    (TypeOf(mode) = "DGRAM" /\ ~Is(s, "tunneled") /\ Is(s, "connected")) => m.from = sock[s].peer

Received(s) ==
    LET fd0 == sock[s].fd0
        m == Head(ep[fd0].q)
        r == [sock[s] EXCEPT !.call = idle]
    IN  /\ sock[s].call.op = "recv"
        /\ \/ /\ Readable(ep, fd0)
              /\ ep' = Take(ep, fd0)
              /\ sock' = [sock EXCEPT ![s] =
                             IF Accepts(s, m)
                             THEN [r EXCEPT !.got = Append(@, [by |-> m.by, from |-> m.from, n |-> m.n, peer |-> r.peer])]
                             ELSE IF Blocking(s) THEN sock[s] ELSE r]
           \/ /\ AtEnd(ep, fd0)
              /\ sock' = [sock EXCEPT ![s] = [r EXCEPT !.eof = TRUE]]
              /\ UNCHANGED ep
           \/ /\ ~Readable(ep, fd0) /\ ~AtEnd(ep, fd0)
              /\ sock' = [sock EXCEPT ![s] = r]
              /\ UNCHANGED ep
        /\ UNCHANGED <<mode, task, conn, tun, heard>>

(* SockShutdown: SHUT_RD is 0 and SHUT_WR is 1, so that both together are  *)
(* the latter.                                                             *)
ShutdownHow(flags) == IF "WR" \in flags THEN 1 ELSE 0

SockShutdown(s, flags) ==
    LET fd0 == sock[s].fd0
        e == IF ShutdownHow(flags) = 0 THEN fd0 ELSE Partner(fd0)
    IN  /\ Ready(s) /\ sock[s].type = "STREAM"
        /\ ep' = [ep EXCEPT ![e].shut = TRUE]
        /\ sock' = [sock EXCEPT ![s] = [htlsClear(sock[s]) EXCEPT
                       !.st = IF ShutdownHow(flags) = 0 THEN @ \cup {"deaf"} ELSE @]]
        /\ UNCHANGED <<mode, task, conn, tun, heard>>

(* SockSetOpt: the name of the TLS server. *)
SetTLSServerName(s) ==
    /\ sock[s].htls = "open"
    /\ sock' = [sock EXCEPT ![s].htls = "name"]

SockSetOpt(s) ==
    /\ Ready(s)
    /\ SetTLSServerName(s)
    /\ UNCHANGED <<mode, ep, task, conn, tun, heard>>

(* SockGetOpt: QuerySocketError takes the error away. *)
SockGetOpt(s) ==
    /\ Ready(s) /\ Error(s)
    /\ TakeError(s)
    /\ UNCHANGED <<mode, sock, ep, conn, tun, heard>>

-----------------------------------------------------------------------------
(* Close.                                                                  *)

\* Mutant: what waits for a host is not interrupted.
InterruptNone(s) == UNCHANGED <<task, conn>>

(* conn.Close, lstn.Close and cancel. *)
Interrupt(s) ==
    /\ task' = IF s \in {1, 2} THEN [task EXCEPT ![s].stop = TRUE] ELSE task
    /\ conn' = IF s = 2 /\ conn["in"].at = "queued" THEN [conn EXCEPT !["in"].at = "closed"] ELSE conn

FDClose(s) ==
    LET E0 == Release(ep, sock[s].fd0, {"file0", "fd"})
        detached == sock[s].fd1 = None
    IN  /\ Ready(s)
        /\ sock' = [sock EXCEPT ![s] = [@ EXCEPT !.at = "closing", !.fd1 = None]]
        /\ ep' = IF s = 4 THEN E0 ELSE Release(E0, <<s, 1>>, IF detached THEN {"file1"} ELSE {"file1", "fd"})
        /\ Interrupt(s)
        /\ UNCHANGED <<mode, tun, heard>>

(* The errors are read until the goroutine closes the channel. *)
CloseReads(s) ==
    /\ sock[s].at = "closing" /\ Bridged(s)
    /\ Error(s)
    /\ TakeError(s)
    /\ UNCHANGED <<mode, sock, ep, conn, tun, heard>>

CloseReturns(s) ==
    /\ sock[s].at = "closing" /\ ~Error(s)
    /\ Bridged(s) => task[s].closed
    /\ sock' = [sock EXCEPT ![s].at = "closed"]
    /\ UNCHANGED <<mode, ep, task, conn, tun, heard>>

-----------------------------------------------------------------------------

(* The calls of the guests. *)
Call(s) ==
    \/ \E st \in {"STREAM", "DGRAM", "ANY"}, proto \in {"TCP", "UDP"} :
          s \in {1, 2} /\ \E nb \in NonBlock[mode][s] : SockOpen(s, st, proto, nb)
    \/ ~Server(s) /\ \E ok \in BOOLEAN : Bind(s, ok)
    \/ SockListen(s)
    \/ \E nb \in NonBlock[mode][4], room \in BOOLEAN : SockAccept(s, nb, room)
    \/ ~Server(s) /\ \E to \in {1, 2, host} : SockConnect(s, to)
    \/ \E to \in {None, 1, 2, host} : SendTo(s, to)
    \/ Sent(s)
    \/ RecvFrom(s)
    \/ Received(s)
    \/ ~Server(s) /\ \E flags \in SUBSET {"RD", "WR"} : SockShutdown(s, flags)
    \/ SockSetOpt(s)
    \/ SockGetOpt(s)
    \/ FDClose(s)

Closing(s) == CloseReads(s) \/ CloseReturns(s)

(* The goroutines that bridge socket s. *)
Bridge(s) ==
    \/ PacketEnd(s)
    \/ Serve(s)
    \/ \E ok \in BOOLEAN : Served(s, ok)
    \/ FileConnFails(s)
    \/ ListenEnd(s)
    \/ \E ok \in BOOLEAN : Dialed(s, ok)
    \/ Decide(s)
    \/ \E ok \in BOOLEAN : Handshake(s, ok)

(* The hosts. *)
Host ==
    \/ \E from \in Hosts : PacketRead(1, from)
    \/ HostConnect
    \/ \E c \in Conns : HostSend(c) \/ \E how \in {"write", "full"} : HostEnd(c, how)

(* What goes on by itself. *)
Progress ==
    \/ \E s \in Sockets : Closing(s)
    \/ \E s \in {1, 2} : Bridge(s)
    \/ \E c \in Conns : CopyUp(c) \/ CopyDown(c) \/ TunnelEnd(c)

Next == Progress \/ Host \/ \E s \in Sockets : Call(s)

(* Goroutines run, dials and handshakes return; guests and hosts do what    *)
(* they like.  There are finitely many of these steps, so that one         *)
(* condition for all makes each of them happen.                            *)
Fairness == WF_vars(Progress)

Spec == Init /\ [][Next]_vars /\ Fairness

-----------------------------------------------------------------------------
(* Properties.                                                             *)

(* When Close has returned nothing of the socket is left: no goroutine, no *)
(* connection with a host, no descriptor but the one that it has sent to a *)
(* server; and a connection with a host is always in the hands of a        *)
(* goroutine that will close it (local_unix.go:184-230 and 415-424).       *)
NothingLeft ==
    /\ \A s \in {1, 2} : sock[s].at = "closed" =>
          /\ task[s].at \in {"none", "done"}
          /\ ep[<<s, 0>>].refs \subseteq {"peer"}
          /\ ep[<<s, 1>>].refs \subseteq IF TypeOf(mode) = "STREAM" THEN {"msg", "fd", "file0"} ELSE {"peer"}
    /\ conn["out"].at = "open" => task[1].at \in {"decide", "handshake", "tunnel"}
    /\ conn["in"].at = "open" => task[2].at = "serving" \/ tun["in"].at = "run"

(* What the other side of a stream has sent. *)
Source(s) ==
    CASE s = 1 /\ mode = "dial" -> conn["out"].sent
      [] s = 1 /\ mode # "dial" -> IF sock[4].fd0 = <<1, 1>> THEN sock[4].sent ELSE 0
      [] s = 4 -> IF sock[4].fd0 = <<1, 1>> THEN sock[1].sent ELSE conn["in"].sent

InOrder(got) == \A i \in DOMAIN got : got[i].n = i

GuestOf(c) == IF c = "out" THEN 1 ELSE 4

(* A stream delivers what was sent, in order and without repetition; and a *)
(* reader that sees the end has all that the other side sent, whichever    *)
(* side ended first (tunnel and copyAndClose, local_unix.go:1263-1289).    *)
StreamIntact ==
    TypeOf(mode) = "STREAM" =>
        /\ \A s \in {1, 4} : /\ InOrder(sock[s].got)
                             /\ sock[s].eof /\ ~Is(s, "deaf") => Len(sock[s].got) = Source(s)
        /\ \A c \in Conns : /\ InOrder(conn[c].got)
                            /\ conn[c].upEnd /\ conn[c].end # "full" /\ (c = "in" => sock[4].fd0 = <<3, 1>>)
                                  => Len(conn[c].got) = sock[GuestOf(c)].sent

(* A guest that has set the name of a TLS server sends nothing in clear    *)
(* (SetTLSServerName against the goroutine of dial, local_unix.go:618-636).*)
SecureWhenAsked ==
    sock[1].htls = "name" => \A i \in DOMAIN conn["out"].got : conn["out"].got[i].tls

(* A datagram comes with the address of who sent it, at most once and in   *)
(* the order of its sender; and a connected socket gets those of its peer  *)
(* only (SendTo, listenPacket and handleRecvFrom).                         *)
DatagramsFromPeer ==
    mode = "packets" =>
        \A s \in {1, 2} : \A i \in DOMAIN sock[s].got :
            LET m == sock[s].got[i]
            IN  /\ m.from = m.by
                /\ m.peer # None => m.from = m.peer
                /\ \A j \in 1 .. i - 1 : sock[s].got[j].by = m.by => sock[s].got[j].n < m.n

(* What is received is what was sent, by whom it says. *)
DataIntact == StreamIntact /\ DatagramsFromPeer

(* What the tunnel of a socket that dials a host still does is to wait for *)
(* the host, which has neither ended its side nor sent anything since: the *)
(* read of copyAndClose that no Close interrupts.                          *)
WaitsForHost(s) ==
    /\ s = 1 /\ task[s].at = "tunnel"
    /\ tun["out"].up /\ ~tun["out"].down
    /\ conn["out"].end = "no" /\ conn["out"].down = <<>>

(* Close returns, whatever a bridge does when it is called, unless its     *)
(* tunnel waits for the host for ever.  Datagram sockets that were dialed  *)
(* are left out: see the README.                                           *)
SocketCloseReturns ==
    \A s \in Sockets :
        (sock[s].at = "closing" /\ mode # "udp") ~> (sock[s].at = "closed" \/ []WaitsForHost(s))

(* What the comments of Close say (local_unix.go:186-190 and 218-223): it  *)
(* interrupts the tunnels, so that it returns.  No run checks it; a host   *)
(* that keeps its connection open violates it.                             *)
CloseInterrupts ==
    \A s \in Sockets : (sock[s].at = "closing" /\ mode # "udp") ~> sock[s].at = "closed"

Left(s) == sock[s].at \in {"closing", "closed"}

GuestLeft(c) ==
    IF c = "out" THEN Left(1) ELSE IF sock[4].fd0 = <<3, 1>> THEN Left(4) ELSE Left(2)

(* The host learns that the guest is gone: when the socket of a bridged    *)
(* connection is closed, and when the listener is closed before it was     *)
(* accepted, the connection is ended.                                      *)
EndReachesHost ==
    \A c \in Conns : (conn[c].at = "open" /\ GuestLeft(c) /\ mode # "udp")
                         ~> (conn[c].upEnd \/ conn[c].at = "closed")
=============================================================================
