-------------------------- MODULE LocalSocketProofs --------------------------
(***************************************************************************)
(* Proofs about LocalSocket, for any number of cells and datagrams, queues *)
(* of any size and any choice of non-blocking sockets, in each kind of     *)
(* namespace.                                                              *)
(*                                                                         *)
(* The argument: a UNIX socket has few holders at a time, and which ones   *)
(* follows from the state of its socket, of its goroutine and of what is   *)
(* queued at the server (PairA, PairB, PairC, QueueInv); a connection with *)
(* a host belongs to exactly one goroutine (ConnInv).  What was sent on a  *)
(* stream is, in order, what was received, what the UNIX socket queues and *)
(* what the tunnel still has to copy (UpInv, DownInv, PipeInv), as long as *)
(* somebody holds the receiving end; an end that is seen is seen with all  *)
(* of these queues empty.  Datagrams may be lost, and are in the order of  *)
(* their sender in the queue and among those received (Mail).              *)
(***************************************************************************)
EXTENDS LocalSocket, TLAPS

-----------------------------------------------------------------------------
(* Types.                                                                  *)

Flags == {"nonblocking", "bound", "listening", "accepted", "connected", "tunneled", "deaf"}
Parties == 1 .. stray
Peers == {None, 1, 2, host}
EndOrNone == Ends \cup {None}
Message == [kind : {"data", "conn"}, by : Parties, from : Parties, n : Nat, fd : EndOrNone]
UnixSocket == [refs : SUBSET Holders, q : Seq(Message), shut : BOOLEAN]
CallType == [op : {None, "send", "recv"}, to : {None, 1, 2}, fd : EndOrNone]
Receipt == [by : Parties, from : Parties, n : Nat, peer : Peers]
SocketRecord ==
    [at : {"none", "open", "closing", "closed"}, type : {None, "STREAM", "DGRAM"}, st : SUBSET Flags,
     peer : Peers, fd0 : EndOrNone, fd1 : EndOrNone, htls : {"none", "open", "plain", "name"},
     call : CallType, sent : Nat, got : Seq(Receipt), eof : BOOLEAN]
TaskStates == {"none", "reading", "accepting", "serving", "dialing", "decide", "handshake", "tunnel", "done"}
TaskType == [at : TaskStates, stop : BOOLEAN, errs : Seq({"error", "aborted"}), made : BOOLEAN, closed : BOOLEAN]
ConnType ==
    [at : {"none", "queued", "open", "closed"}, end : {"no", "write", "full"}, sent : Nat, down : Seq(Nat),
     got : Seq([n : Nat, tls : BOOLEAN]), upEnd : BOOLEAN, tls : BOOLEAN]
TunnelType == [at : {"none", "run", "done", "failed"}, d : EndOrNone, up : BOOLEAN, down : BOOLEAN, err : BOOLEAN]

\* The fields of the records, and what they may be.
TypeOK ==
    /\ mode \in Modes
    /\ sock \in [Sockets -> SocketRecord]
    /\ ep \in [Ends -> UnixSocket]
    /\ task \in [{1, 2} -> TaskType]
    /\ conn \in [Conns -> ConnType]
    /\ tun \in [Conns -> TunnelType]
    /\ heard \in Nat

-----------------------------------------------------------------------------
(* The pairs of UNIX sockets: a of socket 1, b of socket 2, c of socket 3. *)

a0 == <<1, 0>>
a1 == <<1, 1>>
b0 == <<2, 0>>
b1 == <<2, 1>>
c0 == <<3, 0>>
c1 == <<3, 1>>

\* The six UNIX sockets are different, and None is none of them.
LEMMA EndsAre ==
    /\ Ends = {a0, a1, b0, b1, c0, c1}
    /\ a0 # a1 /\ a0 # b0 /\ a0 # b1 /\ a0 # c0 /\ a0 # c1 /\ a1 # b0 /\ a1 # b1 /\ a1 # c0 /\ a1 # c1
    /\ b0 # b1 /\ b0 # c0 /\ b0 # c1 /\ b1 # c0 /\ b1 # c1 /\ c0 # c1
    /\ None # a0 /\ None # a1 /\ None # b0 /\ None # b1 /\ None # c0 /\ None # c1
  <1>1. \A e \in Ends : e \in {a0, a1, b0, b1, c0, c1}
    BY DEF Ends, a0, a1, b0, b1, c0, c1
  <1>2. {a0, a1, b0, b1, c0, c1} \subseteq Ends
    BY DEF Ends, a0, a1, b0, b1, c0, c1
  <1>3. /\ a0 # a1 /\ a0 # b0 /\ a0 # b1 /\ a0 # c0 /\ a0 # c1 /\ a1 # b0 /\ a1 # b1 /\ a1 # c0 /\ a1 # c1
        /\ b0 # b1 /\ b0 # c0 /\ b0 # c1 /\ b1 # c0 /\ b1 # c1 /\ c0 # c1
    BY DEF a0, a1, b0, b1, c0, c1
  <1> QED
    BY <1>1, <1>2, <1>3, NoneAssumption

\* The two ends of a pair.
LEMMA PartnersAre ==
    /\ Partner(a0) = a1 /\ Partner(a1) = a0 /\ Partner(b0) = b1 /\ Partner(b1) = b0
    /\ Partner(c0) = c1 /\ Partner(c1) = c0
    /\ \A e \in Ends : Partner(e) \in Ends /\ Partner(e) # e
  <1>1. /\ Partner(a0) = a1 /\ Partner(a1) = a0 /\ Partner(b0) = b1 /\ Partner(b1) = b0
        /\ Partner(c0) = c1 /\ Partner(c1) = c0
    BY DEF Partner, a0, a1, b0, b1, c0, c1
  <1> QED
    BY <1>1, EndsAre

-----------------------------------------------------------------------------
(* Control.                                                                *)

IsStream == TypeOf(mode) = "STREAM"

\* A socket by its state: 1 and 2 are opened, 4 is accepted, and 3 is no socket of a guest.
SocketInv ==
    /\ sock[3] = NoSocket
    /\ \A s \in Sockets : sock[s].at = "none" => sock[s] = NoSocket
    /\ \A s \in {1, 2} : sock[s].at # "none" =>
          s \in Opens(mode) /\ sock[s].type = TypeOf(mode) /\ sock[s].fd0 = <<s, 0>>
    /\ \A s \in {1, 2} : sock[s].fd1 \in {None, <<s, 1>>}
    /\ \A s \in {1, 2} : mode = "packets" /\ sock[s].at = "open" => sock[s].fd1 = <<s, 1>>
    /\ sock[4].at # "none" =>
          /\ mode \in {"local", "listen"} /\ sock[4].type = "STREAM"
          /\ "connected" \in sock[4].st /\ "bound" \in sock[4].st
          /\ sock[4].fd0 = IF mode = "local" THEN a1 ELSE c1
    /\ sock[4].fd1 = None
    /\ \A s \in Sockets : sock[s].at # "open" => sock[s].fd1 = None /\ sock[s].call = idle

\* A server neither sends nor receives.
Silent(r) == r.call = idle /\ ("bound" \in r.st => "listening" \in r.st)

\* A pending send goes to fd0, or to fd1 of the peer of a datagram.
CallInv ==
    /\ \A s \in Sockets :
          sock[s].call.op = "send" =>
                \/ /\ sock[s].call.to = None /\ sock[s].call.fd = sock[s].fd0
                   /\ "connected" \in sock[s].st
                \/ ~IsStream /\ s \in {1, 2} /\ sock[s].call.to = 3 - s /\ sock[s].call.fd = <<3 - s, 1>>
    /\ Server(2) => Silent(sock[2])

\* The flags of a socket, and what follows from them.
StateInv ==
    \A s \in Sockets :
        /\ "listening" \in sock[s].st => Server(s)
        /\ Server(s) => "connected" \notin sock[s].st
        /\ "connected" \in sock[s].st <=> sock[s].peer # None
        /\ sock[s].peer # s
        /\ "connected" \in sock[s].st => "bound" \in sock[s].st
        /\ "tunneled" \in sock[s].st => s = 1 /\ mode \in {"dial", "udp"} /\ "connected" \in sock[s].st
        /\ sock[s].htls # "none" <=> "tunneled" \in sock[s].st
        /\ mode \in {"dial", "udp"} /\ "connected" \in sock[s].st => "tunneled" \in sock[s].st
        /\ IsStream /\ "connected" \in sock[s].st => sock[s].fd1 = None
        /\ IsStream /\ "connected" \notin sock[s].st => sock[s].sent = 0

\* The goroutine of a socket by its mode, and its channel of errors.
TaskInv ==
    /\ \A s \in {1, 2} : (task[s].made <=> task[s].at # "none") /\ (task[s].closed <=> task[s].at = "done")
    /\ task[1].at # "none" =>
          \/ mode = "packets" /\ "bound" \in sock[1].st /\ task[1].at \in {"reading", "done"}
          \/ /\ mode \in {"dial", "udp"} /\ "connected" \in sock[1].st
             /\ task[1].at \in {"dialing", "decide", "handshake", "tunnel", "done"}
    /\ task[2].at # "none" =>
          mode = "listen" /\ "listening" \in sock[2].st /\ task[2].at \in {"accepting", "serving", "done"}
    /\ "tunneled" \in sock[1].st => task[1].at # "none"

\* Nothing has been sent on a connection.
Blank(c) == conn[c].sent = 0 /\ conn[c].down = <<>> /\ conn[c].got = <<>> /\ ~conn[c].upEnd

\* A connection by the goroutine that has it: one that waits, a tunnel, or none any more.
ConnInv ==
    /\ \A c \in Conns : tun[c].at = "none" => tun[c] = NoTunnel /\ Blank(c)
    /\ \A c \in Conns : tun[c].at = "done" => tun[c].down
    /\ \A c \in Conns : conn[c].at \in {"none", "queued"} => tun[c].at = "none" /\ conn[c].end = "no"
    /\ tun["out"].at # "none" => tun["out"].d = a1 /\ mode \in {"dial", "udp"}
    /\ tun["in"].at # "none" => tun["in"].d = c0 /\ mode = "listen"
    /\ conn["out"].at = "open" <=> task[1].at \in {"decide", "handshake", "tunnel"}
    /\ conn["out"].at = "closed" => task[1].at = "done"
    /\ conn["out"].at # "queued"
    /\ tun["out"].at = "run" <=> task[1].at = "tunnel"
    /\ tun["out"].at = "done" => task[1].at = "done"
    /\ conn["in"].at # "none" => mode = "listen" /\ task[2].at # "none"
    /\ conn["in"].at = "open" => task[2].at = "serving" \/ tun["in"].at = "run"
    /\ task[2].at = "serving" => conn["in"].at = "open" /\ tun["in"].at = "none"
    /\ tun["in"].at = "run" => conn["in"].at = "open"
    /\ tun["in"].at \in {"done", "failed"} => conn["in"].at = "closed"
    /\ tun["in"].at = "failed" => conn["in"].down = <<>>
    /\ tun["out"].at # "failed"

-----------------------------------------------------------------------------
(* Who holds the UNIX sockets.                                             *)

\* Holders of the pair of socket 1: fd1 stays, is sent to the server, or is given to a goroutine.
PairA ==
    /\ ep[a0].refs \subseteq {"fd", "file0"}
    /\ sock[1].at = "none" => ~ep[a0].shut
    /\ IF sock[1].at = "open" THEN "fd" \in ep[a0].refs ELSE ep[a0].refs = {}
    /\ sock[1].fd1 # None => "fd" \in ep[a1].refs
    /\ "fd" \in ep[a1].refs => sock[1].fd1 # None \/ (mode = "local" /\ sock[4].at = "open")
    /\ "file0" \in ep[a1].refs => mode = "local" /\ sock[4].at = "open"
    /\ "msg" \in ep[a1].refs => mode = "local" /\ ep[b0].q # <<>>
    /\ "file1" \in ep[a1].refs => ~IsStream /\ sock[1].at = "open"
    /\ "peer" \in ep[a1].refs => ~IsStream
    /\ "net" \in ep[a1].refs <=> task[1].at \notin {"none", "done"}

\* Holders of the pair of socket 2.
PairB ==
    /\ ep[b0].refs \subseteq {"fd", "file0"}
    /\ IF sock[2].at = "open" THEN "fd" \in ep[b0].refs ELSE ep[b0].refs = {}
    /\ "fd" \in ep[b1].refs <=> sock[2].fd1 # None
    /\ ep[b1].refs \subseteq {"fd", "file1", "peer"}
    /\ "file1" \in ep[b1].refs => ~IsStream /\ sock[2].at = "open"
    /\ "peer" \in ep[b1].refs => ~IsStream \/ task[2].at = "serving"

\* Holders of the pair that serve makes: c0 is held by the tunnel, c1 in flight or accepted.
PairC ==
    /\ ep[c0].refs \subseteq {"net"}
    /\ "net" \in ep[c0].refs <=> tun["in"].at = "run"
    /\ ep[c1].refs \subseteq {"msg", "fd", "file0"}
    /\ "fd" \in ep[c1].refs \/ "file0" \in ep[c1].refs => mode = "listen" /\ sock[4].at = "open"
    /\ "msg" \in ep[c1].refs => mode = "listen" /\ ep[b0].q # <<>>
    /\ tun["in"].at = "none" => ep[c1].refs = {} /\ ~ep[c0].shut /\ ~ep[c1].shut

\* An accepted socket has its descriptor.
Accepted == sock[4].at = "open" => "fd" \in ep[sock[4].fd0].refs

\* What nobody holds queues nothing.
NoRefs == \A e \in Ends : ep[e].refs = {} => ep[e].q = <<>>

\* Who holds the UNIX sockets.
RefInv == PairA /\ PairB /\ PairC /\ Accepted /\ NoRefs

(* What a listener queues. *)
Offered == IF mode = "local" THEN Connection(1, a1) ELSE Connection(host, c1)

\* Only a server queues descriptors, one at most, and what it queues is held by the message alone.
QueueInv ==
    /\ \A e \in Ends : ~(IsStream /\ e = b0) => \A i \in DOMAIN ep[e].q : ep[e].q[i].fd = None
    /\ IsStream => ep[b1].q = <<>>
    /\ IsStream /\ ep[b0].q # <<>> =>
          /\ mode \in {"local", "listen"}
          /\ ep[b0].q = <<Offered>>
          /\ sock[4] = NoSocket
          /\ ep[Offered.fd].refs = {"msg"}
    /\ mode = "local" /\ (ep[b0].q # <<>> \/ sock[4].at # "none") => "connected" \in sock[1].st
    /\ mode = "listen" /\ (ep[b0].q # <<>> \/ sock[4].at # "none") => tun["in"].at # "none"

-----------------------------------------------------------------------------
(* TLS.                                                                    *)

\* What a tunnel has copied to the host went through TLS if the guest has named a server.
SecureInv ==
    /\ tun["out"].at # "none" => sock[1].htls \in {"plain", "name"} /\ (sock[1].htls = "name" => conn["out"].tls)
    /\ task[1].at = "handshake" => sock[1].htls = "name"
    /\ \A i \in DOMAIN conn["out"].got : conn["out"].got[i].tls = conn["out"].tls

-----------------------------------------------------------------------------
(* Streams.                                                                *)

\* The cells of q follow the k-th.
Consecutive(q, k) == \A i \in DOMAIN q : q[i].n = k + i
\* The cells of down are the last of those sent.
Pending(down, sent) == Len(down) <= sent /\ \A i \in DOMAIN down : down[i] = sent - Len(down) + i

\* The UNIX sockets of a connection with a host, and the modes it is tunneled in.
GuestEnd(c) == IF c = "out" THEN a0 ELSE c1
BridgeEnd(c) == IF c = "out" THEN a1 ELSE c0
Tunneled(c) == mode = IF c = "out" THEN "dial" ELSE "listen"

\* From the guest to the host: the host has the first cells, and the queue those that follow.
UpInv(c) ==
    LET g == sock[GuestOf(c)]
        q == ep[BridgeEnd(c)].q
        got == conn[c].got
    IN  /\ InOrder(got)
        /\ tun[c].at = "none" \/ ~tun[c].up =>
              /\ Consecutive(q, Len(got))
              /\ ep[BridgeEnd(c)].refs # {} => Len(got) + Len(q) = g.sent
        /\ conn[c].upEnd /\ conn[c].end # "full" =>
              Len(got) = g.sent /\ (ep[BridgeEnd(c)].shut \/ ep[GuestEnd(c)].refs = {})
        /\ conn[c].upEnd => tun[c].up

\* From the host to the guest: what the guest has, what is queued and what the tunnel has to copy.
DownInv(c) ==
    LET g == sock[GuestOf(c)]
        q == ep[GuestEnd(c)].q
        down == conn[c].down
    IN  /\ InOrder(g.got)
        /\ Consecutive(q, Len(g.got))
        /\ Pending(down, conn[c].sent)
        /\ ep[GuestEnd(c)].refs # {} => Len(g.got) + Len(q) + Len(down) = conn[c].sent
        /\ ep[GuestEnd(c)].shut /\ ep[GuestEnd(c)].refs # {} /\ "deaf" \notin g.st =>
              down = <<>> /\ conn[c].end # "no"
        /\ tun[c].at # "none" /\ tun[c].down => ep[GuestEnd(c)].shut
        /\ g.eof /\ "deaf" \notin g.st =>
              /\ Len(g.got) = conn[c].sent
              /\ conn[c].end # "no" \/ tun[c].at \in {"done", "failed"} \/ (tun[c].at = "none" /\ ep[BridgeEnd(c)].refs = {})

\* Between the sockets s and o of a namespace, whose UNIX sockets are e and f.
PipeInv(s, o, e, f) ==
    /\ InOrder(sock[s].got)
    /\ Consecutive(ep[e].q, Len(sock[s].got))
    /\ ep[e].refs # {} => Len(sock[s].got) + Len(ep[e].q) = sock[o].sent
    /\ sock[s].eof /\ "deaf" \notin sock[s].st =>
          Len(sock[s].got) = sock[o].sent /\ (ep[e].shut \/ ep[f].refs = {})

StreamInv ==
    /\ \A c \in Conns : Tunneled(c) => UpInv(c) /\ DownInv(c)
    /\ mode = "local" => PipeInv(1, 4, a0, a1) /\ PipeInv(4, 1, a1, a0)

-----------------------------------------------------------------------------
(* Datagrams.                                                              *)

Senders == {1, 2} \cup Hosts
\* How many datagrams a socket, or the hosts, have sent.
SentBy == [p \in Senders |-> IF p \in Hosts THEN heard ELSE sock[p].sent]

\* Datagrams queued and received: none comes before an older one of its sender.
Mail(q, got, sent) ==
    /\ \A i \in DOMAIN q : q[i].by \in Senders /\ q[i].from = q[i].by /\ q[i].n <= sent[q[i].by]
    /\ \A i \in DOMAIN q : \A j \in 1 .. i - 1 : q[j].by = q[i].by => q[j].n < q[i].n
    /\ \A i \in DOMAIN got : got[i].by \in Senders /\ got[i].n <= sent[got[i].by]
    /\ \A i \in DOMAIN got : \A j \in DOMAIN q : got[i].by = q[j].by => got[i].n < q[j].n
    /\ \A i \in DOMAIN got :
          /\ got[i].from = got[i].by
          /\ got[i].peer # None => got[i].from = got[i].peer
          /\ \A j \in 1 .. i - 1 : got[j].by = got[i].by => got[j].n < got[i].n

MailInv(s, e) == Mail(ep[e].q, sock[s].got, SentBy)

DatagramInv == mode = "packets" => MailInv(1, a0) /\ MailInv(2, b0)

\* The inductive invariant.
IInv ==
    /\ TypeOK /\ SocketInv /\ CallInv /\ StateInv /\ TaskInv /\ ConnInv /\ RefInv /\ QueueInv
    /\ SecureInv /\ StreamInv /\ DatagramInv

-----------------------------------------------------------------------------
(* The operations on UNIX sockets.                                         *)

\* One more holder of a UNIX socket.
LEMMA HoldIs ==
    ASSUME NEW E \in [Ends -> UnixSocket], NEW e \in Ends, NEW h \in Holders
    PROVE  /\ Hold(E, e, h) \in [Ends -> UnixSocket]
           /\ \A x \in Ends \ {e} : Hold(E, e, h)[x] = E[x]
           /\ Hold(E, e, h)[e].refs = E[e].refs \cup {h}
           /\ Hold(E, e, h)[e].q = E[e].q /\ Hold(E, e, h)[e].shut = E[e].shut
  BY DEF Hold, UnixSocket

\* Fewer holders of a UNIX socket; the last one takes what it queues away.
LEMMA DropIs ==
    ASSUME NEW E \in [Ends -> UnixSocket], NEW e \in Ends, NEW hs \in SUBSET Holders
    PROVE  /\ Drop(E, e, hs) \in [Ends -> UnixSocket]
           /\ \A x \in Ends \ {e} : Drop(E, e, hs)[x] = E[x]
           /\ Drop(E, e, hs)[e].refs = E[e].refs \ hs
           /\ Drop(E, e, hs)[e].shut = E[e].shut
           /\ Drop(E, e, hs)[e].refs = {} => Drop(E, e, hs)[e].q = <<>>
           /\ Drop(E, e, hs)[e].refs # {} => Drop(E, e, hs)[e].q = E[e].q
  <1> DEFINE r == E[e].refs \ hs
             q == IF r = {} THEN <<>> ELSE E[e].q
  <1>1. r \in SUBSET Holders /\ q \in Seq(Message)
    BY DEF UnixSocket
  <1>2. Drop(E, e, hs) = [E EXCEPT ![e] = [refs |-> r, q |-> q, shut |-> E[e].shut]]
    BY DEF Drop
  <1> HIDE DEF r, q
  <1>3. [refs |-> r, q |-> q, shut |-> E[e].shut] \in UnixSocket
    BY <1>1 DEF UnixSocket
  <1>4. /\ Drop(E, e, hs) \in [Ends -> UnixSocket]
        /\ \A x \in Ends \ {e} : Drop(E, e, hs)[x] = E[x]
        /\ Drop(E, e, hs)[e].refs = r /\ Drop(E, e, hs)[e].q = q /\ Drop(E, e, hs)[e].shut = E[e].shut
    BY <1>2, <1>3
  <1> QED
    BY <1>4 DEF r, q

\* A UNIX socket that loses holders loses nothing else before the last one.
LEMMA DropDrops ==
    ASSUME NEW E \in [Ends -> UnixSocket], NEW e \in Ends, NEW hs \in SUBSET Holders
    PROVE  LET D == Drop(E, e, hs)
           IN  /\ D \in [Ends -> UnixSocket] /\ \A x \in Ends : x # e => D[x] = E[x]
               /\ D[e].refs = E[e].refs \ hs /\ D[e].shut = E[e].shut
               /\ D[e].refs = {} => D[e].q = <<>>
               /\ D[e].refs # {} => D[e].q = E[e].q
  BY DropIs

\* A message is queued at the other end.
LEMMA PutIs ==
    ASSUME NEW E \in [Ends -> UnixSocket], NEW e \in Ends, NEW f \in Ends, NEW m \in Message, Partner(e) = f
    PROVE  /\ Put(E, e, m) \in [Ends -> UnixSocket]
           /\ \A x \in Ends \ {f} : Put(E, e, m)[x] = E[x]
           /\ Put(E, e, m)[f].refs = E[f].refs /\ Put(E, e, m)[f].shut = E[f].shut
           /\ Put(E, e, m)[f].q = Append(E[f].q, m)
  <1>1. Append(E[f].q, m) \in Seq(Message)
    BY DEF UnixSocket
  <1> QED
    BY <1>1 DEF Put, UnixSocket

\* The message at the head of a queue is taken.
LEMMA TakeIs ==
    ASSUME NEW E \in [Ends -> UnixSocket], NEW e \in Ends, E[e].q # <<>>
    PROVE  /\ Take(E, e) \in [Ends -> UnixSocket]
           /\ \A x \in Ends \ {e} : Take(E, e)[x] = E[x]
           /\ Take(E, e)[e].refs = E[e].refs /\ Take(E, e)[e].shut = E[e].shut
           /\ Take(E, e)[e].q = Tail(E[e].q)
  <1>1. Tail(E[e].q) \in Seq(Message)
    BY DEF UnixSocket
  <1> QED
    BY <1>1 DEF Take, UnixSocket

\* Release of a UNIX socket that queues no descriptor.
LEMMA ReleaseIs ==
    ASSUME NEW E \in [Ends -> UnixSocket], NEW e \in Ends, NEW hs \in SUBSET Holders, \A i \in DOMAIN E[e].q : E[e].q[i].fd = None
    PROVE  Release(E, e, hs) = Drop(E, e, hs)
  <1>1. {m.fd : m \in Range(E[e].q)} \ {None} = {}
    BY DEF Range
  <1>2. Drop(E, e, hs) \in [Ends -> UnixSocket]
    BY DropIs
  <1> QED
    BY <1>1, <1>2 DEF Release

\* Release of a listener that queues a connection.
LEMMA ReleaseOffered ==
    ASSUME NEW E \in [Ends -> UnixSocket], NEW e \in Ends, NEW hs \in SUBSET Holders, NEW m \in Message, E[e].q = <<m>>, m.fd \in Ends, m.fd # e,
           E[e].refs \subseteq hs
    PROVE  Release(E, e, hs) = Drop(Drop(E, e, hs), m.fd, {"msg"})
  <1>1. {x.fd : x \in Range(E[e].q)} \ {None} = {m.fd}
    BY NoneAssumption DEF Range
  <1>2. Drop(E, e, hs) \in [Ends -> UnixSocket] /\ Drop(E, e, hs)[e].refs = {}
    <2>1. E[e].refs \ hs = {}
      OBVIOUS
    <2>2. Drop(E, e, hs) \in [Ends -> UnixSocket]
      BY DropIs
    <2>3. Drop(E, e, hs)[e].refs = E[e].refs \ hs
      BY DEF Drop
    <2> QED
      BY <2>1, <2>2, <2>3
  <1> DEFINE D == Drop(E, e, hs)
  <1>3. Release(E, e, hs) = [x \in Ends |-> IF x \in {m.fd} THEN Drop(D, x, {"msg"})[x] ELSE D[x]]
    BY <1>1, <1>2 DEF Release
  <1> QED
    BY <1>2, <1>3 DEF Drop

-----------------------------------------------------------------------------
(* Numbered cells.                                                         *)

\* Nothing is in order, and starts at the first cell.
LEMMA NothingSent ==
    InOrder(<<>>) /\ Consecutive(<<>>, 0) /\ Pending(<<>>, 0) /\ Len(<<>>) = 0
  BY DEF InOrder, Consecutive, Pending

\* An empty queue starts and ends anywhere.
LEMMA NothingQueued == \A k \in Nat : Consecutive(<<>>, k) /\ Pending(<<>>, k)
  BY DEF Consecutive, Pending

\* The UNIX sockets of a bridged connection: out is that of socket 1, in that of socket 4.
LEMMA EndsOf ==
    /\ GuestOf("out") = 1 /\ GuestEnd("out") = a0 /\ BridgeEnd("out") = a1
    /\ GuestOf("in") = 4 /\ GuestEnd("in") = c1 /\ BridgeEnd("in") = c0
  BY DEF GuestOf, GuestEnd, BridgeEnd

\* The cell at the head of a queue is read.
LEMMA CellRead ==
    ASSUME NEW S, NEW got \in Seq(S), NEW T, NEW q \in Seq(T), NEW x \in S, q # <<>>, x.n = q[1].n,
           InOrder(got), Consecutive(q, Len(got))
    PROVE  /\ InOrder(Append(got, x)) /\ Consecutive(Tail(q), Len(Append(got, x)))
           /\ Len(Append(got, x)) = Len(got) + 1 /\ Len(Tail(q)) = Len(q) - 1 /\ Len(q) > 0
  BY DEF InOrder, Consecutive

\* The next cell is written.
LEMMA CellWritten ==
    ASSUME NEW T, NEW q \in Seq(T), NEW m \in T, NEW k \in Nat, Consecutive(q, k), m.n = k + Len(q) + 1
    PROVE  Consecutive(Append(q, m), k) /\ Len(Append(q, m)) = Len(q) + 1
  BY DEF Consecutive

\* A host sends one more cell.
LEMMA CellPending ==
    ASSUME NEW down \in Seq(Nat), NEW k \in Nat, Pending(down, k)
    PROVE  Pending(Append(down, k + 1), k + 1) /\ Len(Append(down, k + 1)) = Len(down) + 1
  <1>1. \A i \in 1 .. Len(down) + 1 : Append(down, k + 1)[i] = IF i = Len(down) + 1 THEN k + 1 ELSE down[i]
    OBVIOUS
  <1>2. Len(Append(down, k + 1)) = Len(down) + 1 /\ DOMAIN Append(down, k + 1) = 1 .. Len(down) + 1
    OBVIOUS
  <1> QED
    BY <1>1, <1>2 DEF Pending

\* The oldest cell that a host has sent is passed on.
LEMMA CellPassed ==
    ASSUME NEW down \in Seq(Nat), NEW k \in Nat, Pending(down, k), down # <<>>
    PROVE  Pending(Tail(down), k) /\ Len(Tail(down)) = Len(down) - 1 /\ Head(down) = k - Len(down) + 1 /\ Len(down) > 0
  BY DEF Pending

-----------------------------------------------------------------------------
(* Steps that do not touch the data.                                       *)

\* The data of a socket, a UNIX socket and a connection are left alone.
SameSocket(s) ==
    /\ sock'[s].sent = sock[s].sent /\ sock'[s].got = sock[s].got /\ sock'[s].eof = sock[s].eof
    /\ "deaf" \in sock'[s].st <=> "deaf" \in sock[s].st

SameEnd(e) ==
    /\ ep'[e].q = ep[e].q /\ ep'[e].shut = ep[e].shut
    /\ ep'[e].refs = {} <=> ep[e].refs = {}

SameConn(c) ==
    /\ conn'[c].sent = conn[c].sent /\ conn'[c].down = conn[c].down /\ conn'[c].got = conn[c].got
    /\ conn'[c].upEnd = conn[c].upEnd /\ conn'[c].end = conn[c].end
    /\ tun'[c].at = tun[c].at /\ tun'[c].up = tun[c].up /\ tun'[c].down = tun[c].down

\* A step that leaves the data alone keeps what goes up to a host,
LEMMA UpSame ==
    ASSUME NEW c \in Conns, UpInv(c), SameSocket(GuestOf(c)), SameEnd(GuestEnd(c)), SameEnd(BridgeEnd(c)), SameConn(c)
    PROVE  UpInv(c)'
  BY DEF UpInv, SameSocket, SameEnd, SameConn

\* what comes down from it,
LEMMA DownSame ==
    ASSUME NEW c \in Conns, DownInv(c), SameSocket(GuestOf(c)), SameEnd(GuestEnd(c)), SameEnd(BridgeEnd(c)), SameConn(c)
    PROVE  DownInv(c)'
  BY DEF DownInv, SameSocket, SameEnd, SameConn

\* what goes between two sockets of the network,
LEMMA PipeSame ==
    ASSUME NEW s \in Sockets, NEW o \in Sockets, NEW e \in Ends, NEW f \in Ends,
           PipeInv(s, o, e, f), SameSocket(s), SameSocket(o), SameEnd(e), SameEnd(f)
    PROVE  PipeInv(s, o, e, f)'
  BY DEF PipeInv, SameSocket, SameEnd, InOrder, Consecutive

\* and so all the streams.
LEMMA StreamSame ==
    ASSUME StreamInv, mode' = mode, SameSocket(1), SameSocket(4), SameEnd(a0), SameEnd(a1), SameEnd(c0), SameEnd(c1),
           SameConn("out"), SameConn("in")
    PROVE  StreamInv'
  <1>1. ASSUME NEW c \in Conns, Tunneled(c)'
        PROVE  UpInv(c)' /\ DownInv(c)'
    <2>1. Tunneled(c)
      BY <1>1 DEF Tunneled
    <2>2. UpInv(c) /\ DownInv(c)
      BY <2>1 DEF StreamInv
    <2>3. SameSocket(GuestOf(c)) /\ SameEnd(GuestEnd(c)) /\ SameEnd(BridgeEnd(c)) /\ SameConn(c)
      BY DEF Conns, GuestOf, GuestEnd, BridgeEnd
    <2> QED
      BY <2>2, <2>3, UpSame, DownSame
  <1>2. ASSUME mode' = "local"
        PROVE  PipeInv(1, 4, a0, a1)' /\ PipeInv(4, 1, a1, a0)'
    <2>1. PipeInv(1, 4, a0, a1) /\ PipeInv(4, 1, a1, a0)
      BY <1>2 DEF StreamInv
    <2>2. 1 \in Sockets /\ 4 \in Sockets /\ a0 \in Ends /\ a1 \in Ends
      BY EndsAre DEF Sockets
    <2> QED
      BY <2>1, <2>2, PipeSame
  <1> QED
    BY <1>1, <1>2 DEF StreamInv

\* Who has sent how much is the same when nobody has sent.
LEMMA SentSame ==
    ASSUME heard' = heard, sock'[1].sent = sock[1].sent, sock'[2].sent = sock[2].sent
    PROVE  SentBy' = SentBy
  <1>1. \A p \in Senders : p \in Hosts \/ p = 1 \/ p = 2
    BY DEF Senders
  <1> QED
    BY <1>1 DEF SentBy

\* A step that leaves its queue and what was received keeps the mail of a socket,
LEMMA MailSame ==
    ASSUME NEW s \in {1, 2}, NEW e \in Ends, MailInv(s, e), heard' = heard, ep'[e].q = ep[e].q,
           sock'[s].got = sock[s].got, sock'[1].sent = sock[1].sent, sock'[2].sent = sock[2].sent
    PROVE  MailInv(s, e)'
  BY SentSame DEF MailInv

\* and so that of all.
LEMMA DatagramSame ==
    ASSUME DatagramInv, mode' = mode, heard' = heard, ep'[a0].q = ep[a0].q, ep'[b0].q = ep[b0].q,
           sock'[1].got = sock[1].got, sock'[2].got = sock[2].got,
           sock'[1].sent = sock[1].sent, sock'[2].sent = sock[2].sent
    PROVE  DatagramInv'
  BY MailSame, EndsAre DEF DatagramInv

-----------------------------------------------------------------------------
(* One lemma per step.                                                     *)

\* The pair of a socket.
LEMMA PairOf ==
    ASSUME NEW s \in {1, 2}
    PROVE  \E e0, e1 \in Ends : /\ e0 = <<s, 0>> /\ e1 = <<s, 1>> /\ Partner(e0) = e1 /\ Partner(e1) = e0
                                /\ s = 1 => e0 = a0 /\ e1 = a1
                                /\ s = 2 => e0 = b0 /\ e1 = b1
  BY EndsAre, PartnersAre DEF a0, a1, b0, b1

\* A socket that is replaced.
LEMMA SockIs ==
    ASSUME TypeOK, NEW s \in Sockets, NEW r \in SocketRecord, sock' = [sock EXCEPT ![s] = r]
    PROVE  sock' \in [Sockets -> SocketRecord] /\ sock'[s] = r /\ \A x \in Sockets \ {s} : sock'[x] = sock[x]
  BY DEF TypeOK

\* SockOpen.
LEMMA OpenKeeps ==
    ASSUME IInv, NEW s \in {1, 2}, NEW st, NEW proto, NEW nb \in BOOLEAN, SockOpen(s, st, proto, nb)
    PROVE  IInv'
  <1> DEFINE flags == IF nb THEN {"nonblocking"} ELSE {}
  <1>1. /\ s \in Opens(mode) /\ sock[s].at = "none" /\ s \in Sockets
        /\ UNCHANGED <<mode, task, conn, tun, heard>>
    BY DEF SockOpen, Sockets
  <1>2. sock[s] = NoSocket /\ 1 \in Sockets /\ 2 \in Sockets /\ 4 \in Sockets
    BY <1>1 DEF IInv, SocketInv, Sockets
  <1>3. PICK e0, e1 \in Ends : /\ e0 = <<s, 0>> /\ e1 = <<s, 1>> /\ Partner(e0) = e1 /\ Partner(e1) = e0
                               /\ s = 1 => e0 = a0 /\ e1 = a1
                               /\ s = 2 => e0 = b0 /\ e1 = b1
    BY PairOf
  <1>4. PICK r \in SocketRecord :
           /\ r = [at |-> "open", type |-> TypeOf(mode), st |-> flags, peer |-> None,
                   fd0 |-> e0, fd1 |-> e1, htls |-> "none", call |-> idle,
                   sent |-> 0, got |-> <<>>, eof |-> FALSE]
           /\ sock' = [sock EXCEPT ![s] = r]
    <2>1. PICK r : /\ r = [NoSocket EXCEPT !.at = "open", !.type = TypeOf(mode), !.st = flags, !.fd0 = e0, !.fd1 = e1]
                   /\ sock' = [sock EXCEPT ![s] = r]
      BY <1>3 DEF SockOpen
    <2>2. r = [at |-> "open", type |-> TypeOf(mode), st |-> flags, peer |-> None,
               fd0 |-> e0, fd1 |-> e1, htls |-> "none", call |-> idle,
               sent |-> 0, got |-> <<>>, eof |-> FALSE]
      BY <2>1 DEF NoSocket
    <2>3. r \in SocketRecord
      BY <2>2 DEF SocketRecord, TypeOf, Flags, Peers, EndOrNone, CallType, idle
    <2> QED
      BY <2>1, <2>2, <2>3
  <1>5. sock' \in [Sockets -> SocketRecord] /\ sock'[s] = r /\ \A x \in Sockets \ {s} : sock'[x] = sock[x]
    BY <1>1, <1>4, SockIs DEF IInv
  <1>6. /\ r.at = "open" /\ r.type = TypeOf(mode) /\ r.st = flags /\ r.peer = None /\ r.fd0 = e0 /\ r.fd1 = e1
        /\ r.htls = "none" /\ r.call = idle /\ r.sent = 0 /\ r.got = <<>> /\ ~r.eof
    BY <1>4
  <1>7. /\ ep' \in [Ends -> UnixSocket]
        /\ \A x \in Ends \ {e0, e1} : ep'[x] = ep[x]
        /\ \A x \in {e0, e1} : ep'[x].refs = ep[x].refs \cup {"fd"} /\ ep'[x].q = ep[x].q /\ ep'[x].shut = ep[x].shut
    <2>1. ep' = Hold(Hold(ep, e0, "fd"), e1, "fd") /\ ep \in [Ends -> UnixSocket] /\ "fd" \in Holders /\ e0 # e1
      BY <1>3, PartnersAre DEF SockOpen, socketpair, IInv, TypeOK, Holders
    <2>2. PICK F \in [Ends -> UnixSocket] :
             /\ F = Hold(ep, e0, "fd") /\ \A x \in Ends \ {e0} : F[x] = ep[x]
             /\ F[e0].refs = ep[e0].refs \cup {"fd"} /\ F[e0].q = ep[e0].q /\ F[e0].shut = ep[e0].shut
      BY <2>1, HoldIs
    <2>3. /\ Hold(F, e1, "fd") \in [Ends -> UnixSocket] /\ \A x \in Ends \ {e1} : Hold(F, e1, "fd")[x] = F[x]
          /\ Hold(F, e1, "fd")[e1].refs = F[e1].refs \cup {"fd"}
          /\ Hold(F, e1, "fd")[e1].q = F[e1].q /\ Hold(F, e1, "fd")[e1].shut = F[e1].shut
      BY <2>1, <2>2, HoldIs
    <2> QED
      BY <2>1, <2>2, <2>3
  <1> HIDE DEF flags
  <1>8. TypeOK'
    BY <1>1, <1>5, <1>7 DEF IInv, TypeOK
  <1>9. SocketInv'
    BY <1>1, <1>2, <1>3, <1>5, <1>6 DEF IInv, SocketInv, Sockets, Opens
  <1>10. flags \subseteq {"nonblocking"}
    BY DEF flags
  <1>11. CallInv'
    <2>1. Server(2)' => Silent(sock'[2])
      <3>1. CASE s = 2
        BY <1>5, <1>6, <1>10, <3>1 DEF Silent
      <3>2. CASE s # 2
        BY <1>1, <1>2, <1>5, <3>2 DEF IInv, CallInv, Server
      <3> QED
        BY <3>1, <3>2
    <2> QED
      BY <1>1, <1>5, <1>6, <2>1, NoneAssumption DEF IInv, CallInv, Sockets, IsStream, idle
  <1>12. StateInv'
    <2>1. None # s
      BY NoneAssumption DEF stray
    <2> QED
      BY <1>1, <1>2, <1>5, <1>6, <1>10, <2>1 DEF IInv, StateInv, Sockets, Server, IsStream
  <1>13. task[s].at = "none" /\ (s = 1 => tun["out"].at = "none")
    <2>1. tun["out"].at \in {"none", "run", "done", "failed"}
      BY DEF IInv, TypeOK, TunnelType, Conns
    <2> QED
      BY <1>2, <2>1 DEF IInv, TaskInv, ConnInv, NoSocket
  <1>14. TaskInv'
    BY <1>1, <1>2, <1>5, <1>6, <1>10, <1>13 DEF IInv, TaskInv
  <1>15. ConnInv'
    BY <1>1 DEF IInv, ConnInv, Blank
  <1>16. RefInv'
    <2>1. PairA' /\ PairB' /\ PairC'
      <3>1. PairA /\ PairB /\ PairC /\ (IsStream' <=> IsStream)
        BY <1>1 DEF IInv, RefInv, IsStream
      <3>2. PairA'
        BY <1>1, <1>2, <1>3, <1>5, <1>6, <1>7, <1>13, <3>1, EndsAre DEF PairA, NoSocket
      <3>3. PairB'
        BY <1>1, <1>2, <1>3, <1>5, <1>6, <1>7, <1>13, <3>1, EndsAre DEF PairB, NoSocket
      <3>4. PairC'
        BY <1>1, <1>2, <1>3, <1>5, <1>7, <3>1, EndsAre DEF PairC
      <3> QED
        BY <3>2, <3>3, <3>4
    <2>2. Accepted' /\ NoRefs'
      <3>1. sock[4].at = "open" => sock[4].fd0 \in Ends
        BY EndsAre DEF IInv, SocketInv
      <3>2. sock'[4] = sock[4]
        BY <1>2, <1>5
      <3> QED
        BY <1>7, <3>1, <3>2 DEF IInv, RefInv, Accepted, NoRefs
    <2> QED
      BY <2>1, <2>2 DEF RefInv
  <1>17. QueueInv'
    BY <1>1, <1>2, <1>3, <1>5, <1>6, <1>7, EndsAre
    DEF IInv, QueueInv, IsStream, Offered, Connection, RefInv, PairB, NoRefs, NoSocket
  <1>18. SecureInv'
    BY <1>1, <1>2, <1>5, <1>13 DEF IInv, SecureInv, TaskInv
  <1>19. StreamInv'
    <2>1. CASE s = 2
      <3>1. SameSocket(1) /\ SameSocket(4) /\ SameEnd(a0) /\ SameEnd(a1) /\ SameEnd(c0) /\ SameEnd(c1)
        BY <1>2, <1>3, <1>5, <1>7, <2>1, EndsAre DEF SameSocket, SameEnd
      <3> QED
        BY <1>1, <3>1, StreamSame DEF IInv, SameConn
    <2>2. CASE s = 1
      <3>1. /\ mode # "listen" /\ ep[a0].q = <<>> /\ ep'[a0].q = <<>> /\ ep'[a1].q = ep[a1].q
            /\ sock'[1].got = <<>> /\ sock'[1].sent = 0 /\ ~sock'[1].eof /\ ~sock[1].eof /\ sock[1].sent = 0
            /\ sock[1].got = <<>> /\ sock'[4] = sock[4]
        BY <1>1, <1>2, <1>3, <1>5, <1>6, <1>7, <2>2, EndsAre DEF Opens, NoSocket, IInv, RefInv, PairA, NoRefs
      <3>2. ASSUME mode \in {"dial", "local"}
            PROVE  ep[a1].q = <<>> /\ (mode = "local" => sock[4] = NoSocket)
        <4>1. IsStream /\ ep[b0].q = <<>> /\ (mode = "local" => sock[4] = NoSocket)
          BY <1>2, <2>2, <3>2 DEF IInv, QueueInv, IsStream, TypeOf, NoSocket, SocketInv, Sockets
        <4>2. ep[a1].refs \subseteq Holders
          BY EndsAre DEF IInv, TypeOK, UnixSocket
        <4>3. ep[a1].refs = {}
          BY <1>2, <1>13, <2>2, <4>1, <4>2 DEF IInv, RefInv, PairA, Holders, NoSocket
        <4> QED
          BY <4>1, <4>3, EndsAre DEF IInv, RefInv, NoRefs
      <3>3. CASE mode = "dial"
        <4>1. tun'["out"].at = "none" /\ tun' = tun /\ conn' = conn /\ Blank("out") /\ tun["out"] = NoTunnel
          BY <1>1, <1>13, <2>2 DEF IInv, ConnInv, Conns
        <4>2. UpInv("out")'
          BY <3>1, <3>2, <3>3, <4>1, NothingSent, EndsOf
          DEF UpInv, Blank
        <4>3. ~ep'[a0].shut
          BY <1>1, <1>3, <1>7, <2>2 DEF IInv, RefInv, PairA
        <4>4. DownInv("out")'
          <5>1. tun'["out"].at = "none" /\ conn'["out"].sent = 0 /\ conn'["out"].down = <<>>
            BY <4>1 DEF Blank
          <5>2. InOrder(sock'[1].got) /\ Consecutive(ep'[a0].q, Len(sock'[1].got)) /\ Pending(conn'["out"].down, conn'["out"].sent)
            BY <3>1, <5>1, NothingSent
          <5>3. Len(sock'[1].got) + Len(ep'[a0].q) + Len(conn'["out"].down) = conn'["out"].sent
            BY <3>1, <5>1, NothingSent
          <5>4. ~sock'[1].eof
            BY <3>1
          <5> QED
            BY <4>3, <5>1, <5>2, <5>3, <5>4, EndsOf DEF DownInv
        <4> QED
          BY <1>1, <3>3, <4>2, <4>4 DEF StreamInv, Conns, Tunneled
      <3>4. CASE mode = "local"
        <4>1. ep'[a1].q = <<>> /\ sock'[4].sent = 0 /\ sock'[4].got = <<>> /\ ~sock'[4].eof
          BY <3>1, <3>2, <3>4 DEF NoSocket
        <4>2. PipeInv(1, 4, a0, a1)' /\ PipeInv(4, 1, a1, a0)'
          BY <3>1, <4>1, NothingSent DEF PipeInv
        <4> QED
          BY <1>1, <3>4, <4>2 DEF StreamInv, Conns, Tunneled
      <3> QED
        BY <1>1, <3>1, <3>3, <3>4 DEF StreamInv, Conns, Tunneled
    <2> QED
      BY <2>1, <2>2
  <1>20. DatagramInv'
    <2>1. sock'[1].got = sock[1].got /\ sock'[2].got = sock[2].got /\ sock'[1].sent = sock[1].sent /\ sock'[2].sent = sock[2].sent
      BY <1>2, <1>5, <1>6 DEF NoSocket
    <2>2. ep'[a0].q = ep[a0].q /\ ep'[b0].q = ep[b0].q
      BY <1>3, <1>7, EndsAre
    <2> QED
      BY <1>1, <2>1, <2>2, DatagramSame DEF IInv
  <1> QED
    BY <1>8, <1>9, <1>11, <1>12, <1>14, <1>15, <1>16, <1>17, <1>18, <1>19, <1>20 DEF IInv

\* Steps that change a pending call, the choice of TLS, errors, and add holders.
Soft(old, new) ==
    /\ new.at = old.at /\ new.type = old.type /\ new.peer = old.peer /\ new.fd0 = old.fd0 /\ new.fd1 = old.fd1
    /\ new.sent = old.sent /\ new.got = old.got /\ new.eof = old.eof
    /\ \A f \in {"listening", "connected", "tunneled", "deaf"} : f \in new.st <=> f \in old.st
    /\ "bound" \in old.st => "bound" \in new.st
    /\ new.htls = old.htls \/ (old.htls = "open" /\ new.htls \in {"plain", "name"})
    /\ old.at # "open" => new = old

SoftSocket(s) == Soft(sock[s], sock'[s])

SoftTask(s) == task'[s].at = task[s].at /\ task'[s].made = task[s].made /\ task'[s].closed = task[s].closed

\* A holder that a call may add.
MayHold(e, h) ==
    \/ h = "file0" /\ \E s \in {1, 2, 4} : sock[s].at = "open" /\ sock[s].fd0 = e
    \/ h = "peer" /\ ~IsStream /\ e \in {a1, b1}
    \/ h = "file1" /\ ~IsStream /\ ((e = a1 /\ sock[1].at = "open") \/ (e = b1 /\ sock[2].at = "open"))

\* A UNIX socket gets more holders at most.
SoftEnd(e) ==
    /\ ep'[e].q = ep[e].q /\ ep'[e].shut = ep[e].shut
    /\ \/ ep'[e].refs = ep[e].refs
       \/ ep[e].refs # {} /\ \E h \in Holders : MayHold(e, h) /\ ep'[e].refs = ep[e].refs \cup {h}

\* A step that only adds holders of the UNIX sockets, flags or a pending call keeps the invariant.
LEMMA SoftKeeps ==
    ASSUME IInv, TypeOK', CallInv', UNCHANGED <<mode, conn, tun, heard>>,
           \A s \in Sockets : SoftSocket(s), \A s \in {1, 2} : SoftTask(s), \A e \in Ends : SoftEnd(e)
    PROVE  IInv'
  <1>1. 1 \in Sockets /\ 2 \in Sockets /\ 3 \in Sockets /\ 4 \in Sockets
    BY DEF Sockets
  <1>2. SocketInv'
    <2>1. sock'[3] = sock[3]
      BY <1>1 DEF IInv, SocketInv, SoftSocket, Soft, NoSocket
    <2>2. \A s \in Sockets : sock[s].at # "open" => sock'[s] = sock[s]
      BY DEF SoftSocket, Soft
    <2> QED
      BY <1>1, <2>1, <2>2 DEF IInv, SocketInv, SoftSocket, Soft
  <1>3. StateInv'
    BY DEF IInv, StateInv, SoftSocket, Soft, Server, IsStream
  <1>4. TaskInv'
    BY <1>1 DEF IInv, TaskInv, SoftSocket, Soft, SoftTask
  <1>5. ConnInv'
    BY DEF IInv, ConnInv, Blank, SoftTask
  <1>6. /\ a0 \in Ends /\ a1 \in Ends /\ b0 \in Ends /\ b1 \in Ends /\ c0 \in Ends /\ c1 \in Ends
    BY EndsAre
  <1>7. /\ sock[1].at = "open" => sock[1].fd0 = a0
        /\ sock[2].at = "open" => sock[2].fd0 = b0
        /\ sock[4].at = "open" => (mode = "local" /\ sock[4].fd0 = a1) \/ (mode = "listen" /\ sock[4].fd0 = c1)
    BY DEF IInv, SocketInv, a0, b0
  <1>8. RefInv'
    <2>1. PairA'
      <3>1. ep'[a0].refs = ep[a0].refs \/ (sock[1].at = "open" /\ ep'[a0].refs = ep[a0].refs \cup {"file0"})
        BY <1>6, <1>7, EndsAre DEF SoftEnd, MayHold
      <3>2. \/ ep'[a1].refs = ep[a1].refs
            \/ mode = "local" /\ sock[4].at = "open" /\ ep'[a1].refs = ep[a1].refs \cup {"file0"}
            \/ ~IsStream /\ ep'[a1].refs = ep[a1].refs \cup {"peer"}
            \/ ~IsStream /\ sock[1].at = "open" /\ ep'[a1].refs = ep[a1].refs \cup {"file1"}
        BY <1>6, <1>7, EndsAre DEF SoftEnd, MayHold
      <3> QED
        BY <1>1, <1>6, <3>1, <3>2 DEF IInv, RefInv, PairA, SoftSocket, Soft, SoftTask, SoftEnd, IsStream
    <2>2. PairB'
      <3>1. ep'[b0].refs = ep[b0].refs \/ (sock[2].at = "open" /\ ep'[b0].refs = ep[b0].refs \cup {"file0"})
        BY <1>6, <1>7, EndsAre DEF SoftEnd, MayHold
      <3>2. \/ ep'[b1].refs = ep[b1].refs
            \/ ~IsStream /\ ep'[b1].refs = ep[b1].refs \cup {"peer"}
            \/ ~IsStream /\ sock[2].at = "open" /\ ep'[b1].refs = ep[b1].refs \cup {"file1"}
        BY <1>6, <1>7, EndsAre DEF SoftEnd, MayHold
      <3> QED
        BY <1>1, <1>6, <3>1, <3>2 DEF IInv, RefInv, PairB, SoftSocket, Soft, SoftTask, SoftEnd, IsStream
    <2>3. PairC'
      <3>1. ep'[c0].refs = ep[c0].refs
        BY <1>6, <1>7, EndsAre DEF SoftEnd, MayHold
      <3>2. ep'[c1].refs = ep[c1].refs
            \/ (mode = "listen" /\ sock[4].at = "open" /\ ep[c1].refs # {} /\ ep'[c1].refs = ep[c1].refs \cup {"file0"})
        BY <1>6, <1>7, EndsAre DEF SoftEnd, MayHold
      <3> QED
        BY <1>1, <1>6, <3>1, <3>2 DEF IInv, RefInv, PairC, SoftSocket, Soft, SoftEnd
    <2>4. Accepted' /\ NoRefs'
      BY <1>1, <1>6, <1>7 DEF IInv, RefInv, Accepted, NoRefs, SoftSocket, Soft, SoftEnd
    <2> QED
      BY <2>1, <2>2, <2>3, <2>4 DEF RefInv
  <1>9. QueueInv'
    <2>1. ASSUME IsStream, ep[b0].q # <<>>
          PROVE  ep'[Offered.fd].refs = ep[Offered.fd].refs
      <3>1. Offered.fd \in {a1, c1} /\ sock[4] = NoSocket
        BY <2>1 DEF IInv, QueueInv, Offered, Connection
      <3> QED
        BY <1>6, <1>7, <2>1, <3>1, EndsAre DEF SoftEnd, MayHold, NoSocket
    <2> QED
      BY <1>1, <1>6, <2>1 DEF IInv, QueueInv, SoftSocket, Soft, SoftEnd, IsStream, Offered, NoSocket
  <1>10. SecureInv'
    BY <1>1 DEF IInv, SecureInv, SoftSocket, Soft, SoftTask
  <1>11. StreamInv'
    <2>1. SameSocket(1) /\ SameSocket(4) /\ SameEnd(a0) /\ SameEnd(a1) /\ SameEnd(c0) /\ SameEnd(c1)
      BY <1>1, <1>6 DEF SameSocket, SameEnd, SoftSocket, Soft, SoftEnd
    <2> QED
      BY <2>1, StreamSame DEF IInv, SameConn
  <1>12. DatagramInv'
    BY <1>1, <1>6, DatagramSame DEF IInv, SoftSocket, Soft, SoftEnd
  <1> QED
    BY <1>2, <1>3, <1>4, <1>5, <1>8, <1>9, <1>10, <1>11, <1>12 DEF IInv

\* What does not change changes nothing that matters.
LEMMA SameSoft ==
    /\ sock' = sock => \A s \in Sockets : SoftSocket(s)
    /\ task' = task => \A s \in {1, 2} : SoftTask(s)
    /\ ep' = ep => \A e \in Ends : SoftEnd(e)
  BY DEF SoftSocket, Soft, SoftTask, SoftEnd

\* A socket that is replaced by one that differs as above.
LEMMA SockSoft ==
    ASSUME IInv, NEW s \in Sockets, NEW r \in SocketRecord, Soft(sock[s], r), sock' = [sock EXCEPT ![s] = r]
    PROVE  /\ sock' \in [Sockets -> SocketRecord] /\ \A x \in Sockets : SoftSocket(x)
           /\ sock'[s] = r /\ \A x \in Sockets \ {s} : sock'[x] = sock[x]
  <1>1. sock' \in [Sockets -> SocketRecord] /\ sock'[s] = r /\ \A x \in Sockets \ {s} : sock'[x] = sock[x]
    BY SockIs DEF IInv
  <1> QED
    BY <1>1 DEF SoftSocket, Soft

\* TakeError.
LEMMA TakeErrorSoft ==
    ASSUME IInv, NEW s \in {1, 2}, TakeError(s)
    PROVE  task' \in [{1, 2} -> TaskType] /\ \A x \in {1, 2} : SoftTask(x)
  <1>1. task \in [{1, 2} -> TaskType]
    BY DEF IInv, TypeOK
  <1>2. PICK r : r = [task[s] EXCEPT !.errs = <<>>]
    OBVIOUS
  <1>3. /\ r \in TaskType /\ r.at = task[s].at /\ r.made = task[s].made /\ r.closed = task[s].closed
        /\ task' = [task EXCEPT ![s] = r]
    <2>1. task[s] \in TaskType /\ <<>> \in Seq({"error", "aborted"})
      BY <1>1
    <2> QED
      BY <1>2, <2>1 DEF TaskType, TakeError
  <1> QED
    BY <1>1, <1>3 DEF SoftTask

\* One more holder of a UNIX socket.
LEMMA HoldSoft ==
    ASSUME IInv, NEW e \in Ends, NEW h \in Holders, MayHold(e, h), ep[e].refs # {}, ep' = Hold(ep, e, h)
    PROVE  ep' \in [Ends -> UnixSocket] /\ \A x \in Ends : SoftEnd(x)
  <1>1. ep \in [Ends -> UnixSocket]
    BY DEF IInv, TypeOK
  <1>2. /\ ep' \in [Ends -> UnixSocket] /\ \A x \in Ends \ {e} : ep'[x] = ep[x]
        /\ ep'[e].refs = ep[e].refs \cup {h} /\ ep'[e].q = ep[e].q /\ ep'[e].shut = ep[e].shut
    BY <1>1, HoldIs
  <1> QED
    BY <1>2 DEF SoftEnd

\* htlsClear.
LEMMA ClearSoft ==
    ASSUME NEW r \in SocketRecord, r.at = "open"
    PROVE  /\ htlsClear(r) \in SocketRecord /\ Soft(r, htlsClear(r))
           /\ htlsClear(r).st = r.st /\ htlsClear(r).call = r.call /\ htlsClear(r).fd0 = r.fd0
           /\ htlsClear(r).htls # "open"
  BY DEF htlsClear, SocketRecord, Soft

\* A pending call that is replaced.
LEMMA CallSoft ==
    ASSUME NEW r \in SocketRecord, r.at = "open", NEW k \in CallType, NEW x, x = [r EXCEPT !.call = k]
    PROVE  x \in SocketRecord /\ Soft(r, x) /\ x.call = k /\ x.st = r.st /\ x.fd0 = r.fd0
  BY DEF SocketRecord, Soft

\* Two such changes of a socket are one.
LEMMA SoftTrans ==
    ASSUME NEW r \in SocketRecord, NEW x \in SocketRecord, NEW y \in SocketRecord, Soft(r, x), Soft(x, y), r.at = "open"
    PROVE  Soft(r, y)
  BY DEF Soft

\* The calls of the other sockets are as they were.
LEMMA CallsSame ==
    ASSUME IInv, mode' = mode, \A x \in Sockets : SoftSocket(x), Server(2) => Silent(sock'[2]),
           \A x \in Sockets : sock'[x].call = sock[x].call \/ sock'[x].call.op # "send"
    PROVE  CallInv'
  <1> SUFFICES ASSUME NEW x \in Sockets, sock'[x].call.op = "send"
               PROVE  \/ sock'[x].call.to = None /\ sock'[x].call.fd = sock'[x].fd0 /\ "connected" \in sock'[x].st
                      \/ ~IsStream /\ x \in {1, 2} /\ sock'[x].call.to = 3 - x /\ sock'[x].call.fd = <<3 - x, 1>>
    BY DEF CallInv, IsStream, Server
  <1>1. sock'[x].call = sock[x].call /\ sock'[x].fd0 = sock[x].fd0 /\ ("connected" \in sock'[x].st <=> "connected" \in sock[x].st)
    BY DEF SoftSocket, Soft
  <1> QED
    BY <1>1 DEF IInv, CallInv

-----------------------------------------------------------------------------
\* SockSetOpt.
LEMMA SetOptKeeps ==
    ASSUME IInv, NEW s \in Sockets, SockSetOpt(s)
    PROVE  IInv'
  <1>1. /\ sock[s].at = "open" /\ sock[s].htls = "open" /\ sock[s] \in SocketRecord
        /\ UNCHANGED <<mode, ep, task, conn, tun, heard>>
    BY DEF SockSetOpt, Ready, SetTLSServerName, IInv, TypeOK
  <1>2. PICK r : r = [sock[s] EXCEPT !.htls = "name"]
    OBVIOUS
  <1>3. sock' = [sock EXCEPT ![s] = r]
    BY <1>2 DEF SockSetOpt, SetTLSServerName
  <1>4. r \in SocketRecord /\ Soft(sock[s], r) /\ r.call = sock[s].call /\ r.st = sock[s].st
    BY <1>1, <1>2 DEF SocketRecord, Soft
  <1>5. /\ sock' \in [Sockets -> SocketRecord] /\ \A x \in Sockets : SoftSocket(x)
        /\ sock'[s] = r /\ \A x \in Sockets \ {s} : sock'[x] = sock[x]
    BY <1>3, <1>4, SockSoft
  <1>6. TypeOK'
    BY <1>1, <1>5 DEF IInv, TypeOK
  <1>7. CallInv'
    <2>1. Server(2) => Silent(sock'[2])
      BY <1>4, <1>5 DEF IInv, CallInv, Silent, Sockets
    <2> QED
      BY <1>1, <1>4, <1>5, <2>1, CallsSame
  <1> QED
    BY <1>1, <1>5, <1>6, <1>7, SameSoft, SoftKeeps

\* SockGetOpt, and an error that Close reads.
LEMMA ErrorKeeps ==
    ASSUME IInv, NEW s \in Sockets, Error(s), TakeError(s), UNCHANGED <<mode, sock, ep, conn, tun, heard>>
    PROVE  IInv'
  <1>1. task' \in [{1, 2} -> TaskType] /\ \A x \in {1, 2} : SoftTask(x)
    BY TakeErrorSoft DEF Error, Bridged
  <1>2. TypeOK'
    BY <1>1 DEF IInv, TypeOK
  <1>3. CallInv'
    BY SameSoft, CallsSame DEF IInv, CallInv
  <1> QED
    BY <1>1, <1>2, <1>3, SameSoft, SoftKeeps

\* A guest's call that only makes its socket clear, or starts to wait.
LEMMA StartKeeps ==
    ASSUME IInv, NEW s \in Sockets, sock[s].at = "open", NEW r \in SocketRecord, Soft(sock[s], r),
           sock' = [sock EXCEPT ![s] = r],
           r.call.op = "send" => \/ r.call.to = None /\ r.call.fd = sock[s].fd0 /\ "connected" \in sock[s].st
                                 \/ ~IsStream /\ s \in {1, 2} /\ r.call.to = 3 - s /\ r.call.fd = <<3 - s, 1>>,
           Server(s) => Silent(r),
           task' \in [{1, 2} -> TaskType], \A x \in {1, 2} : SoftTask(x),
           ep' \in [Ends -> UnixSocket], \A x \in Ends : SoftEnd(x),
           UNCHANGED <<mode, conn, tun, heard>>
    PROVE  IInv'
  <1>1. /\ sock' \in [Sockets -> SocketRecord] /\ \A x \in Sockets : SoftSocket(x)
        /\ sock'[s] = r /\ \A x \in Sockets \ {s} : sock'[x] = sock[x]
    BY SockSoft
  <1>2. TypeOK'
    BY <1>1 DEF IInv, TypeOK
  <1>3. CallInv'
    <2>1. r.fd0 = sock[s].fd0 /\ ("connected" \in r.st <=> "connected" \in sock[s].st)
      BY DEF Soft
    <2>2. Server(2)' => Silent(sock'[2])
      BY <1>1 DEF IInv, CallInv, Server, Sockets
    <2> QED
      BY <1>1, <2>1, <2>2 DEF IInv, CallInv, IsStream
  <1> QED
    BY <1>1, <1>2, <1>3, SoftKeeps

\* The same, when the socket alone changes.
LEMMA SockKeeps ==
    ASSUME IInv, NEW s \in Sockets, sock[s].at = "open", NEW r \in SocketRecord, Soft(sock[s], r),
           sock' = [sock EXCEPT ![s] = r], r.call = sock[s].call \/ r.call.op # "send",
           Server(s) => Silent(r),
           task' \in [{1, 2} -> TaskType], \A x \in {1, 2} : SoftTask(x), UNCHANGED <<mode, ep, conn, tun, heard>>
    PROVE  IInv'
  <1>1. r.call.op = "send" => \/ r.call.to = None /\ r.call.fd = sock[s].fd0 /\ "connected" \in sock[s].st
                              \/ ~IsStream /\ s \in {1, 2} /\ r.call.to = 3 - s /\ r.call.fd = <<3 - s, 1>>
    BY DEF IInv, CallInv
  <1>2. ep' \in [Ends -> UnixSocket] /\ \A x \in Ends : SoftEnd(x)
    BY SameSoft DEF IInv, TypeOK
  <1> QED
    BY <1>1, <1>2, StartKeeps

\* An open socket, its descriptors and its call.
LEMMA OpenSocket ==
    ASSUME IInv, NEW s \in Sockets, sock[s].at = "open"
    PROVE  /\ sock[s] \in SocketRecord /\ s \in {1, 2, 4} /\ sock[s].fd0 \in Ends
           /\ "fd" \in ep[sock[s].fd0].refs
           /\ s = 1 => sock[s].fd0 = a0
           /\ s = 2 => sock[s].fd0 = b0
           /\ s = 4 => mode \in {"local", "listen"} /\ sock[s].fd0 = IF mode = "local" THEN a1 ELSE c1
  <1>1. sock[s] \in SocketRecord /\ s \in {1, 2, 4}
    BY DEF IInv, TypeOK, SocketInv, NoSocket, Sockets
  <1>2. /\ s = 1 => sock[s].fd0 = a0
        /\ s = 2 => sock[s].fd0 = b0
        /\ s = 4 => mode \in {"local", "listen"} /\ sock[s].fd0 = IF mode = "local" THEN a1 ELSE c1
    BY DEF IInv, SocketInv, a0, b0
  <1> QED
    BY <1>1, <1>2, EndsAre DEF IInv, RefInv, PairA, PairB, Accepted

\* A blocking call of an open socket holds its fd0 once more.
LEMMA FileSoft ==
    ASSUME IInv, NEW s \in Sockets, sock[s].at = "open", ep' = ep \/ ep' = socketFile0(ep, sock[s].fd0)
    PROVE  ep' \in [Ends -> UnixSocket] /\ \A x \in Ends : SoftEnd(x)
  <1>1. CASE ep' = ep
    BY <1>1, SameSoft DEF IInv, TypeOK
  <1>2. CASE ep' = socketFile0(ep, sock[s].fd0)
    <2>1. sock[s].fd0 \in Ends /\ ep[sock[s].fd0].refs # {} /\ s \in {1, 2, 4}
      BY OpenSocket
    <2>2. MayHold(sock[s].fd0, "file0") /\ "file0" \in Holders
      BY <2>1 DEF MayHold, Holders
    <2>3. ep' = Hold(ep, sock[s].fd0, "file0")
      BY <1>2 DEF socketFile0
    <2> QED
      BY <2>1, <2>2, <2>3, HoldSoft
  <1> QED
    BY <1>1, <1>2

\* The goroutines that do not change keep their types.
LEMMA NoTaskChange ==
    ASSUME IInv, task' = task
    PROVE  task' \in [{1, 2} -> TaskType] /\ \A x \in {1, 2} : SoftTask(x)
  BY SameSoft DEF IInv, TypeOK

\* A socket that is bound and does not listen is not a server.
LEMMA NotServer ==
    ASSUME IInv, NEW s \in Sockets, Is(s, "bound"), ~Is(s, "listening")
    PROVE  ~Server(s)
  BY DEF IInv, CallInv, Silent, Server, Is

\* RecvFrom.
LEMMA RecvFromKeeps ==
    ASSUME IInv, NEW s \in Sockets, RecvFrom(s)
    PROVE  IInv'
  <1> DEFINE clear == htlsClear(sock[s])
  <1>1. /\ sock[s].at = "open" /\ sock[s].call = idle /\ UNCHANGED <<mode, conn, tun, heard>> /\ sock[s] \in SocketRecord
        /\ ~Server(s)
    BY OpenSocket, NotServer DEF RecvFrom, Ready
  <1>2. clear \in SocketRecord /\ Soft(sock[s], clear) /\ clear.call = sock[s].call /\ clear.at = "open"
    BY <1>1, ClearSoft DEF Soft
  <1> HIDE DEF clear
  <1>3. CASE Error(s)
    <2>1. TakeError(s) /\ sock' = [sock EXCEPT ![s] = clear] /\ ep' = ep /\ s \in {1, 2}
      BY <1>3 DEF RecvFrom, clear, Error, Bridged
    <2> QED
      BY <1>1, <1>2, <2>1, TakeErrorSoft, SockKeeps
  <1>4. CASE ~Error(s)
    <2>1. PICK k : k = [idle EXCEPT !.op = "recv"]
      OBVIOUS
    <2>2. k \in CallType /\ k.op = "recv"
      BY <2>1 DEF CallType, idle, EndOrNone
    <2>3. PICK r : r = [clear EXCEPT !.call = k]
      OBVIOUS
    <2>4. sock' = [sock EXCEPT ![s] = r] /\ (ep' = ep \/ ep' = socketFile0(ep, sock[s].fd0)) /\ task' = task
      BY <1>4, <2>1, <2>3 DEF RecvFrom, clear
    <2>5. r \in SocketRecord /\ Soft(clear, r) /\ r.call = k
      BY <1>2, <2>2, <2>3, CallSoft
    <2>6. Soft(sock[s], r)
      BY <1>1, <1>2, <2>5, SoftTrans
    <2>7. ep' \in [Ends -> UnixSocket] /\ \A x \in Ends : SoftEnd(x)
      BY <1>1, <2>4, FileSoft
    <2>8. task' \in [{1, 2} -> TaskType] /\ \A x \in {1, 2} : SoftTask(x)
      BY <2>4, NoTaskChange
    <2> QED
      BY <1>1, <2>2, <2>4, <2>5, <2>6, <2>7, <2>8, StartKeeps
  <1> QED
    BY <1>3, <1>4

\* Bind.
LEMMA BindKeeps ==
    ASSUME IInv, NEW s \in Sockets, ~Server(s), NEW ok \in BOOLEAN, Bind(s, ok)
    PROVE  IInv'
  <1>1. /\ sock[s].at = "open" /\ sock[s].call = idle /\ "bound" \notin sock[s].st
        /\ UNCHANGED <<mode, conn, tun, heard>> /\ sock[s] \in SocketRecord
    BY OpenSocket DEF Bind, Ready, Is
  <1>2. PICK r : r = [sock[s] EXCEPT !.st = sock[s].st \cup {"bound"}]
    OBVIOUS
  <1>3. sock' = [sock EXCEPT ![s] = r]
    BY <1>2 DEF Bind
  <1>4. r \in SocketRecord /\ Soft(sock[s], r) /\ r.call = sock[s].call /\ "bound" \in r.st
    BY <1>1, <1>2 DEF SocketRecord, Soft, Flags
  <1>5. CASE ~(Packets(s) /\ ok)
    <2>1. task' = task /\ ep' = ep
      BY <1>5 DEF Bind
    <2> QED
      BY <1>1, <1>3, <1>4, <2>1, NoTaskChange, SockKeeps
  <1>6. CASE Packets(s) /\ ok
    <2>1. mode = "packets" /\ s = 1 /\ ~IsStream /\ task[1].at = "none" /\ sock[1].fd1 = a1
      BY <1>1, <1>6 DEF Packets, IInv, TaskInv, SocketInv, IsStream, TypeOf, a1
    <2>2. PICK t : t = [NoTask EXCEPT !.at = "reading", !.made = TRUE]
      OBVIOUS
    <2>3. task' = [task EXCEPT ![1] = t] /\ ep' = Hold(ep, a1, "net")
      BY <1>6, <2>1, <2>2 DEF Bind, listenPacket
    <2>4. t \in TaskType /\ t.at = "reading" /\ t.made /\ ~t.closed
      <3>1. <<>> \in Seq({"error", "aborted"})
        OBVIOUS
      <3> QED
        BY <2>2, <3>1 DEF NoTask, TaskType, TaskStates
    <2>5. task' \in [{1, 2} -> TaskType] /\ task'[1] = t /\ task'[2] = task[2]
      BY <2>3, <2>4 DEF IInv, TypeOK
    <2>6. /\ ep' \in [Ends -> UnixSocket] /\ \A x \in Ends \ {a1} : ep'[x] = ep[x]
          /\ ep'[a1].refs = ep[a1].refs \cup {"net"} /\ ep'[a1].q = ep[a1].q /\ ep'[a1].shut = ep[a1].shut
      <3>1. "net" \in Holders /\ a1 \in Ends /\ ep \in [Ends -> UnixSocket]
        BY EndsAre DEF Holders, IInv, TypeOK
      <3> QED
        BY <2>3, <3>1, HoldIs
    <2>7. /\ sock' \in [Sockets -> SocketRecord] /\ \A x \in Sockets : SoftSocket(x)
          /\ sock'[1] = r /\ \A x \in Sockets \ {1} : sock'[x] = sock[x]
      BY <1>3, <1>4, <2>1, SockSoft
    <2>8. TypeOK'
      BY <1>1, <2>5, <2>6, <2>7 DEF IInv, TypeOK
    <2>9. 1 \in Sockets /\ 2 \in Sockets /\ 3 \in Sockets /\ 4 \in Sockets
      BY DEF Sockets
    <2>10. SocketInv'
      BY <1>1, <2>7, <2>9 DEF IInv, SocketInv, SoftSocket, Soft
    <2>11. CallInv'
      <3>1. ~Server(2)
        BY <2>1 DEF Server
      <3> QED
        BY <1>1, <1>4, <2>1, <2>7, <3>1, CallsSame
    <2>12. StateInv'
      BY <1>1, <2>7 DEF IInv, StateInv, SoftSocket, Soft, Server, IsStream
    <2>13. TaskInv' /\ ConnInv'
      BY <1>1, <1>4, <2>1, <2>4, <2>5, <2>7, <2>9 DEF IInv, TaskInv, ConnInv, Blank, SoftSocket, Soft
    <2>14. ep[a1].refs # {}
      BY <2>1, EndsAre DEF IInv, RefInv, PairA
    <2>15. RefInv'
      <3>1. sock'[1].at = sock[1].at /\ sock'[1].fd1 = sock[1].fd1 /\ sock'[2] = sock[2] /\ sock'[4] = sock[4]
        BY <2>7, <2>9 DEF SoftSocket, Soft
      <3>2. PairA'
        BY <1>1, <2>1, <2>4, <2>5, <2>6, <3>1, EndsAre DEF IInv, RefInv, PairA, IsStream
      <3>3. PairB' /\ PairC'
        BY <1>1, <2>1, <2>5, <2>6, <3>1, EndsAre DEF IInv, RefInv, PairB, PairC, IsStream
      <3>4. Accepted' /\ NoRefs'
        BY <2>1, <2>6, <2>14, <3>1, EndsAre DEF IInv, RefInv, Accepted, NoRefs, SocketInv
      <3> QED
        BY <3>2, <3>3, <3>4 DEF RefInv
    <2>16. QueueInv'
      BY <1>1, <2>1, <2>6, EndsAre DEF IInv, QueueInv, IsStream
    <2>17. SecureInv'
      BY <1>1, <2>4, <2>5, <2>7, <2>9 DEF IInv, SecureInv, SoftSocket, Soft, ConnInv, TaskInv
    <2>18. StreamInv'
      BY <1>1, <2>1 DEF StreamInv, Tunneled
    <2>19. DatagramInv'
      BY <1>1, <2>6, <2>7, <2>9, EndsAre, DatagramSame DEF IInv, SoftSocket, Soft
    <2> QED
      BY <2>8, <2>10, <2>11, <2>12, <2>13, <2>15, <2>16, <2>17, <2>18, <2>19 DEF IInv
  <1> QED
    BY <1>5, <1>6

-----------------------------------------------------------------------------
(* The goroutines and the hosts.                                           *)

\* One connection changes.
LEMMA ConnIs ==
    ASSUME TypeOK, NEW c \in Conns, NEW r \in ConnType, conn' = [conn EXCEPT ![c] = r]
    PROVE  conn' \in [Conns -> ConnType] /\ conn'[c] = r /\ \A x \in Conns \ {c} : conn'[x] = conn[x]
  BY DEF TypeOK

\* One tunnel changes.
LEMMA TunIs ==
    ASSUME TypeOK, NEW c \in Conns, NEW r \in TunnelType, tun' = [tun EXCEPT ![c] = r]
    PROVE  tun' \in [Conns -> TunnelType] /\ tun'[c] = r /\ \A x \in Conns \ {c} : tun'[x] = tun[x]
  BY DEF TypeOK

\* A step of a goroutine or a host that leaves sockets and descriptors alone.
LEMMA QuietKeeps ==
    ASSUME IInv, TypeOK', UNCHANGED <<mode, sock, ep, heard>>, TaskInv', ConnInv', SecureInv', StreamInv',
           task'[1].at \in {"none", "done"} <=> task[1].at \in {"none", "done"},
           task'[2].at = task[2].at \/ task[2].at # "serving",
           tun'["in"].at = tun["in"].at
    PROVE  IInv'
  <1>1. SocketInv' /\ CallInv' /\ StateInv'
    BY DEF IInv, SocketInv, CallInv, StateInv, Server, IsStream
  <1>2. PairA' /\ PairB' /\ PairC' /\ Accepted' /\ NoRefs'
    BY DEF IInv, RefInv, PairA, PairB, PairC, Accepted, NoRefs, IsStream
  <1>3. QueueInv'
    BY DEF IInv, QueueInv, Offered, IsStream
  <1>4. DatagramInv'
    BY DatagramSame DEF IInv
  <1> QED
    BY <1>1, <1>2, <1>3, <1>4 DEF IInv, RefInv

\* HostConnect.
LEMMA HostConnectKeeps ==
    ASSUME IInv, HostConnect
    PROVE  IInv'
  <1>1. /\ task[2].at \in {"accepting", "serving"} /\ conn["in"].at = "none"
        /\ UNCHANGED <<mode, sock, ep, task, tun, heard>> /\ conn["in"] \in ConnType /\ "in" \in Conns /\ "out" \in Conns
    BY DEF HostConnect, IInv, TypeOK, Conns
  <1>2. PICK r : r = [conn["in"] EXCEPT !.at = "queued"]
    OBVIOUS
  <1>3. /\ r \in ConnType /\ r.at = "queued" /\ r.end = conn["in"].end /\ r.sent = conn["in"].sent
        /\ r.down = conn["in"].down /\ r.got = conn["in"].got /\ r.upEnd = conn["in"].upEnd
        /\ conn' = [conn EXCEPT !["in"] = r]
    BY <1>1, <1>2 DEF ConnType, HostConnect
  <1>4. conn' \in [Conns -> ConnType] /\ conn'["in"] = r /\ conn'["out"] = conn["out"]
    BY <1>1, <1>3, ConnIs DEF IInv
  <1>5. TypeOK'
    BY <1>1, <1>4 DEF IInv, TypeOK
  <1>6. TaskInv'
    BY <1>1 DEF IInv, TaskInv
  <1>7. mode = "listen"
    BY <1>1 DEF IInv, TaskInv
  <1>8. ConnInv'
    BY <1>1, <1>3, <1>4, <1>7 DEF IInv, ConnInv, Blank, Conns
  <1>9. SecureInv'
    BY <1>1, <1>4 DEF IInv, SecureInv
  <1>10. StreamInv'
    BY <1>1, <1>3, <1>4, StreamSame DEF IInv, SameSocket, SameEnd, SameConn
  <1> QED
    BY <1>1, <1>5, <1>6, <1>8, <1>9, <1>10, QuietKeeps

\* HostSend.
LEMMA HostSendKeeps ==
    ASSUME IInv, NEW c \in Conns, HostSend(c)
    PROVE  IInv'
  <1>1. /\ tun[c].at = "run" /\ conn[c].end = "no" /\ conn[c] \in ConnType
        /\ UNCHANGED <<mode, sock, ep, task, tun, heard>>
    BY DEF HostSend, IInv, TypeOK
  <1>2. PICK r : r = [conn[c] EXCEPT !.sent = conn[c].sent + 1, !.down = Append(conn[c].down, conn[c].sent + 1)]
    OBVIOUS
  <1>3. conn[c].sent \in Nat /\ conn[c].down \in Seq(Nat) /\ Append(conn[c].down, conn[c].sent + 1) \in Seq(Nat)
    BY <1>1 DEF ConnType
  <1>4. /\ r \in ConnType /\ r.at = conn[c].at /\ r.end = conn[c].end /\ r.sent = conn[c].sent + 1
        /\ r.down = Append(conn[c].down, conn[c].sent + 1) /\ r.got = conn[c].got /\ r.upEnd = conn[c].upEnd
        /\ r.tls = conn[c].tls
        /\ conn' = [conn EXCEPT ![c] = r]
    <2>1. conn' = [conn EXCEPT ![c] = r]
      BY <1>2 DEF HostSend
    <2>2. PICK n \in Nat, w \in Seq(Nat) : n = conn[c].sent + 1 /\ w = Append(conn[c].down, conn[c].sent + 1)
      <3>1. conn[c].sent + 1 \in Nat
        BY <1>3
      <3> QED
        BY <1>3, <3>1
    <2>3. r = [conn[c] EXCEPT !.sent = n, !.down = w]
      BY <1>2, <2>2
    <2>4. /\ r \in ConnType /\ r.at = conn[c].at /\ r.end = conn[c].end /\ r.sent = n
          /\ r.down = w /\ r.got = conn[c].got /\ r.upEnd = conn[c].upEnd /\ r.tls = conn[c].tls
      BY <1>1, <2>3 DEF ConnType
    <2> QED
      BY <2>1, <2>2, <2>4
  <1>5. conn' \in [Conns -> ConnType] /\ conn'[c] = r /\ \A x \in Conns \ {c} : conn'[x] = conn[x]
    BY <1>1, <1>4, ConnIs DEF IInv
  <1>6. TypeOK' /\ TaskInv'
    BY <1>1, <1>5 DEF IInv, TypeOK, TaskInv
  <1>7. "in" \in Conns /\ "out" \in Conns /\ Conns = {"in", "out"}
    BY DEF Conns
  <1>8. ConnInv'
    BY <1>1, <1>4, <1>5, <1>7 DEF IInv, ConnInv, Blank
  <1>9. SecureInv'
    BY <1>1, <1>4, <1>5, <1>7 DEF IInv, SecureInv
  <1>10. StreamInv'
    <2>1. ASSUME Tunneled(c)
          PROVE  UpInv(c)' /\ DownInv(c)'
      <3>1. UpInv(c) /\ DownInv(c)
        BY <2>1 DEF IInv, StreamInv
      <3>2. UpInv(c)'
        BY <1>1, <1>4, <1>5, <3>1 DEF UpInv
      <3>3. Pending(r.down, r.sent) /\ Len(r.down) = Len(conn[c].down) + 1
        BY <1>3, <1>4, <3>1, CellPending DEF DownInv
      <3>4. PICK g : g = sock[GuestOf(c)]
        OBVIOUS
      <3>5. g \in SocketRecord /\ ep[GuestEnd(c)] \in UnixSocket
        BY <3>4, EndsAre DEF IInv, TypeOK, GuestOf, GuestEnd, Sockets
      <3>6. Len(g.got) \in Nat /\ Len(ep[GuestEnd(c)].q) \in Nat /\ Len(conn[c].down) \in Nat
        BY <1>3, <3>5 DEF SocketRecord, UnixSocket
      <3>7. ~(ep[GuestEnd(c)].shut /\ ep[GuestEnd(c)].refs # {} /\ "deaf" \notin g.st) /\ ~(g.eof /\ "deaf" \notin g.st)
        BY <1>1, <3>1, <3>4 DEF DownInv
      <3>8. ep[GuestEnd(c)].refs # {} => Len(g.got) + Len(ep[GuestEnd(c)].q) + Len(r.down) = r.sent
        <4>1. ep[GuestEnd(c)].refs # {} => Len(g.got) + Len(ep[GuestEnd(c)].q) + Len(conn[c].down) = conn[c].sent
          BY <3>1, <3>4 DEF DownInv
        <4>2. r.sent = conn[c].sent + 1 /\ conn[c].sent \in Nat
          BY <1>3, <1>4
        <4>3. Len(r.down) = Len(conn[c].down) + 1
          BY <3>3
        <4>4. PICK x \in Nat, y \in Nat, z \in Nat, n \in Nat :
                 x = Len(g.got) /\ y = Len(ep[GuestEnd(c)].q) /\ z = Len(conn[c].down) /\ n = conn[c].sent
          BY <3>6, <4>2, Zenon
        <4>5. ep[GuestEnd(c)].refs # {} => x + y + z = n
          BY <4>1, <4>4, Zenon
        <4>6. ep[GuestEnd(c)].refs # {} => x + y + (z + 1) = n + 1
          BY <4>5
        <4> QED
          BY <4>2, <4>3, <4>4, <4>6, Zenon
      <3>9. InOrder(g.got) /\ Consecutive(ep[GuestEnd(c)].q, Len(g.got)) /\ (tun[c].down => ep[GuestEnd(c)].shut)
        BY <1>1, <3>1, <3>4 DEF DownInv
      <3>10. /\ InOrder(sock'[GuestOf(c)].got)
             /\ Consecutive(ep'[GuestEnd(c)].q, Len(sock'[GuestOf(c)].got))
             /\ Pending(conn'[c].down, conn'[c].sent)
             /\ ep'[GuestEnd(c)].refs # {} =>
                   Len(sock'[GuestOf(c)].got) + Len(ep'[GuestEnd(c)].q) + Len(conn'[c].down) = conn'[c].sent
             /\ ~(ep'[GuestEnd(c)].shut /\ ep'[GuestEnd(c)].refs # {} /\ "deaf" \notin sock'[GuestOf(c)].st)
             /\ ~(sock'[GuestOf(c)].eof /\ "deaf" \notin sock'[GuestOf(c)].st)
             /\ tun'[c].down => ep'[GuestEnd(c)].shut
        BY <1>1, <1>5, <3>3, <3>4, <3>7, <3>8, <3>9
      <3>11. DownInv(c)'
        BY <3>10 DEF DownInv
      <3> QED
        BY <3>2, <3>11
    <2>2. ASSUME NEW x \in Conns, x # c, Tunneled(x)
          PROVE  UpInv(x)' /\ DownInv(x)'
      <3>1. UpInv(x) /\ DownInv(x)
        BY <2>2 DEF IInv, StreamInv
      <3>2. conn'[x] = conn[x]
        BY <1>5, <2>2
      <3> QED
        BY <1>1, <3>1, <3>2 DEF UpInv, DownInv
    <2>3. mode = "local" => PipeInv(1, 4, a0, a1)' /\ PipeInv(4, 1, a1, a0)'
      BY <1>1 DEF IInv, StreamInv, PipeInv
    <2> QED
      BY <1>1, <2>1, <2>2, <2>3 DEF StreamInv, Tunneled
  <1> QED
    BY <1>1, <1>6, <1>8, <1>9, <1>10, QuietKeeps

\* HostEnd.
LEMMA HostEndKeeps ==
    ASSUME IInv, NEW c \in Conns, NEW how \in {"write", "full"}, HostEnd(c, how)
    PROVE  IInv'
  <1>1. /\ conn[c].at = "open" /\ conn[c].end # "full" /\ conn[c] \in ConnType
        /\ UNCHANGED <<mode, sock, ep, task, tun, heard>>
    BY DEF HostEnd, IInv, TypeOK
  <1>2. PICK r : r = [conn[c] EXCEPT !.end = how]
    OBVIOUS
  <1>3. /\ r \in ConnType /\ r.at = "open" /\ r.end = how /\ r.sent = conn[c].sent
        /\ r.down = conn[c].down /\ r.got = conn[c].got /\ r.upEnd = conn[c].upEnd
        /\ r.tls = conn[c].tls
        /\ conn' = [conn EXCEPT ![c] = r]
    BY <1>1, <1>2 DEF ConnType, HostEnd
  <1>4. conn' \in [Conns -> ConnType] /\ conn'[c] = r /\ \A x \in Conns \ {c} : conn'[x] = conn[x]
    BY <1>1, <1>3, ConnIs DEF IInv
  <1>5. TypeOK' /\ TaskInv'
    BY <1>1, <1>4 DEF IInv, TypeOK, TaskInv
  <1>6. "in" \in Conns /\ "out" \in Conns /\ Conns = {"in", "out"}
    BY DEF Conns
  <1>7. ConnInv'
    BY <1>1, <1>3, <1>4, <1>6 DEF IInv, ConnInv, Blank
  <1>8. SecureInv'
    BY <1>1, <1>3, <1>4, <1>6 DEF IInv, SecureInv
  <1>9. StreamInv'
    <2>1. ASSUME NEW x \in Conns, Tunneled(x)
          PROVE  UpInv(x)' /\ DownInv(x)'
      <3>1. UpInv(x) /\ DownInv(x)
        BY <2>1 DEF IInv, StreamInv
      <3>2. /\ conn'[x].sent = conn[x].sent /\ conn'[x].down = conn[x].down /\ conn'[x].got = conn[x].got
            /\ conn'[x].upEnd = conn[x].upEnd /\ (conn'[x].end = conn[x].end \/ (conn[x].end # "full" /\ conn'[x].end # "no"))
        BY <1>1, <1>3, <1>4
      <3> QED
        BY <1>1, <3>1, <3>2 DEF UpInv, DownInv
    <2>2. mode = "local" => PipeInv(1, 4, a0, a1)' /\ PipeInv(4, 1, a1, a0)'
      BY <1>1 DEF IInv, StreamInv, PipeInv
    <2> QED
      BY <1>1, <2>1, <2>2 DEF StreamInv, Tunneled
  <1> QED
    BY <1>1, <1>5, <1>7, <1>8, <1>9, QuietKeeps

\* ListenEnd.
LEMMA ListenEndKeeps ==
    ASSUME IInv, NEW s \in {1, 2}, ListenEnd(s)
    PROVE  IInv'
  <1>1. /\ task[s].at = "accepting" /\ UNCHANGED <<mode, sock, ep, conn, tun, heard>> /\ task[s] \in TaskType
        /\ EndTask(s, <<"error">>)
    BY DEF ListenEnd, IInv, TypeOK
  <1>2. s = 2
    BY <1>1 DEF IInv, TaskInv
  <1>3. PICK r : r = [task[2] EXCEPT !.at = "done", !.errs = <<"error">>, !.closed = TRUE]
    OBVIOUS
  <1>4. /\ r \in TaskType /\ r.at = "done" /\ r.closed /\ r.made = task[2].made
        /\ task' = [task EXCEPT ![2] = r]
    <2>1. <<"error">> \in Seq({"error", "aborted"})
      OBVIOUS
    <2> QED
      BY <1>1, <1>2, <1>3, <2>1 DEF TaskType, EndTask, TaskStates
  <1>5. task' \in [{1, 2} -> TaskType] /\ task'[2] = r /\ task'[1] = task[1]
    BY <1>4 DEF IInv, TypeOK
  <1>6. TypeOK' /\ TaskInv'
    BY <1>1, <1>2, <1>4, <1>5 DEF IInv, TypeOK, TaskInv
  <1>7. ConnInv'
    BY <1>1, <1>2, <1>4, <1>5 DEF IInv, ConnInv, Blank
  <1>8. SecureInv'
    BY <1>1, <1>5 DEF IInv, SecureInv
  <1>9. StreamInv'
    BY <1>1, StreamSame DEF IInv, SameSocket, SameEnd, SameConn
  <1> QED
    BY <1>1, <1>2, <1>5, <1>6, <1>7, <1>8, <1>9, QuietKeeps

\* The goroutine of dial ends, before the tunnel or after it.
LEMMA DialEndsKeeps ==
    ASSUME IInv, NEW errs \in Seq({"error", "aborted"}), DialEnds(1, errs), UNCHANGED <<mode, sock, heard>>,
           task[1].at \in {"dialing", "decide", "handshake", "tunnel"},
           NEW r \in TunnelType, tun' = [tun EXCEPT !["out"] = r],
           r.up = tun["out"].up, r.down = tun["out"].down, r.d = tun["out"].d,
           \/ task[1].at # "tunnel" /\ r = tun["out"]
           \/ task[1].at = "tunnel" /\ r.at = "done" /\ r.up /\ r.down
    PROVE  IInv'
  <1>1. /\ mode \in {"dial", "udp"} /\ "connected" \in sock[1].st /\ task[1] \in TaskType
        /\ conn["out"] \in ConnType /\ "out" \in Conns /\ "in" \in Conns /\ ep \in [Ends -> UnixSocket]
        /\ 1 \in Sockets /\ 2 \in Sockets /\ 4 \in Sockets
    BY DEF IInv, TaskInv, TypeOK, Conns, Sockets
  <1>2. PICK t : t = [task[1] EXCEPT !.at = "done", !.errs = errs, !.closed = TRUE]
    OBVIOUS
  <1>3. /\ t \in TaskType /\ t.at = "done" /\ t.closed /\ t.made = task[1].made
        /\ task' = [task EXCEPT ![1] = t]
    BY <1>1, <1>2 DEF TaskType, DialEnds, EndTask, TaskStates
  <1>4. task' \in [{1, 2} -> TaskType] /\ task'[1] = t /\ task'[2] = task[2]
    BY <1>3 DEF IInv, TypeOK
  <1>5. PICK k : k = [conn["out"] EXCEPT !.at = "closed"]
    OBVIOUS
  <1>6. /\ k \in ConnType /\ k.at = "closed" /\ k.end = conn["out"].end /\ k.sent = conn["out"].sent
        /\ k.down = conn["out"].down /\ k.got = conn["out"].got /\ k.upEnd = conn["out"].upEnd /\ k.tls = conn["out"].tls
        /\ conn' = [conn EXCEPT !["out"] = k]
    BY <1>1, <1>5 DEF ConnType, DialEnds
  <1>7. conn' \in [Conns -> ConnType] /\ conn'["out"] = k /\ conn'["in"] = conn["in"]
    BY <1>1, <1>6, ConnIs DEF IInv
  <1>8. tun' \in [Conns -> TunnelType] /\ tun'["out"] = r /\ tun'["in"] = tun["in"]
    BY <1>1, TunIs DEF IInv
  <1>9. a1 \in Ends /\ {"net"} \in SUBSET Holders /\ \A i \in DOMAIN ep[a1].q : ep[a1].q[i].fd = None
    BY <1>1, EndsAre DEF IInv, QueueInv, Holders
  <1>10. /\ ep' \in [Ends -> UnixSocket] /\ \A x \in Ends \ {a1} : ep'[x] = ep[x]
         /\ ep'[a1].refs = ep[a1].refs \ {"net"} /\ ep'[a1].shut = ep[a1].shut
         /\ ep'[a1].refs = {} => ep'[a1].q = <<>>
         /\ ep'[a1].refs # {} => ep'[a1].q = ep[a1].q
    <2>1. ep' = Drop(ep, a1, {"net"})
      BY <1>1, <1>9, ReleaseIs DEF DialEnds, a1
    <2> QED
      BY <1>1, <1>9, <2>1, DropIs
  <1>11. /\ ep'[a0] = ep[a0] /\ ep'[b0] = ep[b0] /\ ep'[b1] = ep[b1] /\ ep'[c0] = ep[c0] /\ ep'[c1] = ep[c1]
    BY <1>10, EndsAre
  <1>12. TypeOK' /\ SocketInv' /\ CallInv' /\ StateInv'
    BY <1>4, <1>7, <1>8, <1>10 DEF IInv, TypeOK, SocketInv, CallInv, StateInv, Server, IsStream
  <1>13. TaskInv'
    BY <1>1, <1>3, <1>4 DEF IInv, TaskInv
  <1>14. task[1].at # "tunnel" => tun["out"].at = "none" /\ Blank("out")
    <2>1. tun["out"].at \in {"none", "run", "done", "failed"}
      BY <1>1 DEF IInv, TypeOK, TunnelType
    <2> QED
      BY <1>1, <2>1 DEF IInv, ConnInv
  <1>15. ConnInv'
    BY <1>1, <1>3, <1>4, <1>6, <1>7, <1>8, <1>14 DEF IInv, ConnInv, Blank, Conns
  <1>16. RefInv'
    <2>1. PairA'
      BY <1>3, <1>4, <1>10, <1>11 DEF IInv, RefInv, PairA, IsStream
    <2>2. PairB' /\ PairC'
      BY <1>4, <1>8, <1>11 DEF IInv, RefInv, PairB, PairC, IsStream
    <2>3. sock[4].at # "open"
      BY <1>1 DEF IInv, SocketInv
    <2>4. Accepted' /\ NoRefs'
      BY <1>10, <1>11, <2>3, EndsAre DEF IInv, RefInv, Accepted, NoRefs
    <2> QED
      BY <2>1, <2>2, <2>4 DEF RefInv
  <1>17. QueueInv'
    <2>1. \A i \in DOMAIN ep'[a1].q : ep'[a1].q[i].fd = None
      BY <1>9, <1>10
    <2> QED
      BY <1>1, <1>8, <1>11, <2>1, EndsAre DEF IInv, QueueInv, IsStream, TypeOf
  <1>18. SecureInv'
    <2>1. tun'["out"].at # "none" => tun["out"].at # "none"
      BY <1>8, <1>14 DEF IInv, ConnInv
    <2> QED
      BY <1>3, <1>4, <1>6, <1>7, <2>1 DEF IInv, SecureInv
  <1>19. StreamInv'
    <2>1. CASE mode = "dial"
      <3>1. UpInv("out") /\ DownInv("out")
        BY <2>1 DEF IInv, StreamInv, Tunneled, Conns
      <3>2. ep'[a1].refs = {} /\ ep'[a1].q = <<>>
        <4>1. IsStream /\ sock[1].fd1 = None /\ ep[a1].refs \subseteq Holders
          BY <1>1, <1>9, <2>1 DEF IInv, StateInv, IsStream, TypeOf, UnixSocket
        <4>2. ep[a1].refs \subseteq {"net"}
          BY <2>1, <4>1 DEF IInv, RefInv, PairA, Holders
        <4> QED
          BY <1>10, <4>2
      <3>3. Len(conn["out"].got) \in Nat
        BY <1>1 DEF ConnType
      <3>4. UpInv("out")'
        <4>1. InOrder(conn'["out"].got) /\ Consecutive(ep'[a1].q, Len(conn'["out"].got)) /\ ep'[a1].refs = {}
          BY <1>6, <1>7, <3>1, <3>2, <3>3, NothingQueued DEF UpInv
        <4>2. conn'["out"].upEnd => tun'["out"].up
          BY <1>6, <1>7, <1>8, <3>1 DEF UpInv
        <4>3. conn'["out"].upEnd /\ conn'["out"].end # "full" =>
                 Len(conn'["out"].got) = sock'[1].sent /\ (ep'[a1].shut \/ ep'[a0].refs = {})
          BY <1>6, <1>7, <1>10, <1>11, <3>1, EndsOf DEF UpInv
        <4> QED
          BY <4>1, <4>2, <4>3, EndsOf DEF UpInv
      <3>5. DownInv("out")'
        <4>1. /\ conn'["out"].sent = conn["out"].sent /\ conn'["out"].down = conn["out"].down /\ conn'["out"].end = conn["out"].end
              /\ tun'["out"].down = tun["out"].down /\ ep'[a0] = ep[a0]
          BY <1>6, <1>7, <1>8, <1>11
        <4>2. tun'["out"].at = "done" \/ (tun'["out"].at = "none" /\ tun["out"].at = "none" /\ ep'[a1].refs = {})
          BY <1>8, <1>14, <3>2
        <4>3. tun["out"].at = "none" <=> tun'["out"].at = "none"
          BY <1>8, <1>14 DEF IInv, ConnInv
        <4> QED
          BY <3>1, <4>1, <4>2, <4>3, EndsOf DEF DownInv
      <3> QED
        BY <2>1, <3>4, <3>5 DEF StreamInv, Tunneled, Conns
    <2>2. CASE mode = "udp"
      BY <2>2 DEF StreamInv, Tunneled
    <2> QED
      BY <1>1, <2>1, <2>2
  <1>20. DatagramInv'
    BY <1>1 DEF DatagramInv
  <1> QED
    BY <1>12, <1>13, <1>15, <1>16, <1>17, <1>18, <1>19, <1>20 DEF IInv

\* The goroutine of dial starts the tunnel.
LEMMA StartTunnelKeeps ==
    ASSUME IInv, NEW tls \in BOOLEAN, StartTunnel(1, tls), UNCHANGED <<mode, sock, heard>>,
           \/ task[1].at = "decide" /\ sock[1].htls = "plain" /\ ~tls
           \/ task[1].at = "handshake" /\ tls
    PROVE  IInv'
  <1>1. /\ mode \in {"dial", "udp"} /\ task[1] \in TaskType /\ "connected" \in sock[1].st /\ task[1].made /\ ~task[1].closed
        /\ conn["out"] \in ConnType /\ "out" \in Conns /\ "in" \in Conns /\ ep' = ep
        /\ tun["out"].at = "none" /\ Blank("out") /\ tun["out"] = NoTunnel
    <2>1. tun["out"].at \in {"none", "run", "done", "failed"} /\ "out" \in Conns /\ "in" \in Conns
      BY DEF IInv, TypeOK, TunnelType, Conns
    <2>2. tun["out"].at = "none"
      BY <2>1 DEF IInv, ConnInv
    <2> QED
      BY <2>1, <2>2 DEF IInv, TaskInv, TypeOK, ConnInv, StartTunnel
  <1>2. PICK t : t = [task[1] EXCEPT !.at = "tunnel"]
    OBVIOUS
  <1>3. /\ t \in TaskType /\ t.at = "tunnel" /\ t.closed = task[1].closed /\ t.made = task[1].made
        /\ task' = [task EXCEPT ![1] = t]
    BY <1>1, <1>2 DEF TaskType, StartTunnel, TaskStates
  <1>4. task' \in [{1, 2} -> TaskType] /\ task'[1] = t /\ task'[2] = task[2]
    BY <1>3 DEF IInv, TypeOK
  <1>5. PICK k : k = [conn["out"] EXCEPT !.tls = tls]
    OBVIOUS
  <1>6. /\ k \in ConnType /\ k.at = conn["out"].at /\ k.end = conn["out"].end /\ k.sent = conn["out"].sent
        /\ k.down = conn["out"].down /\ k.got = conn["out"].got /\ k.upEnd = conn["out"].upEnd /\ k.tls = tls
        /\ conn' = [conn EXCEPT !["out"] = k]
    BY <1>1, <1>5 DEF ConnType, StartTunnel
  <1>7. conn' \in [Conns -> ConnType] /\ conn'["out"] = k /\ conn'["in"] = conn["in"]
    BY <1>1, <1>6, ConnIs DEF IInv
  <1>8. PICK r : r = [NoTunnel EXCEPT !.at = "run", !.d = a1, !.up = FALSE, !.down = FALSE]
    OBVIOUS
  <1>9. /\ r \in TunnelType /\ r.at = "run" /\ r.d = a1 /\ ~r.up /\ ~r.down
        /\ tun' = [tun EXCEPT !["out"] = r]
    BY <1>8, EndsAre DEF NoTunnel, TunnelType, StartTunnel, EndOrNone, a1
  <1>10. tun' \in [Conns -> TunnelType] /\ tun'["out"] = r /\ tun'["in"] = tun["in"]
    BY <1>1, <1>9, TunIs DEF IInv
  <1>11. TypeOK' /\ TaskInv'
    BY <1>1, <1>3, <1>4, <1>7, <1>10 DEF IInv, TypeOK, TaskInv
  <1>12. ConnInv'
    BY <1>1, <1>3, <1>4, <1>6, <1>7, <1>9, <1>10 DEF IInv, ConnInv, Blank, Conns
  <1>13. SecureInv'
    BY <1>1, <1>3, <1>4, <1>6, <1>7, <1>9, <1>10 DEF IInv, SecureInv, Blank
  <1>14. StreamInv'
    <2>1. CASE mode = "dial"
      <3>1. UpInv("out") /\ DownInv("out")
        BY <2>1 DEF IInv, StreamInv, Tunneled, Conns
      <3>2. "net" \in ep[a1].refs
        BY DEF IInv, RefInv, PairA
      <3>3. UpInv("out")'
        BY <1>1, <1>6, <1>7, <1>9, <1>10, <3>1, EndsOf DEF UpInv, Blank
      <3>4. DownInv("out")'
        BY <1>1, <1>6, <1>7, <1>9, <1>10, <3>1, <3>2, EndsOf DEF DownInv, Blank
      <3> QED
        BY <2>1, <3>3, <3>4 DEF StreamInv, Tunneled, Conns
    <2>2. CASE mode = "udp"
      BY <2>2 DEF StreamInv, Tunneled
    <2> QED
      BY <1>1, <2>1, <2>2
  <1> QED
    BY <1>1, <1>3, <1>4, <1>10, <1>11, <1>12, <1>13, <1>14, QuietKeeps

\* The goroutine of dial goes on to its next step.
LEMMA DialGoesOnKeeps ==
    ASSUME IInv, NEW at \in {"decide", "handshake"}, UNCHANGED <<mode, sock, ep, tun, heard>>,
           task' = [task EXCEPT ![1].at = at], task[1].at \in {"dialing", "decide"},
           NEW k \in ConnType, conn' = [conn EXCEPT !["out"] = k],
           \/ task[1].at = "dialing" /\ at = "decide" /\ k = [conn["out"] EXCEPT !.at = "open"]
           \/ task[1].at = "decide" /\ at = "handshake" /\ sock[1].htls = "name" /\ k = conn["out"]
    PROVE  IInv'
  <1>1. /\ mode \in {"dial", "udp"} /\ task[1] \in TaskType /\ "connected" \in sock[1].st /\ task[1].made /\ ~task[1].closed
        /\ conn["out"] \in ConnType /\ "out" \in Conns /\ "in" \in Conns
        /\ tun["out"].at = "none" /\ Blank("out") /\ tun["out"] = NoTunnel
    <2>1. tun["out"].at \in {"none", "run", "done", "failed"} /\ "out" \in Conns /\ "in" \in Conns
      BY DEF IInv, TypeOK, TunnelType, Conns
    <2>2. tun["out"].at = "none"
      BY <2>1 DEF IInv, ConnInv
    <2> QED
      BY <2>1, <2>2 DEF IInv, TaskInv, TypeOK, ConnInv
  <1>2. PICK t : t = [task[1] EXCEPT !.at = at]
    OBVIOUS
  <1>3. /\ t \in TaskType /\ t.at = at /\ t.closed = task[1].closed /\ t.made = task[1].made
        /\ task' = [task EXCEPT ![1] = t]
    BY <1>1, <1>2 DEF TaskType, TaskStates
  <1>4. task' \in [{1, 2} -> TaskType] /\ task'[1] = t /\ task'[2] = task[2]
    BY <1>3 DEF IInv, TypeOK
  <1>5. /\ k.at = "open" /\ k.end = conn["out"].end /\ k.sent = conn["out"].sent /\ k.tls = conn["out"].tls
        /\ k.down = conn["out"].down /\ k.got = conn["out"].got /\ k.upEnd = conn["out"].upEnd
    BY <1>1 DEF ConnType, IInv, ConnInv
  <1>6. conn' \in [Conns -> ConnType] /\ conn'["out"] = k /\ conn'["in"] = conn["in"]
    BY <1>1, ConnIs DEF IInv
  <1>7. TypeOK' /\ TaskInv'
    BY <1>1, <1>3, <1>4, <1>6 DEF IInv, TypeOK, TaskInv
  <1>8. ConnInv'
    BY <1>1, <1>3, <1>4, <1>5, <1>6 DEF IInv, ConnInv, Blank, Conns
  <1>9. SecureInv'
    BY <1>1, <1>3, <1>4, <1>5, <1>6 DEF IInv, SecureInv
  <1>10. StreamInv'
    BY <1>1, <1>5, <1>6, StreamSame DEF IInv, SameSocket, SameEnd, SameConn
  <1> QED
    BY <1>1, <1>3, <1>4, <1>7, <1>8, <1>9, <1>10, QuietKeeps

\* Dialed, Decide and Handshake.
LEMMA DialKeeps ==
    ASSUME IInv, NEW s \in {1, 2}, NEW ok \in BOOLEAN, Dialed(s, ok) \/ Decide(s) \/ Handshake(s, ok)
    PROVE  IInv'
  <1>1. /\ s = 1 /\ <<"error">> \in Seq({"error", "aborted"}) /\ task \in [{1, 2} -> TaskType]
        /\ conn \in [Conns -> ConnType] /\ "out" \in Conns
        /\ UNCHANGED <<mode, sock, heard>>
    <2>1. task[s].at \in {"dialing", "decide", "handshake"} /\ UNCHANGED <<mode, sock, heard>>
      BY DEF Dialed, Decide, Handshake
    <2>2. s = 1
      BY <2>1 DEF IInv, TaskInv
    <2>3. <<"error">> \in Seq({"error", "aborted"})
      OBVIOUS
    <2> QED
      BY <2>1, <2>2, <2>3 DEF IInv, TypeOK, Conns
  <1>2. PICK r : r = tun["out"]
    OBVIOUS
  <1>3. r \in TunnelType /\ (tun' = tun => tun' = [tun EXCEPT !["out"] = r])
    BY <1>1, <1>2 DEF IInv, TypeOK
  <1>4. ASSUME DialEnds(1, <<"error">>), tun' = tun, task[1].at \in {"dialing", "decide", "handshake"}
        PROVE  IInv'
    BY <1>1, <1>2, <1>3, <1>4, DialEndsKeeps
  <1>5. CASE Dialed(s, ok)
    <2>1. task[1].at = "dialing" /\ tun' = tun
      BY <1>1, <1>5 DEF Dialed
    <2>2. CASE ok
      <3>1. PICK k : k = [conn["out"] EXCEPT !.at = "open"]
        OBVIOUS
      <3>2. k \in ConnType /\ conn' = [conn EXCEPT !["out"] = k]
        <4>1. conn["out"] \in ConnType /\ conn' = [conn EXCEPT !["out"].at = "open"]
          BY <1>1, <1>5, <2>2 DEF Dialed
        <4>2. k \in ConnType
          BY <3>1, <4>1 DEF ConnType
        <4> QED
          BY <3>1, <4>1, <4>2
      <3>3. task' = [task EXCEPT ![1].at = "decide"] /\ ep' = ep
        BY <1>1, <1>5, <2>2 DEF Dialed
      <3> QED
        BY <1>1, <2>1, <3>1, <3>2, <3>3, DialGoesOnKeeps
    <2>3. CASE ~ok
      <3>1. DialEnds(1, <<"error">>)
        BY <1>1, <1>5, <2>3 DEF Dialed
      <3> QED
        BY <1>4, <2>1, <3>1
    <2> QED
      BY <2>2, <2>3
  <1>6. CASE Decide(s)
    <2>1. task[1].at = "decide"
      BY <1>1, <1>6 DEF Decide
    <2>2. CASE DialEnds(1, <<"error">>) /\ tun' = tun
      BY <1>4, <2>1, <2>2
    <2>3. CASE sock[1].htls = "plain" /\ StartTunnel(1, FALSE)
      BY <1>1, <2>1, <2>3, StartTunnelKeeps
    <2>4. CASE sock[1].htls = "name" /\ task' = [task EXCEPT ![1].at = "handshake"] /\ UNCHANGED <<ep, conn, tun>>
      <3>1. PICK k \in ConnType : k = conn["out"] /\ conn' = [conn EXCEPT !["out"] = k]
        BY <1>1, <2>4
      <3> QED
        BY <1>1, <2>1, <2>4, <3>1, DialGoesOnKeeps
    <2> QED
      BY <1>1, <1>6, <2>2, <2>3, <2>4 DEF Decide
  <1>7. CASE Handshake(s, ok)
    <2>1. task[1].at = "handshake"
      BY <1>1, <1>7 DEF Handshake
    <2>2. CASE StartTunnel(1, TRUE)
      BY <1>1, <2>1, <2>2, StartTunnelKeeps
    <2>3. CASE DialEnds(1, <<"error">>) /\ tun' = tun
      BY <1>4, <2>1, <2>3
    <2> QED
      BY <1>1, <1>7, <2>2, <2>3 DEF Handshake
  <1> QED
    BY <1>5, <1>6, <1>7

\* TunnelEnd.
LEMMA TunnelEndKeeps ==
    ASSUME IInv, NEW c \in Conns, TunnelEnd(c)
    PROVE  IInv'
  <1>1. tun[c].at = "run" /\ tun[c].up /\ tun[c].down /\ tun[c] \in TunnelType /\ UNCHANGED <<mode, sock, heard>>
    BY DEF TunnelEnd, IInv, TypeOK
  <1>2. PICK r : r = [tun[c] EXCEPT !.at = "done"]
    OBVIOUS
  <1>3. /\ r \in TunnelType /\ r.at = "done" /\ r.up /\ r.down /\ r.up = tun[c].up /\ r.down = tun[c].down /\ r.d = tun[c].d
        /\ tun' = [tun EXCEPT ![c] = r]
    BY <1>1, <1>2 DEF TunnelType, TunnelEnd
  <1>4. CASE c = "out"
    <2>1. PICK errs \in Seq({"error", "aborted"}) : DialEnds(1, errs)
      <3>1. <<"error">> \in Seq({"error", "aborted"}) /\ <<>> \in Seq({"error", "aborted"})
        OBVIOUS
      <3> QED
        BY <1>4, <3>1 DEF TunnelEnd
    <2>2. task[1].at = "tunnel"
      BY <1>1, <1>4 DEF IInv, ConnInv
    <2> QED
      BY <1>1, <1>3, <1>4, <2>1, <2>2, DialEndsKeeps
  <1>5. CASE c = "in"
    <2>1. /\ ep' = Release(ep, c0, {"net"}) /\ task' = task /\ mode = "listen" /\ "in" \in Conns /\ "out" \in Conns
          /\ conn["in"] \in ConnType /\ ep \in [Ends -> UnixSocket] /\ tun["in"].at = "run"
      BY <1>1, <1>5 DEF TunnelEnd, IInv, ConnInv, TypeOK, Conns
    <2>2. PICK k : k = [conn["in"] EXCEPT !.at = "closed"]
      OBVIOUS
    <2>3. /\ k \in ConnType /\ k.at = "closed" /\ k.end = conn["in"].end /\ k.sent = conn["in"].sent
          /\ k.down = conn["in"].down /\ k.got = conn["in"].got /\ k.upEnd = conn["in"].upEnd
          /\ conn' = [conn EXCEPT !["in"] = k]
      BY <1>5, <2>1, <2>2 DEF ConnType, TunnelEnd
    <2>4. conn' \in [Conns -> ConnType] /\ conn'["in"] = k /\ conn'["out"] = conn["out"]
      BY <2>1, <2>3, ConnIs DEF IInv
    <2>5. tun' \in [Conns -> TunnelType] /\ tun'["in"] = r /\ tun'["out"] = tun["out"]
      BY <1>3, <1>5, <2>1, TunIs DEF IInv
    <2>6. c0 \in Ends /\ {"net"} \in SUBSET Holders /\ \A i \in DOMAIN ep[c0].q : ep[c0].q[i].fd = None
      BY EndsAre DEF IInv, QueueInv, Holders
    <2>7. /\ ep' \in [Ends -> UnixSocket] /\ \A x \in Ends \ {c0} : ep'[x] = ep[x]
          /\ ep'[c0].refs = {} /\ ep'[c0].shut = ep[c0].shut /\ ep'[c0].q = <<>>
      <3>1. ep' = Drop(ep, c0, {"net"})
        BY <2>1, <2>6, ReleaseIs
      <3>2. ep[c0].refs \subseteq {"net"}
        BY DEF IInv, RefInv, PairC
      <3> QED
        BY <2>1, <2>6, <3>1, <3>2, DropIs
    <2>8. ep'[a0] = ep[a0] /\ ep'[a1] = ep[a1] /\ ep'[b0] = ep[b0] /\ ep'[b1] = ep[b1] /\ ep'[c1] = ep[c1]
      BY <2>7, EndsAre
    <2>9. TypeOK' /\ SocketInv' /\ CallInv' /\ StateInv' /\ TaskInv'
      BY <1>1, <2>1, <2>4, <2>5, <2>7 DEF IInv, TypeOK, SocketInv, CallInv, StateInv, TaskInv, Server, IsStream
    <2>10. ConnInv'
      BY <1>1, <1>3, <1>5, <2>1, <2>3, <2>4, <2>5 DEF IInv, ConnInv, Blank, Conns
    <2>11. RefInv'
      <3>1. PairA' /\ PairB' /\ PairC'
        BY <1>1, <1>3, <2>1, <2>5, <2>7, <2>8 DEF IInv, RefInv, PairA, PairB, PairC, IsStream
      <3>2. sock[4].at = "open" => sock[4].fd0 = c1
        BY <2>1 DEF IInv, SocketInv
      <3>3. Accepted' /\ NoRefs'
        BY <1>1, <2>7, <2>8, <3>2, EndsAre DEF IInv, RefInv, Accepted, NoRefs
      <3> QED
        BY <3>1, <3>3 DEF RefInv
    <2>12. QueueInv'
      <3>1. \A i \in DOMAIN ep'[c0].q : ep'[c0].q[i].fd = None
        BY <2>7
      <3>2. Offered.fd = c1 /\ Offered' = Offered
        BY <1>1, <2>1 DEF Offered, Connection
      <3> QED
        BY <1>1, <1>3, <2>1, <2>5, <2>7, <2>8, <3>1, <3>2, EndsAre DEF IInv, QueueInv, IsStream, TypeOf
    <2>13. SecureInv'
      BY <1>1, <2>1, <2>4, <2>5 DEF IInv, SecureInv
    <2>14. StreamInv'
      <3>1. UpInv("in") /\ DownInv("in")
        BY <2>1 DEF IInv, StreamInv, Tunneled
      <3>2. UpInv("in")'
        BY <1>1, <1>3, <1>5, <2>1, <2>3, <2>4, <2>5, <2>7, <2>8, <3>1, EndsOf DEF UpInv
      <3>3. DownInv("in")'
        BY <1>1, <1>3, <1>5, <2>1, <2>3, <2>4, <2>5, <2>7, <2>8, <3>1, EndsOf DEF DownInv
      <3> QED
        BY <1>1, <2>1, <3>2, <3>3 DEF StreamInv, Tunneled, Conns
    <2>15. DatagramInv'
      BY <1>1, <2>1 DEF DatagramInv
    <2> QED
      BY <2>9, <2>10, <2>11, <2>12, <2>13, <2>14, <2>15 DEF IInv
  <1> QED
    BY <1>4, <1>5 DEF Conns

\* The UNIX sockets of a tunnel that runs.
LEMMA TunnelOf ==
    ASSUME IInv, NEW c \in Conns, tun[c].at = "run"
    PROVE  \E d, g \in Ends : /\ d = tun[c].d /\ Partner(d) = g /\ BridgeEnd(c) = d /\ GuestEnd(c) = g /\ d # g
                              /\ "net" \in ep[d].refs
                              /\ c = "out" => d = a1 /\ g = a0 /\ mode \in {"dial", "udp"} /\ sock[1].at # "none"
                              /\ c = "in" => d = c0 /\ g = c1 /\ mode = "listen"
  <1>1. CASE c = "out"
    <2>1. task[1].at = "tunnel" /\ tun["out"].d = a1 /\ mode \in {"dial", "udp"}
      BY <1>1 DEF IInv, ConnInv
    <2>2. "net" \in ep[a1].refs
      BY <2>1 DEF IInv, RefInv, PairA
    <2>3. sock[1].at # "none"
      BY <2>1 DEF IInv, TaskInv, SocketInv, Sockets, NoSocket
    <2> QED
      BY <1>1, <2>1, <2>2, <2>3, EndsAre, PartnersAre, EndsOf
  <1>2. CASE c = "in"
    <2>1. tun["in"].d = c0 /\ mode = "listen" /\ "net" \in ep[c0].refs
      BY <1>2 DEF IInv, ConnInv, RefInv, PairC
    <2> QED
      BY <1>2, <2>1, EndsAre, PartnersAre, EndsOf
  <1> QED
    BY <1>1, <1>2 DEF Conns

\* What a step of a tunnel keeps.
LEMMA CopyKeeps ==
    ASSUME IInv, NEW c \in Conns, tun[c].at = "run", UNCHANGED <<mode, sock, task, heard>>,
           NEW d \in Ends, NEW g \in Ends, c = "out" => d = a1 /\ g = a0 /\ mode \in {"dial", "udp"} /\ sock[1].at # "none",
           c = "in" => d = c0 /\ g = c1 /\ mode = "listen",
           ep' \in [Ends -> UnixSocket], \A x \in Ends \ {d, g} : ep'[x] = ep[x],
           \A x \in {d, g} : /\ ep'[x].refs = ep[x].refs
                             /\ ep[x].refs = {} => ep'[x].q = ep[x].q
                             /\ \A i \in DOMAIN ep'[x].q : ep'[x].q[i].fd = None,
           conn' \in [Conns -> ConnType], \A x \in Conns \ {c} : conn'[x] = conn[x],
           conn'[c].at = conn[c].at, conn'[c].end = conn[c].end, conn'[c].tls = conn[c].tls,
           c = "out" => \A i \in DOMAIN conn'[c].got : conn'[c].got[i].tls = conn[c].tls,
           tun' \in [Conns -> TunnelType], \A x \in Conns \ {c} : tun'[x] = tun[x],
           tun'[c].at = "run", tun'[c].d = tun[c].d,
           Tunneled(c) => UpInv(c)' /\ DownInv(c)'
    PROVE  IInv'
  <1>1. Conns = {"out", "in"} /\ "out" \in Conns /\ "in" \in Conns
    BY DEF Conns
  <1>2. TypeOK' /\ SocketInv' /\ CallInv' /\ StateInv' /\ TaskInv'
    BY DEF IInv, TypeOK, SocketInv, CallInv, StateInv, TaskInv, Server, IsStream
  <1>3. ConnInv'
    BY <1>1 DEF IInv, ConnInv, Blank
  <1>4. /\ \A x \in Ends : ep'[x].refs = ep[x].refs
        /\ ep'[b0] = ep[b0] /\ ep'[b1] = ep[b1] /\ a0 \in Ends /\ a1 \in Ends /\ c0 \in Ends /\ c1 \in Ends
        /\ c = "out" => ep'[c0] = ep[c0] /\ ep'[c1] = ep[c1]
        /\ c = "in" => ep'[a0] = ep[a0] /\ ep'[a1] = ep[a1]
    BY <1>1, EndsAre
  <1>5. \A x \in Conns : tun'[x].at = tun[x].at
    BY <1>1
  <1>6. RefInv'
    <2>1. PairA' /\ PairB' /\ PairC'
      BY <1>1, <1>4, <1>5, EndsAre DEF IInv, RefInv, PairA, PairB, PairC, IsStream
    <2>2. Accepted' /\ NoRefs'
      <3>1. sock[4].at = "open" => sock[4].fd0 \in Ends
        BY EndsAre DEF IInv, SocketInv
      <3> QED
        BY <1>4, <3>1 DEF IInv, RefInv, Accepted, NoRefs
    <2> QED
      BY <2>1, <2>2 DEF RefInv
  <1>7. QueueInv'
    <2>1. \A e \in Ends : ~(IsStream /\ e = b0) => \A i \in DOMAIN ep'[e].q : ep'[e].q[i].fd = None
      BY DEF IInv, QueueInv
    <2>2. Offered' = Offered /\ Offered.fd \in Ends /\ IsStream' = IsStream
      BY <1>4 DEF Offered, Connection, IsStream
    <2> QED
      BY <1>1, <1>4, <1>5, <2>1, <2>2 DEF IInv, QueueInv
  <1>8. SecureInv'
    BY <1>1, <1>5 DEF IInv, SecureInv
  <1>9. StreamInv'
    BY <1>1 DEF StreamInv, Tunneled
  <1>10. DatagramInv'
    BY <1>1 DEF DatagramInv
  <1> QED
    BY <1>2, <1>3, <1>6, <1>7, <1>8, <1>9, <1>10 DEF IInv

\* CopyUp.
LEMMA CopyUpKeeps ==
    ASSUME IInv, NEW c \in Conns, CopyUp(c)
    PROVE  IInv'
  <1>1. tun[c].at = "run" /\ ~tun[c].up /\ UNCHANGED <<mode, sock, task, heard>>
    BY DEF CopyUp
  <1>2. PICK d, g \in Ends : /\ d = tun[c].d /\ Partner(d) = g /\ BridgeEnd(c) = d /\ GuestEnd(c) = g /\ d # g
                             /\ "net" \in ep[d].refs
                             /\ c = "out" => d = a1 /\ g = a0 /\ mode \in {"dial", "udp"} /\ sock[1].at # "none"
                             /\ c = "in" => d = c0 /\ g = c1 /\ mode = "listen"
    BY <1>1, TunnelOf
  <1>3. /\ conn[c] \in ConnType /\ tun[c] \in TunnelType /\ ep \in [Ends -> UnixSocket] /\ sock[GuestOf(c)] \in SocketRecord
        /\ \A i \in DOMAIN ep[d].q : ep[d].q[i].fd = None
        /\ \A i \in DOMAIN ep[g].q : ep[g].q[i].fd = None
    BY <1>2, EndsAre DEF IInv, TypeOK, QueueInv, Conns, GuestOf, Sockets
  <1>4. /\ ep[d].q \in Seq(Message) /\ conn[c].got \in Seq([n : Nat, tls : BOOLEAN])
        /\ Len(ep[d].q) \in Nat /\ Len(conn[c].got) \in Nat /\ sock[GuestOf(c)].sent \in Nat
    BY <1>2, <1>3 DEF UnixSocket, ConnType, SocketRecord
  <1>5. Tunneled(c) => UpInv(c) /\ DownInv(c)
    BY DEF IInv, StreamInv
  <1>6. ASSUME Readable(ep, d)
        PROVE  /\ Take(ep, d) \in [Ends -> UnixSocket]
               /\ \A x \in Ends \ {d} : Take(ep, d)[x] = ep[x]
               /\ Take(ep, d)[d].refs = ep[d].refs /\ Take(ep, d)[d].shut = ep[d].shut
               /\ Take(ep, d)[d].q = Tail(ep[d].q)
               /\ \A i \in DOMAIN Tail(ep[d].q) : Tail(ep[d].q)[i].fd = None
    <2>1. \A i \in DOMAIN Tail(ep[d].q) : Tail(ep[d].q)[i].fd = None
      BY <1>3, <1>4, <1>6 DEF Readable
    <2> QED
      BY <1>3, <1>6, <2>1, TakeIs DEF Readable
  <1>7. ASSUME NEW failed \in BOOLEAN, CopyEnds(c, "up", failed)
        PROVE  /\ tun' \in [Conns -> TunnelType] /\ \A x \in Conns \ {c} : tun'[x] = tun[x]
               /\ tun'[c].at = tun[c].at /\ tun'[c].d = tun[c].d /\ tun'[c].up /\ tun'[c].down = tun[c].down
    BY <1>3, <1>7 DEF CopyEnds, TunnelType, IInv, TypeOK
  <1>8. ASSUME conn' = [conn EXCEPT ![c].upEnd = TRUE]
        PROVE  /\ conn' \in [Conns -> ConnType] /\ \A x \in Conns \ {c} : conn'[x] = conn[x]
               /\ conn'[c].at = conn[c].at /\ conn'[c].end = conn[c].end /\ conn'[c].sent = conn[c].sent /\ conn'[c].tls = conn[c].tls
               /\ conn'[c].down = conn[c].down /\ conn'[c].got = conn[c].got /\ conn'[c].upEnd
    BY <1>3, <1>8 DEF ConnType, IInv, TypeOK
  <1>9. c = "out" => \A i \in DOMAIN conn[c].got : conn[c].got[i].tls = conn[c].tls
    BY DEF IInv, SecureInv
  <1>10. ASSUME Readable(ep, d), ep' = Take(ep, d)
         PROVE  /\ ep' \in [Ends -> UnixSocket] /\ \A x \in Ends \ {d, g} : ep'[x] = ep[x]
                /\ ep'[d].refs = ep[d].refs /\ ep'[d].shut = ep[d].shut /\ ep'[g] = ep[g] /\ ep'[d].q = Tail(ep[d].q)
                /\ \A x \in {d, g} : /\ ep'[x].refs = ep[x].refs
                                     /\ ep[x].refs = {} => ep'[x].q = ep[x].q
                                     /\ \A i \in DOMAIN ep'[x].q : ep'[x].q[i].fd = None
    <2>1. /\ ep' \in [Ends -> UnixSocket] /\ \A x \in Ends \ {d, g} : ep'[x] = ep[x]
          /\ ep'[d].refs = ep[d].refs /\ ep'[d].shut = ep[d].shut /\ ep'[g] = ep[g] /\ ep'[d].q = Tail(ep[d].q)
          /\ \A i \in DOMAIN ep'[d].q : ep'[d].q[i].fd = None
      BY <1>2, <1>6, <1>10
    <2>2. ep[d].refs # {}
      BY <1>2
    <2> QED
      BY <1>3, <2>1, <2>2
  <1>11. CASE Readable(ep, d) /\ conn[c].end = "full"
    <2>1. CopyEnds(c, "up", TRUE) /\ ep' = Take(ep, d) /\ conn' = [conn EXCEPT ![c].upEnd = TRUE]
      BY <1>2, <1>11 DEF CopyUp
    <2>2. /\ tun' \in [Conns -> TunnelType] /\ \A x \in Conns \ {c} : tun'[x] = tun[x]
          /\ tun'[c].at = "run" /\ tun'[c].d = tun[c].d /\ tun'[c].up /\ tun'[c].down = tun[c].down
      BY <1>1, <1>7, <2>1
    <2>3. /\ conn' \in [Conns -> ConnType] /\ \A x \in Conns \ {c} : conn'[x] = conn[x]
          /\ conn'[c].at = conn[c].at /\ conn'[c].end = conn[c].end /\ conn'[c].sent = conn[c].sent /\ conn'[c].tls = conn[c].tls
          /\ conn'[c].down = conn[c].down /\ conn'[c].got = conn[c].got /\ conn'[c].upEnd
      BY <1>8, <2>1
    <2>4. /\ ep' \in [Ends -> UnixSocket] /\ \A x \in Ends \ {d, g} : ep'[x] = ep[x]
          /\ ep'[d].refs = ep[d].refs /\ ep'[g] = ep[g]
          /\ \A x \in {d, g} : /\ ep'[x].refs = ep[x].refs
                               /\ ep[x].refs = {} => ep'[x].q = ep[x].q
                               /\ \A i \in DOMAIN ep'[x].q : ep'[x].q[i].fd = None
      BY <1>10, <1>11, <2>1
    <2>5. ASSUME Tunneled(c) PROVE UpInv(c)' /\ DownInv(c)'
      <3>1. UpInv(c) /\ DownInv(c)
        BY <1>5, <2>5
      <3>2. UpInv(c)'
        BY <1>11, <2>2, <2>3, <3>1 DEF UpInv
      <3>3. DownInv(c)'
        BY <1>1, <1>2, <2>2, <2>3, <2>4, <3>1 DEF DownInv
      <3> QED
        BY <3>2, <3>3
    <2> QED
      BY <1>1, <1>2, <1>9, <2>2, <2>3, <2>4, <2>5, CopyKeeps
  <1>12. CASE Readable(ep, d) /\ conn[c].end # "full"
    <2>1. PICK x : x = [n |-> Head(ep[d].q).n, tls |-> conn[c].tls]
      OBVIOUS
    <2>2. PICK k : k = Append(conn[c].got, x)
      OBVIOUS
    <2>3. /\ ep' = Take(ep, d) /\ conn' = [conn EXCEPT ![c].got = k] /\ tun' = tun
      BY <1>2, <1>12, <2>1, <2>2 DEF CopyUp
    <2>4. x \in [n : Nat, tls : BOOLEAN] /\ x.n = ep[d].q[1].n /\ x.tls = conn[c].tls
      <3>1. Head(ep[d].q) = ep[d].q[1] /\ ep[d].q[1] \in Message /\ conn[c].tls \in BOOLEAN
        BY <1>3, <1>4, <1>12 DEF Readable, ConnType
      <3> QED
        BY <2>1, <3>1 DEF Message
    <2>5. k \in Seq([n : Nat, tls : BOOLEAN]) /\ \A i \in DOMAIN k : (i \in DOMAIN conn[c].got /\ k[i] = conn[c].got[i]) \/ k[i] = x
      BY <1>4, <2>2, <2>4
    <2>6. /\ conn' \in [Conns -> ConnType] /\ \A y \in Conns \ {c} : conn'[y] = conn[y]
          /\ conn'[c].at = conn[c].at /\ conn'[c].end = conn[c].end /\ conn'[c].sent = conn[c].sent /\ conn'[c].tls = conn[c].tls
          /\ conn'[c].down = conn[c].down /\ conn'[c].got = k /\ conn'[c].upEnd = conn[c].upEnd
      BY <1>3, <2>3, <2>5 DEF ConnType, IInv, TypeOK
    <2>7. c = "out" => \A i \in DOMAIN conn'[c].got : conn'[c].got[i].tls = conn[c].tls
      BY <1>9, <2>4, <2>5, <2>6
    <2>8. /\ ep' \in [Ends -> UnixSocket] /\ \A y \in Ends \ {d, g} : ep'[y] = ep[y]
          /\ ep'[d].refs = ep[d].refs /\ ep'[d].shut = ep[d].shut /\ ep'[g] = ep[g] /\ ep'[d].q = Tail(ep[d].q)
          /\ \A y \in {d, g} : /\ ep'[y].refs = ep[y].refs
                               /\ ep[y].refs = {} => ep'[y].q = ep[y].q
                               /\ \A i \in DOMAIN ep'[y].q : ep'[y].q[i].fd = None
      BY <1>10, <1>12, <2>3
    <2>9. ASSUME Tunneled(c) PROVE UpInv(c)' /\ DownInv(c)'
      <3>1. UpInv(c) /\ DownInv(c)
        BY <1>5, <2>9
      <3>2. InOrder(conn[c].got) /\ Consecutive(ep[d].q, Len(conn[c].got)) /\ Len(conn[c].got) + Len(ep[d].q) = sock[GuestOf(c)].sent
        BY <1>1, <1>2, <3>1 DEF UpInv
      <3>3. /\ InOrder(k) /\ Consecutive(Tail(ep[d].q), Len(k)) /\ Len(k) = Len(conn[c].got) + 1
            /\ Len(Tail(ep[d].q)) = Len(ep[d].q) - 1 /\ Len(ep[d].q) > 0
        <4>1. ep[d].q # <<>> /\ ep[d].q \in Seq(Message) /\ conn[c].got \in Seq([n : Nat, tls : BOOLEAN])
          BY <1>4, <1>12 DEF Readable
        <4>2. InOrder(conn[c].got) /\ Consecutive(ep[d].q, Len(conn[c].got))
          BY <3>2
        <4>3. PICK q \in Seq(Message), w \in Seq([n : Nat, tls : BOOLEAN]) : q = ep[d].q /\ w = conn[c].got
          BY <4>1
        <4>4. q # <<>> /\ x.n = q[1].n /\ InOrder(w) /\ Consecutive(q, Len(w))
          BY <2>4, <4>1, <4>2, <4>3
        <4>5. /\ InOrder(Append(w, x)) /\ Consecutive(Tail(q), Len(Append(w, x)))
              /\ Len(Append(w, x)) = Len(w) + 1 /\ Len(Tail(q)) = Len(q) - 1 /\ Len(q) > 0
          BY <2>4, <4>4, CellRead
        <4> QED
          BY <2>2, <4>3, <4>5, Zenon
      <3>4. Len(k) + Len(Tail(ep[d].q)) = sock[GuestOf(c)].sent
        <4>1. PICK m \in Nat, n \in Nat : m = Len(conn[c].got) /\ n = Len(ep[d].q)
          BY <1>4
        <4>2. (m + 1) + (n - 1) = m + n
          OBVIOUS
        <4> QED
          BY <3>2, <3>3, <4>1, <4>2, Zenon
      <3>5. ~conn[c].upEnd
        BY <1>1, <3>1 DEF UpInv
      <3>6. /\ InOrder(conn'[c].got) /\ Consecutive(ep'[d].q, Len(conn'[c].got))
            /\ Len(conn'[c].got) + Len(ep'[d].q) = sock'[GuestOf(c)].sent /\ ~conn'[c].upEnd
        BY <1>1, <2>6, <2>8, <3>3, <3>4, <3>5, Zenon
      <3>7. UpInv(c)'
        BY <1>2, <3>6 DEF UpInv
      <3>8. DownInv(c)'
        <4>1. sock' = sock /\ tun' = tun /\ ep'[g] = ep[g] /\ ep'[d].refs = ep[d].refs
          BY <1>1, <2>3, <2>8
        <4>2. conn'[c].end = conn[c].end /\ conn'[c].sent = conn[c].sent /\ conn'[c].down = conn[c].down
          BY <2>6
        <4> QED
          BY <1>2, <3>1, <4>1, <4>2 DEF DownInv
      <3> QED
        BY <3>7, <3>8
    <2>10. /\ tun' \in [Conns -> TunnelType] /\ \A y \in Conns \ {c} : tun'[y] = tun[y]
           /\ tun'[c].at = "run" /\ tun'[c].d = tun[c].d
      BY <1>1, <2>3 DEF IInv, TypeOK
    <2> QED
      BY <1>1, <1>2, <2>6, <2>7, <2>8, <2>9, <2>10, CopyKeeps
  <1>13. CASE ~Readable(ep, d)
    <2>1. AtEnd(ep, d) /\ CopyEnds(c, "up", FALSE) /\ conn' = [conn EXCEPT ![c].upEnd = TRUE] /\ ep' = ep
      BY <1>2, <1>13 DEF CopyUp, CloseUp
    <2>2. /\ tun' \in [Conns -> TunnelType] /\ \A x \in Conns \ {c} : tun'[x] = tun[x]
          /\ tun'[c].at = "run" /\ tun'[c].d = tun[c].d /\ tun'[c].up /\ tun'[c].down = tun[c].down
      BY <1>1, <1>7, <2>1
    <2>3. /\ conn' \in [Conns -> ConnType] /\ \A x \in Conns \ {c} : conn'[x] = conn[x]
          /\ conn'[c].at = conn[c].at /\ conn'[c].end = conn[c].end /\ conn'[c].sent = conn[c].sent /\ conn'[c].tls = conn[c].tls
          /\ conn'[c].down = conn[c].down /\ conn'[c].got = conn[c].got /\ conn'[c].upEnd
      BY <1>8, <2>1
    <2>4. ASSUME Tunneled(c) PROVE UpInv(c)' /\ DownInv(c)'
      <3>1. UpInv(c) /\ DownInv(c)
        BY <1>5, <2>4
      <3>2. ep[d].q = <<>> /\ (ep[d].shut \/ ep[g].refs = {})
        BY <1>2, <2>1 DEF AtEnd
      <3>3. Len(conn[c].got) + Len(ep[d].q) = sock[GuestOf(c)].sent
        BY <1>1, <1>2, <3>1 DEF UpInv
      <3>4. Len(conn[c].got) = sock[GuestOf(c)].sent
        BY <1>4, <3>2, <3>3
      <3>5. UpInv(c)'
        BY <1>1, <1>2, <2>1, <2>2, <2>3, <3>1, <3>2, <3>4 DEF UpInv
      <3>6. DownInv(c)'
        BY <1>1, <1>2, <2>1, <2>2, <2>3, <3>1 DEF DownInv
      <3> QED
        BY <3>5, <3>6
    <2>5. c = "out" => \A i \in DOMAIN conn'[c].got : conn'[c].got[i].tls = conn[c].tls
      BY <1>9, <2>3
    <2>6. /\ ep' \in [Ends -> UnixSocket] /\ \A x \in Ends \ {d, g} : ep'[x] = ep[x]
          /\ \A x \in {d, g} : /\ ep'[x].refs = ep[x].refs
                               /\ ep[x].refs = {} => ep'[x].q = ep[x].q
                               /\ \A i \in DOMAIN ep'[x].q : ep'[x].q[i].fd = None
      BY <1>3, <2>1
    <2> QED
      BY <1>1, <1>2, <2>2, <2>3, <2>4, <2>5, <2>6, CopyKeeps
  <1> QED
    BY <1>11, <1>12, <1>13

\* CloseDown.
LEMMA CloseDownKeeps ==
    ASSUME IInv, NEW c \in Conns, tun[c].at = "run", NEW failed \in BOOLEAN, CloseDown(c, failed),
           UNCHANGED <<mode, sock, task, heard>>,
           (conn[c].down = <<>> /\ conn[c].end # "no") \/ (conn[c].down # <<>> /\ Gone(ep, tun[c].d))
    PROVE  IInv'
  <1>1. PICK d, g \in Ends : /\ d = tun[c].d /\ Partner(d) = g /\ BridgeEnd(c) = d /\ GuestEnd(c) = g /\ d # g
                             /\ "net" \in ep[d].refs
                             /\ c = "out" => d = a1 /\ g = a0 /\ mode \in {"dial", "udp"} /\ sock[1].at # "none"
                             /\ c = "in" => d = c0 /\ g = c1 /\ mode = "listen"
    BY TunnelOf
  <1>2. /\ tun[c] \in TunnelType /\ ep \in [Ends -> UnixSocket] /\ conn' = conn /\ conn \in [Conns -> ConnType]
        /\ \A i \in DOMAIN ep[d].q : ep[d].q[i].fd = None
        /\ \A i \in DOMAIN ep[g].q : ep[g].q[i].fd = None
        /\ ep[g] \in UnixSocket
    BY <1>1, EndsAre DEF IInv, TypeOK, QueueInv, Conns, CloseDown
  <1>3. /\ tun' \in [Conns -> TunnelType] /\ \A x \in Conns \ {c} : tun'[x] = tun[x]
        /\ tun'[c].at = "run" /\ tun'[c].d = tun[c].d /\ tun'[c].up = tun[c].up /\ tun'[c].down
    BY <1>2 DEF CloseDown, CopyEnds, TunnelType, IInv, TypeOK
  <1>4. PICK b \in BOOLEAN : b = (ep[g].shut \/ TypeOf(mode) = "STREAM")
    BY <1>2 DEF UnixSocket
  <1>5. PICK x : x = [ep[g] EXCEPT !.shut = b]
    OBVIOUS
  <1>6. x \in UnixSocket /\ x.refs = ep[g].refs /\ x.q = ep[g].q /\ x.shut = b
    BY <1>2, <1>4, <1>5 DEF UnixSocket
  <1>7. ep' = [ep EXCEPT ![g] = x]
    BY <1>1, <1>4, <1>5 DEF CloseDown
  <1>8. /\ ep' \in [Ends -> UnixSocket] /\ \A y \in Ends \ {g} : ep'[y] = ep[y]
        /\ ep'[g].refs = ep[g].refs /\ ep'[g].q = ep[g].q /\ ep'[g].shut = b /\ ep'[d] = ep[d]
    BY <1>1, <1>2, <1>6, <1>7
  <1>9. /\ \A y \in Ends \ {d, g} : ep'[y] = ep[y]
        /\ \A y \in {d, g} : /\ ep'[y].refs = ep[y].refs
                             /\ ep[y].refs = {} => ep'[y].q = ep[y].q
                             /\ \A i \in DOMAIN ep'[y].q : ep'[y].q[i].fd = None
    BY <1>2, <1>8
  <1>10. ASSUME Tunneled(c) PROVE UpInv(c)' /\ DownInv(c)'
    <2>1. UpInv(c) /\ DownInv(c)
      BY <1>10 DEF IInv, StreamInv
    <2>2. b
      BY <1>4, <1>10 DEF Tunneled, TypeOf
    <2>3. UpInv(c)'
      BY <1>1, <1>2, <1>3, <1>8, <2>1 DEF UpInv
    <2>4. ep[g].refs # {} /\ "deaf" \notin sock[GuestOf(c)].st => conn[c].down = <<>> /\ conn[c].end # "no"
      BY <1>1, <2>1 DEF DownInv, Gone
    <2>5. DownInv(c)'
      BY <1>1, <1>2, <1>3, <1>8, <2>1, <2>2, <2>4 DEF DownInv
    <2> QED
      BY <2>3, <2>5
  <1>11. c = "out" => \A i \in DOMAIN conn'[c].got : conn'[c].got[i].tls = conn[c].tls
    BY <1>2 DEF IInv, SecureInv
  <1> QED
    BY <1>1, <1>2, <1>3, <1>8, <1>9, <1>10, <1>11, CopyKeeps

\* CopyDown.
LEMMA CopyDownKeeps ==
    ASSUME IInv, NEW c \in Conns, CopyDown(c)
    PROVE  IInv'
  <1>1. tun[c].at = "run" /\ ~tun[c].down /\ UNCHANGED <<mode, sock, task, heard>>
    BY DEF CopyDown
  <1>2. CASE conn[c].down = <<>>
    <2>1. conn[c].end # "no" /\ CloseDown(c, FALSE)
      BY <1>2 DEF CopyDown
    <2> QED
      BY <1>1, <1>2, <2>1, CloseDownKeeps
  <1>3. CASE conn[c].down # <<>> /\ Gone(ep, tun[c].d)
    <2>1. CloseDown(c, TRUE)
      BY <1>3 DEF CopyDown
    <2> QED
      BY <1>1, <1>3, <2>1, CloseDownKeeps
  <1>4. CASE conn[c].down # <<>> /\ ~Gone(ep, tun[c].d)
    <2>1. PICK d, g \in Ends : /\ d = tun[c].d /\ Partner(d) = g /\ BridgeEnd(c) = d /\ GuestEnd(c) = g /\ d # g
                               /\ "net" \in ep[d].refs
                               /\ c = "out" => d = a1 /\ g = a0 /\ mode \in {"dial", "udp"} /\ sock[1].at # "none"
                               /\ c = "in" => d = c0 /\ g = c1 /\ mode = "listen"
      BY <1>1, TunnelOf
    <2>2. /\ conn[c] \in ConnType /\ ep \in [Ends -> UnixSocket] /\ sock[GuestOf(c)] \in SocketRecord
          /\ \A i \in DOMAIN ep[d].q : ep[d].q[i].fd = None
          /\ \A i \in DOMAIN ep[g].q : ep[g].q[i].fd = None
      BY <2>1, EndsAre DEF IInv, TypeOK, QueueInv, Conns, GuestOf, Sockets
    <2>3. PICK q \in Seq(Message), down \in Seq(Nat), got \in Seq(Receipt), sent \in Nat :
             q = ep[g].q /\ down = conn[c].down /\ got = sock[GuestOf(c)].got /\ sent = conn[c].sent
      BY <2>1, <2>2 DEF UnixSocket, ConnType, SocketRecord
    <2>4. PICK m : m = Data(host, host, Head(down))
      OBVIOUS
    <2>5. m \in Message /\ m.n = Head(down) /\ m.fd = None
      <3>1. Head(down) \in Nat
        BY <1>4, <2>3
      <3> QED
        BY <2>4, <3>1 DEF Data, Message, Parties, host, stray, EndOrNone
    <2>6. ep' = Put(ep, d, m) /\ conn' = [conn EXCEPT ![c].down = Tail(down)] /\ tun' = tun
      BY <1>4, <2>1, <2>3, <2>4 DEF CopyDown
    <2>7. /\ ep' \in [Ends -> UnixSocket] /\ \A x \in Ends \ {g} : ep'[x] = ep[x]
          /\ ep'[g].refs = ep[g].refs /\ ep'[g].shut = ep[g].shut
          /\ ep'[g].q = Append(q, m)
      BY <2>1, <2>2, <2>3, <2>5, <2>6, PutIs
    <2>8. ep[g].refs # {} /\ ~ep[g].shut
      BY <1>4, <2>1 DEF Gone
    <2>9. \A i \in DOMAIN Append(q, m) : Append(q, m)[i].fd = None
      <3>1. \A i \in DOMAIN q : q[i].fd = None
        BY <2>2, <2>3
      <3> QED
        BY <2>3, <2>5, <3>1
    <2>10. /\ \A x \in Ends \ {d, g} : ep'[x] = ep[x]
           /\ \A x \in {d, g} : /\ ep'[x].refs = ep[x].refs
                                /\ ep[x].refs = {} => ep'[x].q = ep[x].q
                                /\ \A i \in DOMAIN ep'[x].q : ep'[x].q[i].fd = None
      <3>1. ep'[d] = ep[d] /\ \A i \in DOMAIN ep[d].q : ep[d].q[i].fd = None
        BY <2>1, <2>2, <2>7
      <3>2. \A i \in DOMAIN ep'[g].q : ep'[g].q[i].fd = None
        BY <2>7, <2>9, Zenon
      <3> QED
        BY <2>7, <2>8, <3>1, <3>2
    <2>11. PICK k \in Seq(Nat) : k = Tail(down)
      <3>1. Tail(down) \in Seq(Nat)
        BY <1>4, <2>3
      <3> QED
        BY <3>1, Zenon
    <2>12. /\ conn' \in [Conns -> ConnType] /\ \A y \in Conns \ {c} : conn'[y] = conn[y]
           /\ conn'[c].at = conn[c].at /\ conn'[c].end = conn[c].end /\ conn'[c].sent = sent /\ conn'[c].tls = conn[c].tls
           /\ conn'[c].down = k /\ conn'[c].got = conn[c].got /\ conn'[c].upEnd = conn[c].upEnd
      BY <2>2, <2>3, <2>6, <2>11 DEF ConnType, IInv, TypeOK
    <2>13. ASSUME Tunneled(c) PROVE UpInv(c)' /\ DownInv(c)'
      <3>1. UpInv(c) /\ DownInv(c)
        BY <2>13 DEF IInv, StreamInv
      <3>2. UpInv(c)'
        <4>1. ep'[d] = ep[d] /\ ep'[g].refs = ep[g].refs /\ sock' = sock /\ tun' = tun
          BY <1>1, <2>1, <2>6, <2>7
        <4>2. conn'[c].got = conn[c].got /\ conn'[c].upEnd = conn[c].upEnd /\ conn'[c].end = conn[c].end
          BY <2>12
        <4> QED
          BY <2>1, <3>1, <4>1, <4>2 DEF UpInv
      <3>3. InOrder(got) /\ Consecutive(q, Len(got)) /\ Pending(down, sent) /\ Len(got) + Len(q) + Len(down) = sent
        BY <2>1, <2>3, <2>8, <3>1 DEF DownInv
      <3>4. Pending(k, sent) /\ Len(k) = Len(down) - 1 /\ Head(down) = sent - Len(down) + 1 /\ Len(down) > 0
        BY <1>4, <2>3, <2>11, <3>3, CellPassed
      <3>5. PICK lg \in Nat, lq \in Nat, ld \in Nat : lg = Len(got) /\ lq = Len(q) /\ ld = Len(down)
        OBVIOUS
      <3>6. m.n = lg + lq + 1
        <4>1. lg + lq + ld = sent
          BY <3>3, <3>5, Zenon
        <4>2. sent - ld + 1 = lg + lq + 1
          BY <4>1
        <4>3. m.n = sent - ld + 1
          BY <2>5, <3>4, <3>5, Zenon
        <4> QED
          BY <4>2, <4>3, Zenon
      <3>7. Consecutive(Append(q, m), lg) /\ Len(Append(q, m)) = lq + 1
        BY <2>5, <3>3, <3>5, <3>6, CellWritten
      <3>8. lg + Len(Append(q, m)) + Len(k) = sent
        <4>1. lg + lq + ld = sent
          BY <3>3, <3>5, Zenon
        <4>2. lg + (lq + 1) + (ld - 1) = sent
          BY <4>1
        <4> QED
          BY <3>4, <3>5, <3>7, <4>2, Zenon
      <3>9. /\ InOrder(sock'[GuestOf(c)].got)
            /\ Consecutive(ep'[g].q, Len(sock'[GuestOf(c)].got))
            /\ Pending(conn'[c].down, conn'[c].sent)
            /\ Len(sock'[GuestOf(c)].got) + Len(ep'[g].q) + Len(conn'[c].down) = conn'[c].sent
        BY <1>1, <2>3, <2>7, <2>12, <3>3, <3>4, <3>5, <3>7, <3>8, Zenon
      <3>10. ~ep'[g].shut /\ ~tun'[c].down
        BY <1>1, <2>6, <2>7, <2>8
      <3>11. sock'[GuestOf(c)].eof /\ "deaf" \notin sock'[GuestOf(c)].st =>
                /\ Len(sock'[GuestOf(c)].got) = conn'[c].sent
                /\ conn'[c].end # "no" \/ tun'[c].at \in {"done", "failed"} \/ (tun'[c].at = "none" /\ ep'[d].refs = {})
        <4>1. sock' = sock /\ tun' = tun /\ ep'[d].refs = ep[d].refs /\ conn'[c].sent = conn[c].sent /\ conn'[c].end = conn[c].end
          BY <1>1, <2>1, <2>3, <2>6, <2>10, <2>12
        <4> QED
          BY <2>1, <3>1, <4>1 DEF DownInv
      <3>12. DownInv(c)'
        BY <2>1, <3>9, <3>10, <3>11 DEF DownInv
      <3> QED
        BY <3>2, <3>12
    <2>14. c = "out" => \A i \in DOMAIN conn'[c].got : conn'[c].got[i].tls = conn[c].tls
      BY <2>12 DEF IInv, SecureInv
    <2>15. /\ tun' \in [Conns -> TunnelType] /\ \A y \in Conns \ {c} : tun'[y] = tun[y]
           /\ tun'[c].at = "run" /\ tun'[c].d = tun[c].d
      BY <1>1, <2>6 DEF IInv, TypeOK
    <2>16. conn'[c].at = conn[c].at /\ conn'[c].end = conn[c].end /\ conn'[c].tls = conn[c].tls
      BY <2>12
    <2> QED
      BY <1>1, <2>1, <2>7, <2>10, <2>12, <2>13, <2>14, <2>15, <2>16, CopyKeeps
  <1> QED
    BY <1>2, <1>3, <1>4

-----------------------------------------------------------------------------
(* Steps on queues of datagrams.                                           *)

\* What is queued for packets and what was received, by type.
LEMMA QueueTypes ==
    ASSUME IInv
    PROVE  /\ ep[a0].q \in Seq(Message) /\ ep[b0].q \in Seq(Message)
           /\ sock[1].got \in Seq(Receipt) /\ sock[2].got \in Seq(Receipt)
  <1>1. /\ 1 \in Sockets /\ 2 \in Sockets /\ a0 \in Ends /\ b0 \in Ends
        /\ ep \in [Ends -> UnixSocket] /\ sock \in [Sockets -> SocketRecord]
    BY EndsAre DEF IInv, TypeOK, Sockets
  <1>2. ep[a0] \in UnixSocket /\ ep[b0] \in UnixSocket /\ sock[1] \in SocketRecord /\ sock[2] \in SocketRecord
    BY <1>1
  <1> QED
    BY <1>2 DEF UnixSocket, SocketRecord

\* Others send, and the queue may be emptied.
LEMMA MailMore ==
    ASSUME NEW q \in Seq(Message), NEW got \in Seq(Receipt), NEW sent \in [Senders -> Nat], NEW new \in [Senders -> Nat],
           Mail(q, got, sent), \A p \in Senders : sent[p] <= new[p]
    PROVE  Mail(q, got, new) /\ Mail(<<>>, got, new)
  <1>1. (\A i \in DOMAIN q : q[i].n \in Nat) /\ (\A i \in DOMAIN got : got[i].n \in Nat)
    <2>1. (\A i \in DOMAIN q : q[i] \in Message) /\ (\A i \in DOMAIN got : got[i] \in Receipt)
      OBVIOUS
    <2> QED
      BY <2>1 DEF Message, Receipt
  <1>2. \A i \in DOMAIN q : q[i].n <= new[q[i].by]
    BY <1>1 DEF Mail
  <1>3. \A i \in DOMAIN got : got[i].n <= new[got[i].by]
    BY <1>1 DEF Mail
  <1> QED
    BY <1>2, <1>3 DEF Mail

\* The next datagram of a sender is put into the queue.
LEMMA MailPut ==
    ASSUME NEW q \in Seq(Message), NEW got \in Seq(Receipt), NEW sent \in [Senders -> Nat], NEW new \in [Senders -> Nat],
           Mail(q, got, sent), \A p \in Senders : sent[p] <= new[p],
           NEW m \in Message, m.by \in Senders, m.from = m.by, m.n = sent[m.by] + 1, m.n <= new[m.by]
    PROVE  Mail(Append(q, m), got, new)
  <1> DEFINE w == Append(q, m)
  <1>1. /\ Len(q) \in Nat /\ DOMAIN q = 1 .. Len(q) /\ DOMAIN w = 1 .. Len(q) + 1
        /\ w[Len(q) + 1] = m /\ \A i \in 1 .. Len(q) : w[i] = q[i]
    OBVIOUS
  <1> HIDE DEF w
  <1>2. (\A i \in DOMAIN q : q[i].n \in Nat) /\ (\A i \in DOMAIN got : got[i].n \in Nat) /\ m.n \in Nat
    <2>1. (\A i \in DOMAIN q : q[i] \in Message) /\ (\A i \in DOMAIN got : got[i] \in Receipt)
      OBVIOUS
    <2> QED
      BY <2>1 DEF Message, Receipt
  <1>3. Mail(q, got, new)
    BY MailMore
  <1>4. \A i \in DOMAIN q : q[i].by = m.by => q[i].n < m.n
    BY <1>2 DEF Mail
  <1>5. \A i \in DOMAIN got : got[i].by = m.by => got[i].n < m.n
    BY <1>2 DEF Mail
  <1>6. \A i \in DOMAIN w : w[i].by \in Senders /\ w[i].from = w[i].by /\ w[i].n <= new[w[i].by]
    <2> SUFFICES ASSUME NEW i \in DOMAIN w
                 PROVE  w[i].by \in Senders /\ w[i].from = w[i].by /\ w[i].n <= new[w[i].by]
      OBVIOUS
    <2>1. CASE i = Len(q) + 1
      BY <1>1, <2>1
    <2>2. CASE i \in 1 .. Len(q)
      BY <1>1, <1>3, <2>2 DEF Mail
    <2> QED
      BY <1>1, <2>1, <2>2
  <1>7. \A i \in DOMAIN w : \A j \in 1 .. i - 1 : w[j].by = w[i].by => w[j].n < w[i].n
    <2> SUFFICES ASSUME NEW i \in DOMAIN w, NEW j \in 1 .. i - 1, w[j].by = w[i].by
                 PROVE  w[j].n < w[i].n
      OBVIOUS
    <2>1. CASE i = Len(q) + 1
      <3>1. j \in DOMAIN q /\ w[i] = m /\ w[j] = q[j]
        BY <1>1, <2>1
      <3> QED
        BY <1>4, <3>1
    <2>2. CASE i \in 1 .. Len(q)
      <3>1. i \in DOMAIN q /\ w[i] = q[i] /\ w[j] = q[j]
        BY <1>1, <2>2
      <3> QED
        BY <1>3, <3>1 DEF Mail
    <2> QED
      BY <1>1, <2>1, <2>2
  <1>8. \A i \in DOMAIN got : \A j \in DOMAIN w : got[i].by = w[j].by => got[i].n < w[j].n
    <2> SUFFICES ASSUME NEW i \in DOMAIN got, NEW j \in DOMAIN w, got[i].by = w[j].by
                 PROVE  got[i].n < w[j].n
      OBVIOUS
    <2>1. CASE j = Len(q) + 1
      BY <1>1, <1>5, <2>1
    <2>2. CASE j \in 1 .. Len(q)
      BY <1>1, <1>3, <2>2 DEF Mail
    <2> QED
      BY <1>1, <2>1, <2>2
  <1>9. Mail(w, got, new)
    BY <1>3, <1>6, <1>7, <1>8 DEF Mail
  <1> QED
    BY <1>9 DEF w

\* The datagram at the head of the queue is taken.
LEMMA MailTaken ==
    ASSUME NEW q \in Seq(Message), NEW got \in Seq(Receipt), NEW sent \in [Senders -> Nat], Mail(q, got, sent), q # <<>>
    PROVE  /\ Mail(Tail(q), got, sent)
           /\ q[1].by \in Senders /\ q[1].from = q[1].by /\ q[1].n <= sent[q[1].by]
           /\ \A i \in DOMAIN got : got[i].by = q[1].by => got[i].n < q[1].n
           /\ \A j \in DOMAIN Tail(q) : q[1].by = Tail(q)[j].by => q[1].n < Tail(q)[j].n
  <1> DEFINE w == Tail(q)
  <1>1. /\ Len(q) \in Nat \ {0} /\ DOMAIN q = 1 .. Len(q) /\ DOMAIN w = 1 .. Len(q) - 1
        /\ \A i \in 1 .. Len(q) - 1 : w[i] = q[i + 1]
    OBVIOUS
  <1> HIDE DEF w
  <1>2. \A i \in DOMAIN w : w[i] = q[i + 1] /\ i + 1 \in DOMAIN q /\ 1 \in 1 .. (i + 1) - 1 /\ i \in Nat
    BY <1>1
  <1>3. \A i \in DOMAIN w : w[i].by \in Senders /\ w[i].from = w[i].by /\ w[i].n <= sent[w[i].by]
    BY <1>2 DEF Mail
  <1>4. \A i \in DOMAIN w : \A j \in 1 .. i - 1 : w[j].by = w[i].by => w[j].n < w[i].n
    <2> SUFFICES ASSUME NEW i \in DOMAIN w, NEW j \in 1 .. i - 1, w[j].by = w[i].by
                 PROVE  w[j].n < w[i].n
      OBVIOUS
    <2>1. w[i] = q[i + 1] /\ w[j] = q[j + 1] /\ i + 1 \in DOMAIN q /\ j + 1 \in 1 .. (i + 1) - 1
      BY <1>1
    <2> QED
      BY <2>1 DEF Mail
  <1>5. \A i \in DOMAIN got : \A j \in DOMAIN w : got[i].by = w[j].by => got[i].n < w[j].n
    BY <1>2 DEF Mail
  <1>6. Mail(w, got, sent)
    BY <1>3, <1>4, <1>5 DEF Mail
  <1>7. 1 \in DOMAIN q
    BY <1>1
  <1>8. q[1].by \in Senders /\ q[1].from = q[1].by /\ q[1].n <= sent[q[1].by] /\ \A i \in DOMAIN got : got[i].by = q[1].by => got[i].n < q[1].n
    BY <1>7 DEF Mail
  <1>9. \A j \in DOMAIN w : q[1].by = w[j].by => q[1].n < w[j].n
    BY <1>2 DEF Mail
  <1> QED
    BY <1>6, <1>8, <1>9 DEF w

\* ... and received.
LEMMA MailReceived ==
    ASSUME NEW q \in Seq(Message), NEW got \in Seq(Receipt), NEW sent \in [Senders -> Nat], Mail(q, got, sent),
           NEW x \in Receipt, x.by \in Senders, x.from = x.by, x.peer # None => x.from = x.peer, x.n <= sent[x.by],
           \A i \in DOMAIN got : got[i].by = x.by => got[i].n < x.n,
           \A j \in DOMAIN q : x.by = q[j].by => x.n < q[j].n
    PROVE  Mail(q, Append(got, x), sent)
  <1> DEFINE h == Append(got, x)
  <1>1. /\ Len(got) \in Nat /\ DOMAIN got = 1 .. Len(got) /\ DOMAIN h = 1 .. Len(got) + 1
        /\ h[Len(got) + 1] = x /\ \A i \in 1 .. Len(got) : h[i] = got[i]
    OBVIOUS
  <1> HIDE DEF h
  <1>2. \A i \in DOMAIN h : h[i] = x \/ (i \in DOMAIN got /\ h[i] = got[i])
    BY <1>1
  <1>3. \A i \in DOMAIN h : h[i].by \in Senders /\ h[i].n <= sent[h[i].by]
    BY <1>2 DEF Mail
  <1>4. \A i \in DOMAIN h : \A j \in DOMAIN q : h[i].by = q[j].by => h[i].n < q[j].n
    BY <1>2 DEF Mail
  <1>5. \A i \in DOMAIN h : \A j \in 1 .. i - 1 : h[j].by = h[i].by => h[j].n < h[i].n
    <2> SUFFICES ASSUME NEW i \in DOMAIN h, NEW j \in 1 .. i - 1, h[j].by = h[i].by
                 PROVE  h[j].n < h[i].n
      OBVIOUS
    <2>1. CASE i = Len(got) + 1
      BY <1>1, <2>1
    <2>2. CASE i \in 1 .. Len(got)
      BY <1>1, <2>2 DEF Mail
    <2> QED
      BY <1>1, <2>1, <2>2
  <1>6. \A i \in DOMAIN h : h[i].from = h[i].by /\ (h[i].peer # None => h[i].from = h[i].peer)
    BY <1>2 DEF Mail
  <1>7. Mail(q, h, sent)
    BY <1>3, <1>4, <1>5, <1>6 DEF Mail
  <1> QED
    BY <1>7 DEF h

\* What is left to show of a step on datagram sockets.
LEMMA DatagramKeeps ==
    ASSUME IInv, ~IsStream, UNCHANGED <<mode, conn, tun>>, TypeOK', SocketInv', CallInv', StateInv', TaskInv',
           task'[2] = task[2], task'[1].at = task[1].at \/ (mode = "packets" /\ task'[1].at = "done"),
           sock'[1].htls = sock[1].htls, PairA', PairB', ep'[c0] = ep[c0], ep'[c1] = ep[c1], NoRefs',
           \A e \in Ends : \A i \in DOMAIN ep'[e].q : ep'[e].q[i].fd = None,
           DatagramInv'
    PROVE  IInv'
  <1>1. mode \in {"udp", "packets"} /\ ~IsStream'
    BY SocketsAssumption DEF IInv, TypeOK, IsStream, TypeOf
  <1>2. sock'[4].at = "none" /\ sock[4].at = "none"
    BY <1>1 DEF IInv, SocketInv
  <1>3. ConnInv'
    BY DEF IInv, ConnInv, Blank, TaskInv
  <1>4. RefInv'
    BY <1>1, <1>2 DEF IInv, RefInv, PairC, Accepted
  <1>5. QueueInv'
    BY <1>1 DEF QueueInv
  <1>6. SecureInv'
    BY DEF IInv, SecureInv, TaskInv
  <1>7. StreamInv'
    BY <1>1 DEF StreamInv, Tunneled
  <1> QED
    BY <1>3, <1>4, <1>5, <1>6, <1>7 DEF IInv

\* Who has sent how much: sockets their own count, hosts what was heard.
LEMMA SentType ==
    ASSUME TypeOK
    PROVE  /\ SentBy \in [Senders -> Nat] /\ SentBy[1] = sock[1].sent /\ SentBy[2] = sock[2].sent
           /\ \A p \in Hosts : SentBy[p] = heard
  <1>1. sock[1].sent \in Nat /\ sock[2].sent \in Nat /\ heard \in Nat
    BY DEF TypeOK, SocketRecord, Sockets
  <1>2. \A p \in Senders : p \in Hosts \/ p = 1 \/ p = 2
    BY DEF Senders
  <1>3. 1 \notin Hosts /\ 2 \notin Hosts
    BY DEF Hosts, host, stray
  <1> QED
    BY <1>1, <1>2, <1>3 DEF SentBy, Senders

\* The same, after a step.
LEMMA SentTypeNext ==
    ASSUME TypeOK'
    PROVE  /\ SentBy' \in [Senders -> Nat] /\ SentBy'[1] = sock'[1].sent /\ SentBy'[2] = sock'[2].sent
           /\ \A p \in Hosts : SentBy'[p] = heard'
  <1>1. sock'[1].sent \in Nat /\ sock'[2].sent \in Nat /\ heard' \in Nat
    BY DEF TypeOK, SocketRecord, Sockets
  <1>2. \A p \in Senders : p \in Hosts \/ p = 1 \/ p = 2
    BY DEF Senders
  <1>3. 1 \notin Hosts /\ 2 \notin Hosts
    BY DEF Hosts, host, stray
  <1> QED
    BY <1>1, <1>2, <1>3 DEF SentBy, Senders

\* The goroutine of listenPacket ends.
LEMMA PacketStops ==
    ASSUME IInv, mode = "packets", task[1].at = "reading", EndTask(1, <<"error">>), ep' = Release(ep, a1, {"net"}),
           UNCHANGED <<mode, sock, conn, tun>>, heard' \in {heard, heard + 1}
    PROVE  IInv'
  <1>1. ~IsStream /\ ~IsStream'
    BY DEF IsStream, TypeOf
  <1>2. PICK t : t = [task[1] EXCEPT !.at = "done", !.errs = <<"error">>, !.closed = TRUE]
    OBVIOUS
  <1>3. /\ t \in TaskType /\ t.at = "done" /\ t.closed /\ t.made = task[1].made
        /\ task' = [task EXCEPT ![1] = t]
    <2>1. <<"error">> \in Seq({"error", "aborted"}) /\ task[1] \in TaskType
      BY DEF IInv, TypeOK
    <2> QED
      BY <1>2, <2>1 DEF TaskType, EndTask, TaskStates
  <1>4. task' \in [{1, 2} -> TaskType] /\ task'[1] = t /\ task'[2] = task[2]
    BY <1>3 DEF IInv, TypeOK
  <1>5. /\ a1 \in Ends /\ {"net"} \in SUBSET Holders /\ ep \in [Ends -> UnixSocket]
        /\ \A e \in Ends : \A i \in DOMAIN ep[e].q : ep[e].q[i].fd = None
    BY <1>1, EndsAre DEF IInv, QueueInv, Holders, TypeOK
  <1>6. /\ ep' \in [Ends -> UnixSocket] /\ \A x \in Ends \ {a1} : ep'[x] = ep[x]
        /\ ep'[a1].refs = ep[a1].refs \ {"net"} /\ ep'[a1].shut = ep[a1].shut
        /\ ep'[a1].refs = {} => ep'[a1].q = <<>>
        /\ ep'[a1].refs # {} => ep'[a1].q = ep[a1].q
    <2>1. ep' = Drop(ep, a1, {"net"})
      BY <1>5, ReleaseIs
    <2> QED
      BY <1>5, <2>1, DropIs
  <1>7. ep'[a0] = ep[a0] /\ ep'[b0] = ep[b0] /\ ep'[b1] = ep[b1] /\ ep'[c0] = ep[c0] /\ ep'[c1] = ep[c1]
    BY <1>6, EndsAre
  <1>8. TypeOK' /\ SocketInv' /\ CallInv' /\ StateInv'
    BY <1>4, <1>6 DEF IInv, TypeOK, SocketInv, CallInv, StateInv, Server, IsStream
  <1>9. TaskInv'
    BY <1>3, <1>4 DEF IInv, TaskInv
  <1>10. PairA' /\ PairB'
    BY <1>1, <1>3, <1>4, <1>6, <1>7 DEF IInv, RefInv, PairA, PairB
  <1>11. NoRefs' /\ \A e \in Ends : \A i \in DOMAIN ep'[e].q : ep'[e].q[i].fd = None
    BY <1>5, <1>6 DEF IInv, RefInv, NoRefs
  <1>12. DatagramInv'
    <2>1. /\ ep[a0].q \in Seq(Message) /\ ep[b0].q \in Seq(Message) /\ sock[1].got \in Seq(Receipt) /\ sock[2].got \in Seq(Receipt)
      BY QueueTypes
    <2>2. SentBy \in [Senders -> Nat] /\ SentBy' \in [Senders -> Nat]
      BY <1>8, SentType, SentTypeNext DEF IInv
    <2>3. \A p \in Senders : SentBy[p] <= SentBy'[p]
      BY <2>2 DEF IInv, TypeOK, SentBy
    <2>4. Mail(ep[a0].q, sock[1].got, SentBy) /\ Mail(ep[b0].q, sock[2].got, SentBy)
      BY DEF IInv, DatagramInv, MailInv
    <2>5. Mail(ep[a0].q, sock[1].got, SentBy') /\ Mail(ep[b0].q, sock[2].got, SentBy')
      BY <2>1, <2>2, <2>3, <2>4, MailMore
    <2> QED
      BY <1>7, <2>5 DEF DatagramInv, MailInv
  <1> QED
    BY <1>1, <1>3, <1>4, <1>7, <1>8, <1>9, <1>10, <1>11, <1>12, DatagramKeeps

\* PacketEnd.
LEMMA PacketEndKeeps ==
    ASSUME IInv, NEW s \in {1, 2}, PacketEnd(s)
    PROVE  IInv'
  BY PacketStops DEF PacketEnd, Packets, a1

\* PacketRead.
LEMMA PacketReadKeeps ==
    ASSUME IInv, NEW from \in Hosts, PacketRead(1, from)
    PROVE  IInv'
  <1>1. /\ task[1].at = "reading" /\ mode = "packets" /\ heard' = heard + 1 /\ UNCHANGED <<mode, sock, conn, tun>>
        /\ ep \in [Ends -> UnixSocket] /\ heard \in Nat
    BY DEF PacketRead, Packets, IInv, TypeOK
  <1>2. CASE Gone(ep, a1) \/ Full(ep, a1)
    <2>1. EndTask(1, <<"error">>) /\ ep' = Release(ep, a1, {"net"})
      BY <1>2 DEF PacketRead, a1
    <2> QED
      BY <1>1, <2>1, PacketStops
  <1>3. CASE ~(Gone(ep, a1) \/ Full(ep, a1))
    <2>1. PICK m : m = Data(from, from, heard + 1)
      OBVIOUS
    <2>2. ep' = Put(ep, a1, m) /\ task' = task
      BY <1>1, <1>3, <2>1 DEF PacketRead, a1
    <2>3. m \in Message /\ m.by = from /\ m.from = from /\ m.n = heard + 1 /\ m.fd = None
      BY <1>1, <2>1 DEF Data, Message, Parties, Hosts, host, stray, EndOrNone
    <2>4. a0 \in Ends /\ a1 \in Ends /\ Partner(a1) = a0 /\ ep[a0].refs # {} /\ ~IsStream /\ ~IsStream'
      BY <1>1, <1>3, EndsAre, PartnersAre DEF Gone, IsStream, TypeOf
    <2>5. /\ ep' \in [Ends -> UnixSocket] /\ \A x \in Ends \ {a0} : ep'[x] = ep[x]
          /\ ep'[a0].refs = ep[a0].refs /\ ep'[a0].shut = ep[a0].shut
          /\ ep'[a0].q = Append(ep[a0].q, m)
      BY <1>1, <2>2, <2>3, <2>4, PutIs
    <2>6. ep'[a1] = ep[a1] /\ ep'[b0] = ep[b0] /\ ep'[b1] = ep[b1] /\ ep'[c0] = ep[c0] /\ ep'[c1] = ep[c1]
      BY <2>5, EndsAre
    <2>7. TypeOK' /\ SocketInv' /\ CallInv' /\ StateInv' /\ TaskInv'
      BY <1>1, <2>2, <2>5 DEF IInv, TypeOK, SocketInv, CallInv, StateInv, TaskInv, Server, IsStream
    <2>8. PairA' /\ PairB'
      BY <1>1, <2>2, <2>4, <2>5, <2>6 DEF IInv, RefInv, PairA, PairB
    <2>9. NoRefs' /\ \A e \in Ends : \A i \in DOMAIN ep'[e].q : ep'[e].q[i].fd = None
      <3>1. \A e \in Ends : \A i \in DOMAIN ep[e].q : ep[e].q[i].fd = None
        BY <2>4 DEF IInv, QueueInv
      <3>2. \A i \in DOMAIN ep'[a0].q : ep'[a0].q[i].fd = None
        <4>1. ep[a0].q \in Seq(Message) /\ \A i \in DOMAIN ep[a0].q : ep[a0].q[i].fd = None
          BY <1>1, <2>4, <3>1 DEF UnixSocket
        <4> QED
          BY <2>3, <2>5, <4>1
      <3>3. NoRefs'
        BY <2>4, <2>5 DEF IInv, RefInv, NoRefs
      <3> QED
        BY <2>5, <3>1, <3>2, <3>3
    <2>10. DatagramInv'
      <3>1. /\ ep[a0].q \in Seq(Message) /\ ep[b0].q \in Seq(Message) /\ sock[1].got \in Seq(Receipt) /\ sock[2].got \in Seq(Receipt)
        BY QueueTypes
      <3>2. SentBy \in [Senders -> Nat] /\ SentBy' \in [Senders -> Nat] /\ SentBy[from] = heard /\ SentBy'[from] = heard + 1
        BY <1>1, <2>7, SentType, SentTypeNext DEF IInv
      <3>3. \A p \in Senders : SentBy[p] <= SentBy'[p]
        BY <1>1, <3>2 DEF IInv, TypeOK, SentBy
      <3>4. Mail(ep[a0].q, sock[1].got, SentBy) /\ Mail(ep[b0].q, sock[2].got, SentBy)
        BY <1>1 DEF IInv, DatagramInv, MailInv
      <3>5. m.by \in Senders /\ m.from = m.by /\ m.n = SentBy[m.by] + 1 /\ m.n <= SentBy'[m.by]
        BY <1>1, <2>3, <3>2 DEF Senders
      <3>6. Mail(Append(ep[a0].q, m), sock[1].got, SentBy')
        BY <2>3, <3>1, <3>2, <3>3, <3>4, <3>5, MailPut
      <3>7. Mail(ep[b0].q, sock[2].got, SentBy')
        BY <3>1, <3>2, <3>3, <3>4, MailMore
      <3> QED
        BY <1>1, <2>5, <2>6, <3>6, <3>7 DEF DatagramInv, MailInv
    <2> QED
      BY <1>1, <2>2, <2>4, <2>6, <2>7, <2>8, <2>9, <2>10, DatagramKeeps
  <1> QED
    BY <1>2, <1>3

-----------------------------------------------------------------------------
(* serve.                                                                  *)

\* Serve: the goroutine of the listener holds its fd1 for a connection.
LEMMA ServeKeeps ==
    ASSUME IInv, NEW s \in {1, 2}, Serve(s)
    PROVE  IInv'
  <1>1. /\ s = 2 /\ task[2].at = "accepting" /\ conn["in"].at = "queued" /\ UNCHANGED <<mode, sock, tun, heard>>
        /\ ep \in [Ends -> UnixSocket] /\ "in" \in Conns /\ "out" \in Conns /\ conn["in"] \in ConnType
        /\ mode = "listen" /\ IsStream /\ IsStream' /\ task[2] \in TaskType
    BY DEF Serve, IInv, TaskInv, TypeOK, Conns, IsStream, TypeOf
  <1>2. PICK t : t = [task[2] EXCEPT !.at = "serving"]
    OBVIOUS
  <1>3. /\ t \in TaskType /\ t.at = "serving" /\ t.closed = task[2].closed /\ t.made = task[2].made
        /\ task' = [task EXCEPT ![2] = t]
    BY <1>1, <1>2 DEF TaskType, Serve, TaskStates
  <1>4. task' \in [{1, 2} -> TaskType] /\ task'[2] = t /\ task'[1] = task[1]
    BY <1>3 DEF IInv, TypeOK
  <1>5. PICK k : k = [conn["in"] EXCEPT !.at = "open"]
    OBVIOUS
  <1>6. /\ k \in ConnType /\ k.at = "open" /\ k.end = conn["in"].end /\ k.sent = conn["in"].sent
        /\ k.down = conn["in"].down /\ k.got = conn["in"].got /\ k.upEnd = conn["in"].upEnd
        /\ conn' = [conn EXCEPT !["in"] = k]
    BY <1>1, <1>5 DEF ConnType, Serve
  <1>7. conn' \in [Conns -> ConnType] /\ conn'["in"] = k /\ conn'["out"] = conn["out"]
    BY <1>1, <1>6, ConnIs DEF IInv
  <1>8. /\ ep' \in [Ends -> UnixSocket] /\ \A x \in Ends \ {b1} : ep'[x] = ep[x]
        /\ ep'[b1].q = ep[b1].q /\ ep'[b1].shut = ep[b1].shut
        /\ ep'[b1].refs = ep[b1].refs \/ (ep'[b1].refs = ep[b1].refs \cup {"peer"} /\ ep[b1].refs # {})
    <2>1. sock[2].fd1 = None \/ (sock[2].fd1 = b1 /\ "fd" \in ep[b1].refs)
      BY EndsAre DEF IInv, SocketInv, RefInv, PairB, b1
    <2>2. CASE ep' = ep
      BY <1>1, <2>2
    <2>3. CASE sock[2].fd1 = b1 /\ "fd" \in ep[b1].refs /\ ep' = Hold(ep, b1, "peer")
      <3>1. "peer" \in Holders /\ b1 \in Ends
        BY EndsAre DEF Holders
      <3> QED
        BY <1>1, <2>3, <3>1, HoldIs
    <2> QED
      BY <1>1, <2>1, <2>2, <2>3, EndsAre DEF Serve
  <1>9. b1 \in Ends /\ ep'[a0] = ep[a0] /\ ep'[a1] = ep[a1] /\ ep'[b0] = ep[b0] /\ ep'[c0] = ep[c0] /\ ep'[c1] = ep[c1]
    BY <1>8, EndsAre
  <1>10. TypeOK' /\ SocketInv' /\ CallInv' /\ StateInv'
    BY <1>1, <1>4, <1>7, <1>8 DEF IInv, TypeOK, SocketInv, CallInv, StateInv, Server, IsStream
  <1>11. TaskInv'
    BY <1>1, <1>3, <1>4 DEF IInv, TaskInv
  <1>12. ConnInv'
    BY <1>1, <1>3, <1>4, <1>6, <1>7 DEF IInv, ConnInv, Blank, Conns
  <1>13. RefInv'
    <2>1. PairA' /\ PairB' /\ PairC'
      BY <1>1, <1>3, <1>4, <1>8, <1>9 DEF IInv, RefInv, PairA, PairB, PairC
    <2>2. sock[4].at = "open" => sock[4].fd0 = c1
      BY <1>1 DEF IInv, SocketInv
    <2>3. Accepted' /\ NoRefs'
      BY <1>1, <1>8, <1>9, <2>2 DEF IInv, RefInv, Accepted, NoRefs
    <2> QED
      BY <2>1, <2>3 DEF RefInv
  <1>14. QueueInv'
    <2>1. Offered' = Offered /\ Offered.fd = c1
      BY <1>1 DEF Offered, Connection
    <2>2. \A e \in Ends : ep'[e].q = ep[e].q
      BY <1>8
    <2> QED
      BY <1>1, <1>8, <1>9, <2>1, <2>2 DEF IInv, QueueInv
  <1>15. SecureInv'
    BY <1>1, <1>4, <1>7 DEF IInv, SecureInv
  <1>16. StreamInv'
    BY <1>1, <1>6, <1>7, <1>9, StreamSame DEF IInv, SameSocket, SameEnd, SameConn
  <1>17. DatagramInv'
    BY <1>1 DEF DatagramInv
  <1> QED
    BY <1>10, <1>11, <1>12, <1>13, <1>14, <1>15, <1>16, <1>17 DEF IInv

\* A connection that cannot be served.
LEMMA ServeFailsKeeps ==
    ASSUME IInv, task[2].at = "serving", ServeFails(2), UNCHANGED <<mode, sock, heard>>
    PROVE  IInv'
  <1>1. /\ conn["in"].at = "open" /\ tun["in"].at = "none" /\ tun' = tun
        /\ ep \in [Ends -> UnixSocket] /\ "in" \in Conns /\ "out" \in Conns /\ conn["in"] \in ConnType
        /\ mode = "listen" /\ IsStream /\ IsStream' /\ task[2] \in TaskType
    BY DEF ServeFails, IInv, TaskInv, ConnInv, TypeOK, Conns, IsStream, TypeOf
  <1>2. PICK errs \in Seq({"error", "aborted"}) : errs = IF task[2].errs = <<>> THEN <<"aborted">> ELSE task[2].errs
    <2>1. task[2].errs \in Seq({"error", "aborted"}) /\ <<"aborted">> \in Seq({"error", "aborted"})
      BY <1>1 DEF TaskType
    <2> QED
      BY <2>1
  <1>3. PICK t : t = [task[2] EXCEPT !.at = "accepting", !.errs = errs]
    OBVIOUS
  <1>4. /\ t \in TaskType /\ t.at = "accepting" /\ t.closed = task[2].closed /\ t.made = task[2].made
        /\ task' = [task EXCEPT ![2] = t]
    <2>1. task' = [task EXCEPT ![2] = t]
      BY <1>2, <1>3 DEF ServeFails
    <2> QED
      BY <1>1, <1>3, <2>1 DEF TaskType, TaskStates
  <1>5. task' \in [{1, 2} -> TaskType] /\ task'[2] = t /\ task'[1] = task[1]
    BY <1>4 DEF IInv, TypeOK
  <1>6. PICK k : k = [conn["in"] EXCEPT !.at = "closed"]
    OBVIOUS
  <1>7. /\ k \in ConnType /\ k.at = "closed" /\ k.end = conn["in"].end /\ k.sent = conn["in"].sent
        /\ k.down = conn["in"].down /\ k.got = conn["in"].got /\ k.upEnd = conn["in"].upEnd
        /\ conn' = [conn EXCEPT !["in"] = k]
    BY <1>1, <1>6 DEF ConnType, ServeFails
  <1>8. conn' \in [Conns -> ConnType] /\ conn'["in"] = k /\ conn'["out"] = conn["out"]
    BY <1>1, <1>7, ConnIs DEF IInv
  <1>9. b1 \in Ends /\ {"peer"} \in SUBSET Holders /\ ep[b1].q = <<>>
    BY <1>1, EndsAre DEF IInv, QueueInv, Holders
  <1>10. /\ ep' \in [Ends -> UnixSocket] /\ \A x \in Ends \ {b1} : ep'[x] = ep[x]
         /\ ep'[b1].refs = ep[b1].refs \ {"peer"} /\ ep'[b1].shut = ep[b1].shut /\ ep'[b1].q = <<>>
    <2>1. \A i \in DOMAIN ep[b1].q : ep[b1].q[i].fd = None
      BY <1>9
    <2>2. ep' = Drop(ep, b1, {"peer"})
      BY <1>1, <1>9, <2>1, ReleaseIs DEF ServeFails, b1
    <2> QED
      BY <1>1, <1>9, <2>2, DropIs
  <1>11. ep'[a0] = ep[a0] /\ ep'[a1] = ep[a1] /\ ep'[b0] = ep[b0] /\ ep'[c0] = ep[c0] /\ ep'[c1] = ep[c1]
    BY <1>10, EndsAre
  <1>12. TypeOK' /\ SocketInv' /\ CallInv' /\ StateInv'
    BY <1>1, <1>5, <1>8, <1>10 DEF IInv, TypeOK, SocketInv, CallInv, StateInv, Server, IsStream
  <1>13. TaskInv'
    BY <1>1, <1>4, <1>5 DEF IInv, TaskInv
  <1>14. ConnInv'
    BY <1>1, <1>4, <1>5, <1>7, <1>8 DEF IInv, ConnInv, Blank, Conns
  <1>15. RefInv'
    <2>1. PairA' /\ PairB' /\ PairC'
      BY <1>1, <1>4, <1>5, <1>10, <1>11 DEF IInv, RefInv, PairA, PairB, PairC
    <2>2. sock[4].at = "open" => sock[4].fd0 = c1
      BY <1>1 DEF IInv, SocketInv
    <2>3. Accepted' /\ NoRefs'
      BY <1>1, <1>10, <1>11, <2>2 DEF IInv, RefInv, Accepted, NoRefs
    <2> QED
      BY <2>1, <2>3 DEF RefInv
  <1>16. QueueInv'
    <2>1. Offered' = Offered /\ Offered.fd = c1
      BY <1>1 DEF Offered, Connection
    <2>2. \A e \in Ends : ep'[e].q = ep[e].q
      BY <1>9, <1>10
    <2> QED
      BY <1>1, <1>10, <1>11, <2>1, <2>2 DEF IInv, QueueInv
  <1>17. SecureInv'
    BY <1>1, <1>5, <1>8 DEF IInv, SecureInv
  <1>18. StreamInv'
    BY <1>1, <1>7, <1>8, <1>11, StreamSame DEF IInv, SameSocket, SameEnd, SameConn
  <1>19. DatagramInv'
    BY <1>1 DEF DatagramInv
  <1> QED
    BY <1>12, <1>13, <1>14, <1>15, <1>16, <1>17, <1>18, <1>19 DEF IInv

\* The pair of socket 3, whose fd1 is sent to the listener.
LEMMA OfferedEnds ==
    ASSUME NEW E \in [Ends -> UnixSocket], E[c0].refs = {}, E[c1].refs = {}, E[c0].q = <<>>, E[c1].q = <<>>, E[b0].q = <<>>,
           NEW F, F = connect(socketpair(E, 3), b1, host, c1)
    PROVE  /\ F \in [Ends -> UnixSocket] /\ F[a0] = E[a0] /\ F[a1] = E[a1] /\ F[b1] = E[b1]
           /\ F[b0].refs = E[b0].refs /\ F[b0].shut = E[b0].shut /\ F[b0].q = <<Connection(host, c1)>>
           /\ F[c0].refs = {"fd"} /\ F[c0].shut = E[c0].shut /\ F[c0].q = <<>>
           /\ F[c1].refs = {"msg"} /\ F[c1].shut = E[c1].shut /\ F[c1].q = <<>>
  <1>1. /\ "fd" \in Holders /\ "net" \in Holders /\ "msg" \in Holders /\ {"fd"} \in SUBSET Holders /\ {"peer"} \in SUBSET Holders
        /\ a0 \in Ends /\ a1 \in Ends /\ b0 \in Ends /\ b1 \in Ends /\ c0 \in Ends /\ c1 \in Ends /\ Partner(b1) = b0
    BY EndsAre, PartnersAre DEF Holders
  <1>2. PICK m \in Message : m = Connection(host, c1)
    <2>1. PICK x : x = Connection(host, c1)
      OBVIOUS
    <2>2. x \in Message
      BY <1>1, <2>1 DEF Connection, Message, Parties, host, stray, EndOrNone
    <2> QED
      BY <2>1, <2>2
  <1>3. PICK F1 \in [Ends -> UnixSocket] :
           /\ F1 = Hold(E, c0, "fd") /\ \A x \in Ends \ {c0} : F1[x] = E[x]
           /\ F1[c0].refs = E[c0].refs \cup {"fd"} /\ F1[c0].q = E[c0].q /\ F1[c0].shut = E[c0].shut
    <2>1. PICK F1 : F1 = Hold(E, c0, "fd")
      OBVIOUS
    <2>2. /\ F1 \in [Ends -> UnixSocket] /\ \A x \in Ends \ {c0} : F1[x] = E[x]
          /\ F1[c0].refs = E[c0].refs \cup {"fd"} /\ F1[c0].q = E[c0].q /\ F1[c0].shut = E[c0].shut
      <3>1. ASSUME NEW X \in [Ends -> UnixSocket]
            PROVE  /\ Hold(X, c0, "fd") \in [Ends -> UnixSocket]
                   /\ \A x \in Ends \ {c0} : Hold(X, c0, "fd")[x] = X[x]
                   /\ Hold(X, c0, "fd")[c0].refs = X[c0].refs \cup {"fd"}
                   /\ Hold(X, c0, "fd")[c0].q = X[c0].q /\ Hold(X, c0, "fd")[c0].shut = X[c0].shut
        BY <1>1, HoldIs
      <3> QED
        BY <2>1, <3>1, Zenon
    <2> QED
      BY <2>1, <2>2
  <1>4. PICK F2 \in [Ends -> UnixSocket] :
           /\ F2 = Hold(F1, c1, "fd") /\ \A x \in Ends \ {c1} : F2[x] = F1[x]
           /\ F2[c1].refs = F1[c1].refs \cup {"fd"} /\ F2[c1].q = F1[c1].q /\ F2[c1].shut = F1[c1].shut
    BY <1>1, HoldIs
  <1>5. PICK F3 \in [Ends -> UnixSocket] :
           /\ F3 = Put(F2, b1, m) /\ \A x \in Ends \ {b0} : F3[x] = F2[x]
           /\ F3[b0].refs = E[b0].refs /\ F3[b0].shut = E[b0].shut /\ F3[b0].q = <<m>>
    <2>1. F2[b0] = E[b0]
      BY <1>3, <1>4, EndsAre
    <2>2. Append(<<>>, m) = <<m>>
      OBVIOUS
    <2> QED
      BY <1>1, <2>1, <2>2, PutIs
  <1>6. PICK F4 \in [Ends -> UnixSocket] :
           /\ F4 = Hold(F3, c1, "msg") /\ \A x \in Ends \ {c1} : F4[x] = F3[x]
           /\ F4[c1].refs = F3[c1].refs \cup {"msg"} /\ F4[c1].q = F3[c1].q /\ F4[c1].shut = F3[c1].shut
    BY <1>1, HoldIs
  <1>7. F4[c1].refs \ {"fd"} = {"msg"} /\ F4[c1].q = <<>> /\ F4[c1].shut = E[c1].shut
    <2>1. F3[c1] = F2[c1] /\ F1[c1] = E[c1]
      BY <1>1, <1>3, <1>5, EndsAre
    <2> QED
      BY <1>4, <1>6, <2>1
  <1>8. PICK F5 \in [Ends -> UnixSocket] :
           /\ F5 = Drop(F4, c1, {"fd"}) /\ \A x \in Ends \ {c1} : F5[x] = F4[x]
           /\ F5[c1].refs = {"msg"} /\ F5[c1].q = <<>> /\ F5[c1].shut = E[c1].shut
    BY <1>1, <1>7, DropIs
  <1>9. F = F5
    BY <1>2, <1>3, <1>4, <1>5, <1>6, <1>8 DEF connect, socketpair, c0, c1
  <1>10. F5[a0] = E[a0] /\ F5[a1] = E[a1] /\ F5[b1] = E[b1] /\ F5[b0] = F3[b0] /\ F5[c0] = F1[c0]
    BY <1>1, <1>3, <1>4, <1>5, <1>6, <1>8, EndsAre
  <1> QED
    BY <1>2, <1>3, <1>5, <1>8, <1>9, <1>10

\* A connection that is served: socket 3 is made and sent to the listener.
LEMMA ServedEnds ==
    ASSUME NEW E \in [Ends -> UnixSocket], E[c0].refs = {}, E[c1].refs = {}, E[c0].q = <<>>, E[c1].q = <<>>, E[b0].q = <<>>,
           E[b1].q = <<>>, NEW F,
           F = Release(Drop(Hold(connect(socketpair(E, 3), b1, host, c1), c0, "net"), c0, {"fd"}), b1, {"peer"})
    PROVE  /\ F \in [Ends -> UnixSocket] /\ F[a0] = E[a0] /\ F[a1] = E[a1]
           /\ F[b0].refs = E[b0].refs /\ F[b0].shut = E[b0].shut /\ F[b0].q = <<Connection(host, c1)>>
           /\ F[b1].refs = E[b1].refs \ {"peer"} /\ F[b1].shut = E[b1].shut /\ F[b1].q = <<>>
           /\ F[c0].refs = {"net"} /\ F[c0].shut = E[c0].shut /\ F[c0].q = <<>>
           /\ F[c1].refs = {"msg"} /\ F[c1].shut = E[c1].shut /\ F[c1].q = <<>>
  <1>1. /\ "net" \in Holders /\ {"fd"} \in SUBSET Holders /\ {"peer"} \in SUBSET Holders
        /\ a0 \in Ends /\ a1 \in Ends /\ b0 \in Ends /\ b1 \in Ends /\ c0 \in Ends /\ c1 \in Ends
    BY EndsAre DEF Holders
  <1>2. PICK F5 \in [Ends -> UnixSocket] :
           /\ F5 = connect(socketpair(E, 3), b1, host, c1) /\ F5[a0] = E[a0] /\ F5[a1] = E[a1] /\ F5[b1] = E[b1]
           /\ F5[b0].refs = E[b0].refs /\ F5[b0].shut = E[b0].shut /\ F5[b0].q = <<Connection(host, c1)>>
           /\ F5[c0].refs = {"fd"} /\ F5[c0].shut = E[c0].shut /\ F5[c0].q = <<>>
           /\ F5[c1].refs = {"msg"} /\ F5[c1].shut = E[c1].shut /\ F5[c1].q = <<>>
    BY OfferedEnds
  <1>3. PICK F6 \in [Ends -> UnixSocket] :
           /\ F6 = Hold(F5, c0, "net") /\ \A x \in Ends \ {c0} : F6[x] = F5[x]
           /\ F6[c0].refs = F5[c0].refs \cup {"net"} /\ F6[c0].q = F5[c0].q /\ F6[c0].shut = F5[c0].shut
    BY <1>1, HoldIs
  <1>4. F6[c0].refs \ {"fd"} = {"net"} /\ F6[c0].q = <<>> /\ F6[c0].shut = E[c0].shut
    BY <1>2, <1>3
  <1>5. PICK F7 \in [Ends -> UnixSocket] :
            /\ F7 = Drop(F6, c0, {"fd"}) /\ \A x \in Ends \ {c0} : F7[x] = F6[x]
            /\ F7[c0].refs = {"net"} /\ F7[c0].q = <<>> /\ F7[c0].shut = E[c0].shut
    BY <1>1, <1>4, DropIs
  <1>6. F7[a0] = F5[a0] /\ F7[a1] = F5[a1] /\ F7[b1] = F5[b1] /\ F7[b0] = F5[b0] /\ F7[c1] = F5[c1]
    BY <1>1, <1>3, <1>5, EndsAre
  <1>7. F = Drop(F7, b1, {"peer"})
    <2>1. \A i \in DOMAIN F7[b1].q : F7[b1].q[i].fd = None
      BY <1>2, <1>6
    <2> QED
      BY <1>1, <1>2, <1>3, <1>5, <2>1, ReleaseIs
  <1>8. /\ F \in [Ends -> UnixSocket] /\ \A x \in Ends \ {b1} : F[x] = F7[x]
        /\ F[b1].refs = E[b1].refs \ {"peer"} /\ F[b1].shut = E[b1].shut /\ F[b1].q = <<>>
    BY <1>1, <1>2, <1>6, <1>7, DropIs
  <1> QED
    BY <1>1, <1>2, <1>5, <1>6, <1>8, EndsAre

\* A connection that is sent to the listener and served by nobody.
LEMMA UnservedEnds ==
    ASSUME NEW E \in [Ends -> UnixSocket], E[c0].refs = {}, E[c1].refs = {}, E[c0].q = <<>>, E[c1].q = <<>>, E[b0].q = <<>>,
           E[b1].q = <<>>, NEW F,
           F = Release(Drop(connect(socketpair(E, 3), b1, host, c1), c0, {"fd"}), b1, {"peer"})
    PROVE  /\ F \in [Ends -> UnixSocket] /\ F[a0] = E[a0] /\ F[a1] = E[a1]
           /\ F[b0].refs = E[b0].refs /\ F[b0].shut = E[b0].shut /\ F[b0].q = <<Connection(host, c1)>>
           /\ F[b1].refs = E[b1].refs \ {"peer"} /\ F[b1].shut = E[b1].shut /\ F[b1].q = <<>>
           /\ F[c0].refs = {} /\ F[c0].shut = E[c0].shut /\ F[c0].q = <<>>
           /\ F[c1].refs = {"msg"} /\ F[c1].shut = E[c1].shut /\ F[c1].q = <<>>
  <1>1. /\ {"fd"} \in SUBSET Holders /\ {"peer"} \in SUBSET Holders
        /\ a0 \in Ends /\ a1 \in Ends /\ b0 \in Ends /\ b1 \in Ends /\ c0 \in Ends /\ c1 \in Ends
    BY EndsAre DEF Holders
  <1>2. PICK F5 \in [Ends -> UnixSocket] :
           /\ F5 = connect(socketpair(E, 3), b1, host, c1) /\ F5[a0] = E[a0] /\ F5[a1] = E[a1] /\ F5[b1] = E[b1]
           /\ F5[b0].refs = E[b0].refs /\ F5[b0].shut = E[b0].shut /\ F5[b0].q = <<Connection(host, c1)>>
           /\ F5[c0].refs = {"fd"} /\ F5[c0].shut = E[c0].shut /\ F5[c0].q = <<>>
           /\ F5[c1].refs = {"msg"} /\ F5[c1].shut = E[c1].shut /\ F5[c1].q = <<>>
    BY OfferedEnds
  <1>3. F5[c0].refs \ {"fd"} = {}
    BY <1>2
  <1>4. PICK F7 \in [Ends -> UnixSocket] :
            /\ F7 = Drop(F5, c0, {"fd"}) /\ \A x \in Ends \ {c0} : F7[x] = F5[x]
            /\ F7[c0].refs = {} /\ F7[c0].q = <<>> /\ F7[c0].shut = E[c0].shut
    BY <1>1, <1>2, <1>3, DropIs
  <1>5. F7[a0] = F5[a0] /\ F7[a1] = F5[a1] /\ F7[b1] = F5[b1] /\ F7[b0] = F5[b0] /\ F7[c1] = F5[c1]
    BY <1>1, <1>4, EndsAre
  <1>6. F = Drop(F7, b1, {"peer"})
    <2>1. \A i \in DOMAIN F7[b1].q : F7[b1].q[i].fd = None
      BY <1>2, <1>5
    <2> QED
      BY <1>1, <1>2, <1>4, <2>1, ReleaseIs
  <1>7. /\ F \in [Ends -> UnixSocket] /\ \A x \in Ends \ {b1} : F[x] = F7[x]
        /\ F[b1].refs = E[b1].refs \ {"peer"} /\ F[b1].shut = E[b1].shut /\ F[b1].q = <<>>
    BY <1>1, <1>2, <1>5, <1>6, DropIs
  <1> QED
    BY <1>1, <1>2, <1>4, <1>5, <1>7, EndsAre

\* Served.
LEMMA ServedKeeps ==
    ASSUME IInv, NEW s \in {1, 2}, NEW ok \in BOOLEAN, Served(s, ok)
    PROVE  IInv'
  <1>1. s = 2 /\ task[2].at = "serving" /\ UNCHANGED <<mode, sock, heard>>
    BY DEF Served, IInv, TaskInv
  <1> DEFINE fits == ok /\ "peer" \in ep[b1].refs /\ ~Gone(ep, b1) /\ ~Full(ep, b1)
  <1>2. CASE ~fits
    <2>1. ServeFails(2)
      BY <1>1, <1>2 DEF Served, b1
    <2> QED
      BY <1>1, <2>1, ServeFailsKeeps
  <1>3. CASE fits
    <2>1. /\ ep' = Release(Drop(Hold(connect(socketpair(ep, 3), b1, host, c1), c0, "net"), c0, {"fd"}), b1, {"peer"})
          /\ tun' = [tun EXCEPT !["in"] = [NoTunnel EXCEPT !.at = "run", !.d = c0, !.up = FALSE, !.down = FALSE]]
          /\ task' = [task EXCEPT ![2].at = "accepting"]
          /\ conn' = conn
      BY <1>1, <1>3 DEF Served, b1, c0, c1
    <2>2. /\ conn["in"].at = "open" /\ tun["in"].at = "none" /\ mode = "listen" /\ IsStream /\ IsStream'
          /\ ep \in [Ends -> UnixSocket] /\ "in" \in Conns /\ "out" \in Conns
          /\ Blank("in") /\ task[2] \in TaskType /\ 4 \in Sockets
      BY <1>1 DEF IInv, TaskInv, ConnInv, TypeOK, Conns, IsStream, TypeOf, Sockets
    <2>3. ep[c0].refs = {} /\ ep[c1].refs = {} /\ ~ep[c0].shut /\ ~ep[c1].shut
      BY <2>2 DEF IInv, RefInv, PairC
    <2>4. ep[c0].q = <<>> /\ ep[c1].q = <<>> /\ ep[b0].q = <<>> /\ ep[b1].q = <<>> /\ sock[4] = NoSocket
      BY <2>2, <2>3, EndsAre DEF IInv, RefInv, NoRefs, QueueInv, SocketInv
    <2>5. /\ ep' \in [Ends -> UnixSocket] /\ ep'[a0] = ep[a0] /\ ep'[a1] = ep[a1]
          /\ ep'[b0].refs = ep[b0].refs /\ ep'[b0].shut = ep[b0].shut /\ ep'[b0].q = <<Connection(host, c1)>>
          /\ ep'[b1].refs = ep[b1].refs \ {"peer"} /\ ep'[b1].shut = ep[b1].shut /\ ep'[b1].q = <<>>
          /\ ep'[c0].refs = {"net"} /\ ep'[c0].shut = ep[c0].shut /\ ep'[c0].q = <<>>
          /\ ep'[c1].refs = {"msg"} /\ ep'[c1].shut = ep[c1].shut /\ ep'[c1].q = <<>>
      BY <2>1, <2>2, <2>3, <2>4, ServedEnds
    <2>6. ep[b0].refs # {}
      BY <1>3, PartnersAre DEF Gone
    <2>7. PICK r : r = [NoTunnel EXCEPT !.at = "run", !.d = c0, !.up = FALSE, !.down = FALSE]
      OBVIOUS
    <2>8. r \in TunnelType /\ r.at = "run" /\ r.d = c0 /\ ~r.up /\ ~r.down
      BY <2>7, EndsAre DEF NoTunnel, TunnelType, EndOrNone
    <2>9. tun' \in [Conns -> TunnelType] /\ tun'["in"] = r /\ tun'["out"] = tun["out"]
      BY <2>1, <2>2, <2>7, <2>8, TunIs DEF IInv
    <2>10. PICK t : t = [task[2] EXCEPT !.at = "accepting"]
      OBVIOUS
    <2>11. /\ t \in TaskType /\ t.at = "accepting" /\ t.closed = task[2].closed /\ t.made = task[2].made
           /\ task' = [task EXCEPT ![2] = t]
      BY <2>1, <2>2, <2>10 DEF TaskType, TaskStates
    <2>12. task' \in [{1, 2} -> TaskType] /\ task'[2] = t /\ task'[1] = task[1]
      BY <2>11 DEF IInv, TypeOK
    <2>13. TypeOK' /\ SocketInv' /\ CallInv' /\ StateInv'
      BY <1>1, <2>1, <2>5, <2>9, <2>12 DEF IInv, TypeOK, SocketInv, CallInv, StateInv, Server, IsStream
    <2>14. TaskInv'
      BY <1>1, <2>11, <2>12 DEF IInv, TaskInv
    <2>15. ConnInv'
      BY <1>1, <2>1, <2>2, <2>8, <2>9, <2>11, <2>12 DEF IInv, ConnInv, Blank, Conns
    <2>16. RefInv'
      <3>1. PairA' /\ PairB' /\ PairC'
        BY <1>1, <2>2, <2>5, <2>8, <2>9, <2>11, <2>12, EndsAre DEF IInv, RefInv, PairA, PairB, PairC
      <3>2. Accepted' /\ NoRefs'
        BY <1>1, <2>4, <2>5, <2>6, EndsAre DEF IInv, RefInv, Accepted, NoRefs, NoSocket
      <3> QED
        BY <3>1, <3>2 DEF RefInv
    <2>17. QueueInv'
      <3>1. Offered' = Connection(host, c1) /\ Offered'.fd = c1
        BY <1>1, <2>2 DEF Offered, Connection
      <3>2. \A e \in Ends : e # b0 => ep'[e].q = <<>> \/ ep'[e].q = ep[e].q
        BY <2>5, EndsAre
      <3>3. \A e \in Ends : e # b0 => \A i \in DOMAIN ep'[e].q : ep'[e].q[i].fd = None
        BY <3>2 DEF IInv, QueueInv
      <3> QED
        BY <1>1, <2>2, <2>4, <2>5, <2>8, <2>9, <3>1, <3>3 DEF QueueInv
    <2>18. SecureInv'
      BY <1>1, <2>1, <2>9, <2>12 DEF IInv, SecureInv
    <2>19. StreamInv'
      <3>1. /\ conn'["in"].got = <<>> /\ conn'["in"].down = <<>> /\ conn'["in"].sent = 0 /\ ~conn'["in"].upEnd
            /\ sock'[4].sent = 0 /\ sock'[4].got = <<>> /\ ~sock'[4].eof
        BY <1>1, <2>1, <2>2, <2>4 DEF Blank, NoSocket
      <3>2. UpInv("in")'
        BY <2>5, <3>1, NothingSent, EndsOf DEF UpInv
      <3>3. DownInv("in")'
        <4>1. ~ep'[c1].shut /\ ~tun'["in"].down
          BY <2>3, <2>5, <2>8, <2>9
        <4>2. Len(sock'[4].got) + Len(ep'[c1].q) + Len(conn'["in"].down) = conn'["in"].sent
          BY <2>5, <3>1, NothingSent
        <4>3. InOrder(sock'[4].got) /\ Consecutive(ep'[c1].q, Len(sock'[4].got)) /\ Pending(conn'["in"].down, conn'["in"].sent)
          BY <2>5, <3>1, NothingSent
        <4> QED
          BY <3>1, <4>1, <4>2, <4>3, EndsOf DEF DownInv
      <3> QED
        BY <1>1, <2>2, <3>2, <3>3 DEF StreamInv, Tunneled, Conns
    <2>20. DatagramInv'
      BY <1>1, <2>2 DEF DatagramInv
    <2> QED
      BY <2>13, <2>14, <2>15, <2>16, <2>17, <2>18, <2>19, <2>20 DEF IInv
  <1> QED
    BY <1>2, <1>3

\* FileConnFails.
LEMMA FileConnFailsKeeps ==
    ASSUME IInv, NEW s \in {1, 2}, FileConnFails(s)
    PROVE  IInv'
  <1>1. s = 2 /\ task[2].at = "serving" /\ UNCHANGED <<mode, sock, heard>>
    BY DEF FileConnFails, IInv, TaskInv
  <1>2. /\ conn["in"].at = "open" /\ tun["in"].at = "none" /\ mode = "listen" /\ IsStream /\ IsStream'
        /\ ep \in [Ends -> UnixSocket] /\ "in" \in Conns /\ "out" \in Conns /\ conn["in"] \in ConnType
        /\ Blank("in") /\ task[2] \in TaskType /\ 4 \in Sockets
    BY <1>1 DEF IInv, TaskInv, ConnInv, TypeOK, Conns, IsStream, TypeOf, Sockets
  <1>3. ep[c0].refs = {} /\ ep[c1].refs = {} /\ ~ep[c0].shut /\ ~ep[c1].shut
    BY <1>2 DEF IInv, RefInv, PairC
  <1>4. ep[c0].q = <<>> /\ ep[c1].q = <<>> /\ ep[b0].q = <<>> /\ ep[b1].q = <<>> /\ sock[4] = NoSocket
    BY <1>2, <1>3, EndsAre DEF IInv, RefInv, NoRefs, QueueInv, SocketInv
  <1>5. /\ ep' \in [Ends -> UnixSocket] /\ ep'[a0] = ep[a0] /\ ep'[a1] = ep[a1]
        /\ ep'[b0].refs = ep[b0].refs /\ ep'[b0].shut = ep[b0].shut /\ ep'[b0].q = <<Connection(host, c1)>>
        /\ ep'[b1].refs = ep[b1].refs \ {"peer"} /\ ep'[b1].shut = ep[b1].shut /\ ep'[b1].q = <<>>
        /\ ep'[c0].refs = {} /\ ep'[c0].shut = ep[c0].shut /\ ep'[c0].q = <<>>
        /\ ep'[c1].refs = {"msg"} /\ ep'[c1].shut = ep[c1].shut /\ ep'[c1].q = <<>>
    <2>1. ep' = Release(Drop(connect(socketpair(ep, 3), b1, host, c1), c0, {"fd"}), b1, {"peer"})
      BY <1>1 DEF FileConnFails, b1, c0, c1
    <2> QED
      BY <1>2, <1>3, <1>4, <2>1, UnservedEnds
  <1>6. ep[b0].refs # {}
    BY <1>1, PartnersAre DEF FileConnFails, Gone, b1
  <1>7. PICK r : r = [NoTunnel EXCEPT !.at = "failed", !.d = c0, !.up = FALSE, !.down = FALSE]
    OBVIOUS
  <1>8. r \in TunnelType /\ r.at = "failed" /\ r.d = c0 /\ ~r.up /\ ~r.down
    BY <1>7, EndsAre DEF NoTunnel, TunnelType, EndOrNone
  <1>9. tun' = [tun EXCEPT !["in"] = r]
    BY <1>1, <1>7 DEF FileConnFails, c0
  <1>10. tun' \in [Conns -> TunnelType] /\ tun'["in"] = r /\ tun'["out"] = tun["out"]
    BY <1>2, <1>8, <1>9, TunIs DEF IInv
  <1>11. PICK errs \in Seq({"error", "aborted"}) : errs = IF task[2].errs = <<>> THEN <<"aborted">> ELSE task[2].errs
    <2>1. task[2].errs \in Seq({"error", "aborted"}) /\ <<"aborted">> \in Seq({"error", "aborted"})
      BY <1>2 DEF TaskType
    <2> QED
      BY <2>1
  <1>12. PICK t : t = [task[2] EXCEPT !.at = "accepting", !.errs = errs]
    OBVIOUS
  <1>13. /\ t \in TaskType /\ t.at = "accepting" /\ t.closed = task[2].closed /\ t.made = task[2].made
         /\ task' = [task EXCEPT ![2] = t]
    <2>1. task' = [task EXCEPT ![2] = t]
      BY <1>1, <1>11, <1>12 DEF FileConnFails
    <2> QED
      BY <1>2, <1>12, <2>1 DEF TaskType, TaskStates
  <1>14. task' \in [{1, 2} -> TaskType] /\ task'[2] = t /\ task'[1] = task[1]
    BY <1>13 DEF IInv, TypeOK
  <1>15. PICK k : k = [conn["in"] EXCEPT !.at = "closed"]
    OBVIOUS
  <1>16. /\ k \in ConnType /\ k.at = "closed" /\ k.end = conn["in"].end /\ k.sent = conn["in"].sent
         /\ k.down = conn["in"].down /\ k.got = conn["in"].got /\ k.upEnd = conn["in"].upEnd
         /\ conn' = [conn EXCEPT !["in"] = k]
    BY <1>2, <1>15 DEF ConnType, FileConnFails
  <1>17. conn' \in [Conns -> ConnType] /\ conn'["in"] = k /\ conn'["out"] = conn["out"]
    BY <1>2, <1>16, ConnIs DEF IInv
  <1>18. TypeOK' /\ SocketInv' /\ CallInv' /\ StateInv'
    BY <1>1, <1>5, <1>10, <1>14, <1>17 DEF IInv, TypeOK, SocketInv, CallInv, StateInv, Server, IsStream
  <1>19. TaskInv'
    BY <1>1, <1>13, <1>14 DEF IInv, TaskInv
  <1>20. ConnInv'
    BY <1>1, <1>2, <1>8, <1>10, <1>13, <1>14, <1>16, <1>17 DEF IInv, ConnInv, Blank, Conns
  <1>21. RefInv'
    <2>1. PairA' /\ PairB' /\ PairC'
      BY <1>1, <1>2, <1>5, <1>8, <1>10, <1>13, <1>14, EndsAre DEF IInv, RefInv, PairA, PairB, PairC
    <2>2. Accepted' /\ NoRefs'
      BY <1>1, <1>4, <1>5, <1>6, EndsAre DEF IInv, RefInv, Accepted, NoRefs, NoSocket
    <2> QED
      BY <2>1, <2>2 DEF RefInv
  <1>22. QueueInv'
    <2>1. Offered' = Connection(host, c1) /\ Offered'.fd = c1
      BY <1>1, <1>2 DEF Offered, Connection
    <2>2. \A e \in Ends : e # b0 => ep'[e].q = <<>> \/ ep'[e].q = ep[e].q
      BY <1>5, EndsAre
    <2>3. \A e \in Ends : e # b0 => \A i \in DOMAIN ep'[e].q : ep'[e].q[i].fd = None
      BY <2>2 DEF IInv, QueueInv
    <2> QED
      BY <1>1, <1>2, <1>4, <1>5, <1>8, <1>10, <2>1, <2>3 DEF QueueInv
  <1>23. SecureInv'
    BY <1>1, <1>10, <1>14, <1>17 DEF IInv, SecureInv
  <1>24. StreamInv'
    <2>1. /\ conn'["in"].got = <<>> /\ conn'["in"].down = <<>> /\ conn'["in"].sent = 0 /\ ~conn'["in"].upEnd
          /\ sock'[4].sent = 0 /\ sock'[4].got = <<>> /\ ~sock'[4].eof
      BY <1>1, <1>2, <1>4, <1>16, <1>17 DEF Blank, NoSocket
    <2>2. UpInv("in")'
      BY <1>5, <2>1, NothingSent, EndsOf DEF UpInv
    <2>3. DownInv("in")'
      <3>1. ~ep'[c1].shut /\ ~tun'["in"].down
        BY <1>3, <1>5, <1>8, <1>10
      <3>2. Len(sock'[4].got) + Len(ep'[c1].q) + Len(conn'["in"].down) = conn'["in"].sent
        BY <1>5, <2>1, NothingSent
      <3>3. InOrder(sock'[4].got) /\ Consecutive(ep'[c1].q, Len(sock'[4].got)) /\ Pending(conn'["in"].down, conn'["in"].sent)
        BY <1>5, <2>1, NothingSent
      <3> QED
        BY <2>1, <3>1, <3>2, <3>3, EndsOf DEF DownInv
    <2> QED
      BY <1>1, <1>2, <2>2, <2>3 DEF StreamInv, Tunneled, Conns
  <1>25. DatagramInv'
    BY <1>1, <1>2 DEF DatagramInv
  <1> QED
    BY <1>18, <1>19, <1>20, <1>21, <1>22, <1>23, <1>24, <1>25 DEF IInv

-----------------------------------------------------------------------------
(* SockListen, SockAccept and SockConnect.                                 *)

\* SockListen, and the goroutine that accepts the connections of hosts.
LEMMA ListenKeeps ==
    ASSUME IInv, NEW s \in Sockets, SockListen(s)
    PROVE  IInv'
  <1>1. /\ s = 2 /\ mode \in {"local", "listen"} /\ sock[2].at = "open" /\ sock[2].call = idle /\ "listening" \notin sock[2].st
        /\ UNCHANGED <<mode, ep, conn, tun, heard>> /\ sock[2] \in SocketRecord /\ IsStream /\ IsStream'
        /\ 1 \in Sockets /\ 2 \in Sockets /\ 3 \in Sockets /\ 4 \in Sockets
    BY DEF SockListen, Server, Ready, Is, IInv, TypeOK, Sockets, IsStream, TypeOf
  <1>2. PICK r : r = [sock[2] EXCEPT !.st = sock[2].st \cup {"bound", "listening"}]
    OBVIOUS
  <1>3. sock' = [sock EXCEPT ![2] = r]
    BY <1>1, <1>2 DEF SockListen
  <1>4. /\ r \in SocketRecord /\ r.at = "open" /\ r.type = sock[2].type /\ r.peer = sock[2].peer /\ r.fd0 = sock[2].fd0
        /\ r.fd1 = sock[2].fd1 /\ r.htls = sock[2].htls /\ r.call = idle /\ r.sent = sock[2].sent /\ r.got = sock[2].got
        /\ r.eof = sock[2].eof /\ r.st = sock[2].st \cup {"bound", "listening"}
    BY <1>1, <1>2 DEF SocketRecord, Flags
  <1>5. sock' \in [Sockets -> SocketRecord] /\ sock'[2] = r /\ \A x \in Sockets \ {2} : sock'[x] = sock[x]
    BY <1>1, <1>3, <1>4, SockIs DEF IInv
  <1>6. sock'[1] = sock[1] /\ sock'[3] = sock[3] /\ sock'[4] = sock[4]
    BY <1>1, <1>5
  <1>7. /\ task' \in [{1, 2} -> TaskType] /\ task'[1] = task[1]
        /\ \/ mode = "local" /\ task'[2] = task[2]
           \/ mode = "listen" /\ task[2].at = "none" /\ task'[2].at = "accepting" /\ task'[2].made /\ ~task'[2].closed
    <2>1. task \in [{1, 2} -> TaskType] /\ (mode = "listen" => task[2].at = "none")
      BY <1>1 DEF IInv, TypeOK, TaskInv
    <2>2. CASE mode = "local"
      <3>1. task' = task
        BY <1>1, <2>2 DEF SockListen
      <3> QED
        BY <2>1, <2>2, <3>1
    <2>3. CASE mode = "listen"
      <3>1. PICK t : t = [NoTask EXCEPT !.at = "accepting", !.made = TRUE]
        OBVIOUS
      <3>2. task' = [task EXCEPT ![2] = t]
        BY <1>1, <2>3, <3>1 DEF SockListen
      <3>3. t \in TaskType /\ t.at = "accepting" /\ t.made /\ ~t.closed
        <4>1. <<>> \in Seq({"error", "aborted"})
          OBVIOUS
        <4> QED
          BY <3>1, <4>1 DEF NoTask, TaskType, TaskStates
      <3> QED
        BY <2>1, <2>3, <3>2, <3>3
    <2> QED
      BY <1>1, <2>2, <2>3
  <1>8. TypeOK'
    BY <1>1, <1>5, <1>7 DEF IInv, TypeOK
  <1>9. SocketInv'
    <2>1. \A x \in Sockets : sock'[x].at = sock[x].at /\ sock'[x].type = sock[x].type /\ sock'[x].fd0 = sock[x].fd0 /\ sock'[x].fd1 = sock[x].fd1
                             /\ sock'[x].call = sock[x].call /\ (sock[x].at # "open" => sock'[x] = sock[x])
      BY <1>1, <1>4, <1>5
    <2>2. SocketInv
      BY DEF IInv
    <2> QED
      BY <1>1, <1>6, <2>1, <2>2 DEF SocketInv
  <1>10. CallInv'
    <2>1. Silent(sock'[2])
      BY <1>4, <1>5 DEF Silent
    <2> QED
      BY <1>1, <1>4, <1>5, <2>1, NoneAssumption DEF IInv, CallInv, idle
  <1>11. StateInv'
    BY <1>1, <1>4, <1>5 DEF IInv, StateInv, Server
  <1>12. TaskInv'
    BY <1>1, <1>4, <1>5, <1>6, <1>7 DEF IInv, TaskInv
  <1>13. ConnInv'
    BY <1>1, <1>7 DEF IInv, ConnInv, Blank, TaskInv
  <1>14. RefInv'
    <2>1. PairA' /\ PairB' /\ PairC'
      BY <1>1, <1>4, <1>5, <1>6, <1>7 DEF IInv, RefInv, PairA, PairB, PairC
    <2>2. Accepted' /\ NoRefs'
      BY <1>1, <1>6 DEF IInv, RefInv, Accepted, NoRefs
    <2> QED
      BY <2>1, <2>2 DEF RefInv
  <1>15. QueueInv'
    <2>1. Offered' = Offered
      BY <1>1 DEF Offered
    <2> QED
      BY <1>1, <1>6, <2>1 DEF IInv, QueueInv
  <1>16. SecureInv'
    BY <1>1, <1>6, <1>7 DEF IInv, SecureInv
  <1>17. StreamInv'
    BY <1>1, <1>6, StreamSame DEF IInv, SameSocket, SameEnd, SameConn
  <1>18. DatagramInv'
    BY <1>1 DEF DatagramInv
  <1> QED
    BY <1>8, <1>9, <1>10, <1>11, <1>12, <1>13, <1>14, <1>15, <1>16, <1>17, <1>18 DEF IInv

\* F is E after the offered connection x has left the queue of the listener.
Taken(E, x, room, F) ==
    /\ F \in [Ends -> UnixSocket] /\ \A y \in Ends \ {b0, x} : F[y] = E[y]
    /\ F[b0].refs \in {E[b0].refs, E[b0].refs \cup {"file0"}} /\ F[b0].shut = E[b0].shut /\ F[b0].q = <<>>
    /\ F[x].shut = E[x].shut
    /\ room => F[x].refs = {"fd"} /\ F[x].q = E[x].q
    /\ ~room => F[x].refs = {} /\ F[x].q = <<>>

\* What SockAccept does to the UNIX sockets.
LEMMA AcceptEnds ==
    ASSUME NEW E \in [Ends -> UnixSocket], NEW x \in Ends, x # b0, NEW m, E[b0].q = <<m>>, NEW H \in [Ends -> UnixSocket],
           H = E \/ H = Hold(E, b0, "file0"), NEW room \in BOOLEAN, NEW F,
           room => F = Drop(Hold(Take(H, b0), x, "fd"), x, {"msg"}), ~room => F = Drop(Take(H, b0), x, {"msg"}),
           E[x].refs = {"msg"}
    PROVE  Taken(E, x, room, F)
  <1>1. b0 \in Ends /\ "fd" \in Holders /\ "file0" \in Holders /\ {"msg"} \in SUBSET Holders
    BY EndsAre DEF Holders
  <1>2. /\ \A y \in Ends \ {b0} : H[y] = E[y]
        /\ H[b0].refs \in {E[b0].refs, E[b0].refs \cup {"file0"}} /\ H[b0].shut = E[b0].shut /\ H[b0].q = <<m>>
    <2>1. CASE H = E
      BY <2>1
    <2>2. CASE H = Hold(E, b0, "file0")
      <3>1. /\ \A y \in Ends \ {b0} : H[y] = E[y]
            /\ H[b0].refs = E[b0].refs \cup {"file0"} /\ H[b0].shut = E[b0].shut /\ H[b0].q = E[b0].q
        BY <1>1, <2>2, HoldIs
      <3> QED
        BY <3>1
    <2> QED
      BY <2>1, <2>2
  <1>3. Tail(<<m>>) = <<>> /\ <<m>> # <<>>
    OBVIOUS
  <1>4. PICK T : T = Take(H, b0)
    OBVIOUS
  <1>5. /\ T \in [Ends -> UnixSocket] /\ \A y \in Ends \ {b0} : T[y] = E[y]
        /\ T[b0].refs \in {E[b0].refs, E[b0].refs \cup {"file0"}} /\ T[b0].shut = E[b0].shut /\ T[b0].q = <<>>
    <2>1. /\ T \in [Ends -> UnixSocket] /\ \A y \in Ends \ {b0} : T[y] = H[y]
          /\ T[b0].refs = H[b0].refs /\ T[b0].shut = H[b0].shut /\ T[b0].q = Tail(H[b0].q)
      BY <1>1, <1>2, <1>3, <1>4, TakeIs
    <2> QED
      BY <1>2, <1>3, <2>1
  <1>6. T[x].refs = {"msg"} /\ T[x].q = E[x].q /\ T[x].shut = E[x].shut
    BY <1>5
  <1>7. CASE room
    <2>1. PICK G : G = Hold(T, x, "fd")
      OBVIOUS
    <2>2. /\ G \in [Ends -> UnixSocket] /\ \A y \in Ends \ {x} : G[y] = T[y]
          /\ G[x].refs = T[x].refs \cup {"fd"} /\ G[x].shut = T[x].shut /\ G[x].q = T[x].q
      BY <1>1, <1>5, <2>1, HoldIs
    <2>3. G[x].refs \ {"msg"} = {"fd"}
      BY <1>6, <2>2
    <2>4. F = Drop(G, x, {"msg"})
      BY <1>4, <1>7, <2>1
    <2>5. /\ F \in [Ends -> UnixSocket] /\ \A y \in Ends \ {x} : F[y] = G[y]
          /\ F[x].refs = G[x].refs \ {"msg"} /\ F[x].shut = G[x].shut
          /\ F[x].refs # {} => F[x].q = G[x].q
      BY <1>1, <2>2, <2>4, DropIs
    <2>6. F[x].refs = {"fd"} /\ F[x].q = G[x].q
      BY <2>3, <2>5
    <2> QED
      BY <1>1, <1>5, <1>6, <1>7, <2>2, <2>5, <2>6 DEF Taken
  <1>8. CASE ~room
    <2>1. F = Drop(T, x, {"msg"})
      BY <1>4, <1>8
    <2>2. T[x].refs \ {"msg"} = {}
      BY <1>6
    <2>3. /\ F \in [Ends -> UnixSocket] /\ \A y \in Ends \ {x} : F[y] = T[y]
          /\ F[x].refs = {} /\ F[x].shut = T[x].shut /\ F[x].q = <<>>
      BY <1>1, <1>5, <2>1, <2>2, DropIs
    <2> QED
      BY <1>1, <1>5, <1>6, <1>8, <2>3 DEF Taken
  <1> QED
    BY <1>7, <1>8

\* SockAccept.
LEMMA AcceptKeeps ==
    ASSUME IInv, NEW s \in Sockets, NEW nb \in BOOLEAN, NEW room \in BOOLEAN, SockAccept(s, nb, room)
    PROVE  IInv'
  <1>1. /\ s = 2 /\ mode \in {"local", "listen"} /\ sock[2].at = "open" /\ UNCHANGED <<mode, conn, tun, heard>>
        /\ IsStream /\ IsStream' /\ 1 \in Sockets /\ 2 \in Sockets /\ 3 \in Sockets /\ 4 \in Sockets
        /\ ep \in [Ends -> UnixSocket] /\ sock[2].type = "STREAM"
    BY DEF SockAccept, Server, Ready, Is, IInv, TypeOK, Sockets, StateInv, SocketInv, IsStream, TypeOf
  <1>2. CASE Error(s)
    <2>1. TakeError(s) /\ sock' = sock /\ ep' = ep
      BY <1>2 DEF SockAccept
    <2> QED
      BY <1>1, <1>2, <2>1, ErrorKeeps
  <1>3. CASE ~Error(s)
    <2>1. ep[b0].q # <<>> /\ sock[4].at = "none" /\ task' = task
      BY <1>1, <1>3 DEF SockAccept, Readable, b0
    <2>2. PICK x \in Ends, by \in {1, host} :
             /\ Offered = Connection(by, x) /\ (mode = "local" => x = a1) /\ (mode = "listen" => x = c1)
             /\ by # None
      BY <1>1, EndsAre, NoneAssumption DEF Offered, host, stray
    <2>3. /\ Offered.from = by /\ Offered.fd = x /\ Offered' = Offered
          /\ ep[b0].q = <<Offered>> /\ sock[4] = NoSocket /\ ep[x].refs = {"msg"} /\ x # b0 /\ (x = a1 \/ x = c1)
      BY <1>1, <2>1, <2>2, EndsAre DEF IInv, QueueInv, Connection, Offered
    <2>4. Head(<<Offered>>) = Offered
      OBVIOUS
    <2>5. PICK H \in [Ends -> UnixSocket] :
             (H = ep \/ H = Hold(ep, b0, "file0")) /\ H = IF Blocking(2) THEN socketFile0(ep, b0) ELSE ep
      <3>1. b0 \in Ends /\ "file0" \in Holders
        BY EndsAre DEF Holders
      <3>2. Hold(ep, b0, "file0") \in [Ends -> UnixSocket]
        BY <1>1, <3>1, HoldIs
      <3> QED
        BY <1>1, <3>2 DEF socketFile0
    <2>6. ep' = IF room THEN Drop(Hold(Take(H, b0), x, "fd"), x, {"msg"}) ELSE Drop(Take(H, b0), x, {"msg"})
      <3>1. Head(ep[b0].q).fd = x
        BY <2>3, <2>4
      <3> QED
        BY <1>1, <1>3, <2>5, <3>1 DEF SockAccept, b0
    <2>7. /\ ep' \in [Ends -> UnixSocket] /\ \A y \in Ends \ {b0, x} : ep'[y] = ep[y]
          /\ ep'[b0].refs \in {ep[b0].refs, ep[b0].refs \cup {"file0"}} /\ ep'[b0].shut = ep[b0].shut /\ ep'[b0].q = <<>>
          /\ ep'[x].shut = ep[x].shut
          /\ room => ep'[x].refs = {"fd"} /\ ep'[x].q = ep[x].q
          /\ ~room => ep'[x].refs = {} /\ ep'[x].q = <<>>
      <3>1. PICK m : m = Offered
        OBVIOUS
      <3>2. PICK F : F = ep'
        OBVIOUS
      <3>3. /\ ep[b0].q = <<m>> /\ ep[x].refs = {"msg"} /\ x # b0
            /\ room => F = Drop(Hold(Take(H, b0), x, "fd"), x, {"msg"})
            /\ ~room => F = Drop(Take(H, b0), x, {"msg"})
        BY <2>3, <2>6, <3>1, <3>2
      <3>4. ep \in [Ends -> UnixSocket] /\ (H = ep \/ H = Hold(ep, b0, "file0"))
        BY <1>1, <2>5
      <3>5. Taken(ep, x, room, F)
        BY <3>3, <3>4, AcceptEnds, Zenon
      <3> QED
        BY <3>2, <3>5 DEF Taken
    <2>8. /\ ep'[a0] = ep[a0] /\ ep'[b1] = ep[b1] /\ ep'[c0] = ep[c0]
          /\ mode = "local" => ep'[c1] = ep[c1]
          /\ mode = "listen" => ep'[a1] = ep[a1]
      <3>1. \A y \in Ends : y # b0 /\ y # x => ep'[y] = ep[y]
        BY <2>7
      <3>2. a0 # x /\ b1 # x /\ c0 # x /\ a0 # b0 /\ b1 # b0 /\ c0 # b0 /\ c1 # b0 /\ a1 # b0
        BY <2>3, EndsAre
      <3>3. (mode = "local" => c1 # x) /\ (mode = "listen" => a1 # x)
        BY <2>2, EndsAre
      <3>4. a0 \in Ends /\ b1 \in Ends /\ c0 \in Ends /\ a1 \in Ends /\ c1 \in Ends
        BY EndsAre
      <3> QED
        BY <3>1, <3>2, <3>3, <3>4
    <2>9. /\ sock' \in [Sockets -> SocketRecord] /\ sock'[1] = sock[1] /\ sock'[2] = sock[2] /\ sock'[3] = sock[3]
          /\ sock'[4].sent = 0 /\ sock'[4].got = <<>> /\ ~sock'[4].eof /\ "deaf" \notin sock'[4].st
          /\ ~room => sock'[4] = NoSocket
          /\ room => /\ sock'[4].at = "open" /\ sock'[4].type = "STREAM" /\ sock'[4].peer = by /\ sock'[4].fd0 = x
                     /\ sock'[4].fd1 = None /\ sock'[4].htls = "none" /\ sock'[4].call = idle
                     /\ {"bound", "connected"} \subseteq sock'[4].st
                     /\ "listening" \notin sock'[4].st /\ "tunneled" \notin sock'[4].st
      <3>1. CASE room
        <4>1. PICK flags : flags = IF nb THEN {"nonblocking"} ELSE {}
          OBVIOUS
        <4>2. PICK r : r = [NoSocket EXCEPT !.at = "open", !.type = sock[2].type, !.peer = by,
                               !.st = {"bound", "accepted", "connected"} \cup flags, !.fd0 = x]
          OBVIOUS
        <4>3. sock' = [sock EXCEPT ![4] = r]
          <5>1. Head(ep[b0].q).fd = x /\ Head(ep[b0].q).from = by
            BY <2>3, <2>4
          <5> QED
            BY <1>1, <1>3, <3>1, <4>1, <4>2, <5>1 DEF SockAccept, b0
        <4>4. flags \subseteq {"nonblocking"}
          BY <4>1
        <4>5. PICK st \in SUBSET Flags : st = {"bound", "accepted", "connected"} \cup flags
          BY <4>4 DEF Flags
        <4>6. r = [at |-> "open", type |-> "STREAM", st |-> st, peer |-> by, fd0 |-> x, fd1 |-> None,
                   htls |-> "none", call |-> idle, sent |-> 0, got |-> <<>>, eof |-> FALSE]
          BY <1>1, <4>2, <4>5 DEF NoSocket
        <4>7. r \in SocketRecord
          BY <4>6, EndsAre DEF SocketRecord, Peers, EndOrNone, CallType, idle
        <4>8. sock' \in [Sockets -> SocketRecord] /\ sock'[4] = r /\ \A y \in Sockets \ {4} : sock'[y] = sock[y]
          BY <1>1, <4>3, <4>7, SockIs DEF IInv
        <4>9. /\ {"bound", "connected"} \subseteq st /\ "listening" \notin st /\ "tunneled" \notin st /\ "deaf" \notin st
          BY <4>4, <4>5
        <4> QED
          BY <1>1, <3>1, <4>6, <4>8, <4>9
      <3>2. CASE ~room
        <4>1. sock' = sock
          BY <1>1, <1>3, <3>2 DEF SockAccept
        <4> QED
          BY <2>3, <3>2, <4>1 DEF IInv, TypeOK, NoSocket
      <3> QED
        BY <3>1, <3>2
    <2>10. TypeOK'
      BY <1>1, <2>1, <2>7, <2>9 DEF IInv, TypeOK
    <2>11. SocketInv'
      <3>1. CASE room
        BY <1>1, <2>2, <2>9, <3>1 DEF IInv, SocketInv, Sockets
      <3>2. CASE ~room
        <4>1. \A y \in Sockets : sock'[y] = sock[y]
          BY <2>3, <2>9, <3>2 DEF Sockets
        <4> QED
          BY <1>1, <4>1 DEF IInv, SocketInv
      <3> QED
        BY <3>1, <3>2
    <2>12. CallInv'
      BY <1>1, <2>9, NoneAssumption DEF IInv, CallInv, idle, Sockets, NoSocket, Server
    <2>13. StateInv'
      <3>1. by # 4 /\ by # None /\ None # 4
        BY <2>2, NoneAssumption DEF host, stray
      <3> QED
        BY <1>1, <2>2, <2>3, <2>9, <3>1 DEF IInv, StateInv, Server, Sockets, NoSocket
    <2>14. TaskInv'
      BY <1>1, <2>1, <2>9 DEF IInv, TaskInv
    <2>15. ConnInv'
      BY <1>1, <2>1 DEF IInv, ConnInv, Blank
    <2>16. sock'[4].at = IF room THEN "open" ELSE "none"
      BY <2>9 DEF NoSocket
    <2>17. RefInv'
      <3>1. PairA'
        BY <1>1, <2>1, <2>2, <2>3, <2>7, <2>8, <2>9, <2>16 DEF IInv, RefInv, PairA
      <3>2. PairB'
        BY <1>1, <2>1, <2>7, <2>8, <2>9 DEF IInv, RefInv, PairB
      <3>3. PairC'
        BY <1>1, <2>1, <2>2, <2>3, <2>7, <2>8, <2>9, <2>16 DEF IInv, RefInv, PairC, QueueInv
      <3>4. Accepted'
        BY <2>7, <2>9, <2>16 DEF Accepted
      <3>5. NoRefs'
        <4>1. ep'[x].refs = {} => ep'[x].q = <<>>
          BY <2>7
        <4>2. \A y \in Ends : y # b0 /\ y # x => ep'[y] = ep[y]
          BY <2>7
        <4>3. \A y \in Ends : ep[y].refs = {} => ep[y].q = <<>>
          BY DEF IInv, RefInv, NoRefs
        <4> QED
          BY <2>7, <4>1, <4>2, <4>3 DEF NoRefs
      <3> QED
        BY <3>1, <3>2, <3>3, <3>4, <3>5 DEF RefInv
    <2>18. QueueInv'
      <3>1. \A e \in Ends : e # b0 => \A i \in DOMAIN ep'[e].q : ep'[e].q[i].fd = None
        <4>1. \A e \in Ends : e # b0 => ep'[e].q = <<>> \/ ep'[e].q = ep[e].q
          BY <2>7
        <4> QED
          BY <4>1 DEF IInv, QueueInv
      <3> QED
        BY <1>1, <2>1, <2>7, <2>8, <2>9, <3>1 DEF IInv, QueueInv
    <2>19. SecureInv'
      BY <1>1, <2>1, <2>9 DEF IInv, SecureInv
    <2>20. StreamInv'
      <3>1. sock[4].sent = 0 /\ sock[4].got = <<>> /\ ~sock[4].eof /\ "deaf" \notin sock[4].st
        BY <2>3 DEF NoSocket
      <3>2. CASE room
        <4>1. SameSocket(1) /\ SameSocket(4)
          <5>1. SameSocket(1)
            BY <2>9 DEF SameSocket
          <5>2. SameSocket(4)
            <6>1. sock'[4].eof = sock[4].eof
              <7>1. sock'[4].eof \in BOOLEAN /\ sock[4].eof \in BOOLEAN
                BY <1>1, <2>9 DEF IInv, TypeOK, SocketRecord
              <7> QED
                BY <2>9, <3>1, <7>1
            <6>2. sock'[4].sent = sock[4].sent /\ sock'[4].got = sock[4].got /\ ("deaf" \in sock'[4].st <=> "deaf" \in sock[4].st)
              BY <2>9, <3>1
            <6> QED
              BY <6>1, <6>2 DEF SameSocket
          <5> QED
            BY <5>1, <5>2
        <4>2. \A e \in {a0, a1, c0, c1} : SameEnd(e)
          <5>1. SameEnd(x)
            BY <2>3, <2>7, <3>2 DEF SameEnd
          <5>2. \A e \in {a0, a1, c0, c1} : e # x => SameEnd(e)
            BY <2>7, EndsAre DEF SameEnd
          <5> QED
            BY <5>1, <5>2
        <4> QED
          BY <1>1, <4>1, <4>2, StreamSame DEF IInv, SameConn
      <3>3. CASE ~room /\ mode = "local"
        <4>1. PipeInv(1, 4, a0, a1) /\ PipeInv(4, 1, a1, a0)
          BY <3>3 DEF IInv, StreamInv
        <4>2. ep'[a1].refs = {} /\ ep'[a1].q = <<>> /\ ep'[a1].shut = ep[a1].shut
          BY <2>2, <2>7, <3>3
        <4>3. PipeInv(1, 4, a0, a1)'
          BY <2>8, <2>9, <3>1, <4>1, <4>2 DEF PipeInv
        <4>4. PipeInv(4, 1, a1, a0)'
          BY <2>9, <4>2, NothingSent DEF PipeInv
        <4> QED
          BY <1>1, <3>3, <4>3, <4>4 DEF StreamInv, Tunneled, Conns
      <3>4. CASE ~room /\ mode = "listen"
        <4>1. UpInv("in") /\ DownInv("in")
          BY <3>4 DEF IInv, StreamInv, Tunneled, Conns
        <4>2. ep'[c1].refs = {} /\ ep'[c1].q = <<>> /\ ep'[c1].shut = ep[c1].shut /\ ep'[c0] = ep[c0] /\ sock'[4] = sock[4]
          BY <2>2, <2>3, <2>7, <2>8, <2>9, <3>4
        <4>3. UpInv("in")'
          BY <1>1, <4>1, <4>2, EndsOf DEF UpInv
        <4>4. DownInv("in")'
          BY <1>1, <3>1, <4>1, <4>2, NothingSent, EndsOf DEF DownInv
        <4> QED
          BY <1>1, <3>4, <4>3, <4>4 DEF StreamInv, Tunneled, Conns
      <3> QED
        BY <1>1, <3>2, <3>3, <3>4
    <2>21. DatagramInv'
      BY <1>1 DEF DatagramInv
    <2> QED
      BY <2>10, <2>11, <2>12, <2>13, <2>14, <2>15, <2>17, <2>18, <2>19, <2>20, <2>21 DEF IInv
  <1> QED
    BY <1>2, <1>3

\* A datagram socket notes its peer.
LEMMA PeerKeeps ==
    ASSUME IInv, mode = "packets", NEW s \in {1, 2}, NEW p \in {1, 2, host}, p # s, Ready(s), Is(s, "bound"), ~Is(s, "connected"),
           sock' = [sock EXCEPT ![s] = Connected(sock[s], p, {})], UNCHANGED <<mode, ep, task, conn, tun, heard>>
    PROVE  IInv'
  <1>1. /\ sock[s].at = "open" /\ sock[s].call = idle /\ "bound" \in sock[s].st /\ sock[s] \in SocketRecord /\ ~IsStream /\ ~IsStream'
        /\ 1 \in Sockets /\ 2 \in Sockets /\ 3 \in Sockets /\ 4 \in Sockets /\ s \in Sockets
    BY DEF Ready, Is, IInv, TypeOK, IsStream, TypeOf, Sockets
  <1>2. PICK r : r = [sock[s] EXCEPT !.peer = p, !.st = sock[s].st \cup {"connected"} \cup {}]
    OBVIOUS
  <1>3. sock' = [sock EXCEPT ![s] = r]
    BY <1>2 DEF Connected
  <1>4. /\ r \in SocketRecord /\ r.at = "open" /\ r.type = sock[s].type /\ r.peer = p /\ r.fd0 = sock[s].fd0
        /\ r.fd1 = sock[s].fd1 /\ r.htls = sock[s].htls /\ r.call = idle /\ r.sent = sock[s].sent /\ r.got = sock[s].got
        /\ r.eof = sock[s].eof /\ r.st = sock[s].st \cup {"connected"}
    BY <1>1, <1>2 DEF SocketRecord, Flags, Peers
  <1>5. sock' \in [Sockets -> SocketRecord] /\ sock'[s] = r /\ \A x \in Sockets \ {s} : sock'[x] = sock[x]
    BY <1>1, <1>3, <1>4, SockIs DEF IInv
  <1>6. \A x \in Sockets : /\ sock'[x].at = sock[x].at /\ sock'[x].type = sock[x].type /\ sock'[x].fd0 = sock[x].fd0
                           /\ sock'[x].fd1 = sock[x].fd1 /\ sock'[x].htls = sock[x].htls /\ sock'[x].call = sock[x].call
                           /\ sock'[x].sent = sock[x].sent /\ sock'[x].got = sock[x].got
                           /\ sock[x].at # "open" => sock'[x] = sock[x]
    BY <1>1, <1>4, <1>5
  <1>7. sock'[3] = sock[3] /\ sock'[4] = sock[4]
    BY <1>1, <1>5
  <1>8. TypeOK' /\ p # None
    BY <1>5, NoneAssumption DEF IInv, TypeOK, host, stray
  <1>9. SocketInv'
    <2>1. SocketInv
      BY DEF IInv
    <2> QED
      BY <1>1, <1>6, <1>7, <2>1 DEF SocketInv
  <1>10. CallInv'
    <2>1. ~Server(2)'
      BY DEF Server
    <2>2. \A x \in Sockets : "connected" \in sock[x].st => "connected" \in sock'[x].st
      BY <1>4, <1>5
    <2>3. CallInv
      BY DEF IInv
    <2> QED
      BY <1>1, <1>6, <2>1, <2>2, <2>3 DEF CallInv
  <1>11. StateInv'
    BY <1>1, <1>4, <1>5, <1>8 DEF IInv, StateInv, Server
  <1>12. TaskInv'
    <2>1. \A f \in {"bound", "listening", "tunneled"} : \A x \in {1, 2} : f \in sock'[x].st <=> f \in sock[x].st
      BY <1>1, <1>4, <1>5
    <2> QED
      BY <2>1 DEF IInv, TaskInv
  <1>13. PairA' /\ PairB' /\ NoRefs' /\ \A e \in Ends : \A i \in DOMAIN ep'[e].q : ep'[e].q[i].fd = None
    BY <1>1, <1>6, <1>7 DEF IInv, RefInv, PairA, PairB, NoRefs, QueueInv
  <1>14. DatagramInv'
    BY <1>1, <1>6, DatagramSame DEF IInv
  <1> QED
    BY <1>1, <1>6, <1>8, <1>9, <1>10, <1>11, <1>12, <1>13, <1>14, DatagramKeeps

\* dial, when it starts a goroutine.
LEMMA DialStartKeeps ==
    ASSUME IInv, mode \in {"dial", "udp"}, Ready(1), Is(1, "bound"), ~Is(1, "connected"), dial(1), UNCHANGED <<mode, conn, tun, heard>>
    PROVE  IInv'
  <1>1. /\ sock[1].at = "open" /\ sock[1].call = idle /\ "bound" \in sock[1].st /\ "connected" \notin sock[1].st
        /\ 1 \in Sockets /\ 2 \in Sockets /\ 3 \in Sockets /\ 4 \in Sockets /\ sock[1] \in SocketRecord
        /\ sock[1].fd1 = a1 /\ ep \in [Ends -> UnixSocket] /\ (IsStream' <=> IsStream)
    BY DEF Ready, Is, IInv, TypeOK, Sockets, SocketInv, a1, IsStream, dial, Packets
  <1>2. task[1].at = "none" /\ tun["out"].at = "none" /\ conn["out"].at = "none"
    <2>1. task[1].at = "none"
      BY <1>1 DEF IInv, TaskInv
    <2>2. conn["out"].at \in {"none", "queued", "open", "closed"}
      BY DEF IInv, TypeOK, ConnType, Conns
    <2> QED
      BY <2>1, <2>2 DEF IInv, ConnInv, Conns
  <1>3. PICK c : c = [sock[1] EXCEPT !.peer = host, !.st = sock[1].st \cup {"connected"} \cup {"tunneled"}]
    OBVIOUS
  <1>4. PICK r : r = [c EXCEPT !.fd1 = None, !.htls = "open"]
    OBVIOUS
  <1>5. sock' = [sock EXCEPT ![1] = r]
    BY <1>3, <1>4 DEF Connected, dial, Packets
  <1>6. /\ c \in SocketRecord /\ c.at = "open" /\ c.type = sock[1].type /\ c.peer = host /\ c.fd0 = sock[1].fd0
        /\ c.call = idle /\ c.sent = sock[1].sent /\ c.got = sock[1].got
        /\ c.eof = sock[1].eof /\ c.st = sock[1].st \cup {"connected", "tunneled"}
    BY <1>1, <1>3 DEF SocketRecord, Flags, Peers
  <1>7. /\ r \in SocketRecord /\ r.at = "open" /\ r.type = sock[1].type /\ r.peer = host /\ r.fd0 = sock[1].fd0
        /\ r.fd1 = None /\ r.htls = "open" /\ r.call = idle /\ r.sent = sock[1].sent /\ r.got = sock[1].got
        /\ r.eof = sock[1].eof /\ r.st = sock[1].st \cup {"connected", "tunneled"}
    BY <1>4, <1>6 DEF SocketRecord, EndOrNone
  <1>8. sock' \in [Sockets -> SocketRecord] /\ sock'[1] = r /\ \A x \in Sockets \ {1} : sock'[x] = sock[x]
    BY <1>1, <1>5, <1>7, SockIs DEF IInv
  <1>9. /\ sock'[2] = sock[2] /\ sock'[3] = sock[3] /\ sock'[4] = sock[4] /\ sock[2].at = "none" /\ sock[4].at = "none"
        /\ sock'[1] = r
    BY <1>1, <1>8 DEF IInv, SocketInv, Opens
  <1>10. /\ task' \in [{1, 2} -> TaskType] /\ task'[2] = task[2]
         /\ task'[1].at = "dialing" /\ task'[1].made /\ ~task'[1].closed
    <2>1. PICK t : t = [NoTask EXCEPT !.at = "dialing", !.made = TRUE]
      OBVIOUS
    <2>2. t \in TaskType /\ t.at = "dialing" /\ t.made /\ ~t.closed
      <3>1. <<>> \in Seq({"error", "aborted"})
        OBVIOUS
      <3> QED
        BY <2>1, <3>1 DEF NoTask, TaskType, TaskStates
    <2>3. task' = [task EXCEPT ![1] = t]
      BY <2>1 DEF dial, Packets
    <2> QED
      BY <2>2, <2>3 DEF IInv, TypeOK
  <1>11. /\ a1 \in Ends /\ "net" \in Holders /\ {"fd"} \in SUBSET Holders /\ "fd" \in ep[a1].refs
    BY <1>1, EndsAre DEF Holders, IInv, RefInv, PairA
  <1>12. /\ ep' \in [Ends -> UnixSocket] /\ \A x \in Ends \ {a1} : ep'[x] = ep[x]
         /\ ep'[a1].refs = (ep[a1].refs \cup {"net"}) \ {"fd"} /\ ep'[a1].shut = ep[a1].shut /\ ep'[a1].q = ep[a1].q
    <2>1. PICK F \in [Ends -> UnixSocket] :
             /\ F = Hold(ep, a1, "net") /\ \A x \in Ends \ {a1} : F[x] = ep[x]
             /\ F[a1].refs = ep[a1].refs \cup {"net"} /\ F[a1].q = ep[a1].q /\ F[a1].shut = ep[a1].shut
      BY <1>1, <1>11, HoldIs
    <2>2. ep' = Drop(F, a1, {"fd"})
      BY <1>1, <2>1 DEF dial, Packets
    <2>3. /\ ep' \in [Ends -> UnixSocket] /\ \A x \in Ends \ {a1} : ep'[x] = F[x]
          /\ ep'[a1].refs = F[a1].refs \ {"fd"} /\ ep'[a1].shut = F[a1].shut
          /\ ep'[a1].refs # {} => ep'[a1].q = F[a1].q
      BY <1>11, <2>2, DropIs
    <2>4. ep'[a1].refs = (ep[a1].refs \cup {"net"}) \ {"fd"} /\ ep'[a1].refs # {}
      BY <2>1, <2>3
    <2> QED
      BY <2>1, <2>3, <2>4
  <1>13. ep'[a0] = ep[a0] /\ ep'[b0] = ep[b0] /\ ep'[b1] = ep[b1] /\ ep'[c0] = ep[c0] /\ ep'[c1] = ep[c1]
    BY <1>12, EndsAre
  <1>14. TypeOK' /\ host # None
    BY <1>8, <1>10, <1>12, NoneAssumption DEF IInv, TypeOK, host, stray
  <1>15. SocketInv'
    BY <1>1, <1>7, <1>9 DEF IInv, SocketInv, Sockets
  <1>16. CallInv'
    BY <1>1, <1>7, <1>9, NoneAssumption DEF IInv, CallInv, idle, Sockets, Server
  <1>17. StateInv'
    BY <1>1, <1>7, <1>9, <1>14 DEF IInv, StateInv, Server, Sockets, host
  <1>18. TaskInv'
    BY <1>7, <1>9, <1>10 DEF IInv, TaskInv
  <1>19. ConnInv'
    BY <1>2, <1>10 DEF IInv, ConnInv, Blank
  <1>20. RefInv'
    <2>1. PairA'
      BY <1>1, <1>7, <1>9, <1>10, <1>12, <1>13 DEF IInv, RefInv, PairA
    <2>2. PairB' /\ PairC' /\ Accepted'
      BY <1>1, <1>9, <1>10, <1>13 DEF IInv, RefInv, PairB, PairC, Accepted
    <2>3. NoRefs'
      <3>1. "net" \in ep'[a1].refs
        BY <1>12
      <3> QED
        BY <1>12, <3>1 DEF IInv, RefInv, NoRefs
    <2> QED
      BY <2>1, <2>2, <2>3 DEF RefInv
  <1>21. QueueInv'
    <2>1. \A e \in Ends : ep'[e].q = ep[e].q
      BY <1>12
    <2> QED
      BY <1>1, <1>13, <2>1, EndsAre DEF IInv, QueueInv
  <1>22. SecureInv'
    BY <1>2, <1>10 DEF IInv, SecureInv
  <1>23. StreamInv'
    <2>1. SameEnd(a0) /\ SameEnd(a1) /\ SameEnd(c0) /\ SameEnd(c1)
      BY <1>11, <1>12, <1>13 DEF SameEnd
    <2>2. SameSocket(1) /\ SameSocket(4)
      BY <1>7, <1>9 DEF SameSocket
    <2> QED
      BY <2>1, <2>2, StreamSame DEF IInv, SameConn
  <1>24. DatagramInv'
    BY DEF DatagramInv
  <1> QED
    BY <1>14, <1>15, <1>16, <1>17, <1>18, <1>19, <1>20, <1>21, <1>22, <1>23, <1>24 DEF IInv

\* F is E after fd1 of socket 1 was sent to the listener.
Passed(E, F) ==
    /\ F \in [Ends -> UnixSocket] /\ \A x \in Ends \ {a1, b0} : F[x] = E[x]
    /\ F[b0].refs = E[b0].refs /\ F[b0].shut = E[b0].shut /\ F[b0].q = <<Connection(1, a1)>>
    /\ F[a1].refs = {"msg"} /\ F[a1].shut = E[a1].shut /\ F[a1].q = E[a1].q

\* What connect does to the UNIX sockets.
LEMMA ConnectEnds ==
    ASSUME NEW E \in [Ends -> UnixSocket], E[a1].refs = {"fd"}, E[b0].q = <<>>, NEW F, F = connect(E, b1, 1, a1)
    PROVE  Passed(E, F)
  <1>1. /\ "msg" \in Holders /\ {"fd"} \in SUBSET Holders /\ a1 \in Ends /\ b0 \in Ends /\ b1 \in Ends
        /\ Partner(b1) = b0 /\ a1 # b0
    BY EndsAre, PartnersAre DEF Holders
  <1>2. PICK m \in Message : m = Connection(1, a1)
    <2>1. PICK x : x = Connection(1, a1)
      OBVIOUS
    <2>2. x \in Message
      BY <1>1, <2>1 DEF Connection, Message, Parties, stray, EndOrNone
    <2> QED
      BY <2>1, <2>2
  <1>3. PICK F1 \in [Ends -> UnixSocket] :
           /\ F1 = Put(E, b1, m) /\ \A x \in Ends \ {b0} : F1[x] = E[x]
           /\ F1[b0].refs = E[b0].refs /\ F1[b0].shut = E[b0].shut /\ F1[b0].q = <<m>>
    <2>1. Append(<<>>, m) = <<m>>
      OBVIOUS
    <2>2. PICK F1 : F1 = Put(E, b1, m)
      OBVIOUS
    <2>3. /\ F1 \in [Ends -> UnixSocket] /\ \A x \in Ends \ {b0} : F1[x] = E[x]
          /\ F1[b0].refs = E[b0].refs /\ F1[b0].shut = E[b0].shut /\ F1[b0].q = Append(E[b0].q, m)
      <3>1. ASSUME NEW X \in [Ends -> UnixSocket]
            PROVE  /\ Put(X, b1, m) \in [Ends -> UnixSocket] /\ \A x \in Ends \ {b0} : Put(X, b1, m)[x] = X[x]
                   /\ Put(X, b1, m)[b0].refs = X[b0].refs /\ Put(X, b1, m)[b0].shut = X[b0].shut
                   /\ Put(X, b1, m)[b0].q = Append(X[b0].q, m)
        BY <1>1, PutIs
      <3> QED
        BY <2>2, <3>1, Zenon
    <2> QED
      BY <2>1, <2>2, <2>3
  <1>4. PICK F2 \in [Ends -> UnixSocket] :
           /\ F2 = Hold(F1, a1, "msg") /\ \A x \in Ends \ {a1} : F2[x] = F1[x]
           /\ F2[a1].refs = F1[a1].refs \cup {"msg"} /\ F2[a1].q = F1[a1].q /\ F2[a1].shut = F1[a1].shut
    BY <1>1, HoldIs
  <1>5. F2[a1].refs \ {"fd"} = {"msg"} /\ F2[a1].q = E[a1].q /\ F2[a1].shut = E[a1].shut /\ F2[b0] = F1[b0]
    <2>1. F1[a1] = E[a1]
      BY <1>1, <1>3
    <2> QED
      BY <1>1, <1>4, <2>1
  <1>6. F = Drop(F2, a1, {"fd"})
    BY <1>2, <1>3, <1>4 DEF connect
  <1>7. /\ F \in [Ends -> UnixSocket] /\ \A x \in Ends \ {a1} : F[x] = F2[x]
        /\ F[a1].refs = F2[a1].refs \ {"fd"} /\ F[a1].shut = F2[a1].shut
        /\ F[a1].refs # {} => F[a1].q = F2[a1].q
    BY <1>1, <1>6, DropIs
  <1>8. F[a1].refs = {"msg"} /\ F[a1].q = E[a1].q /\ F[a1].shut = E[a1].shut
    BY <1>5, <1>7
  <1>9. F[b0].refs = E[b0].refs /\ F[b0].shut = E[b0].shut /\ F[b0].q = <<Connection(1, a1)>>
    BY <1>1, <1>2, <1>3, <1>5, <1>7
  <1> QED
    BY <1>1, <1>3, <1>4, <1>7, <1>8, <1>9 DEF Passed

\* ConnectLocal of a stream.
LEMMA ConnectLocalKeeps ==
    ASSUME IInv, mode = "local", Ready(1), Is(1, "bound"), ~Is(1, "connected"), ConnectLocal(1, 2),
           UNCHANGED <<mode, conn, tun, heard>>
    PROVE  IInv'
  <1>1. /\ sock[1].at = "open" /\ sock[1].call = idle /\ "bound" \in sock[1].st /\ "connected" \notin sock[1].st
        /\ 1 \in Sockets /\ 2 \in Sockets /\ 3 \in Sockets /\ 4 \in Sockets /\ sock[1] \in SocketRecord
        /\ ep \in [Ends -> UnixSocket] /\ IsStream' /\ IsStream
    BY DEF Ready, Is, IInv, TypeOK, Sockets, IsStream, TypeOf
  <1>2. /\ sock[1].fd1 = a1 /\ ~Gone(ep, b1) /\ task' = task /\ ep' = connect(ep, b1, 1, a1)
        /\ sock' = [sock EXCEPT ![1] = [Connected(sock[1], 2, {}) EXCEPT !.fd1 = None]]
    BY DEF ConnectLocal, TypeOf, IInv, SocketInv, a1, b1
  <1>3. PICK c : c = [sock[1] EXCEPT !.peer = 2, !.st = sock[1].st \cup {"connected"} \cup {}]
    OBVIOUS
  <1>4. PICK r : r = [c EXCEPT !.fd1 = None]
    OBVIOUS
  <1>5. sock' = [sock EXCEPT ![1] = r]
    BY <1>2, <1>3, <1>4 DEF Connected
  <1>6. /\ c \in SocketRecord /\ c.at = "open" /\ c.type = sock[1].type /\ c.peer = 2 /\ c.fd0 = sock[1].fd0
        /\ c.htls = sock[1].htls /\ c.call = idle /\ c.sent = sock[1].sent /\ c.got = sock[1].got
        /\ c.eof = sock[1].eof /\ c.st = sock[1].st \cup {"connected"}
    BY <1>1, <1>3 DEF SocketRecord, Flags, Peers
  <1>7. /\ r \in SocketRecord /\ r.at = "open" /\ r.type = sock[1].type /\ r.peer = 2 /\ r.fd0 = sock[1].fd0
        /\ r.fd1 = None /\ r.htls = sock[1].htls /\ r.call = idle /\ r.sent = sock[1].sent /\ r.got = sock[1].got
        /\ r.eof = sock[1].eof /\ r.st = sock[1].st \cup {"connected"}
    BY <1>4, <1>6 DEF SocketRecord, EndOrNone
  <1>8. /\ sock' \in [Sockets -> SocketRecord]
        /\ sock'[2] = sock[2] /\ sock'[3] = sock[3] /\ sock'[4] = sock[4] /\ sock'[1] = r
    <2>1. sock' \in [Sockets -> SocketRecord] /\ sock'[1] = r /\ \A x \in Sockets \ {1} : sock'[x] = sock[x]
      BY <1>1, <1>5, <1>7, SockIs DEF IInv
    <2> QED
      BY <1>1, <2>1
  <1>9. ep[b0].q = <<>> /\ sock[4] = NoSocket /\ sock[4].at = "none" /\ task[1].at = "none" /\ ep[b0].refs # {}
    <2>1. ep[b0].q = <<>> /\ sock[4].at = "none" /\ task[1].at = "none"
      BY <1>1 DEF IInv, QueueInv, TaskInv
    <2>2. ep[b0].refs # {}
      BY <1>2, PartnersAre DEF Gone
    <2> QED
      BY <1>1, <2>1, <2>2 DEF IInv, SocketInv
  <1>10. ep[a1].refs = {"fd"}
    <2>1. ep[a1].refs \subseteq Holders /\ "fd" \in ep[a1].refs
      BY <1>1, <1>2, EndsAre DEF IInv, TypeOK, UnixSocket, RefInv, PairA
    <2>2. \A h \in {"file0", "file1", "net", "msg", "peer"} : h \notin ep[a1].refs
      BY <1>1, <1>9 DEF IInv, RefInv, PairA
    <2> QED
      BY <2>1, <2>2 DEF Holders
  <1>11. Passed(ep, ep')
    BY <1>1, <1>2, <1>9, <1>10, ConnectEnds, Zenon
  <1>12. /\ ep' \in [Ends -> UnixSocket] /\ \A x \in Ends \ {a1, b0} : ep'[x] = ep[x]
         /\ ep'[b0].refs = ep[b0].refs /\ ep'[b0].shut = ep[b0].shut /\ ep'[b0].q = <<Connection(1, a1)>>
         /\ ep'[a1].refs = {"msg"} /\ ep'[a1].shut = ep[a1].shut /\ ep'[a1].q = ep[a1].q
    BY <1>11 DEF Passed
  <1>13. ep'[a0] = ep[a0] /\ ep'[b1] = ep[b1] /\ ep'[c0] = ep[c0] /\ ep'[c1] = ep[c1]
    BY <1>12, EndsAre
  <1>14. TypeOK' /\ 2 # None
    BY <1>2, <1>8, <1>12, NoneAssumption DEF IInv, TypeOK, stray
  <1>15. SocketInv'
    BY <1>1, <1>7, <1>8 DEF IInv, SocketInv, Sockets
  <1>16. CallInv'
    BY <1>1, <1>7, <1>8, NoneAssumption DEF IInv, CallInv, idle, Sockets, Server
  <1>17. StateInv'
    BY <1>1, <1>7, <1>8, <1>14 DEF IInv, StateInv, Server, Sockets
  <1>18. TaskInv'
    <2>1. task'[1].at = "none" /\ task'[2].at = "none" /\ task' = task
      BY <1>2, <1>9 DEF IInv, TaskInv
    <2>2. "tunneled" \notin sock'[1].st
      BY <1>7, <1>8, <1>9 DEF IInv, TaskInv
    <2> QED
      BY <2>1, <2>2 DEF IInv, TaskInv
  <1>19. ConnInv'
    BY <1>2 DEF IInv, ConnInv, Blank
  <1>20. <<Connection(1, a1)>> # <<>>
    OBVIOUS
  <1>21. RefInv'
    <2>1. PairA'
      BY <1>1, <1>2, <1>7, <1>8, <1>9, <1>12, <1>13, <1>20 DEF IInv, RefInv, PairA
    <2>2. PairB' /\ PairC' /\ Accepted'
      BY <1>1, <1>2, <1>8, <1>9, <1>12, <1>13 DEF IInv, RefInv, PairB, PairC, Accepted
    <2>3. NoRefs'
      BY <1>9, <1>12 DEF IInv, RefInv, NoRefs
    <2> QED
      BY <2>1, <2>2, <2>3 DEF RefInv
  <1>22. QueueInv'
    <2>1. \A e \in Ends : e # b0 => ep'[e].q = ep[e].q
      BY <1>12
    <2>2. Offered' = Connection(1, a1) /\ Offered'.fd = a1
      BY DEF Offered, Connection
    <2>3. "connected" \in sock'[1].st
      BY <1>7, <1>8
    <2>4. \A e \in Ends : e # b0 => \A i \in DOMAIN ep'[e].q : ep'[e].q[i].fd = None
      BY <2>1 DEF IInv, QueueInv
    <2>5. ep'[b1].q = <<>>
      BY <1>1, <1>13 DEF IInv, QueueInv
    <2> QED
      BY <1>1, <1>8, <1>9, <1>12, <2>2, <2>3, <2>4, <2>5 DEF QueueInv
  <1>23. SecureInv'
    BY <1>2, <1>7, <1>8 DEF IInv, SecureInv
  <1>24. StreamInv'
    <2>1. SameEnd(a0) /\ SameEnd(a1) /\ SameEnd(c0) /\ SameEnd(c1)
      BY <1>10, <1>12, <1>13 DEF SameEnd
    <2>2. SameSocket(1) /\ SameSocket(4)
      BY <1>7, <1>8 DEF SameSocket
    <2> QED
      BY <2>1, <2>2, StreamSame DEF IInv, SameConn
  <1>25. DatagramInv'
    BY DEF DatagramInv
  <1> QED
    BY <1>14, <1>15, <1>16, <1>17, <1>18, <1>19, <1>21, <1>22, <1>23, <1>24, <1>25 DEF IInv

\* SockConnect.
LEMMA ConnectKeeps ==
    ASSUME IInv, NEW s \in Sockets, ~Server(s), NEW to \in {1, 2, host}, SockConnect(s, to)
    PROVE  IInv'
  <1>1. /\ s \in {1, 2} /\ Ready(s) /\ ~Is(s, "connected") /\ Is(s, "bound") /\ sock[s].at = "open"
        /\ UNCHANGED <<mode, conn, tun, heard>> /\ s \in Opens(mode)
    BY DEF SockConnect, Ready, IInv, SocketInv
  <1>2. CASE to = host
    <2>1. dial(s)
      BY <1>2 DEF SockConnect
    <2>2. CASE Packets(s) /\ Bridged(s)
      BY <1>1, <2>1, <2>2, PeerKeeps DEF dial, Packets, host
    <2>3. CASE ~(Packets(s) /\ Bridged(s))
      <3>1. mode \in {"dial", "udp"} /\ s = 1
        BY <1>1, <2>1, <2>3 DEF dial, Opens
      <3> QED
        BY <1>1, <2>1, <3>1, DialStartKeeps
    <2> QED
      BY <2>2, <2>3
  <1>3. CASE to # host
    <2>1. to # s /\ ConnectLocal(s, to) /\ to \in {1, 2} /\ sock[to].at = "open" /\ task' = task /\ to \in Opens(mode)
      BY <1>3 DEF SockConnect, ConnectLocal, IInv, SocketInv
    <2>2. mode \in {"local", "packets"}
      BY <1>1, <2>1, SocketsAssumption DEF Opens, IInv, TypeOK
    <2>3. CASE mode = "packets"
      BY <1>1, <2>1, <2>3, PeerKeeps DEF ConnectLocal, TypeOf
    <2>4. CASE mode = "local"
      <3>1. s = 1 /\ to = 2
        BY <1>1, <2>1, <2>4 DEF Server
      <3> QED
        BY <1>1, <2>1, <2>4, <3>1, ConnectLocalKeeps
    <2> QED
      BY <2>2, <2>3, <2>4
  <1> QED
    BY <1>2, <1>3

-----------------------------------------------------------------------------
(* SockSend and SockSendTo.                                                *)

\* writeTo.
LEMMA WriteToKeeps ==
    ASSUME IInv, NEW s \in Sockets, Ready(s), Is(s, "bound"), writeTo(s), UNCHANGED <<mode, ep, task, conn, tun, heard>>
    PROVE  IInv'
  <1>1. /\ s = 1 /\ mode = "packets" /\ sock[1].at = "open" /\ sock[1].call = idle /\ sock[1] \in SocketRecord
        /\ ~IsStream /\ ~IsStream' /\ 1 \in Sockets /\ 2 \in Sockets /\ 3 \in Sockets /\ 4 \in Sockets
    BY DEF writeTo, Packets, Ready, IInv, TypeOK, IsStream, TypeOf, Sockets
  <1>2. PICK r : r = [sock[1] EXCEPT !.sent = sock[1].sent + 1]
    OBVIOUS
  <1>3. sock' = [sock EXCEPT ![1] = r]
    BY <1>1, <1>2 DEF writeTo
  <1>4. /\ r \in SocketRecord /\ r.at = "open" /\ r.type = sock[1].type /\ r.peer = sock[1].peer /\ r.fd0 = sock[1].fd0
        /\ r.fd1 = sock[1].fd1 /\ r.htls = sock[1].htls /\ r.call = idle /\ r.sent = sock[1].sent + 1 /\ r.got = sock[1].got
        /\ r.eof = sock[1].eof /\ r.st = sock[1].st
    BY <1>1, <1>2 DEF SocketRecord
  <1>5. sock' \in [Sockets -> SocketRecord] /\ sock'[1] = r /\ sock'[2] = sock[2] /\ sock'[3] = sock[3] /\ sock'[4] = sock[4]
    <2>1. sock' \in [Sockets -> SocketRecord] /\ sock'[1] = r /\ \A x \in Sockets \ {1} : sock'[x] = sock[x]
      BY <1>1, <1>3, <1>4, SockIs DEF IInv
    <2> QED
      BY <1>1, <2>1
  <1>6. TypeOK' /\ ep' = ep /\ task' = task
    BY <1>5 DEF IInv, TypeOK
  <1>7. SocketInv'
    BY <1>1, <1>4, <1>5 DEF IInv, SocketInv, Sockets
  <1>8. CallInv' /\ StateInv'
    BY <1>1, <1>4, <1>5 DEF IInv, CallInv, StateInv, Server, Sockets
  <1>9. TaskInv' /\ PairA' /\ PairB' /\ NoRefs' /\ \A e \in Ends : \A i \in DOMAIN ep'[e].q : ep'[e].q[i].fd = None
    BY <1>1, <1>4, <1>5 DEF IInv, TaskInv, RefInv, PairA, PairB, NoRefs, QueueInv
  <1>10. DatagramInv'
    <2>1. /\ ep[a0].q \in Seq(Message) /\ ep[b0].q \in Seq(Message) /\ sock[1].got \in Seq(Receipt) /\ sock[2].got \in Seq(Receipt)
      BY QueueTypes
    <2>2. SentBy \in [Senders -> Nat] /\ SentBy' \in [Senders -> Nat]
      BY <1>6, SentType, SentTypeNext DEF IInv
    <2>3. \A p \in Senders : SentBy[p] <= SentBy'[p]
      <3>1. heard' = heard /\ heard \in Nat /\ sock[1].sent \in Nat /\ sock'[1].sent = sock[1].sent + 1
            /\ sock[2].sent \in Nat /\ sock'[2].sent = sock[2].sent
        BY <1>4, <1>5 DEF IInv, TypeOK, SocketRecord, Sockets
      <3>2. SentBy'[1] = SentBy[1] + 1 /\ SentBy[1] \in Nat /\ SentBy'[2] = SentBy[2] /\ SentBy[2] \in Nat
            /\ \A p \in Hosts : SentBy'[p] = SentBy[p] /\ SentBy[p] \in Nat
        BY <1>6, <3>1, SentType, SentTypeNext DEF IInv
      <3> QED
        BY <3>2 DEF Senders
    <2>4. Mail(ep[a0].q, sock[1].got, SentBy) /\ Mail(ep[b0].q, sock[2].got, SentBy)
      BY <1>1 DEF IInv, DatagramInv, MailInv
    <2>5. Mail(ep[a0].q, sock[1].got, SentBy') /\ Mail(ep[b0].q, sock[2].got, SentBy')
      BY <2>1, <2>2, <2>3, <2>4, MailMore
    <2>6. sock'[1].got = sock[1].got /\ sock'[2].got = sock[2].got
      BY <1>4, <1>5
    <2> QED
      BY <1>6, <2>5, <2>6 DEF DatagramInv, MailInv
  <1> QED
    BY <1>1, <1>4, <1>5, <1>6, <1>7, <1>8, <1>9, <1>10, DatagramKeeps

\* SendTo.
LEMMA SendToKeeps ==
    ASSUME IInv, NEW s \in Sockets, NEW to \in {None, 1, 2, host}, SendTo(s, to)
    PROVE  IInv'
  <1> DEFINE clear == htlsClear(sock[s])
             dest == Dest(s, to)
  <1>1. /\ Ready(s) /\ Is(s, "bound") /\ sock[s].at = "open" /\ sock[s].call = idle /\ UNCHANGED <<mode, conn, tun, heard>>
        /\ sock[s] \in SocketRecord /\ to # s /\ ~Server(s)
    BY OpenSocket, NotServer DEF SendTo, Ready
  <1>2. clear \in SocketRecord /\ Soft(sock[s], clear) /\ clear.call = sock[s].call /\ clear.at = "open" /\ clear.fd0 = sock[s].fd0
    BY <1>1, ClearSoft DEF Soft
  <1>3. \/ sock' = [sock EXCEPT ![s] = clear] /\ UNCHANGED <<ep, task>>
        \/ Error(s) /\ TakeError(s) /\ sock' = [sock EXCEPT ![s] = clear] /\ ep' = ep
        \/ /\ (to # None) # Is(s, "connected") /\ dest = None
           /\ sock' = [sock EXCEPT ![s] = [clear EXCEPT !.call = [op |-> "send", to |-> dest, fd |-> sock[s].fd0]]]
           /\ UNCHANGED <<ep, task>>
        \/ writeTo(s) /\ UNCHANGED <<ep, task>>
        \/ /\ dest \in {1, 2} /\ ~IsStream /\ sock[dest].fd1 # None
           /\ sock' = [sock EXCEPT ![s] = [clear EXCEPT !.call = [op |-> "send", to |-> dest, fd |-> sock[dest].fd1]]]
           /\ ep' = Hold(ep, sock[dest].fd1, "peer") /\ task' = task
    BY DEF SendTo, IsStream, TypeOf
  <1>4. dest \in {to, sock[s].peer} /\ (dest = to \/ to = None)
    BY DEF Dest
  <1>5. dest # s /\ sock[s].peer # s
    BY <1>1, <1>4 DEF IInv, StateInv
  <1>6. (to # None) # Is(s, "connected") /\ dest = None => "connected" \in sock[s].st
    BY <1>1, <1>4 DEF IInv, StateInv, Is
  <1> HIDE DEF clear, dest
  <1>7. CASE sock' = [sock EXCEPT ![s] = clear] /\ UNCHANGED <<ep, task>>
    <2>1. task' \in [{1, 2} -> TaskType] /\ \A x \in {1, 2} : SoftTask(x)
      BY <1>7, NoTaskChange
    <2> QED
      BY <1>1, <1>2, <1>7, <2>1, SockKeeps
  <1>8. CASE Error(s) /\ TakeError(s) /\ sock' = [sock EXCEPT ![s] = clear] /\ ep' = ep
    <2>1. s \in {1, 2}
      BY <1>8 DEF Error, Bridged
    <2>2. task' \in [{1, 2} -> TaskType] /\ \A x \in {1, 2} : SoftTask(x)
      BY <1>8, <2>1, TakeErrorSoft
    <2> QED
      BY <1>1, <1>2, <1>8, <2>2, SockKeeps
  <1>9. CASE /\ (to # None) # Is(s, "connected") /\ dest = None
             /\ sock' = [sock EXCEPT ![s] = [clear EXCEPT !.call = [op |-> "send", to |-> dest, fd |-> sock[s].fd0]]]
             /\ UNCHANGED <<ep, task>>
    <2>1. PICK k : k = [op |-> "send", to |-> None, fd |-> sock[s].fd0]
      OBVIOUS
    <2>2. k \in CallType /\ k.op = "send" /\ k.to = None /\ k.fd = sock[s].fd0
      BY <1>1, <2>1 DEF CallType, SocketRecord
    <2>3. PICK r : r = [clear EXCEPT !.call = k]
      OBVIOUS
    <2>4. sock' = [sock EXCEPT ![s] = r]
      BY <1>9, <2>1, <2>3
    <2>5. r \in SocketRecord /\ Soft(clear, r) /\ r.call = k
      BY <1>2, <2>2, <2>3, CallSoft
    <2>6. Soft(sock[s], r)
      BY <1>1, <1>2, <2>5, SoftTrans
    <2>7. ep' \in [Ends -> UnixSocket] /\ \A x \in Ends : SoftEnd(x)
      BY <1>9, SameSoft DEF IInv, TypeOK
    <2>8. task' \in [{1, 2} -> TaskType] /\ \A x \in {1, 2} : SoftTask(x)
      BY <1>9, NoTaskChange
    <2>9. "connected" \in sock[s].st
      BY <1>6, <1>9
    <2> QED
      BY <1>1, <2>2, <2>4, <2>5, <2>6, <2>7, <2>8, <2>9, StartKeeps
  <1>10. CASE writeTo(s) /\ UNCHANGED <<ep, task>>
    BY <1>1, <1>10, WriteToKeeps
  <1>11. CASE /\ dest \in {1, 2} /\ ~IsStream /\ sock[dest].fd1 # None
              /\ sock' = [sock EXCEPT ![s] = [clear EXCEPT !.call = [op |-> "send", to |-> dest, fd |-> sock[dest].fd1]]]
              /\ ep' = Hold(ep, sock[dest].fd1, "peer") /\ task' = task
    <2>1. PICK e \in Ends : e = <<dest, 1>> /\ e \in {a1, b1} /\ sock[dest].fd1 = e /\ ep[e].refs # {}
      <3>1. CASE dest = 1
        <4>1. sock[1].fd1 = a1 /\ a1 \in Ends /\ "fd" \in ep[a1].refs
          BY <1>11, <3>1, EndsAre DEF IInv, SocketInv, RefInv, PairA, a1
        <4> QED
          BY <3>1, <4>1 DEF a1
      <3>2. CASE dest = 2
        <4>1. sock[2].fd1 = b1 /\ b1 \in Ends /\ "fd" \in ep[b1].refs
          BY <1>11, <3>2, EndsAre DEF IInv, SocketInv, RefInv, PairB, b1
        <4> QED
          BY <3>2, <4>1 DEF b1
      <3> QED
        BY <1>11, <3>1, <3>2
    <2>2. s \in {1, 2} /\ dest = 3 - s
      <3>1. mode \in {"udp", "packets"}
        BY <1>11, SocketsAssumption DEF IInv, TypeOK, IsStream, TypeOf
      <3>2. s \in {1, 2}
        BY <1>1, <3>1, OpenSocket
      <3> QED
        BY <1>5, <1>11, <3>2
    <2>3. PICK k : k = [op |-> "send", to |-> dest, fd |-> e]
      OBVIOUS
    <2>4. k \in CallType /\ k.op = "send" /\ k.to = 3 - s /\ k.fd = <<3 - s, 1>>
      BY <1>11, <2>1, <2>2, <2>3 DEF CallType, EndOrNone
    <2>5. PICK r : r = [clear EXCEPT !.call = k]
      OBVIOUS
    <2>6. sock' = [sock EXCEPT ![s] = r]
      BY <1>11, <2>1, <2>3, <2>5
    <2>7. r \in SocketRecord /\ Soft(clear, r) /\ r.call = k
      BY <1>2, <2>4, <2>5, CallSoft
    <2>8. Soft(sock[s], r)
      BY <1>1, <1>2, <2>7, SoftTrans
    <2>9. ep' \in [Ends -> UnixSocket] /\ \A x \in Ends : SoftEnd(x)
      <3>1. MayHold(e, "peer") /\ "peer" \in Holders
        BY <1>11, <2>1 DEF MayHold, Holders
      <3>2. ep' = Hold(ep, e, "peer")
        BY <1>11, <2>1
      <3> QED
        BY <2>1, <3>1, <3>2, HoldSoft
    <2>10. task' \in [{1, 2} -> TaskType] /\ \A x \in {1, 2} : SoftTask(x)
      BY <1>11, NoTaskChange
    <2> QED
      BY <1>1, <1>11, <2>2, <2>4, <2>6, <2>7, <2>8, <2>9, <2>10, StartKeeps
  <1> QED
    BY <1>3, <1>7, <1>8, <1>9, <1>10, <1>11 DEF clear, dest

-----------------------------------------------------------------------------
(* System calls that move data: sendto and recvmsg.                        *)

\* What a call that moves data changes of a socket.
Moved(old, new) ==
    /\ new.at = old.at /\ new.type = old.type /\ new.peer = old.peer /\ new.fd0 = old.fd0 /\ new.fd1 = old.fd1
    /\ new.htls = old.htls /\ new.st = old.st
    /\ old.at # "open" => new = old
    /\ IsStream /\ "connected" \notin old.st => new.sent = old.sent

\* A UNIX socket keeps its holders when data moves.
MovedEnd(e) ==
    /\ ep'[e].shut = ep[e].shut
    /\ \/ ep'[e].refs = ep[e].refs
       \/ ep[e].refs # {} /\ \E h \in Holders : MayHold(e, h) /\ ep'[e].refs = ep[e].refs \cup {h}
    /\ ep[e].refs = {} => ep'[e].q = <<>>
    /\ IsStream /\ e \in {b0, b1} => ep'[e].q = ep[e].q
    /\ ~(IsStream /\ e = b0) => \A i \in DOMAIN ep'[e].q : ep'[e].q[i].fd = None

\* A step that moves data does not touch the control.
LEMMA MovedControl ==
    ASSUME IInv, UNCHANGED <<mode, task>>, \A s \in Sockets : Moved(sock[s], sock'[s])
    PROVE  SocketInv' /\ StateInv' /\ TaskInv'
  <1>1. 1 \in Sockets /\ 2 \in Sockets /\ 3 \in Sockets /\ 4 \in Sockets /\ (IsStream' <=> IsStream) /\ task' = task
    BY DEF Sockets, IsStream
  <1>2. SocketInv'
    <2>1. sock'[3] = sock[3]
      BY <1>1 DEF IInv, SocketInv, Moved, NoSocket
    <2>2. \A s \in Sockets : sock[s].at # "open" => sock'[s] = sock[s]
      BY DEF Moved
    <2>3. \A s \in Sockets : sock'[s].at # "open" => sock'[s].call = idle
      BY <2>2 DEF IInv, SocketInv, Moved
    <2> QED
      BY <1>1, <2>1, <2>2, <2>3 DEF IInv, SocketInv, Moved
  <1>3. StateInv'
    <2> SUFFICES ASSUME NEW s \in Sockets
                 PROVE  /\ "listening" \in sock'[s].st => Server(s)'
                        /\ Server(s)' => "connected" \notin sock'[s].st
                        /\ "connected" \in sock'[s].st <=> sock'[s].peer # None
                        /\ sock'[s].peer # s
                        /\ "connected" \in sock'[s].st => "bound" \in sock'[s].st
                        /\ "tunneled" \in sock'[s].st => s = 1 /\ mode' \in {"dial", "udp"} /\ "connected" \in sock'[s].st
                        /\ sock'[s].htls # "none" <=> "tunneled" \in sock'[s].st
                        /\ mode' \in {"dial", "udp"} /\ "connected" \in sock'[s].st => "tunneled" \in sock'[s].st
                        /\ IsStream' /\ "connected" \in sock'[s].st => sock'[s].fd1 = None
                        /\ IsStream' /\ "connected" \notin sock'[s].st => sock'[s].sent = 0
      BY DEF StateInv
    <2>1. Moved(sock[s], sock'[s])
      OBVIOUS
    <2>2. (Server(s)' <=> Server(s)) /\ mode' = mode
      BY DEF Server
    <2> QED
      BY <1>1, <2>1, <2>2 DEF IInv, StateInv, Moved
  <1>4. TaskInv'
    BY <1>1 DEF IInv, TaskInv, Moved
  <1> QED
    BY <1>2, <1>3, <1>4

\* What is left to show of a step that moves data.
LEMMA MoveKeeps ==
    ASSUME IInv, TypeOK', CallInv', StreamInv', DatagramInv', UNCHANGED <<mode, task, conn, tun, heard>>,
           \A s \in Sockets : Moved(sock[s], sock'[s]), \A e \in Ends : MovedEnd(e)
    PROVE  IInv'
  <1>1. 1 \in Sockets /\ 2 \in Sockets /\ 3 \in Sockets /\ 4 \in Sockets /\ (IsStream' <=> IsStream) /\ task' = task
    BY DEF Sockets, IsStream
  <1>2. SocketInv' /\ StateInv' /\ TaskInv'
    BY MovedControl
  <1>3. ConnInv'
    BY DEF IInv, ConnInv, Blank
  <1>4. /\ a0 \in Ends /\ a1 \in Ends /\ b0 \in Ends /\ b1 \in Ends /\ c0 \in Ends /\ c1 \in Ends
    BY EndsAre
  <1>5. /\ sock[1].at = "open" => sock[1].fd0 = a0
        /\ sock[2].at = "open" => sock[2].fd0 = b0
        /\ sock[4].at = "open" => (mode = "local" /\ sock[4].fd0 = a1) \/ (mode = "listen" /\ sock[4].fd0 = c1)
    BY DEF IInv, SocketInv, a0, b0
  <1>6. mode \in {"local", "listen"} => IsStream /\ ep'[b0].q = ep[b0].q
    BY <1>4 DEF IsStream, TypeOf, MovedEnd
  <1>7. RefInv'
    <2>1. PairA'
      <3>1. ep'[a0].refs = ep[a0].refs \/ (sock[1].at = "open" /\ ep'[a0].refs = ep[a0].refs \cup {"file0"})
        BY <1>4, <1>5, EndsAre DEF MovedEnd, MayHold
      <3>2. \/ ep'[a1].refs = ep[a1].refs
            \/ mode = "local" /\ sock[4].at = "open" /\ ep'[a1].refs = ep[a1].refs \cup {"file0"}
            \/ ~IsStream /\ ep'[a1].refs = ep[a1].refs \cup {"peer"}
            \/ ~IsStream /\ sock[1].at = "open" /\ ep'[a1].refs = ep[a1].refs \cup {"file1"}
        BY <1>4, <1>5, EndsAre DEF MovedEnd, MayHold
      <3>3. ep'[a0].shut = ep[a0].shut
        BY <1>4 DEF MovedEnd
      <3>4. /\ sock'[1].at = sock[1].at /\ sock'[1].fd1 = sock[1].fd1 /\ sock'[4].at = sock[4].at
        BY <1>1 DEF Moved
      <3> QED
        BY <1>1, <1>6, <3>1, <3>2, <3>3, <3>4 DEF IInv, RefInv, PairA
    <2>2. PairB'
      <3>1. ep'[b0].refs = ep[b0].refs \/ (sock[2].at = "open" /\ ep'[b0].refs = ep[b0].refs \cup {"file0"})
        BY <1>4, <1>5, EndsAre DEF MovedEnd, MayHold
      <3>2. \/ ep'[b1].refs = ep[b1].refs
            \/ ~IsStream /\ ep'[b1].refs = ep[b1].refs \cup {"peer"}
            \/ ~IsStream /\ sock[2].at = "open" /\ ep'[b1].refs = ep[b1].refs \cup {"file1"}
        BY <1>4, <1>5, EndsAre DEF MovedEnd, MayHold
      <3>3. sock'[2].at = sock[2].at /\ sock'[2].fd1 = sock[2].fd1
        BY <1>1 DEF Moved
      <3> QED
        BY <1>1, <3>1, <3>2, <3>3 DEF IInv, RefInv, PairB
    <2>3. PairC'
      <3>1. ep'[c0].refs = ep[c0].refs /\ ep'[c0].shut = ep[c0].shut /\ ep'[c1].shut = ep[c1].shut
        BY <1>4, <1>5, EndsAre DEF MovedEnd, MayHold
      <3>2. ep'[c1].refs = ep[c1].refs
            \/ (mode = "listen" /\ sock[4].at = "open" /\ ep[c1].refs # {} /\ ep'[c1].refs = ep[c1].refs \cup {"file0"})
        BY <1>4, <1>5, EndsAre DEF MovedEnd, MayHold
      <3>3. sock'[4].at = sock[4].at
        BY <1>1 DEF Moved
      <3> QED
        BY <1>1, <1>6, <3>1, <3>2, <3>3 DEF IInv, RefInv, PairC
    <2>4. Accepted' /\ NoRefs'
      <3>1. sock'[4].at = sock[4].at /\ sock'[4].fd0 = sock[4].fd0
        BY <1>1 DEF Moved
      <3>2. \A e \in Ends : ep[e].refs \subseteq ep'[e].refs /\ (ep'[e].refs = {} => ep[e].refs = {})
        BY DEF MovedEnd
      <3>3. sock[4].at = "open" => sock[4].fd0 \in Ends
        BY <1>4, <1>5
      <3>4. Accepted'
        BY <3>1, <3>2, <3>3 DEF IInv, RefInv, Accepted
      <3>5. NoRefs'
        BY <3>2 DEF NoRefs, MovedEnd
      <3> QED
        BY <3>4, <3>5
    <2> QED
      BY <2>1, <2>2, <2>3, <2>4 DEF RefInv
  <1>8. QueueInv'
    <2>1. ASSUME IsStream, ep[b0].q # <<>>
          PROVE  ep'[Offered.fd].refs = ep[Offered.fd].refs /\ sock'[4] = NoSocket
      <3>1. Offered.fd \in {a1, c1} /\ sock[4] = NoSocket /\ sock[4].at # "open"
        BY <2>1 DEF IInv, QueueInv, Offered, Connection, NoSocket
      <3>2. sock'[4] = sock[4]
        BY <1>1, <3>1 DEF Moved
      <3>3. ~MayHold(a1, "file0") /\ ~MayHold(c1, "file0") /\ \A h : h # "file0" => ~MayHold(a1, h) /\ ~MayHold(c1, h)
        BY <1>5, <2>1, <3>1, EndsAre DEF MayHold
      <3> QED
        BY <1>4, <3>1, <3>2, <3>3 DEF MovedEnd
    <2>2. Offered' = Offered
      BY DEF Offered
    <2>3. \A e \in Ends : ~(IsStream /\ e = b0) => \A i \in DOMAIN ep'[e].q : ep'[e].q[i].fd = None
      BY DEF MovedEnd
    <2>4. IsStream => ep'[b0].q = ep[b0].q /\ ep'[b1].q = ep[b1].q
      BY <1>4 DEF MovedEnd
    <2>5. sock'[1].st = sock[1].st /\ sock'[4].at = sock[4].at
      BY <1>1 DEF Moved
    <2> QED
      BY <1>1, <1>6, <2>1, <2>2, <2>3, <2>4, <2>5 DEF IInv, QueueInv
  <1>9. SecureInv'
    BY <1>1 DEF IInv, SecureInv, Moved
  <1> QED
    BY <1>2, <1>3, <1>7, <1>8, <1>9 DEF IInv

\* A receipt more, the first message less, a message more: what the steps that
\* receive and send do to the sequences, as names of their own.
OneMore(old, new, x) == new.got = Append(old.got, x)
OneLess(e) == ep'[e].q = Tail(ep[e].q)
Queued(f, m) == ep'[f].q = Append(ep[f].q, m)

\* A cell more was sent, that of a message.
SendsNext(old, new, m) == m.n = old.sent + 1 /\ new.sent = old.sent + 1

\* The receipt of a message.
ReceiptOf(x, m) == x.by = m.by /\ x.from = m.from /\ x.n = m.n

\* A stream is read.
LEMMA ReadStreams ==
    ASSUME IInv, IsStream, NEW s \in {1, 4}, sock[s].at = "open", NEW e \in Ends, e = sock[s].fd0, ep[e].q # <<>>,
           NEW x \in Receipt, x.n = ep[e].q[1].n, UNCHANGED <<mode, conn, tun>>,
           OneMore(sock[s], sock'[s], x), sock'[s].sent = sock[s].sent, sock'[s].eof = sock[s].eof,
           sock'[s].st = sock[s].st, \A o \in Sockets : o # s => sock'[o] = sock[o],
           OneLess(e), ep'[e].refs = ep[e].refs, ep'[e].shut = ep[e].shut, \A y \in Ends : y # e => ep'[y] = ep[y]
    PROVE  StreamInv'
  <1>1. /\ sock[s].got \in Seq(Receipt) /\ ep[e].q \in Seq(Message) /\ ep[e].refs # {}
        /\ sock[1].sent \in Nat /\ sock[4].sent \in Nat /\ 1 \in Sockets /\ 4 \in Sockets /\ s \in Sockets
        /\ sock[s].eof \in BOOLEAN
    <2>1. s \in Sockets /\ 1 \in Sockets /\ 4 \in Sockets
      BY DEF Sockets
    <2>2. ep[e].refs # {}
      BY <2>1, OpenSocket
    <2> QED
      BY <2>1, <2>2 DEF IInv, TypeOK, SocketRecord, UnixSocket
  <1>2. InOrder(sock[s].got) /\ Consecutive(ep[e].q, Len(sock[s].got)) =>
           /\ InOrder(sock'[s].got) /\ Consecutive(ep'[e].q, Len(sock'[s].got))
           /\ Len(sock'[s].got) = Len(sock[s].got) + 1 /\ Len(ep'[e].q) = Len(ep[e].q) - 1 /\ Len(ep[e].q) > 0
    BY <1>1, CellRead DEF OneMore, OneLess
  <1>3. PICK g, k : g \in Nat /\ k \in Nat /\ Len(sock[s].got) = g /\ Len(ep[e].q) = k
    <2>1. Len(sock[s].got) \in Nat /\ Len(ep[e].q) \in Nat
      BY <1>1
    <2> QED
      BY <2>1, Zenon
  <1>4. ASSUME NEW total \in Nat, g + k = total, k > 0
        PROVE  g # total /\ (g + 1) + (k - 1) = total
    BY <1>3, <1>4
  <1>5. a0 \in Ends /\ a1 \in Ends /\ c0 \in Ends /\ c1 \in Ends /\ a0 # a1 /\ c0 # c1 /\ a0 # c0 /\ a0 # c1 /\ a1 # c0 /\ a1 # c1
    BY EndsAre
  <1>6. (s = 1 => e = a0) /\ (s = 4 => mode \in {"local", "listen"} /\ e = IF mode = "local" THEN a1 ELSE c1)
    BY <1>1, OpenSocket
  <1>7. CASE mode = "local"
    <2>1. PipeInv(1, 4, a0, a1) /\ PipeInv(4, 1, a1, a0)
      BY <1>7 DEF IInv, StreamInv
    <2>2. CASE s = 1
      <3>1. e = a0 /\ sock'[4] = sock[4] /\ ep'[a1] = ep[a1]
        BY <1>1, <1>5, <1>6, <2>2
      <3>2. g + k = sock[4].sent /\ k > 0 /\ Len(sock'[s].got) = g + 1 /\ Len(ep'[e].q) = k - 1
        BY <1>1, <1>2, <1>3, <2>1, <2>2, <3>1 DEF PipeInv
      <3>3. g # sock[4].sent /\ (g + 1) + (k - 1) = sock[4].sent
        BY <1>1, <1>4, <3>2
      <3>4. ~(sock[1].eof /\ "deaf" \notin sock[1].st)
        BY <1>3, <2>1, <2>2, <3>3 DEF PipeInv
      <3>5. Len(sock'[1].got) + Len(ep'[a0].q) = sock'[4].sent
        BY <2>2, <3>1, <3>2, <3>3, Zenon
      <3>6. PipeInv(1, 4, a0, a1)'
        BY <1>2, <2>1, <2>2, <3>1, <3>4, <3>5 DEF PipeInv
      <3>7. PipeInv(4, 1, a1, a0)'
        BY <2>1, <2>2, <3>1 DEF PipeInv
      <3> QED
        BY <1>7, <3>6, <3>7 DEF StreamInv, Tunneled, Conns
    <2>3. CASE s = 4
      <3>1. e = a1 /\ sock'[1] = sock[1] /\ ep'[a0] = ep[a0]
        BY <1>1, <1>5, <1>6, <1>7, <2>3
      <3>2. g + k = sock[1].sent /\ k > 0 /\ Len(sock'[s].got) = g + 1 /\ Len(ep'[e].q) = k - 1
        BY <1>1, <1>2, <1>3, <2>1, <2>3, <3>1 DEF PipeInv
      <3>3. g # sock[1].sent /\ (g + 1) + (k - 1) = sock[1].sent
        BY <1>1, <1>4, <3>2
      <3>4. ~(sock[4].eof /\ "deaf" \notin sock[4].st)
        BY <1>3, <2>1, <2>3, <3>3 DEF PipeInv
      <3>5. Len(sock'[4].got) + Len(ep'[a1].q) = sock'[1].sent
        BY <2>3, <3>1, <3>2, <3>3, Zenon
      <3>6. PipeInv(4, 1, a1, a0)'
        BY <1>2, <2>1, <2>3, <3>1, <3>4, <3>5 DEF PipeInv
      <3>7. PipeInv(1, 4, a0, a1)'
        BY <2>1, <2>3, <3>1 DEF PipeInv
      <3> QED
        BY <1>7, <3>6, <3>7 DEF StreamInv, Tunneled, Conns
    <2> QED
      BY <2>2, <2>3
  <1>8. ASSUME NEW c \in Conns, Tunneled(c)
        PROVE  (UpInv(c) /\ DownInv(c))'
    <2>1. UpInv(c) /\ DownInv(c)
      BY <1>8 DEF IInv, StreamInv
    <2>2. /\ conn[c].sent \in Nat /\ conn[c].down \in Seq(Nat) /\ conn' = conn /\ tun' = tun
      BY DEF IInv, TypeOK, ConnType
    <2>3. /\ s = GuestOf(c) => e = GuestEnd(c)
          /\ GuestEnd(c) \in Ends /\ BridgeEnd(c) \in Ends /\ GuestEnd(c) # BridgeEnd(c) /\ GuestOf(c) \in Sockets
      <3>1. c = "out" \/ c = "in"
        BY DEF Conns
      <3> QED
        BY <1>1, <1>5, <1>6, <1>8, <3>1, EndsOf DEF Tunneled
    <2>4. CASE s = GuestOf(c)
      <3>1. ep'[BridgeEnd(c)] = ep[BridgeEnd(c)]
        BY <2>3, <2>4
      <3>2. UpInv(c)'
        BY <2>1, <2>2, <2>3, <2>4, <3>1 DEF UpInv
      <3>3. PICK l \in Nat : Len(conn[c].down) = l
        BY <2>2
      <3>4. g + k + l = conn[c].sent /\ k > 0 /\ Len(sock'[s].got) = g + 1 /\ Len(ep'[e].q) = k - 1
        BY <1>1, <1>2, <1>3, <2>1, <2>3, <2>4, <3>3 DEF DownInv
      <3>5. g # conn[c].sent /\ (g + 1) + (k - 1) + l = conn[c].sent
        <4>1. ASSUME NEW total \in Nat, g + k + l = total, k > 0
              PROVE  g # total /\ (g + 1) + (k - 1) + l = total
          BY <1>3, <3>3, <4>1
        <4> QED
          BY <2>2, <3>4, <4>1
      <3>6. ~(sock[s].eof /\ "deaf" \notin sock[s].st)
        BY <1>3, <2>1, <2>4, <3>5 DEF DownInv
      <3>7. Len(sock'[s].got) + Len(ep'[e].q) + Len(conn[c].down) = conn[c].sent
        BY <3>3, <3>4, <3>5, Zenon
      <3>8. DownInv(c)'
        BY <1>2, <2>1, <2>2, <2>3, <2>4, <3>1, <3>6, <3>7 DEF DownInv
      <3> QED
        BY <3>2, <3>8
    <2>5. CASE s # GuestOf(c)
      <3>1. e # GuestEnd(c) /\ e # BridgeEnd(c)
        <4>1. (c = "out" \/ c = "in") /\ (mode = "dial" => s = 1) /\ (mode = "listen" => s = 4)
          <5>1. mode = "listen" => s # 1
            BY <1>1 DEF IInv, SocketInv, Opens
          <5> QED
            BY <1>6, <5>1 DEF Conns
        <4> QED
          BY <1>8, <2>5, <4>1, EndsOf DEF Tunneled
      <3>2. SameSocket(GuestOf(c)) /\ SameEnd(GuestEnd(c)) /\ SameEnd(BridgeEnd(c)) /\ SameConn(c)
        BY <2>2, <2>3, <2>5, <3>1 DEF SameSocket, SameEnd, SameConn
      <3> QED
        BY <2>1, <3>2, UpSame, DownSame
    <2> QED
      BY <2>4, <2>5
  <1>9. mode # "local" => \A c \in Conns : Tunneled(c)' => Tunneled(c)
    BY DEF Tunneled
  <1> QED
    BY <1>7, <1>8, <1>9 DEF StreamInv

\* A reader sees the end of a stream.
LEMMA EndStreams ==
    ASSUME IInv, IsStream, NEW s \in {1, 4}, sock[s].at = "open", NEW e \in Ends, e = sock[s].fd0, ep[e].q = <<>>,
           ep[e].shut \/ ep[Partner(e)].refs = {}, UNCHANGED <<mode, ep, conn, tun>>,
           sock'[s].got = sock[s].got, sock'[s].sent = sock[s].sent,
           sock'[s].st = sock[s].st, \A o \in Sockets : o # s => sock'[o] = sock[o]
    PROVE  StreamInv'
  <1>1. /\ sock[s].got \in Seq(Receipt) /\ ep[e].refs # {}
        /\ sock[1].sent \in Nat /\ sock[4].sent \in Nat /\ 1 \in Sockets /\ 4 \in Sockets /\ s \in Sockets
    <2>1. s \in Sockets /\ 1 \in Sockets /\ 4 \in Sockets
      BY DEF Sockets
    <2>2. ep[e].refs # {}
      BY <2>1, OpenSocket
    <2> QED
      BY <2>1, <2>2 DEF IInv, TypeOK, SocketRecord
  <1>2. PICK g \in Nat : Len(sock[s].got) = g
    BY <1>1
  <1>3. Len(ep[e].q) = 0
    <2>1. Len(<<>>) = 0
      OBVIOUS
    <2> QED
      BY <2>1, Zenon
  <1>4. (s = 1 => e = a0) /\ (s = 4 => mode \in {"local", "listen"} /\ e = IF mode = "local" THEN a1 ELSE c1)
    BY <1>1, OpenSocket
  <1>5. CASE mode = "local"
    <2>1. PipeInv(1, 4, a0, a1) /\ PipeInv(4, 1, a1, a0)
      BY <1>5 DEF IInv, StreamInv
    <2>2. CASE s = 1
      <3>1. e = a0 /\ Partner(e) = a1 /\ sock'[4] = sock[4]
        BY <1>1, <1>4, <2>2, PartnersAre
      <3>2. g + 0 = sock[4].sent
        BY <1>1, <1>2, <1>3, <2>1, <2>2, <3>1 DEF PipeInv
      <3>3. Len(sock[1].got) = sock[4].sent
        BY <1>1, <1>2, <2>2, <3>2
      <3>4. PipeInv(1, 4, a0, a1)'
        BY <2>1, <2>2, <3>1, <3>3 DEF PipeInv
      <3>5. PipeInv(4, 1, a1, a0)'
        BY <2>1, <2>2, <3>1 DEF PipeInv
      <3> QED
        BY <1>5, <3>4, <3>5 DEF StreamInv, Tunneled, Conns
    <2>3. CASE s = 4
      <3>1. e = a1 /\ Partner(e) = a0 /\ sock'[1] = sock[1]
        BY <1>1, <1>4, <1>5, <2>3, PartnersAre
      <3>2. g + 0 = sock[1].sent
        BY <1>1, <1>2, <1>3, <2>1, <2>3, <3>1 DEF PipeInv
      <3>3. Len(sock[4].got) = sock[1].sent
        BY <1>1, <1>2, <2>3, <3>2
      <3>4. PipeInv(4, 1, a1, a0)'
        BY <2>1, <2>3, <3>1, <3>3 DEF PipeInv
      <3>5. PipeInv(1, 4, a0, a1)'
        BY <2>1, <2>3, <3>1 DEF PipeInv
      <3> QED
        BY <1>5, <3>4, <3>5 DEF StreamInv, Tunneled, Conns
    <2> QED
      BY <2>2, <2>3
  <1>6. ASSUME NEW c \in Conns, Tunneled(c)
        PROVE  (UpInv(c) /\ DownInv(c))'
    <2>1. UpInv(c) /\ DownInv(c)
      BY <1>6 DEF IInv, StreamInv
    <2>2. /\ conn[c].sent \in Nat /\ conn[c].down \in Seq(Nat) /\ Len(conn[c].down) \in Nat /\ conn' = conn /\ tun' = tun /\ ep' = ep
          /\ tun[c].at \in {"none", "run", "done", "failed"}
      BY DEF IInv, TypeOK, ConnType, TunnelType
    <2>3. s = GuestOf(c) /\ e = GuestEnd(c) /\ Partner(e) = BridgeEnd(c)
      <3>1. c = "out" \/ c = "in"
        BY DEF Conns
      <3>2. (mode = "dial" => s = 1) /\ (mode = "listen" => s = 4)
        <4>1. mode = "listen" => s # 1
          BY <1>1 DEF IInv, SocketInv, Opens
        <4> QED
          BY <1>4, <4>1
      <3> QED
        BY <1>4, <1>6, <3>1, <3>2, EndsOf, PartnersAre DEF Tunneled
    <2>4. UpInv(c)'
      BY <2>1, <2>2, <2>3 DEF UpInv
    <2>5. g + 0 + Len(conn[c].down) = conn[c].sent
      BY <1>1, <1>2, <1>3, <2>1, <2>3 DEF DownInv
    <2>6. "deaf" \notin sock[s].st =>
             /\ conn[c].down = <<>>
             /\ conn[c].end # "no" \/ tun[c].at \in {"done", "failed"} \/ (tun[c].at = "none" /\ ep[BridgeEnd(c)].refs = {})
      <3>1. CASE ep[e].shut
        BY <1>1, <2>1, <2>3, <3>1 DEF DownInv
      <3>2. CASE ~ep[e].shut
        <4>1. ep[BridgeEnd(c)].refs = {}
          BY <2>3, <3>2
        <4>2. tun[c].at # "run"
          <5>1. c = "out" \/ c = "in"
            BY DEF Conns
          <5> QED
            BY <4>1, <5>1, EndsOf DEF IInv, ConnInv, RefInv, PairA, PairC
        <4>3. tun[c].at = "none" \/ tun[c].at = "failed"
          <5>1. tun[c].at = "done" => ep[e].shut
            BY <2>1, <2>3 DEF DownInv, IInv, ConnInv
          <5> QED
            BY <2>2, <3>2, <4>2, <5>1
        <4>4. conn[c].down = <<>>
          <5>1. CASE tun[c].at = "none"
            BY <5>1 DEF IInv, ConnInv, Blank
          <5>2. CASE tun[c].at = "failed"
            BY <5>2 DEF Conns, IInv, ConnInv
          <5> QED
            BY <4>3, <5>1, <5>2
        <4> QED
          BY <4>1, <4>3, <4>4
      <3> QED
        BY <3>1, <3>2
    <2>7. "deaf" \notin sock[s].st => Len(sock[s].got) = conn[c].sent
      <3>1. Len(<<>>) = 0
        OBVIOUS
      <3>2. "deaf" \notin sock[s].st => g + 0 + 0 = conn[c].sent
        BY <2>5, <2>6, <3>1
      <3> QED
        BY <1>2, <3>2
    <2>8. DownInv(c)'
      BY <2>1, <2>2, <2>3, <2>6, <2>7 DEF DownInv
    <2> QED
      BY <2>4, <2>8
  <1>7. \A c \in Conns : Tunneled(c)' => Tunneled(c)
    BY DEF Tunneled
  <1> QED
    BY <1>5, <1>6, <1>7 DEF StreamInv

\* The call of recvmsg that is pending.
LEMMA PendingRecv ==
    ASSUME IInv, NEW s \in Sockets, sock[s].call.op = "recv"
    PROVE  /\ sock[s].at = "open" /\ ~Server(s) /\ sock[s] \in SocketRecord /\ sock[s].fd0 \in Ends /\ ep[sock[s].fd0].refs # {}
           /\ IsStream => s \in {1, 4} /\ sock[s].fd0 \in {a0, a1, c1}
           /\ ~IsStream => s \in {1, 2} /\ (s = 1 => sock[s].fd0 = a0) /\ (s = 2 => sock[s].fd0 = b0)
           /\ mode = "packets" => ~IsStream
  <1>1. sock[s].at = "open" /\ ~Server(s)
    <2>1. sock[s].call # idle
      BY NoneAssumption DEF idle
    <2> QED
      BY <2>1 DEF IInv, SocketInv, CallInv, Silent, Server
  <1>2. /\ sock[s] \in SocketRecord /\ s \in {1, 2, 4} /\ sock[s].fd0 \in Ends /\ ep[sock[s].fd0].refs # {}
        /\ s = 1 => sock[s].fd0 = a0
        /\ s = 2 => sock[s].fd0 = b0
        /\ s = 4 => mode \in {"local", "listen"} /\ sock[s].fd0 = IF mode = "local" THEN a1 ELSE c1
    BY <1>1, OpenSocket
  <1>3. s = 2 => ~IsStream
    BY <1>1 DEF IInv, SocketInv, Opens, Server, IsStream, TypeOf
  <1>4. s = 4 => IsStream
    BY <1>2 DEF IsStream, TypeOf
  <1> QED
    BY <1>1, <1>2, <1>3, <1>4 DEF IsStream, TypeOf

\* Received, when there is nothing to read.
LEMMA NothingReceivedKeeps ==
    ASSUME IInv, NEW s \in Sockets, sock[s].call.op = "recv", NEW r \in SocketRecord, r = [sock[s] EXCEPT !.call = idle],
           sock' = [sock EXCEPT ![s] = r], UNCHANGED <<mode, ep, task, conn, tun, heard>>
    PROVE  IInv'
  <1>1. sock[s].at = "open" /\ ~Server(s) /\ sock[s] \in SocketRecord
    BY PendingRecv
  <1>2. idle \in CallType /\ idle.op # "send"
    BY NoneAssumption DEF idle, CallType, EndOrNone
  <1>3. Soft(sock[s], r) /\ r.call = idle
    BY <1>1, <1>2, CallSoft
  <1> QED
    BY <1>1, <1>2, <1>3, NoTaskChange, SockKeeps

\* Received, at the end of a stream.
LEMMA EndReceivedKeeps ==
    ASSUME IInv, NEW s \in Sockets, sock[s].call.op = "recv", AtEnd(ep, sock[s].fd0),
           NEW r, r = [sock[s] EXCEPT !.call = idle],
           NEW x, x = [r EXCEPT !.eof = TRUE],
           sock' = [sock EXCEPT ![s] = x], UNCHANGED <<mode, ep, task, conn, tun, heard>>
    PROVE  IInv'
  <1>1. sock[s].at = "open" /\ ~Server(s) /\ sock[s] \in SocketRecord
    BY PendingRecv
  <1>2. idle \in CallType /\ idle.op # "send"
    BY NoneAssumption DEF idle, CallType, EndOrNone
  <1>3. /\ x \in SocketRecord /\ x.call = idle /\ x.sent = sock[s].sent /\ x.got = sock[s].got /\ x.st = sock[s].st
        /\ Moved(sock[s], x)
    BY <1>1, <1>2 DEF SocketRecord, Moved
  <1>4. sock' \in [Sockets -> SocketRecord] /\ sock'[s] = x /\ \A o \in Sockets : o # s => sock'[o] = sock[o]
    BY <1>3, SockIs DEF IInv
  <1>5. IsStream /\ s \in {1, 4} /\ sock[s].fd0 \in Ends
    BY PendingRecv DEF AtEnd, IsStream
  <1>6. ep[sock[s].fd0].q = <<>> /\ (ep[sock[s].fd0].shut \/ ep[Partner(sock[s].fd0)].refs = {})
    BY DEF AtEnd
  <1>7. TypeOK'
    BY <1>4 DEF IInv, TypeOK
  <1>8. CallInv'
    <2>1. Server(2)' => Silent(sock'[2])
      BY <1>4, <1>5 DEF IInv, CallInv, Server, Sockets
    <2> QED
      BY <1>2, <1>3, <1>4, <2>1 DEF IInv, CallInv, IsStream
  <1>9. StreamInv'
    BY <1>1, <1>3, <1>4, <1>5, <1>6, EndStreams
  <1>10. DatagramInv'
    BY <1>5 DEF DatagramInv, IsStream, TypeOf
  <1>11. \A o \in Sockets : Moved(sock[o], sock'[o])
    BY <1>3, <1>4 DEF Moved
  <1>12. \A e \in Ends : MovedEnd(e)
    BY DEF MovedEnd, IInv, RefInv, NoRefs, QueueInv
  <1> QED
    BY <1>7, <1>8, <1>9, <1>10, <1>11, <1>12, MoveKeeps

\* Received, when a message is taken.
LEMMA MessageReceivedKeeps ==
    ASSUME IInv, NEW s \in Sockets, sock[s].call.op = "recv", NEW e \in Ends, e = sock[s].fd0, Readable(ep, e), ep' = Take(ep, e),
           NEW y \in SocketRecord, sock' = [sock EXCEPT ![s] = y], Moved(sock[s], y), y.sent = sock[s].sent, y.eof = sock[s].eof,
           y.call \in {idle, sock[s].call},
           NEW x \in Receipt, ReceiptOf(x, ep[e].q[1]), x.peer = sock[s].peer,
           OneMore(sock[s], y, x) \/ (y.got = sock[s].got /\ ~IsStream),
           OneMore(sock[s], y, x) /\ mode = "packets" /\ x.peer # None => x.from = x.peer,
           UNCHANGED <<mode, task, conn, tun, heard>>
    PROVE  IInv'
  <1>1. /\ sock[s].at = "open" /\ ~Server(s) /\ sock[s] \in SocketRecord /\ ep[e].refs # {} /\ ep[e].q # <<>>
        /\ ep \in [Ends -> UnixSocket] /\ (IsStream' <=> IsStream)
    BY PendingRecv DEF Readable, IInv, TypeOK, IsStream
  <1>2. /\ ep' \in [Ends -> UnixSocket] /\ \A z \in Ends : z # e => ep'[z] = ep[z]
        /\ ep'[e].refs = ep[e].refs /\ ep'[e].shut = ep[e].shut /\ ep'[e].q = Tail(ep[e].q)
    BY <1>1, TakeIs
  <1>3. sock' \in [Sockets -> SocketRecord] /\ sock'[s] = y /\ \A o \in Sockets : o # s => sock'[o] = sock[o]
    BY SockIs DEF IInv
  <1>4. TypeOK'
    BY <1>2, <1>3 DEF IInv, TypeOK
  <1>5. CallInv'
    <2>1. Server(2)' => Silent(sock'[2])
      <3>1. 2 \in Sockets
        BY DEF Sockets
      <3>2. CASE s = 2
        BY <1>1, <3>2 DEF Server
      <3>3. CASE s # 2
        BY <1>3, <3>1, <3>3 DEF IInv, CallInv, Server
      <3> QED
        BY <3>2, <3>3
    <2>2. sock'[s].call.op # "send"
      BY <1>3, NoneAssumption DEF idle
    <2> QED
      BY <1>1, <1>3, <2>1, <2>2 DEF IInv, CallInv
  <1>6. ~(IsStream /\ e \in {b0, b1})
    BY EndsAre, PendingRecv
  <1>7. \A z \in Ends : MovedEnd(z)
    <2>1. ASSUME NEW z \in Ends, z # e
          PROVE  MovedEnd(z)
      <3>1. ep'[z] = ep[z]
        BY <1>2, <2>1
      <3>2. ep[z].refs = {} => ep[z].q = <<>>
        BY DEF IInv, RefInv, NoRefs
      <3>3. ~(IsStream /\ z = b0) => \A i \in DOMAIN ep[z].q : ep[z].q[i].fd = None
        BY DEF IInv, QueueInv
      <3> QED
        BY <3>1, <3>2, <3>3 DEF MovedEnd
    <2>2. MovedEnd(e)
      <3>1. ep[e].q \in Seq(Message) /\ \A i \in DOMAIN ep[e].q : ep[e].q[i].fd = None
        BY <1>1, <1>6 DEF UnixSocket, IInv, QueueInv
      <3>2. \A i \in DOMAIN Tail(ep[e].q) : Tail(ep[e].q)[i].fd = None
        BY <1>1, <3>1
      <3> QED
        BY <1>1, <1>2, <1>6, <3>2, Zenon DEF MovedEnd
    <2> QED
      BY <2>1, <2>2
  <1>8. \A o \in Sockets : Moved(sock[o], sock'[o])
    BY <1>3 DEF Moved
  <1>9. StreamInv'
    <2>1. CASE IsStream
      <3>1. s \in {1, 4} /\ OneMore(sock[s], y, x) /\ y.st = sock[s].st
        BY <2>1, PendingRecv DEF Moved
      <3>2. /\ OneMore(sock[s], sock'[s], x) /\ sock'[s].sent = sock[s].sent /\ sock'[s].eof = sock[s].eof
            /\ sock'[s].st = sock[s].st /\ \A o \in Sockets : o # s => sock'[o] = sock[o]
        BY <1>3, <3>1
      <3>3. UNCHANGED <<mode, conn, tun>>
        OBVIOUS
      <3> QED
        <4>1. OneLess(e)
          BY <1>2 DEF OneLess
        <4>2. e = sock[s].fd0 /\ x.n = ep[e].q[1].n /\ ep'[e].refs = ep[e].refs /\ ep'[e].shut = ep[e].shut
          BY <1>2 DEF ReceiptOf
        <4>3. \A z \in Ends : z # e => ep'[z] = ep[z]
          BY <1>2
        <4> QED
          BY <1>1, <2>1, <3>1, <3>2, <3>3, <4>1, <4>2, <4>3, ReadStreams, Zenon
    <2>2. CASE ~IsStream
      BY <1>1, <2>2 DEF StreamInv, Tunneled, IsStream, TypeOf
    <2> QED
      BY <2>1, <2>2
  <1>10. DatagramInv'
    <2> SUFFICES ASSUME mode = "packets"
                 PROVE  Mail(ep'[a0].q, sock'[1].got, SentBy') /\ Mail(ep'[b0].q, sock'[2].got, SentBy')
      BY DEF DatagramInv, MailInv
    <2>1. ~IsStream /\ s \in {1, 2} /\ (s = 1 => e = a0) /\ (s = 2 => e = b0) /\ 1 \in Sockets /\ 2 \in Sockets
      BY PendingRecv DEF Sockets
    <2>2. /\ ep[a0].q \in Seq(Message) /\ ep[b0].q \in Seq(Message) /\ sock[1].got \in Seq(Receipt) /\ sock[2].got \in Seq(Receipt)
      BY QueueTypes
    <2>3. SentBy \in [Senders -> Nat] /\ SentBy' = SentBy
      <3>1. SentBy \in [Senders -> Nat]
        BY SentType DEF IInv
      <3>2. sock'[1].sent = sock[1].sent /\ sock'[2].sent = sock[2].sent
        BY <1>3, <2>1
      <3> QED
        BY <3>1, <3>2, SentSame
    <2>4. Mail(ep[a0].q, sock[1].got, SentBy) /\ Mail(ep[b0].q, sock[2].got, SentBy)
      BY DEF IInv, DatagramInv, MailInv
    <2>5. Mail(ep[e].q, sock[s].got, SentBy) /\ ep[e].q \in Seq(Message) /\ sock[s].got \in Seq(Receipt)
      BY <2>1, <2>2, <2>4
    <2>6. PICK q, m : q = ep[e].q /\ m = q[1] /\ q \in Seq(Message) /\ q # <<>> /\ Mail(q, sock[s].got, SentBy)
      BY <1>1, <2>5
    <2>7. /\ Mail(Tail(q), sock[s].got, SentBy)
          /\ q[1].by \in Senders /\ q[1].from = q[1].by /\ q[1].n <= SentBy[q[1].by]
          /\ \A i \in DOMAIN sock[s].got : sock[s].got[i].by = q[1].by => sock[s].got[i].n < q[1].n
          /\ \A j \in DOMAIN Tail(q) : q[1].by = Tail(q)[j].by => q[1].n < Tail(q)[j].n
      BY <2>3, <2>5, <2>6, MailTaken, Zenon
    <2>8. Tail(q) \in Seq(Message)
      BY <2>6
    <2>9. x.by = m.by /\ x.from = m.from /\ x.n = m.n
      BY <2>6 DEF ReceiptOf
    <2>10. /\ Mail(Tail(ep[e].q), sock[s].got, SentBy) /\ Tail(ep[e].q) \in Seq(Message)
           /\ x.by \in Senders /\ x.from = x.by /\ x.n <= SentBy[x.by]
           /\ \A i \in DOMAIN sock[s].got : sock[s].got[i].by = x.by => sock[s].got[i].n < x.n
           /\ \A j \in DOMAIN Tail(ep[e].q) : x.by = Tail(ep[e].q)[j].by => x.n < Tail(ep[e].q)[j].n
      BY <2>6, <2>7, <2>8, <2>9, Zenon
    <2>11. Mail(Tail(ep[e].q), y.got, SentBy)
      <3>1. CASE OneMore(sock[s], y, x)
        <4>1. x.peer # None => x.from = x.peer
          BY <3>1
        <4> QED
          BY <2>3, <2>5, <2>10, <3>1, <4>1, MailReceived, Zenon DEF OneMore
      <3>2. CASE y.got = sock[s].got
        BY <2>10, <3>2, Zenon
      <3> QED
        BY <3>1, <3>2
    <2>12. CASE s = 1
      <3>1. ep'[a0].q = Tail(ep[e].q) /\ sock'[1].got = y.got /\ ep'[b0].q = ep[b0].q /\ sock'[2].got = sock[2].got
        BY <1>2, <1>3, <2>1, <2>12, EndsAre
      <3> QED
        BY <2>3, <2>4, <2>11, <3>1
    <2>13. CASE s = 2
      <3>1. ep'[b0].q = Tail(ep[e].q) /\ sock'[2].got = y.got /\ ep'[a0].q = ep[a0].q /\ sock'[1].got = sock[1].got
        BY <1>2, <1>3, <2>1, <2>13, EndsAre
      <3> QED
        BY <2>3, <2>4, <2>11, <3>1
    <2> QED
      BY <2>1, <2>12, <2>13
  <1> QED
    BY <1>4, <1>5, <1>7, <1>8, <1>9, <1>10, MoveKeeps

\* Received.
LEMMA ReceivedKeeps ==
    ASSUME IInv, NEW s \in Sockets, Received(s)
    PROVE  IInv'
  <1>1. sock[s].call.op = "recv" /\ UNCHANGED <<mode, task, conn, tun, heard>>
    BY DEF Received
  <1>2. sock[s] \in SocketRecord /\ sock[s].fd0 \in Ends /\ sock[s].at = "open" /\ (mode = "packets" => ~IsStream)
    BY <1>1, PendingRecv
  <1>3. PICK e \in Ends : e = sock[s].fd0
    BY <1>2
  <1>4. PICK r : r = [sock[s] EXCEPT !.call = idle]
    OBVIOUS
  <1>5. /\ r \in SocketRecord /\ Moved(sock[s], r) /\ r.sent = sock[s].sent /\ r.eof = sock[s].eof /\ r.call = idle
        /\ r.got = sock[s].got /\ r.peer = sock[s].peer
    <2>1. idle \in CallType
      BY DEF idle, CallType, EndOrNone
    <2> QED
      BY <1>2, <1>4, <2>1 DEF SocketRecord, Moved
  <1> DEFINE m == Head(ep[e].q)
             x == [by |-> m.by, from |-> m.from, n |-> m.n, peer |-> r.peer]
             y == IF Accepts(s, m) THEN [r EXCEPT !.got = Append(r.got, x)]
                  ELSE IF Blocking(s) THEN sock[s] ELSE r
  <1>6. \/ Readable(ep, e) /\ ep' = Take(ep, e) /\ sock' = [sock EXCEPT ![s] = y]
        \/ AtEnd(ep, e) /\ ep' = ep /\ sock' = [sock EXCEPT ![s] = [r EXCEPT !.eof = TRUE]]
        \/ ep' = ep /\ sock' = [sock EXCEPT ![s] = r]
    BY <1>3, <1>4 DEF Received
  <1> HIDE DEF y
  <1>7. CASE Readable(ep, e) /\ ep' = Take(ep, e) /\ sock' = [sock EXCEPT ![s] = y]
    <2>1. ep[e].q \in Seq(Message) /\ ep[e].q # <<>>
      BY <1>7 DEF Readable, IInv, TypeOK, UnixSocket
    <2>2. m \in Message /\ m = ep[e].q[1]
      BY <2>1
    <2>3. x \in Receipt /\ ReceiptOf(x, ep[e].q[1]) /\ x.peer = sock[s].peer
      BY <1>2, <1>5, <2>2 DEF Message, Receipt, SocketRecord, ReceiptOf
    <2> HIDE DEF x
    <2>4. CASE Accepts(s, m)
      <3>1. y = [r EXCEPT !.got = Append(r.got, x)]
        BY <2>4 DEF y, x
      <3>2. Append(r.got, x) \in Seq(Receipt)
        BY <1>5, <2>3 DEF SocketRecord
      <3>3. /\ y \in SocketRecord /\ Moved(sock[s], y) /\ y.sent = sock[s].sent /\ y.eof = sock[s].eof /\ y.call = idle
            /\ OneMore(sock[s], y, x)
        BY <1>2, <1>5, <3>1, <3>2 DEF SocketRecord, Moved, OneMore
      <3>4. mode = "packets" /\ x.peer # None => x.from = x.peer
        BY <1>2, <2>2, <2>3, <2>4 DEF Accepts, IInv, StateInv, Is, TypeOf, ReceiptOf
      <3> QED
        BY <1>1, <1>3, <1>7, <2>3, <3>3, <3>4, MessageReceivedKeeps
    <2>5. CASE ~Accepts(s, m)
      <3>1. y \in {sock[s], r} /\ ~IsStream
        BY <2>5 DEF y, Accepts, IsStream, TypeOf
      <3>2. /\ y \in SocketRecord /\ Moved(sock[s], y) /\ y.sent = sock[s].sent /\ y.eof = sock[s].eof /\ y.call \in {idle, sock[s].call}
            /\ y.got = sock[s].got
        BY <1>2, <1>5, <3>1 DEF Moved
      <3>3. ~OneMore(sock[s], y, x)
        BY <1>2, <2>3, <3>2 DEF SocketRecord, OneMore
      <3> QED
        BY <1>1, <1>3, <1>7, <2>3, <3>1, <3>2, <3>3, MessageReceivedKeeps
    <2> QED
      BY <2>4, <2>5
  <1>8. CASE AtEnd(ep, e) /\ ep' = ep /\ sock' = [sock EXCEPT ![s] = [r EXCEPT !.eof = TRUE]]
    BY <1>1, <1>3, <1>4, <1>8, EndReceivedKeeps
  <1>9. CASE ep' = ep /\ sock' = [sock EXCEPT ![s] = r]
    BY <1>1, <1>4, <1>5, <1>9, NothingReceivedKeeps
  <1> QED
    BY <1>6, <1>7, <1>8, <1>9

\* What is in flight: the cells after the first k, up to the last one sent.
InFlight(q, k, sent) == Consecutive(q, k) /\ k + Len(q) = sent

\* A guest sends one more cell.
LEMMA NextCell ==
    ASSUME NEW q \in Seq(Message), NEW m \in Message, NEW k \in Nat, NEW sent \in Nat, InFlight(q, k, sent), m.n = sent + 1
    PROVE  InFlight(Append(q, m), k, sent + 1)
  <1>1. Len(q) \in Nat /\ m.n = k + Len(q) + 1
    BY DEF InFlight
  <1>2. Consecutive(Append(q, m), k) /\ Len(Append(q, m)) = Len(q) + 1
    BY <1>1, CellWritten DEF InFlight
  <1> QED
    BY <1>1, <1>2 DEF InFlight

\* A stream is written.
LEMMA WriteStreams ==
    ASSUME IInv, IsStream, NEW s \in {1, 4}, sock[s].at = "open",
           NEW e \in Ends, NEW f \in Ends, e = sock[s].fd0, f = Partner(e), ep[f].refs # {}, ~ep[f].shut,
           NEW m \in Message, SendsNext(sock[s], sock'[s], m), UNCHANGED <<mode, conn, tun>>,
           sock'[s].got = sock[s].got, sock'[s].eof = sock[s].eof,
           sock'[s].st = sock[s].st, \A o \in Sockets : o # s => sock'[o] = sock[o],
           Queued(f, m), ep'[f].refs = ep[f].refs, ep'[f].shut = ep[f].shut, \A y \in Ends : y # f => SameEnd(y)
    PROVE  StreamInv'
  <1>1. /\ ep[f].q \in Seq(Message) /\ ep[e].refs # {} /\ sock[1].sent \in Nat /\ sock[4].sent \in Nat
        /\ sock[1].got \in Seq(Receipt) /\ sock[4].got \in Seq(Receipt) /\ 1 \in Sockets /\ 4 \in Sockets /\ s \in Sockets
    <2>1. s \in Sockets /\ 1 \in Sockets /\ 4 \in Sockets
      BY DEF Sockets
    <2>2. ep[e].refs # {}
      BY <2>1, OpenSocket
    <2> QED
      BY <2>1, <2>2 DEF IInv, TypeOK, SocketRecord, UnixSocket
  <1>2. (s = 1 => e = a0) /\ (s = 4 => mode \in {"local", "listen"} /\ e = IF mode = "local" THEN a1 ELSE c1)
    BY <1>1, OpenSocket
  <1>3. e # f /\ ep'[e].q = ep[e].q /\ ep'[e].shut = ep[e].shut /\ (ep'[e].refs = {} <=> ep[e].refs = {})
    BY PartnersAre DEF SameEnd
  <1>4. CASE mode = "local"
    <2>1. PipeInv(1, 4, a0, a1) /\ PipeInv(4, 1, a1, a0)
      BY <1>4 DEF IInv, StreamInv
    <2>2. CASE s = 1
      <3>1. e = a0 /\ f = a1 /\ sock'[4] = sock[4]
        BY <1>1, <1>2, <2>2, PartnersAre
      <3>2. Len(sock[4].got) + Len(ep[a1].q) = sock[1].sent /\ Consecutive(ep[a1].q, Len(sock[4].got))
        BY <2>1, <3>1 DEF PipeInv
      <3>3. Consecutive(ep'[a1].q, Len(sock[4].got)) /\ Len(sock[4].got) + Len(ep'[a1].q) = sock'[1].sent
        <4>1. Len(sock[4].got) \in Nat /\ ep[a1].q \in Seq(Message) /\ sock[1].sent \in Nat /\ m.n = sock[1].sent + 1
          BY <1>1, <2>2, <3>1 DEF SendsNext
        <4>2. InFlight(ep[a1].q, Len(sock[4].got), sock[1].sent)
          BY <3>2 DEF InFlight
        <4>3. InFlight(Append(ep[a1].q, m), Len(sock[4].got), sock[1].sent + 1)
          BY <4>1, <4>2, NextCell, Zenon
        <4>4. ep'[a1].q = Append(ep[a1].q, m) /\ sock'[1].sent = sock[1].sent + 1
          BY <2>2, <3>1 DEF Queued, SendsNext
        <4> QED
          BY <4>3, <4>4, Zenon DEF InFlight
      <3>4. ~(sock[4].eof /\ "deaf" \notin sock[4].st)
        BY <1>1, <2>1, <3>1 DEF PipeInv
      <3>5. PipeInv(4, 1, a1, a0)'
        BY <2>1, <3>1, <3>3, <3>4 DEF PipeInv
      <3>6. PipeInv(1, 4, a0, a1)'
        BY <1>3, <2>1, <2>2, <3>1, Zenon DEF PipeInv
      <3> QED
        BY <1>4, <3>5, <3>6 DEF StreamInv, Tunneled, Conns
    <2>3. CASE s = 4
      <3>1. e = a1 /\ f = a0 /\ sock'[1] = sock[1]
        BY <1>1, <1>2, <1>4, <2>3, PartnersAre
      <3>2. Len(sock[1].got) + Len(ep[a0].q) = sock[4].sent /\ Consecutive(ep[a0].q, Len(sock[1].got))
        BY <2>1, <3>1 DEF PipeInv
      <3>3. Consecutive(ep'[a0].q, Len(sock[1].got)) /\ Len(sock[1].got) + Len(ep'[a0].q) = sock'[4].sent
        <4>1. Len(sock[1].got) \in Nat /\ ep[a0].q \in Seq(Message) /\ sock[4].sent \in Nat /\ m.n = sock[4].sent + 1
          BY <1>1, <2>3, <3>1 DEF SendsNext
        <4>2. InFlight(ep[a0].q, Len(sock[1].got), sock[4].sent)
          BY <3>2 DEF InFlight
        <4>3. InFlight(Append(ep[a0].q, m), Len(sock[1].got), sock[4].sent + 1)
          BY <4>1, <4>2, NextCell, Zenon
        <4>4. ep'[a0].q = Append(ep[a0].q, m) /\ sock'[4].sent = sock[4].sent + 1
          BY <2>3, <3>1 DEF Queued, SendsNext
        <4> QED
          BY <4>3, <4>4, Zenon DEF InFlight
      <3>4. ~(sock[1].eof /\ "deaf" \notin sock[1].st)
        BY <1>1, <2>1, <3>1 DEF PipeInv
      <3>5. PipeInv(1, 4, a0, a1)'
        BY <2>1, <3>1, <3>3, <3>4 DEF PipeInv
      <3>6. PipeInv(4, 1, a1, a0)'
        BY <1>3, <2>1, <2>3, <3>1 DEF PipeInv
      <3> QED
        BY <1>4, <3>5, <3>6 DEF StreamInv, Tunneled, Conns
    <2> QED
      BY <2>2, <2>3
  <1>5. ASSUME NEW c \in Conns, Tunneled(c)
        PROVE  (UpInv(c) /\ DownInv(c))'
    <2>1. UpInv(c) /\ DownInv(c)
      BY <1>5 DEF IInv, StreamInv
    <2>2. conn[c].got \in Seq([n : Nat, tls : BOOLEAN]) /\ conn' = conn /\ tun' = tun
      BY DEF IInv, TypeOK, ConnType
    <2>3. s = GuestOf(c) /\ e = GuestEnd(c) /\ f = BridgeEnd(c)
      <3>1. c = "out" \/ c = "in"
        BY DEF Conns
      <3>2. (mode = "dial" => s = 1) /\ (mode = "listen" => s = 4)
        <4>1. mode = "listen" => s # 1
          BY <1>1 DEF IInv, SocketInv, Opens
        <4> QED
          BY <1>2, <4>1
      <3> QED
        BY <1>2, <1>5, <3>1, <3>2, EndsOf, PartnersAre DEF Tunneled
    <2>4. ~(conn[c].upEnd /\ conn[c].end # "full")
      BY <1>1, <2>1, <2>3 DEF UpInv
    <2>5. tun[c].at = "none" \/ ~tun[c].up =>
             Consecutive(ep'[f].q, Len(conn[c].got)) /\ Len(conn[c].got) + Len(ep'[f].q) = sock'[s].sent
      <3>1. ASSUME tun[c].at = "none" \/ ~tun[c].up
            PROVE  Consecutive(ep[f].q, Len(conn[c].got)) /\ Len(conn[c].got) + Len(ep[f].q) = sock[s].sent
        BY <2>1, <2>3, <3>1 DEF UpInv
      <3>2. sock[s].sent \in Nat /\ Len(conn[c].got) \in Nat
        BY <1>1, <2>2
      <3>3. ASSUME tun[c].at = "none" \/ ~tun[c].up
            PROVE  InFlight(Append(ep[f].q, m), Len(conn[c].got), sock[s].sent + 1)
        <4>1. InFlight(ep[f].q, Len(conn[c].got), sock[s].sent)
          BY <3>1, <3>3 DEF InFlight
        <4> QED
          BY <1>1, <3>2, <4>1, NextCell, Zenon DEF SendsNext
      <3> QED
        BY <3>3, Zenon DEF InFlight, Queued, SendsNext
    <2>6. UpInv(c)'
      BY <2>1, <2>2, <2>3, <2>4, <2>5 DEF UpInv
    <2>7. DownInv(c)'
      BY <1>3, <2>1, <2>2, <2>3 DEF DownInv
    <2> QED
      BY <2>6, <2>7
  <1>6. \A c \in Conns : Tunneled(c)' => Tunneled(c)
    BY DEF Tunneled
  <1> QED
    BY <1>4, <1>5, <1>6 DEF StreamInv

\* The call of sendmsg that is pending.
LEMMA PendingSend ==
    ASSUME IInv, NEW s \in Sockets, sock[s].call.op = "send"
    PROVE  /\ sock[s].at = "open" /\ ~Server(s) /\ sock[s] \in SocketRecord /\ sock[s].fd0 \in Ends /\ ep[sock[s].fd0].refs # {}
           /\ IsStream => s \in {1, 4} /\ sock[s].fd0 \in {a0, a1, c1}
           /\ ~IsStream => s \in {1, 2} /\ (s = 1 => sock[s].fd0 = a0) /\ (s = 2 => sock[s].fd0 = b0)
           /\ \/ sock[s].call.to = None /\ sock[s].call.fd = sock[s].fd0 /\ "connected" \in sock[s].st
              \/ ~IsStream /\ s \in {1, 2} /\ sock[s].call.to = 3 - s /\ sock[s].call.fd = <<3 - s, 1>>
  <1>1. sock[s].at = "open" /\ ~Server(s)
    <2>1. sock[s].call # idle
      BY NoneAssumption DEF idle
    <2> QED
      BY <2>1 DEF IInv, SocketInv, CallInv, Silent, Server
  <1>2. /\ sock[s] \in SocketRecord /\ s \in {1, 2, 4} /\ sock[s].fd0 \in Ends /\ ep[sock[s].fd0].refs # {}
        /\ s = 1 => sock[s].fd0 = a0
        /\ s = 2 => sock[s].fd0 = b0
        /\ s = 4 => mode \in {"local", "listen"} /\ sock[s].fd0 = IF mode = "local" THEN a1 ELSE c1
    BY <1>1, OpenSocket
  <1>3. s = 2 => ~IsStream
    BY <1>1 DEF IInv, SocketInv, Opens, Server, IsStream, TypeOf
  <1>4. s = 4 => IsStream
    BY <1>2 DEF IsStream, TypeOf
  <1> QED
    BY <1>1, <1>2, <1>3, <1>4 DEF IInv, CallInv

\* The call may first acquire the file of its UNIX socket.
Lent(E, e) == E = ep \/ E = Hold(ep, e, "file0")

\* Sent, when the message is written to fd0.
LEMMA WriteKeeps ==
    ASSUME IInv, NEW s \in Sockets, sock[s].call.op = "send", "connected" \in sock[s].st,
           NEW e \in Ends, NEW f \in Ends, e = sock[s].fd0, f = Partner(e), ep[f].refs # {}, ~ep[f].shut,
           NEW E1 \in [Ends -> UnixSocket], Lent(E1, e),
           NEW m \in Message, m.fd = None, ep' = Put(E1, e, m),
           NEW y \in SocketRecord, Moved(sock[s], y), y.call = idle, y.got = sock[s].got, y.eof = sock[s].eof,
           SendsNext(sock[s], y, m), sock' = [sock EXCEPT ![s] = y], UNCHANGED <<mode, task, conn, tun, heard>>
    PROVE  IInv'
  <1>1. /\ sock[s].at = "open" /\ ~Server(s) /\ sock[s] \in SocketRecord /\ ep[e].refs # {}
        /\ ep \in [Ends -> UnixSocket] /\ (IsStream' <=> IsStream) /\ s \in {1, 2, 4}
    BY PendingSend, OpenSocket DEF IInv, TypeOK, IsStream
  <1>2. /\ IsStream => s \in {1, 4} /\ e \in {a0, a1, c1}
        /\ ~IsStream => s \in {1, 2} /\ (s = 1 => e = a0) /\ (s = 2 => e = b0)
    BY PendingSend
  <1>3. /\ e # f /\ (e = a0 => f = a1) /\ (e = a1 => f = a0) /\ (e = c1 => f = c0) /\ (e = b0 => f = b1)
        /\ IsStream => f \notin {b0, b1}
        /\ ~IsStream => f \in {a1, b1}
    BY <1>2, PartnersAre, EndsAre
  <1>4. /\ \A z \in Ends : z # e => E1[z] = ep[z]
        /\ E1[e].refs = ep[e].refs \/ E1[e].refs = ep[e].refs \cup {"file0"}
        /\ E1[e].q = ep[e].q /\ E1[e].shut = ep[e].shut
    <2>1. CASE E1 = ep
      BY <2>1
    <2>2. CASE E1 = Hold(ep, e, "file0")
      BY <1>1, <2>2, HoldIs DEF Holders
    <2> QED
      BY <2>1, <2>2 DEF Lent
  <1>5. /\ ep' \in [Ends -> UnixSocket] /\ \A z \in Ends : z # f => ep'[z] = E1[z]
        /\ ep'[f].refs = ep[f].refs /\ ep'[f].shut = ep[f].shut /\ ep'[f].q = Append(ep[f].q, m)
    <2>1. /\ ep' \in [Ends -> UnixSocket] /\ \A z \in Ends : z # f => ep'[z] = E1[z]
          /\ ep'[f].refs = E1[f].refs /\ ep'[f].shut = E1[f].shut /\ ep'[f].q = Append(E1[f].q, m)
      BY PutIs
    <2>2. E1[f] = ep[f]
      BY <1>3, <1>4
    <2> QED
      BY <2>1, <2>2
  <1>6. /\ Moved(sock[s], y) /\ y.eof = sock[s].eof /\ y.got = sock[s].got /\ y.st = sock[s].st /\ y.call = idle
    BY DEF Moved
  <1>7. sock' \in [Sockets -> SocketRecord] /\ sock'[s] = y /\ \A o \in Sockets : o # s => sock'[o] = sock[o]
    BY SockIs DEF IInv
  <1>8. TypeOK'
    BY <1>5, <1>7 DEF IInv, TypeOK
  <1>9. CallInv'
    <2>1. Server(2)' => Silent(sock'[2])
      <3>1. 2 \in Sockets
        BY DEF Sockets
      <3>2. CASE s = 2
        BY <1>1, <3>2 DEF Server
      <3>3. CASE s # 2
        BY <1>7, <3>1, <3>3 DEF IInv, CallInv, Server
      <3> QED
        BY <3>2, <3>3
    <2>2. sock'[s].call.op # "send"
      BY <1>6, <1>7, NoneAssumption DEF idle
    <2> QED
      BY <1>1, <1>7, <2>1, <2>2 DEF IInv, CallInv
  <1>10. ASSUME NEW z \in Ends
         PROVE  MovedEnd(z)
    <2>1. ep[z].refs = {} => ep[z].q = <<>>
      BY DEF IInv, RefInv, NoRefs
    <2>2. ~(IsStream /\ z = b0) => \A i \in DOMAIN ep[z].q : ep[z].q[i].fd = None
      BY DEF IInv, QueueInv
    <2>3. CASE z = f
      <3>1. ep[f].q \in Seq(Message) /\ \A i \in DOMAIN ep[f].q : ep[f].q[i].fd = None
        BY <1>1, <1>3, <2>2, <2>3 DEF UnixSocket
      <3>2. \A i \in DOMAIN Append(ep[f].q, m) : Append(ep[f].q, m)[i].fd = None
        BY <3>1
      <3> QED
        <4>1. ep'[f].refs = ep[f].refs /\ ep'[f].shut = ep[f].shut /\ \A i \in DOMAIN ep'[f].q : ep'[f].q[i].fd = None
          <5>1. PICK q : q = Append(ep[f].q, m)
            OBVIOUS
          <5>2. \A i \in DOMAIN q : q[i].fd = None
            BY <3>2, <5>1, Zenon
          <5>3. ep'[f].q = q /\ ep'[f].refs = ep[f].refs /\ ep'[f].shut = ep[f].shut
            BY <1>5, <5>1, Zenon
          <5> QED
            BY <5>2, <5>3, Zenon
        <4>2. MovedEnd(f)
          BY <1>3, <4>1 DEF MovedEnd
        <4> QED
          BY <2>3, <4>2
    <2>4. CASE z = e
      <3>1. MayHold(z, "file0") /\ "file0" \in Holders
        BY <1>1, <2>4 DEF MayHold, Holders
      <3>2. /\ ep'[z].shut = ep[z].shut /\ ep'[z].q = ep[z].q
            /\ ep'[z].refs = ep[z].refs \/ ep'[z].refs = ep[z].refs \cup {"file0"}
        BY <1>3, <1>4, <1>5, <2>4, Zenon
      <3> QED
        <4>1. ep[z].refs # {}
          BY <1>1, <2>4
        <4>2. \/ ep'[z].refs = ep[z].refs
              \/ ep[z].refs # {} /\ \E h \in Holders : MayHold(z, h) /\ ep'[z].refs = ep[z].refs \cup {h}
          BY <3>1, <3>2, <4>1, Zenon
        <4>3. /\ ep[z].refs = {} => ep'[z].q = <<>>
              /\ ~(IsStream /\ z = b0) => \A i \in DOMAIN ep'[z].q : ep'[z].q[i].fd = None
              /\ IsStream /\ z \in {b0, b1} => ep'[z].q = ep[z].q
              /\ ep'[z].shut = ep[z].shut
          BY <2>1, <2>2, <3>2
        <4> QED
          BY <4>2, <4>3 DEF MovedEnd
    <2>5. CASE z # e /\ z # f
      <3>1. ep'[z] = ep[z]
        BY <1>4, <1>5, <2>5, Zenon
      <3> QED
        BY <2>1, <2>2, <3>1 DEF MovedEnd
    <2> QED
      BY <2>3, <2>4, <2>5
  <1>11. \A o \in Sockets : Moved(sock[o], sock'[o])
    BY <1>6, <1>7 DEF Moved
  <1>12. StreamInv'
    <2>1. CASE IsStream
      <3>1. /\ sock'[s].got = sock[s].got /\ SendsNext(sock[s], sock'[s], m) /\ sock'[s].eof = sock[s].eof
            /\ sock'[s].st = sock[s].st /\ \A o \in Sockets : o # s => sock'[o] = sock[o]
        BY <1>6, <1>7
      <3>2. ASSUME NEW z \in Ends, z # f
            PROVE  SameEnd(z)
        <4>1. CASE z = e
          <5>1. ep'[e] = E1[e] /\ ep[e].refs # {}
            BY <1>1, <1>3, <1>5
          <5> QED
            BY <1>4, <4>1, <5>1, Zenon DEF SameEnd
        <4>2. CASE z # e
          <5>1. ep'[z] = E1[z]
            BY <1>5, <3>2
          <5>2. E1[z] = ep[z]
            BY <1>4, <4>2
          <5> QED
            BY <5>1, <5>2 DEF SameEnd
        <4> QED
          BY <4>1, <4>2
      <3>3. s \in {1, 4} /\ UNCHANGED <<mode, conn, tun>> /\ \A z \in Ends : z # f => SameEnd(z)
        BY <1>2, <2>1, <3>2
      <3>4. Queued(f, m) /\ ep'[f].refs = ep[f].refs /\ ep'[f].shut = ep[f].shut
        BY <1>5 DEF Queued
      <3> QED
        BY <1>1, <2>1, <3>1, <3>3, <3>4, WriteStreams, Zenon
    <2>2. CASE ~IsStream
      BY <1>1, <2>2 DEF StreamInv, Tunneled, IsStream, TypeOf
    <2> QED
      BY <2>1, <2>2
  <1>13. DatagramInv'
    <2> SUFFICES ASSUME mode = "packets"
                 PROVE  Mail(ep'[a0].q, sock'[1].got, SentBy') /\ Mail(ep'[b0].q, sock'[2].got, SentBy')
      BY DEF DatagramInv, MailInv
    <2>1. ~IsStream /\ s \in {1, 2} /\ 1 \in Sockets /\ 2 \in Sockets
      BY <1>2 DEF Sockets, IsStream, TypeOf
    <2>2. ep'[a0].q = ep[a0].q /\ ep'[b0].q = ep[b0].q
      <3>1. a0 \in Ends /\ b0 \in Ends /\ f # a0 /\ f # b0
        BY <1>3, <2>1, EndsAre
      <3>2. ep'[a0] = E1[a0] /\ ep'[b0] = E1[b0]
        BY <1>5, <3>1
      <3>3. \A z \in Ends : E1[z].q = ep[z].q
        BY <1>4
      <3> QED
        BY <3>1, <3>2, <3>3
    <2>3. sock'[1].got = sock[1].got /\ sock'[2].got = sock[2].got
      BY <1>6, <1>7, <2>1
    <2>4. /\ ep[a0].q \in Seq(Message) /\ ep[b0].q \in Seq(Message) /\ sock[1].got \in Seq(Receipt) /\ sock[2].got \in Seq(Receipt)
      BY QueueTypes
    <2>5. SentBy \in [Senders -> Nat] /\ SentBy' \in [Senders -> Nat]
      BY <1>8, SentType, SentTypeNext DEF IInv
    <2>6. \A p \in Senders : SentBy[p] <= SentBy'[p]
      <3>1. sock[1].sent \in Nat /\ sock[2].sent \in Nat /\ heard \in Nat
        BY <2>1 DEF IInv, TypeOK, SocketRecord
      <3>2. sock[1].sent <= sock'[1].sent /\ sock[2].sent <= sock'[2].sent
        BY <1>7, <2>1, <3>1 DEF SendsNext
      <3>3. SentBy[1] <= SentBy'[1] /\ SentBy[2] <= SentBy'[2] /\ \A p \in Hosts : SentBy[p] <= SentBy'[p]
        BY <1>8, <3>1, <3>2, SentType, SentTypeNext DEF IInv
      <3> QED
        BY <3>3 DEF Senders
    <2>7. Mail(ep[a0].q, sock[1].got, SentBy) /\ Mail(ep[b0].q, sock[2].got, SentBy)
      BY DEF IInv, DatagramInv, MailInv
    <2>8. Mail(ep[a0].q, sock[1].got, SentBy') /\ Mail(ep[b0].q, sock[2].got, SentBy')
      BY <2>4, <2>5, <2>6, <2>7, MailMore
    <2> QED
      BY <2>2, <2>3, <2>8
  <1> QED
    BY <1>8, <1>9, <1>10, <1>11, <1>12, <1>13, MoveKeeps

(* A datagram may be put at f, and one that had acquired e lets it go. *)
LocalSent(o, e, f) ==
    /\ ep' \in [Ends -> UnixSocket] /\ \A z \in Ends : z \notin {e, f} => ep'[z] = ep[z]
    /\ \/ ep'[e].refs = ep[e].refs \ {"peer"}
       \/ sock[o].at = "open" /\ ep'[e].refs = (ep[e].refs \cup {"file1"}) \ {"peer"}
    /\ ep'[e].q \in {ep[e].q, <<>>} /\ (ep'[e].refs = {} => ep'[e].q = <<>>)
    /\ ep'[f].refs = ep[f].refs /\ ep'[f].shut = ep[f].shut

\* A message is queued, or not.
MayPut(f, m, old, new) ==
    \/ ep'[f].q = ep[f].q /\ new = old
    \/ ep'[f].q = Append(ep[f].q, m) /\ new = old + 1 /\ ep[f].refs # {}

\* Sent, to a datagram socket of the network.
LEMMA LocalSentKeeps ==
    ASSUME IInv, ~IsStream, NEW s \in {1, 2}, NEW o \in {1, 2}, o # s, UNCHANGED <<mode, task, conn, tun, heard>>,
           NEW e \in Ends, NEW f \in Ends, o = 1 => e = a1 /\ f = a0, o = 2 => e = b1 /\ f = b0,
           NEW y \in SocketRecord, Moved(sock[s], y), y.got = sock[s].got, y.call = idle,
           sock' = [sock EXCEPT ![s] = y],
           NEW m \in Message, m.by = s, m.from = s, m.n = sock[s].sent + 1, m.fd = None,
           LocalSent(o, e, f), MayPut(f, m, sock[s].sent, y.sent)
    PROVE  IInv'
  <1>1. /\ ep' \in [Ends -> UnixSocket] /\ \A z \in Ends : z \notin {e, f} => ep'[z] = ep[z]
        /\ \/ ep'[e].refs = ep[e].refs \ {"peer"}
           \/ sock[o].at = "open" /\ ep'[e].refs = (ep[e].refs \cup {"file1"}) \ {"peer"}
        /\ ep'[e].q \in {ep[e].q, <<>>} /\ (ep'[e].refs = {} => ep'[e].q = <<>>)
        /\ ep'[f].refs = ep[f].refs /\ ep'[f].shut = ep[f].shut
        /\ \/ ep'[f].q = ep[f].q /\ y.sent = sock[s].sent
           \/ ep'[f].q = Append(ep[f].q, m) /\ y.sent = sock[s].sent + 1 /\ ep[f].refs # {}
    BY DEF LocalSent, MayPut
  <1>2. /\ 1 \in Sockets /\ 2 \in Sockets /\ s \in Sockets /\ o \in Sockets /\ ~IsStream' /\ task' = task
        /\ ep \in [Ends -> UnixSocket] /\ mode \in {"udp", "packets"}
    BY SocketsAssumption DEF Sockets, IsStream, IInv, TypeOK, TypeOf
  <1>3. sock' \in [Sockets -> SocketRecord] /\ sock'[s] = y /\ \A x \in Sockets : x # s => sock'[x] = sock[x]
    BY <1>2, SockIs DEF IInv
  <1>4. \A x \in Sockets : Moved(sock[x], sock'[x])
    BY <1>3 DEF Moved
  <1>5. SocketInv' /\ StateInv' /\ TaskInv'
    BY <1>2, <1>4, MovedControl
  <1>6. TypeOK'
    BY <1>1, <1>3 DEF IInv, TypeOK
  <1>7. CallInv'
    <2>1. sock'[s].call.op # "send"
      BY <1>3, NoneAssumption DEF idle
    <2>2. ~Server(2)'
      BY <1>2 DEF Server
    <2>3. ASSUME NEW x \in Sockets, sock'[x].call.op = "send"
          PROVE  \/ sock'[x].call.to = None /\ sock'[x].call.fd = sock'[x].fd0 /\ "connected" \in sock'[x].st
                 \/ ~IsStream' /\ x \in {1, 2} /\ sock'[x].call.to = 3 - x /\ sock'[x].call.fd = <<3 - x, 1>>
      <3>1. sock'[x] = sock[x]
        BY <1>3, <2>1, <2>3
      <3> QED
        BY <1>2, <2>3, <3>1 DEF IInv, CallInv
    <2> QED
      BY <2>2, <2>3 DEF CallInv
  <1>8. /\ a0 \in Ends /\ a1 \in Ends /\ b0 \in Ends /\ b1 \in Ends /\ c0 \in Ends /\ c1 \in Ends
        /\ ep'[c0] = ep[c0] /\ ep'[c1] = ep[c1] /\ e # f
        /\ o = 2 => ep'[a0] = ep[a0] /\ ep'[a1] = ep[a1]
        /\ o = 1 => ep'[b0] = ep[b0] /\ ep'[b1] = ep[b1]
    BY <1>1, EndsAre
  <1>9. /\ sock'[1].at = sock[1].at /\ sock'[1].fd1 = sock[1].fd1 /\ sock'[1].htls = sock[1].htls
        /\ sock'[2].at = sock[2].at /\ sock'[2].fd1 = sock[2].fd1 /\ sock'[4] = sock[4]
    <2>1. 4 \in Sockets /\ s # 4
      BY DEF Sockets
    <2> QED
      BY <1>2, <1>3, <1>4, <2>1 DEF Moved
  <1>10. PairA' /\ PairB'
    <2>1. CASE o = 1
      <3>1. /\ ep'[a0].refs = ep[a0].refs /\ ep'[a0].shut = ep[a0].shut
            /\ \/ ep'[a1].refs = ep[a1].refs \ {"peer"}
               \/ sock[1].at = "open" /\ ep'[a1].refs = (ep[a1].refs \cup {"file1"}) \ {"peer"}
        BY <1>1, <2>1
      <3>2. PairA'
        BY <1>2, <1>9, <3>1 DEF IInv, RefInv, PairA, IsStream, TypeOf
      <3>3. PairB'
        BY <1>2, <1>8, <1>9, <2>1 DEF IInv, RefInv, PairB
      <3> QED
        BY <3>2, <3>3
    <2>2. CASE o = 2
      <3>1. /\ ep'[b0].refs = ep[b0].refs
            /\ \/ ep'[b1].refs = ep[b1].refs \ {"peer"}
               \/ sock[2].at = "open" /\ ep'[b1].refs = (ep[b1].refs \cup {"file1"}) \ {"peer"}
        BY <1>1, <2>2
      <3>2. PairB'
        BY <1>2, <1>9, <3>1 DEF IInv, RefInv, PairB
      <3>3. PairA'
        BY <1>2, <1>8, <1>9, <2>2 DEF IInv, RefInv, PairA
      <3> QED
        BY <3>2, <3>3
    <2> QED
      BY <2>1, <2>2
  <1>11. ASSUME NEW z \in Ends
         PROVE  (ep'[z].refs = {} => ep'[z].q = <<>>) /\ \A i \in DOMAIN ep'[z].q : ep'[z].q[i].fd = None
    <2>1. (ep[z].refs = {} => ep[z].q = <<>>) /\ \A i \in DOMAIN ep[z].q : ep[z].q[i].fd = None
      BY DEF IInv, RefInv, NoRefs, QueueInv
    <2>2. CASE z = f
      <3>1. ep[z].q \in Seq(Message)
        BY <1>2 DEF UnixSocket
      <3>2. \A i \in DOMAIN Append(ep[z].q, m) : Append(ep[z].q, m)[i].fd = None
        BY <2>1, <3>1
      <3>3. /\ ep'[z].refs = ep[z].refs
            /\ ep'[z].q = ep[z].q \/ (ep'[z].q = Append(ep[z].q, m) /\ ep[z].refs # {})
        BY <1>1, <2>2
      <3> QED
        BY <2>1, <3>2, <3>3, Zenon
    <2>3. CASE z = e
      BY <1>1, <2>1, <2>3
    <2>4. CASE z \notin {e, f}
      <3>1. ep'[z] = ep[z]
        BY <1>1, <2>4
      <3> QED
        BY <2>1, <3>1
    <2> QED
      BY <2>2, <2>3, <2>4
  <1>12. NoRefs'
    BY <1>11 DEF NoRefs
  <1>13. DatagramInv'
    <2> SUFFICES ASSUME mode = "packets"
                 PROVE  Mail(ep'[a0].q, sock'[1].got, SentBy') /\ Mail(ep'[b0].q, sock'[2].got, SentBy')
      BY DEF DatagramInv, MailInv
    <2>1. sock'[1].got = sock[1].got /\ sock'[2].got = sock[2].got
      BY <1>2, <1>3
    <2>2. /\ ep[a0].q \in Seq(Message) /\ ep[b0].q \in Seq(Message) /\ sock[1].got \in Seq(Receipt) /\ sock[2].got \in Seq(Receipt)
      BY QueueTypes
    <2>3. SentBy \in [Senders -> Nat] /\ SentBy' \in [Senders -> Nat]
      BY <1>6, SentType, SentTypeNext DEF IInv
    <2>4. sock[1].sent \in Nat /\ sock[2].sent \in Nat /\ heard \in Nat /\ sock[s].sent \in Nat
      BY <1>2 DEF IInv, TypeOK, SocketRecord
    <2>5. \A p \in Senders : SentBy[p] <= SentBy'[p]
      <3>1. sock[1].sent <= sock'[1].sent /\ sock[2].sent <= sock'[2].sent
        <4>1. sock[s].sent <= sock'[s].sent
          BY <1>1, <1>3, <2>4
        <4> QED
          BY <1>2, <1>3, <2>4, <4>1
      <3>2. SentBy[1] <= SentBy'[1] /\ SentBy[2] <= SentBy'[2] /\ \A p \in Hosts : SentBy[p] <= SentBy'[p]
        BY <1>6, <2>4, <3>1, SentType, SentTypeNext DEF IInv
      <3> QED
        BY <3>2 DEF Senders
    <2>6. Mail(ep[a0].q, sock[1].got, SentBy) /\ Mail(ep[b0].q, sock[2].got, SentBy)
      BY DEF IInv, DatagramInv, MailInv
    <2>7. Mail(ep[a0].q, sock[1].got, SentBy') /\ Mail(ep[b0].q, sock[2].got, SentBy')
      BY <2>2, <2>3, <2>5, <2>6, MailMore
    <2>8. m.by \in Senders /\ m.from = m.by /\ m.n = SentBy[m.by] + 1
      BY SentType DEF Senders, IInv
    <2>9. y.sent = sock[s].sent + 1 => m.n <= SentBy'[m.by]
      <3>1. SentBy'[s] = sock'[s].sent
        BY <1>6, SentTypeNext
      <3> QED
        BY <1>3, <2>4, <3>1
    <2>10. CASE o = 1
      <3>1. ep'[b0].q = ep[b0].q /\ f = a0
        BY <1>8, <2>10
      <3>2. y.sent = sock[s].sent + 1 => Mail(Append(ep[a0].q, m), sock[1].got, SentBy')
        BY <2>2, <2>3, <2>5, <2>6, <2>8, <2>9, MailPut
      <3>3. ep'[a0].q = ep[a0].q \/ (ep'[a0].q = Append(ep[a0].q, m) /\ y.sent = sock[s].sent + 1)
        BY <1>1, <3>1
      <3> QED
        BY <2>1, <2>7, <3>1, <3>2, <3>3, Zenon
    <2>11. CASE o = 2
      <3>1. ep'[a0].q = ep[a0].q /\ f = b0
        BY <1>8, <2>11
      <3>2. y.sent = sock[s].sent + 1 => Mail(Append(ep[b0].q, m), sock[2].got, SentBy')
        BY <2>2, <2>3, <2>5, <2>6, <2>8, <2>9, MailPut
      <3>3. ep'[b0].q = ep[b0].q \/ (ep'[b0].q = Append(ep[b0].q, m) /\ y.sent = sock[s].sent + 1)
        BY <1>1, <3>1
      <3> QED
        BY <2>1, <2>7, <3>1, <3>2, <3>3, Zenon
    <2> QED
      BY <2>10, <2>11
  <1> QED
    BY <1>2, <1>5, <1>6, <1>7, <1>8, <1>9, <1>10, <1>11, <1>12, <1>13, DatagramKeeps

\* A call returns, and a send has succeeded.
Returned(r) == [r EXCEPT !.call = idle]
Counted(r) == [r EXCEPT !.sent = r.sent + 1]

\* What a socket is when its call has returned.
LEMMA ReturnedIs ==
    ASSUME NEW old \in SocketRecord, old.at = "open", NEW r, r = Returned(old), NEW y, y = Counted(r)
    PROVE  /\ r \in SocketRecord /\ Soft(old, r) /\ Moved(old, r) /\ r.call = idle /\ r.got = old.got /\ r.sent = old.sent
           /\ y \in SocketRecord /\ ("connected" \in old.st => Moved(old, y)) /\ (~IsStream => Moved(old, y))
           /\ y.call = idle /\ y.got = old.got /\ y.eof = old.eof /\ y.sent = old.sent + 1
  <1>1. idle \in CallType /\ r = [old EXCEPT !.call = idle] /\ y = [r EXCEPT !.sent = r.sent + 1]
    BY DEF idle, CallType, EndOrNone, Returned, Counted
  <1>2. r \in SocketRecord /\ Soft(old, r)
    BY <1>1, CallSoft
  <1>3. /\ r.call = idle /\ r.got = old.got /\ r.sent = old.sent /\ r.at = old.at /\ r.type = old.type /\ r.peer = old.peer
        /\ r.fd0 = old.fd0 /\ r.fd1 = old.fd1 /\ r.htls = old.htls /\ r.st = old.st /\ r.eof = old.eof
    BY <1>1 DEF SocketRecord
  <1>4. PICK n : n = r.sent + 1
    OBVIOUS
  <1>5. n \in Nat /\ y = [r EXCEPT !.sent = n]
    BY <1>1, <1>2, <1>4 DEF SocketRecord
  <1>6. y \in SocketRecord
    BY <1>2, <1>5 DEF SocketRecord
  <1>7. /\ y.call = r.call /\ y.got = r.got /\ y.sent = n /\ y.at = r.at /\ y.type = r.type /\ y.peer = r.peer
        /\ y.fd0 = r.fd0 /\ y.fd1 = r.fd1 /\ y.htls = r.htls /\ y.st = r.st /\ y.eof = r.eof
    BY <1>2, <1>5 DEF SocketRecord
  <1>8. Moved(old, r) /\ ("connected" \in old.st => Moved(old, y)) /\ (~IsStream => Moved(old, y))
    BY <1>3, <1>7 DEF Moved
  <1> QED
    BY <1>2, <1>3, <1>4, <1>6, <1>7, <1>8

\* Sent.
LEMMA SentKeeps ==
    ASSUME IInv, NEW s \in Sockets, Sent(s)
    PROVE  IInv'
  <1> DEFINE c == sock[s].call
             local == c.to # None
             closed == local /\ sock[c.to].at # "open"
             E1 == IF ~Blocking(s) \/ closed THEN ep
                   ELSE IF local THEN socketFile1(ep, c.fd) ELSE socketFile0(ep, c.fd)
             done(E) == IF local THEN Release(E, c.fd, {"peer"}) ELSE E
  <1>1. c.op = "send" /\ UNCHANGED <<mode, task, conn, tun, heard>>
    BY DEF Sent
  <1>2. /\ sock[s].at = "open" /\ ~Server(s) /\ sock[s] \in SocketRecord /\ sock[s].fd0 \in Ends
        /\ ep \in [Ends -> UnixSocket]
    BY <1>1, PendingSend DEF IInv, TypeOK
  <1>3. PICK r : r = Returned(sock[s])
    OBVIOUS
  <1>4. PICK y : y = Counted(r)
    OBVIOUS
  <1>5. /\ r \in SocketRecord /\ Soft(sock[s], r) /\ Moved(sock[s], r) /\ r.call = idle /\ r.got = sock[s].got /\ r.sent = sock[s].sent
        /\ y \in SocketRecord /\ ("connected" \in sock[s].st => Moved(sock[s], y)) /\ (~IsStream => Moved(sock[s], y))
        /\ y.call = idle /\ y.got = sock[s].got /\ y.eof = sock[s].eof /\ y.sent = sock[s].sent + 1
    BY <1>2, <1>3, <1>4, ReturnedIs
  <1>6. PICK m : m = Data(s, s, sock[s].sent + 1)
    OBVIOUS
  <1>7. m \in Message /\ m.by = s /\ m.from = s /\ m.n = sock[s].sent + 1 /\ m.fd = None
    <2>1. s \in Parties /\ sock[s].sent + 1 \in Nat
      BY <1>2 DEF Parties, stray, Sockets, SocketRecord
    <2> QED
      BY <1>6, <2>1 DEF Data, Message, EndOrNone
  <1>8. \/ /\ ~closed /\ ~Gone(ep, c.fd) /\ ep' = done(Put(E1, c.fd, m)) /\ sock' = [sock EXCEPT ![s] = y]
        \/ /\ ep' = done(E1) /\ sock' = [sock EXCEPT ![s] = r]
    BY <1>3, <1>4, <1>5, <1>6 DEF Sent, Returned, Counted
  <1>9. CASE c.to = None /\ c.fd = sock[s].fd0 /\ "connected" \in sock[s].st
    <2>1. PICK e \in Ends : e = sock[s].fd0
      BY <1>2
    <2>2. ~local /\ ~closed /\ (E1 = ep \/ E1 = Hold(ep, e, "file0"))
      BY <1>9, <2>1 DEF socketFile0
    <2>3. \A E : done(E) = E
      BY <2>2
    <2> HIDE DEF done
    <2>4. E1 \in [Ends -> UnixSocket]
      BY <1>2, <2>2, HoldIs DEF Holders
    <2>5. CASE ~Gone(ep, c.fd) /\ ep' = done(Put(E1, c.fd, m)) /\ sock' = [sock EXCEPT ![s] = y]
      <3>1. PICK f \in Ends : f = Partner(e)
        BY PartnersAre
      <3>2. ep[f].refs # {} /\ ~ep[f].shut
        BY <1>9, <2>1, <2>5, <3>1 DEF Gone
      <3>3. ep' = Put(E1, e, m)
        BY <1>9, <2>1, <2>3, <2>5
      <3>4. y \in SocketRecord /\ Moved(sock[s], y) /\ sock' = [sock EXCEPT ![s] = y]
        BY <1>5, <1>9, <2>5
      <3>5. SendsNext(sock[s], y, m)
        BY <1>5, <1>7 DEF SendsNext
      <3>6. Lent(E1, e)
        BY <2>2 DEF Lent
      <3> HIDE DEF E1, closed, local
      <3> QED
        BY <1>1, <1>5, <1>7, <1>9, <2>1, <2>2, <2>4, <3>1, <3>2, <3>3, <3>4, <3>5, <3>6, WriteKeeps
    <2>6. CASE ep' = done(E1) /\ sock' = [sock EXCEPT ![s] = r]
      <3>1. ep' \in [Ends -> UnixSocket] /\ \A x \in Ends : SoftEnd(x)
        BY <1>2, <2>1, <2>2, <2>3, <2>6, FileSoft, Zenon DEF socketFile0
      <3>2. r.call.op # "send"
        BY <1>5, NoneAssumption DEF idle
      <3> QED
        BY <1>1, <1>2, <1>5, <2>6, <3>1, <3>2, NoTaskChange, StartKeeps, Zenon
    <2> QED
      BY <1>8, <2>5, <2>6
  <1>10. CASE ~IsStream /\ s \in {1, 2} /\ c.to = 3 - s /\ c.fd = <<3 - s, 1>>
    <2>1. PICK o \in {1, 2} : o = 3 - s /\ o # s
      BY <1>10
    <2>2. PICK e, f \in Ends : /\ e = <<o, 1>> /\ Partner(e) = f /\ e # f
                               /\ o = 1 => e = a1 /\ f = a0
                               /\ o = 2 => e = b1 /\ f = b0
      BY PairOf, PartnersAre
    <2>3. local /\ c.fd = e /\ c.to = o
      BY <1>10, <2>1, <2>2, NoneAssumption DEF stray
    <2>4. E1 = ep \/ (sock[o].at = "open" /\ E1 = Hold(ep, e, "file1"))
      BY <2>3 DEF socketFile1
    <2>5. \A E : done(E) = Release(E, e, {"peer"})
      BY <2>3
    <2> HIDE DEF E1, closed, local, done
    <2>6. /\ E1 \in [Ends -> UnixSocket] /\ \A z \in Ends : z # e => E1[z] = ep[z]
          /\ E1[e].refs = ep[e].refs \/ (sock[o].at = "open" /\ E1[e].refs = ep[e].refs \cup {"file1"})
          /\ E1[e].q = ep[e].q /\ E1[e].shut = ep[e].shut
      BY <1>2, <2>4, HoldIs DEF Holders
    <2>7. \A i \in DOMAIN ep[e].q : ep[e].q[i].fd = None
      BY <1>10 DEF IInv, QueueInv
    <2>8. {"peer"} \in SUBSET Holders
      BY DEF Holders
    <2>9. ASSUME NEW E \in [Ends -> UnixSocket], E[e] = E1[e]
          PROVE  /\ Release(E, e, {"peer"}) \in [Ends -> UnixSocket]
                 /\ \A z \in Ends \ {e} : Release(E, e, {"peer"})[z] = E[z]
                 /\ \/ Release(E, e, {"peer"})[e].refs = ep[e].refs \ {"peer"}
                    \/ sock[o].at = "open" /\ Release(E, e, {"peer"})[e].refs = (ep[e].refs \cup {"file1"}) \ {"peer"}
                 /\ Release(E, e, {"peer"})[e].q \in {ep[e].q, <<>>}
                 /\ Release(E, e, {"peer"})[e].refs = {} => Release(E, e, {"peer"})[e].q = <<>>
      <3>1. E[e].q = ep[e].q /\ E[e].refs = E1[e].refs
        BY <2>6, <2>9
      <3>2. \A i \in DOMAIN E[e].q : E[e].q[i].fd = None
        BY <2>7, <3>1
      <3>3. Release(E, e, {"peer"}) = Drop(E, e, {"peer"})
        BY <2>8, <3>2, ReleaseIs
      <3>4. /\ Drop(E, e, {"peer"}) \in [Ends -> UnixSocket]
            /\ \A z \in Ends \ {e} : Drop(E, e, {"peer"})[z] = E[z]
            /\ Drop(E, e, {"peer"})[e].refs = E[e].refs \ {"peer"}
            /\ Drop(E, e, {"peer"})[e].refs = {} => Drop(E, e, {"peer"})[e].q = <<>>
            /\ Drop(E, e, {"peer"})[e].refs # {} => Drop(E, e, {"peer"})[e].q = E[e].q
        BY <2>8, DropIs
      <3> QED
        BY <2>6, <3>1, <3>3, <3>4
    <2>10. CASE ~Gone(ep, c.fd) /\ ep' = done(Put(E1, c.fd, m)) /\ sock' = [sock EXCEPT ![s] = y]
      <3>1. PICK X, P : X = E1 /\ P = Put(X, e, m)
        OBVIOUS
      <3>2. /\ P \in [Ends -> UnixSocket] /\ \A z \in Ends \ {f} : P[z] = E1[z]
            /\ P[f].refs = E1[f].refs /\ P[f].shut = E1[f].shut /\ P[f].q = Append(E1[f].q, m)
        <4>1. X \in [Ends -> UnixSocket] /\ e \in Ends /\ f \in Ends /\ m \in Message /\ Partner(e) = f
          BY <1>7, <2>2, <2>6, <3>1
        <4>2. /\ Put(X, e, m) \in [Ends -> UnixSocket] /\ \A z \in Ends \ {f} : Put(X, e, m)[z] = X[z]
              /\ Put(X, e, m)[f].refs = X[f].refs /\ Put(X, e, m)[f].shut = X[f].shut
              /\ Put(X, e, m)[f].q = Append(X[f].q, m)
          BY <4>1, PutIs
        <4> QED
          BY <3>1, <4>2, Zenon
      <3>3. P[e] = E1[e] /\ E1[f] = ep[f] /\ \A z \in Ends : z \notin {e, f} => P[z] = ep[z]
        BY <2>2, <2>6, <3>2
      <3>4. ep' = Release(P, e, {"peer"}) /\ ep[f].refs # {}
        BY <2>2, <2>3, <2>5, <2>10, <3>1 DEF Gone
      <3>5. /\ ep' \in [Ends -> UnixSocket] /\ \A z \in Ends \ {e} : ep'[z] = P[z]
            /\ \/ ep'[e].refs = ep[e].refs \ {"peer"}
               \/ sock[o].at = "open" /\ ep'[e].refs = (ep[e].refs \cup {"file1"}) \ {"peer"}
            /\ ep'[e].q \in {ep[e].q, <<>>} /\ (ep'[e].refs = {} => ep'[e].q = <<>>)
        BY <2>9, <3>2, <3>3, <3>4
      <3>6. ep'[f].refs = ep[f].refs /\ ep'[f].shut = ep[f].shut /\ ep'[f].q = Append(ep[f].q, m)
        BY <2>2, <3>2, <3>3, <3>5
      <3>7. \A z \in Ends : z \notin {e, f} => ep'[z] = ep[z]
        BY <3>3, <3>5
      <3>8. y \in SocketRecord /\ Moved(sock[s], y) /\ sock' = [sock EXCEPT ![s] = y]
        BY <1>5, <1>10, <2>10
      <3>9. LocalSent(o, e, f)
        BY <3>5, <3>6, <3>7 DEF LocalSent
      <3>10. MayPut(f, m, sock[s].sent, y.sent)
        BY <1>5, <3>4, <3>6 DEF MayPut
      <3> QED
        BY <1>1, <1>5, <1>7, <1>10, <2>1, <2>2, <3>8, <3>9, <3>10, LocalSentKeeps
    <2>11. CASE ep' = done(E1) /\ sock' = [sock EXCEPT ![s] = r]
      <3>1. ep' = Release(E1, e, {"peer"})
        BY <2>5, <2>11
      <3>2. /\ ep' \in [Ends -> UnixSocket] /\ \A z \in Ends \ {e} : ep'[z] = E1[z]
            /\ \/ ep'[e].refs = ep[e].refs \ {"peer"}
               \/ sock[o].at = "open" /\ ep'[e].refs = (ep[e].refs \cup {"file1"}) \ {"peer"}
            /\ ep'[e].q \in {ep[e].q, <<>>} /\ (ep'[e].refs = {} => ep'[e].q = <<>>)
        BY <2>6, <2>9, <3>1
      <3>3. \A z \in Ends : z # e => ep'[z] = ep[z]
        BY <2>6, <3>2
      <3>4. ep'[f] = ep[f] /\ \A z \in Ends : z \notin {e, f} => ep'[z] = ep[z]
        BY <2>2, <3>3
      <3>5. LocalSent(o, e, f)
        BY <3>2, <3>4 DEF LocalSent
      <3>6. MayPut(f, m, sock[s].sent, r.sent)
        BY <1>5, <3>4 DEF MayPut
      <3> QED
        BY <1>1, <1>5, <1>7, <1>10, <2>1, <2>2, <2>11, <3>5, <3>6, LocalSentKeeps
    <2> QED
      BY <1>8, <2>10, <2>11
  <1> QED
    BY <1>1, <1>9, <1>10, PendingSend

-----------------------------------------------------------------------------
(* SockShutdown.                                                           *)

\* A socket that stops reading, or only chooses to send in clear.
Deafened(old, new) ==
    /\ new.at = old.at /\ new.type = old.type /\ new.peer = old.peer /\ new.fd0 = old.fd0 /\ new.fd1 = old.fd1
    /\ new.call = old.call /\ new.sent = old.sent /\ new.got = old.got /\ new.eof = old.eof
    /\ new.htls = old.htls \/ (old.htls = "open" /\ new.htls = "plain")
    /\ new.st = old.st \/ new.st = old.st \cup {"deaf"}

\* Socket s becomes r, deaf when it is its own UNIX socket that is shut down.
DeafIf(s, e, r) == sock' = [sock EXCEPT ![s] = r] /\ Deafened(sock[s], r) /\ (e = sock[s].fd0 => "deaf" \in r.st)

\* SockShutdown shuts one UNIX socket down and changes only flags of the socket.
LEMMA ShutdownIs ==
    ASSUME IInv, NEW s \in Sockets, NEW flags, SockShutdown(s, flags), NEW e, e = IF ShutdownHow(flags) = 0 THEN sock[s].fd0 ELSE Partner(sock[s].fd0)
    PROVE  /\ sock[s].at = "open" /\ sock[s].type = "STREAM" /\ sock[s] \in SocketRecord /\ e \in Ends
           /\ ep' \in [Ends -> UnixSocket] /\ \A z \in Ends : z # e => ep'[z] = ep[z]
           /\ ep'[e].shut /\ ep'[e].refs = ep[e].refs /\ ep'[e].q = ep[e].q
           /\ \E r \in SocketRecord : DeafIf(s, e, r)
           /\ UNCHANGED <<mode, task, conn, tun, heard>>
  <1>1. sock[s].at = "open" /\ sock[s].type = "STREAM" /\ UNCHANGED <<mode, task, conn, tun, heard>>
    BY DEF SockShutdown, Ready
  <1>2. sock[s] \in SocketRecord /\ sock[s].fd0 \in Ends /\ Partner(sock[s].fd0) \in Ends /\ Partner(sock[s].fd0) # sock[s].fd0
    BY <1>1, OpenSocket, PartnersAre
  <1>3. e \in Ends /\ ep \in [Ends -> UnixSocket]
    BY <1>2 DEF IInv, TypeOK
  <1>4. ep' = [ep EXCEPT ![e].shut = TRUE]
    BY DEF SockShutdown
  <1>5. /\ ep' \in [Ends -> UnixSocket] /\ \A z \in Ends : z # e => ep'[z] = ep[z]
        /\ ep'[e].shut /\ ep'[e].refs = ep[e].refs /\ ep'[e].q = ep[e].q
    BY <1>3, <1>4 DEF UnixSocket
  <1>6. PICK k : k = htlsClear(sock[s])
    OBVIOUS
  <1>7. k \in SocketRecord /\ Deafened(sock[s], k) /\ k.st = sock[s].st
    BY <1>2, <1>6 DEF htlsClear, SocketRecord, Deafened
  <1>8. PICK st : st = IF ShutdownHow(flags) = 0 THEN k.st \cup {"deaf"} ELSE k.st
    OBVIOUS
  <1>9. PICK r : r = [k EXCEPT !.st = st]
    OBVIOUS
  <1>10. sock' = [sock EXCEPT ![s] = r]
    BY <1>6, <1>8, <1>9 DEF SockShutdown
  <1>11. st \subseteq Flags
    BY <1>7, <1>8 DEF SocketRecord, Flags
  <1>12. /\ r \in SocketRecord /\ r.st = st /\ r.at = k.at /\ r.type = k.type /\ r.peer = k.peer /\ r.fd0 = k.fd0 /\ r.fd1 = k.fd1
         /\ r.call = k.call /\ r.sent = k.sent /\ r.got = k.got /\ r.eof = k.eof /\ r.htls = k.htls
    BY <1>7, <1>9, <1>11 DEF SocketRecord
  <1>13. Deafened(sock[s], r) /\ (e = sock[s].fd0 => "deaf" \in r.st)
    BY <1>2, <1>7, <1>8, <1>12 DEF Deafened
  <1>14. DeafIf(s, e, r)
    BY <1>10, <1>13 DEF DeafIf
  <1> QED
    BY <1>1, <1>2, <1>3, <1>5, <1>12, <1>14

\* What is in flight is not lost by a shutdown.
LEMMA ShutStreams ==
    ASSUME IInv, IsStream, UNCHANGED <<mode, conn, tun>>, NEW s \in {1, 4}, NEW e \in Ends,
           \A o \in Sockets : o # s => sock'[o] = sock[o], Deafened(sock[s], sock'[s]),
           e = sock[s].fd0 => "deaf" \in sock'[s].st, e \in {sock[s].fd0, Partner(sock[s].fd0)},
           \A z \in Ends : z # e => ep'[z] = ep[z],
           ep'[e].shut, ep'[e].refs = ep[e].refs, ep'[e].q = ep[e].q, sock[s].at = "open"
    PROVE  StreamInv'
  <1>1. 1 \in Sockets /\ 4 \in Sockets /\ s \in Sockets /\ a0 \in Ends /\ a1 \in Ends /\ c0 \in Ends /\ c1 \in Ends
    BY EndsAre DEF Sockets
  <1>2. (s = 1 => sock[s].fd0 = a0) /\ (s = 4 => mode \in {"local", "listen"} /\ sock[s].fd0 = IF mode = "local" THEN a1 ELSE c1)
    BY <1>1, OpenSocket
  <1>3. \A z \in Ends : ep'[z].q = ep[z].q /\ ep'[z].refs = ep[z].refs /\ (ep[z].shut => ep'[z].shut)
    OBVIOUS
  <1>4. ASSUME NEW o \in Sockets
        PROVE  /\ sock'[o].sent = sock[o].sent /\ sock'[o].got = sock[o].got /\ sock'[o].eof = sock[o].eof
               /\ "deaf" \in sock[o].st => "deaf" \in sock'[o].st
    BY DEF Deafened
  <1>5. CASE mode = "local"
    <2>1. PipeInv(1, 4, a0, a1) /\ PipeInv(4, 1, a1, a0)
      BY <1>5 DEF IInv, StreamInv
    <2>2. PipeInv(1, 4, a0, a1)'
      BY <1>1, <1>3, <1>4, <2>1 DEF PipeInv
    <2>3. PipeInv(4, 1, a1, a0)'
      BY <1>1, <1>3, <1>4, <2>1 DEF PipeInv
    <2> QED
      BY <1>5, <2>2, <2>3 DEF StreamInv, Tunneled, Conns
  <1>6. ASSUME NEW c \in Conns, Tunneled(c)
        PROVE  (UpInv(c) /\ DownInv(c))'
    <2>1. UpInv(c) /\ DownInv(c) /\ conn' = conn /\ tun' = tun
      BY <1>6 DEF IInv, StreamInv
    <2>2. s = GuestOf(c) /\ GuestEnd(c) = sock[s].fd0 /\ GuestEnd(c) \in Ends /\ BridgeEnd(c) \in Ends /\ BridgeEnd(c) # GuestEnd(c)
      <3>1. c = "out" \/ c = "in"
        BY DEF Conns
      <3>2. (mode = "dial" => s = 1) /\ (mode = "listen" => s = 4)
        <4>1. mode = "listen" => s # 1
          BY <1>1 DEF IInv, SocketInv, Opens
        <4> QED
          BY <1>2, <4>1
      <3> QED
        BY <1>1, <1>2, <1>6, <3>1, <3>2, EndsOf, EndsAre DEF Tunneled
    <2>3. UpInv(c)'
      BY <1>1, <1>3, <1>4, <2>1, <2>2 DEF UpInv
    <2>4. "deaf" \notin sock'[s].st => ep'[GuestEnd(c)].shut = ep[GuestEnd(c)].shut
      BY <2>2
    <2>5. DownInv(c)'
      BY <1>1, <1>3, <1>4, <2>1, <2>2, <2>4 DEF DownInv
    <2> QED
      BY <2>3, <2>5
  <1>7. \A c \in Conns : Tunneled(c)' => Tunneled(c)
    BY DEF Tunneled
  <1> QED
    BY <1>5, <1>6, <1>7 DEF StreamInv

\* SockShutdown.
LEMMA ShutdownKeeps ==
    ASSUME IInv, NEW s \in Sockets, NEW flags, ~Server(s), SockShutdown(s, flags)
    PROVE  IInv'
  <1>1. PICK e : e = IF ShutdownHow(flags) = 0 THEN sock[s].fd0 ELSE Partner(sock[s].fd0)
    OBVIOUS
  <1>2. /\ sock[s].at = "open" /\ sock[s].type = "STREAM" /\ sock[s] \in SocketRecord /\ e \in Ends
        /\ ep' \in [Ends -> UnixSocket] /\ \A z \in Ends : z # e => ep'[z] = ep[z]
        /\ ep'[e].shut /\ ep'[e].refs = ep[e].refs /\ ep'[e].q = ep[e].q
        /\ UNCHANGED <<mode, task, conn, tun, heard>>
    BY <1>1, ShutdownIs
  <1>3. PICK r \in SocketRecord : sock' = [sock EXCEPT ![s] = r] /\ Deafened(sock[s], r) /\ (e = sock[s].fd0 => "deaf" \in r.st)
    <2>1. PICK r \in SocketRecord : DeafIf(s, e, r)
      BY <1>1, ShutdownIs
    <2> QED
      BY <2>1, Zenon DEF DeafIf
  <1>4. sock' \in [Sockets -> SocketRecord] /\ sock'[s] = r /\ \A o \in Sockets : o # s => sock'[o] = sock[o]
    BY <1>3, SockIs DEF IInv
  <1>5. s \in {1, 4} /\ IsStream /\ IsStream' /\ 1 \in Sockets /\ 2 \in Sockets /\ 3 \in Sockets /\ 4 \in Sockets
    <2>1. s \in {1, 2, 4} /\ (s = 4 => mode \in {"local", "listen"})
      BY <1>2, OpenSocket
    <2>2. s \in {1, 2} => s \in Opens(mode) /\ TypeOf(mode) = "STREAM"
      BY <1>2 DEF IInv, SocketInv
    <2> QED
      BY <1>2, <2>1, <2>2 DEF IsStream, TypeOf, Opens, Server, Sockets
  <1>6. TypeOK'
    BY <1>2, <1>4 DEF IInv, TypeOK
  <1>7. SocketInv'
    BY <1>2, <1>3, <1>4, <1>5 DEF IInv, SocketInv, Deafened
  <1>8. CallInv'
    BY <1>2, <1>3, <1>4, <1>5 DEF IInv, CallInv, Deafened, Server
  <1>9. StateInv'
    <2> SUFFICES ASSUME NEW x \in Sockets
                 PROVE  /\ "listening" \in sock'[x].st => Server(x)'
                        /\ Server(x)' => "connected" \notin sock'[x].st
                        /\ "connected" \in sock'[x].st <=> sock'[x].peer # None
                        /\ sock'[x].peer # x
                        /\ "connected" \in sock'[x].st => "bound" \in sock'[x].st
                        /\ "tunneled" \in sock'[x].st => x = 1 /\ mode' \in {"dial", "udp"} /\ "connected" \in sock'[x].st
                        /\ sock'[x].htls # "none" <=> "tunneled" \in sock'[x].st
                        /\ mode' \in {"dial", "udp"} /\ "connected" \in sock'[x].st => "tunneled" \in sock'[x].st
                        /\ IsStream' /\ "connected" \in sock'[x].st => sock'[x].fd1 = None
                        /\ IsStream' /\ "connected" \notin sock'[x].st => sock'[x].sent = 0
      BY DEF StateInv
    <2>1. Deafened(sock[x], sock'[x])
      BY <1>3, <1>4 DEF Deafened
    <2>2. (Server(x)' <=> Server(x)) /\ mode' = mode
      BY <1>2 DEF Server
    <2> QED
      BY <1>5, <2>1, <2>2 DEF IInv, StateInv, Deafened
  <1>10. TaskInv'
    BY <1>2, <1>3, <1>4, <1>5 DEF IInv, TaskInv, Deafened
  <1>11. ConnInv'
    BY <1>2 DEF IInv, ConnInv, Blank
  <1>12. \A z \in Ends : ep'[z].q = ep[z].q /\ ep'[z].refs = ep[z].refs
    BY <1>2
  <1>13. /\ sock'[1].at = sock[1].at /\ sock'[1].fd1 = sock[1].fd1 /\ sock'[2] = sock[2]
         /\ sock'[4].at = sock[4].at /\ sock'[4].fd0 = sock[4].fd0
         /\ ("connected" \in sock'[1].st <=> "connected" \in sock[1].st)
         /\ sock[4].at = "none" => sock'[4] = sock[4]
    BY <1>2, <1>3, <1>4, <1>5 DEF Deafened
  <1>14. /\ s = 1 => e \in {a0, a1}
         /\ s = 4 => (mode = "local" /\ e \in {a0, a1}) \/ (mode = "listen" /\ e \in {c0, c1})
    <2>1. (s = 1 => sock[s].fd0 = a0) /\ (s = 4 => mode \in {"local", "listen"} /\ sock[s].fd0 = IF mode = "local" THEN a1 ELSE c1)
      BY <1>2, OpenSocket
    <2> QED
      BY <1>1, <2>1, PartnersAre
  <1>15. RefInv'
    <2>1. PairA'
      <3>1. sock[1].at = "none" => ep'[a0] = ep[a0]
        <4>1. sock[4].at = "open" /\ mode = "local" => "connected" \in sock[1].st
          BY DEF IInv, QueueInv
        <4>2. sock[1].at = "none" => "connected" \notin sock[1].st
          BY <1>5 DEF IInv, SocketInv, NoSocket
        <4>3. sock[1].at = "none" => e # a0
          BY <1>2, <1>5, <1>14, <4>1, <4>2, EndsAre
        <4> QED
          BY <1>2, <4>3, EndsAre
      <3> QED
        BY <1>2, <1>5, <1>12, <1>13, <3>1, EndsAre DEF IInv, RefInv, PairA
    <2>2. PairB'
      BY <1>2, <1>5, <1>12, <1>13, EndsAre DEF IInv, RefInv, PairB
    <2>3. PairC'
      <3>1. tun["in"].at = "none" => ep'[c0] = ep[c0] /\ ep'[c1] = ep[c1]
        <4>1. sock[4].at = "open" /\ mode = "listen" => tun["in"].at # "none"
          BY DEF IInv, QueueInv
        <4>2. tun["in"].at = "none" => e # c0 /\ e # c1
          BY <1>2, <1>5, <1>14, <4>1, EndsAre
        <4> QED
          BY <1>2, <4>2, EndsAre
      <3> QED
        BY <1>2, <1>5, <1>12, <1>13, <3>1, EndsAre DEF IInv, RefInv, PairC
    <2>4. Accepted' /\ NoRefs'
      <3>1. sock[4].at = "open" => sock[4].fd0 \in Ends
        BY EndsAre DEF IInv, SocketInv
      <3> QED
        BY <1>12, <1>13, <3>1 DEF IInv, RefInv, Accepted, NoRefs
    <2> QED
      BY <2>1, <2>2, <2>3, <2>4 DEF RefInv
  <1>16. QueueInv'
    <2>1. Offered' = Offered /\ Offered.fd \in Ends
      BY <1>2, EndsAre DEF Offered, Connection
    <2>2. IsStream /\ ep[b0].q # <<>> => sock[4].at = "none"
      BY DEF IInv, QueueInv, NoSocket
    <2> QED
      BY <1>2, <1>5, <1>12, <1>13, <2>1, <2>2, EndsAre DEF IInv, QueueInv
  <1>17. SecureInv'
    BY <1>2, <1>3, <1>4, <1>5 DEF IInv, SecureInv, Deafened
  <1>18. StreamInv'
    <2>1. e \in {sock[s].fd0, Partner(sock[s].fd0)} /\ Deafened(sock[s], sock'[s]) /\ (e = sock[s].fd0 => "deaf" \in sock'[s].st)
      BY <1>1, <1>3, <1>4
    <2> QED
      BY <1>2, <1>4, <1>5, <2>1, ShutStreams
  <1>19. DatagramInv'
    BY <1>5 DEF DatagramInv, IsStream, TypeOf
  <1> QED
    BY <1>6, <1>7, <1>8, <1>9, <1>10, <1>11, <1>15, <1>16, <1>17, <1>18, <1>19 DEF IInv

-----------------------------------------------------------------------------
(* Close.                                                                  *)

\* A UNIX socket loses holders, and with the last one what it queues.
DroppedEnd(e) ==
    /\ ep'[e].shut = ep[e].shut /\ ep'[e].refs \subseteq ep[e].refs
    /\ ep'[e].refs = {} => ep'[e].q = <<>>
    /\ ep'[e].refs # {} => ep'[e].q = ep[e].q

\* A socket is closed: its data stay.
Closed(old, new) ==
    /\ new.at # "open" /\ old.at # "none" /\ new.at # "none" /\ new.fd1 = None /\ new.call = idle /\ old.call = idle
    /\ new.type = old.type /\ new.peer = old.peer /\ new.fd0 = old.fd0 /\ new.htls = old.htls /\ new.st = old.st
    /\ new.sent = old.sent /\ new.got = old.got /\ new.eof = old.eof

\* A connection that waits for a listener is closed with it.
ClosedConn(old, new) ==
    /\ new.end = old.end /\ new.sent = old.sent /\ new.down = old.down /\ new.got = old.got
    /\ new.upEnd = old.upEnd /\ new.tls = old.tls
    /\ new.at = old.at \/ (old.at = "queued" /\ new.at = "closed")

\* What is in flight is lost with a UNIX socket, and only then.
LEMMA DroppedStreams ==
    ASSUME IInv, UNCHANGED <<mode, tun>>, NEW s \in Sockets, Closed(sock[s], sock'[s]), \A o \in Sockets : o # s => sock'[o] = sock[o],
           \A e \in Ends : DroppedEnd(e), \A c \in Conns : ClosedConn(conn[c], conn'[c])
    PROVE  StreamInv'
  <1>1. 1 \in Sockets /\ 4 \in Sockets /\ a0 \in Ends /\ a1 \in Ends /\ c0 \in Ends /\ c1 \in Ends
    BY EndsAre DEF Sockets
  <1>2. ASSUME NEW o \in Sockets
        PROVE  /\ sock'[o].sent = sock[o].sent /\ sock'[o].got = sock[o].got /\ sock'[o].eof = sock[o].eof
               /\ sock'[o].st = sock[o].st /\ Len(sock[o].got) \in Nat
    <2>1. sock[o].got \in Seq(Receipt)
      BY DEF IInv, TypeOK, SocketRecord
    <2>2. CASE o = s
      BY <2>1, <2>2 DEF Closed
    <2>3. CASE o # s
      BY <2>1, <2>3
    <2> QED
      BY <2>2, <2>3
  <1>3. ASSUME NEW c \in Conns
        PROVE  /\ conn'[c].sent = conn[c].sent /\ conn'[c].down = conn[c].down /\ conn'[c].got = conn[c].got
               /\ conn'[c].upEnd = conn[c].upEnd /\ conn'[c].end = conn[c].end
               /\ Len(conn[c].got) \in Nat
    <2>1. conn[c].got \in Seq([n : Nat, tls : BOOLEAN])
      BY DEF IInv, TypeOK, ConnType
    <2> QED
      BY <2>1 DEF ClosedConn
  <1>4. ASSUME NEW e \in Ends, NEW k \in Nat, Consecutive(ep[e].q, k)
        PROVE  Consecutive(ep'[e].q, k)
    <2>1. ep'[e].q = <<>> \/ ep'[e].q = ep[e].q
      BY DEF DroppedEnd
    <2> QED
      BY <1>4, <2>1, NothingQueued
  <1>5. ASSUME NEW e \in Ends
        PROVE  /\ ep'[e].refs # {} => ep[e].refs # {} /\ ep'[e].q = ep[e].q
               /\ ep'[e].shut = ep[e].shut
    BY DEF DroppedEnd
  <1>6. CASE mode = "local"
    <2>1. PipeInv(1, 4, a0, a1) /\ PipeInv(4, 1, a1, a0)
      BY <1>6 DEF IInv, StreamInv
    <2>2. PipeInv(1, 4, a0, a1)'
      <3>1. Consecutive(ep'[a0].q, Len(sock'[1].got))
        <4>1. Consecutive(ep[a0].q, Len(sock[1].got)) /\ Len(sock[1].got) \in Nat
          BY <1>1, <1>2, <2>1 DEF PipeInv
        <4> QED
          BY <1>1, <1>2, <1>4, <4>1
      <3> QED
        BY <1>1, <1>2, <1>5, <2>1, <3>1 DEF PipeInv
    <2>3. PipeInv(4, 1, a1, a0)'
      <3>1. Consecutive(ep'[a1].q, Len(sock'[4].got))
        <4>1. Consecutive(ep[a1].q, Len(sock[4].got)) /\ Len(sock[4].got) \in Nat
          BY <1>1, <1>2, <2>1 DEF PipeInv
        <4> QED
          BY <1>1, <1>2, <1>4, <4>1
      <3> QED
        BY <1>1, <1>2, <1>5, <2>1, <3>1 DEF PipeInv
    <2> QED
      BY <1>6, <2>2, <2>3 DEF StreamInv, Tunneled, Conns
  <1>7. ASSUME NEW c \in Conns, Tunneled(c)
        PROVE  (UpInv(c) /\ DownInv(c))'
    <2>1. UpInv(c) /\ DownInv(c) /\ tun' = tun
      BY <1>7 DEF IInv, StreamInv
    <2>2. GuestOf(c) \in Sockets /\ GuestEnd(c) \in Ends /\ BridgeEnd(c) \in Ends
      <3>1. c = "out" \/ c = "in"
        BY DEF Conns
      <3> QED
        BY <1>1, <3>1, EndsOf
    <2>3. tun[c].at = "none" \/ ~tun[c].up => Consecutive(ep'[BridgeEnd(c)].q, Len(conn[c].got))
      <3>1. tun[c].at = "none" \/ ~tun[c].up => Consecutive(ep[BridgeEnd(c)].q, Len(conn[c].got))
        BY <2>1 DEF UpInv
      <3> QED
        BY <1>3, <1>4, <2>2, <3>1
    <2>4. Consecutive(ep'[GuestEnd(c)].q, Len(sock[GuestOf(c)].got))
      <3>1. Consecutive(ep[GuestEnd(c)].q, Len(sock[GuestOf(c)].got))
        BY <2>1 DEF DownInv
      <3> QED
        BY <1>2, <1>4, <2>2, <3>1
    <2>5. UpInv(c)'
      BY <1>2, <1>3, <1>5, <2>1, <2>2, <2>3 DEF UpInv
    <2>6. DownInv(c)'
      BY <1>2, <1>3, <1>5, <2>1, <2>2, <2>4 DEF DownInv
    <2> QED
      BY <2>5, <2>6
  <1>8. \A c \in Conns : Tunneled(c)' => Tunneled(c)
    BY DEF Tunneled
  <1> QED
    BY <1>6, <1>7, <1>8 DEF StreamInv

\* What a datagram socket has not received is lost with it.
LEMMA MailEmptied ==
    ASSUME NEW q, NEW got, NEW sent, Mail(q, got, sent)
    PROVE  Mail(<<>>, got, sent)
  BY DEF Mail

\* What is left to show of a socket that is closed.
LEMMA ClosedKeeps ==
    ASSUME IInv, UNCHANGED <<mode, tun, heard>>, NEW s \in Sockets, NEW r \in SocketRecord, Closed(sock[s], r),
           sock' = [sock EXCEPT ![s] = r], s \in {1, 2, 4},
           ep' \in [Ends -> UnixSocket], \A e \in Ends : DroppedEnd(e),
           task' \in [{1, 2} -> TaskType], \A x \in {1, 2} : SoftTask(x),
           conn' \in [Conns -> ConnType], \A c \in Conns : ClosedConn(conn[c], conn'[c]),
           PairA', PairB', PairC', Accepted',
           IsStream => ep'[b1].q = <<>>,
           IsStream /\ ep'[b0].q # <<>> => ep'[Offered.fd].refs = ep[Offered.fd].refs /\ s # 4
    PROVE  IInv'
  <1>1. /\ 1 \in Sockets /\ 2 \in Sockets /\ 3 \in Sockets /\ 4 \in Sockets /\ (IsStream' <=> IsStream)
        /\ a0 \in Ends /\ b0 \in Ends /\ b1 \in Ends
    BY EndsAre DEF Sockets, IsStream
  <1>2. sock' \in [Sockets -> SocketRecord] /\ sock'[s] = r /\ \A o \in Sockets : o # s => sock'[o] = sock[o]
    BY SockIs DEF IInv
  <1>3. TypeOK'
    BY <1>2 DEF IInv, TypeOK
  <1>4. \A o \in Sockets : /\ sock'[o].type = sock[o].type /\ sock'[o].peer = sock[o].peer /\ sock'[o].fd0 = sock[o].fd0
                           /\ sock'[o].htls = sock[o].htls /\ sock'[o].st = sock[o].st
                           /\ sock'[o].sent = sock[o].sent /\ sock'[o].got = sock[o].got /\ sock'[o].call = sock[o].call
                           /\ sock'[o].fd1 = sock[o].fd1 \/ sock'[o].fd1 = None
                           /\ sock'[o].at = "open" => sock[o].at = "open" /\ sock'[o] = sock[o]
                           /\ sock'[o].at = "none" <=> sock[o].at = "none"
                           /\ sock'[o].at = "none" => sock'[o] = sock[o]
    BY <1>2 DEF Closed
  <1>5. SocketInv'
    <2>1. s # 3 /\ sock'[3] = sock[3]
      BY <1>1, <1>2
    <2>2. \A o \in Sockets : sock'[o].at # "open" => sock'[o].fd1 = None /\ sock'[o].call = idle
      BY <1>2 DEF Closed, IInv, SocketInv
    <2> QED
      BY <1>1, <1>4, <2>1, <2>2 DEF IInv, SocketInv
  <1>6. CallInv'
    BY <1>1, <1>4 DEF IInv, CallInv, Silent, Server
  <1>7. StateInv'
    BY <1>1, <1>4 DEF IInv, StateInv, Server
  <1>8. TaskInv'
    BY <1>1, <1>4 DEF IInv, TaskInv, SoftTask
  <1>9. ConnInv'
    BY DEF IInv, ConnInv, Blank, SoftTask, Conns, ClosedConn
  <1>10. NoRefs'
    BY DEF NoRefs, DroppedEnd
  <1>11. RefInv'
    BY <1>10 DEF RefInv
  <1>12. QueueInv'
    <2>1. ASSUME NEW e \in Ends, ~(IsStream /\ e = b0)
          PROVE  \A i \in DOMAIN ep'[e].q : ep'[e].q[i].fd = None
      <3>1. \A i \in DOMAIN ep[e].q : ep[e].q[i].fd = None
        BY <2>1 DEF IInv, QueueInv
      <3>2. ep'[e].q = <<>> \/ ep'[e].q = ep[e].q
        BY DEF DroppedEnd
      <3>3. \A i \in DOMAIN <<>> : <<>>[i].fd = None
        OBVIOUS
      <3> QED
        BY <3>1, <3>2, <3>3, Zenon
    <2>2. ep'[b0].q # <<>> => ep'[b0].q = ep[b0].q
      BY <1>1 DEF DroppedEnd
    <2>3. sock'[1].st = sock[1].st /\ (sock'[4].at = "none" <=> sock[4].at = "none") /\ (s # 4 => sock'[4] = sock[4])
      BY <1>1, <1>2, <1>4
    <2>4. Offered' = Offered
      BY DEF Offered
    <2> QED
      BY <1>1, <2>1, <2>2, <2>3, <2>4 DEF IInv, QueueInv
  <1>13. SecureInv'
    <2>1. conn'["out"].got = conn["out"].got /\ conn'["out"].tls = conn["out"].tls
      BY DEF ClosedConn, Conns
    <2> QED
      BY <1>1, <1>4, <2>1 DEF IInv, SecureInv, SoftTask
  <1>14. StreamInv'
    BY <1>2, DroppedStreams
  <1>15. DatagramInv'
    <2> SUFFICES ASSUME mode = "packets"
                 PROVE  Mail(ep'[a0].q, sock'[1].got, SentBy') /\ Mail(ep'[b0].q, sock'[2].got, SentBy')
      BY DEF DatagramInv, MailInv
    <2>1. SentBy' = SentBy /\ sock'[1].got = sock[1].got /\ sock'[2].got = sock[2].got
      BY <1>1, <1>4, SentSame
    <2>2. Mail(ep[a0].q, sock[1].got, SentBy) /\ Mail(ep[b0].q, sock[2].got, SentBy)
      BY DEF IInv, DatagramInv, MailInv
    <2>3. Mail(<<>>, sock[1].got, SentBy) /\ Mail(<<>>, sock[2].got, SentBy)
      BY <2>2, MailEmptied
    <2>4. (ep'[a0].q = ep[a0].q \/ ep'[a0].q = <<>>) /\ (ep'[b0].q = ep[b0].q \/ ep'[b0].q = <<>>)
      BY <1>1 DEF DroppedEnd
    <2> QED
      BY <2>1, <2>2, <2>3, <2>4, Zenon
  <1> QED
    BY <1>3, <1>5, <1>6, <1>7, <1>8, <1>9, <1>11, <1>12, <1>13, <1>14, <1>15 DEF IInv

\* CloseReturns.
LEMMA CloseReturnsKeeps ==
    ASSUME IInv, NEW s \in Sockets, CloseReturns(s)
    PROVE  IInv'
  <1>1. /\ sock[s].at = "closing" /\ UNCHANGED <<mode, ep, task, conn, tun, heard>> /\ sock[s] \in SocketRecord
        /\ sock[s].fd1 = None /\ sock[s].call = idle
    BY DEF CloseReturns, IInv, TypeOK, SocketInv
  <1>2. PICK r : r = [sock[s] EXCEPT !.at = "closed"]
    OBVIOUS
  <1>3. r \in SocketRecord /\ Closed(sock[s], r) /\ sock' = [sock EXCEPT ![s] = r] /\ r.at = "closed"
    BY <1>1, <1>2 DEF CloseReturns, SocketRecord, Closed
  <1>4. sock' \in [Sockets -> SocketRecord] /\ sock'[s] = r /\ \A o \in Sockets : o # s => sock'[o] = sock[o]
    BY <1>3, SockIs DEF IInv
  <1>5. /\ 1 \in Sockets /\ 2 \in Sockets /\ 4 \in Sockets /\ s \in {1, 2, 4} /\ b1 \in Ends
        /\ s = 4 => IsStream
    BY <1>1, EndsAre DEF Sockets, IInv, SocketInv, NoSocket, IsStream, TypeOf
  <1>6. \A e \in Ends : DroppedEnd(e)
    BY <1>1 DEF DroppedEnd, IInv, RefInv, NoRefs
  <1>7. PairA' /\ PairB' /\ PairC' /\ Accepted'
    <2>1. \A o \in Sockets : /\ sock'[o].at = "open" <=> sock[o].at = "open"
                             /\ sock'[o].at = "none" <=> sock[o].at = "none"
                             /\ sock'[o].fd1 = sock[o].fd1 /\ sock'[o].fd0 = sock[o].fd0
      BY <1>1, <1>3, <1>4 DEF Closed
    <2> QED
      BY <1>1, <1>5, <2>1 DEF IInv, RefInv, PairA, PairB, PairC, Accepted, IsStream
  <1>8. (IsStream => ep'[b1].q = <<>>) /\ (IsStream /\ ep'[b0].q # <<>> => s # 4)
    BY <1>1 DEF IInv, QueueInv, NoSocket
  <1> QED
    BY <1>1, <1>3, <1>5, <1>6, <1>7, <1>8, NoTaskChange, ClosedKeeps DEF ClosedConn, IInv, TypeOK

\* What Close does first, whatever the socket.
LEMMA CloseStarts ==
    ASSUME IInv, NEW s \in Sockets, FDClose(s)
    PROVE  /\ \E r \in SocketRecord : sock' = [sock EXCEPT ![s] = r] /\ Closed(sock[s], r) /\ r.at = "closing"
           /\ task' \in [{1, 2} -> TaskType] /\ \A x \in {1, 2} : SoftTask(x)
           /\ conn' \in [Conns -> ConnType] /\ \A c \in Conns : ClosedConn(conn[c], conn'[c])
           /\ UNCHANGED <<mode, tun, heard>> /\ sock[s].at = "open" /\ s \in {1, 2, 4} /\ (s = 4 => IsStream)
  <1>1. /\ sock[s].at = "open" /\ sock[s].call = idle /\ UNCHANGED <<mode, tun, heard>> /\ sock[s] \in SocketRecord
        /\ s \in {1, 2, 4} /\ (s = 4 => IsStream)
    BY OpenSocket DEF FDClose, Ready, IsStream, TypeOf
  <1>2. \E r \in SocketRecord : sock' = [sock EXCEPT ![s] = r] /\ Closed(sock[s], r) /\ r.at = "closing"
    <2>1. PICK r : r = [sock[s] EXCEPT !.at = "closing", !.fd1 = None]
      OBVIOUS
    <2>2. sock' = [sock EXCEPT ![s] = r]
      BY <2>1 DEF FDClose
    <2>3. r \in SocketRecord /\ Closed(sock[s], r) /\ r.at = "closing"
      BY <1>1, <2>1 DEF SocketRecord, Closed, EndOrNone
    <2> QED
      BY <2>2, <2>3
  <1>3. task \in [{1, 2} -> TaskType] /\ conn \in [Conns -> ConnType]
    BY DEF IInv, TypeOK
  <1>4. task' \in [{1, 2} -> TaskType] /\ \A x \in {1, 2} : SoftTask(x)
    <2>1. CASE s \in {1, 2}
      <3>1. task' = [task EXCEPT ![s].stop = TRUE]
        BY <2>1 DEF FDClose, Interrupt
      <3>2. PICK t : t = [task[s] EXCEPT !.stop = TRUE]
        OBVIOUS
      <3>3. t \in TaskType /\ t.at = task[s].at /\ t.made = task[s].made /\ t.closed = task[s].closed
        BY <1>3, <2>1, <3>2 DEF TaskType
      <3>4. task' = [task EXCEPT ![s] = t]
        BY <3>1, <3>2
      <3> QED
        BY <1>3, <2>1, <3>3, <3>4 DEF SoftTask
    <2>2. CASE s \notin {1, 2}
      BY <1>3, <2>2 DEF FDClose, Interrupt, SoftTask
    <2> QED
      BY <2>1, <2>2
  <1>5. conn' \in [Conns -> ConnType] /\ \A c \in Conns : ClosedConn(conn[c], conn'[c])
    <2>1. CASE s = 2 /\ conn["in"].at = "queued"
      <3>1. conn' = [conn EXCEPT !["in"].at = "closed"]
        BY <2>1 DEF FDClose, Interrupt
      <3>2. PICK k : k = [conn["in"] EXCEPT !.at = "closed"]
        OBVIOUS
      <3>3. "in" \in Conns /\ conn["in"] \in ConnType
        BY <1>3 DEF Conns
      <3>4. k \in ConnType /\ ClosedConn(conn["in"], k)
        BY <2>1, <3>2, <3>3 DEF ConnType, ClosedConn
      <3>5. conn' = [conn EXCEPT !["in"] = k]
        BY <3>1, <3>2
      <3> QED
        BY <1>3, <3>3, <3>4, <3>5 DEF ClosedConn
    <2>2. CASE ~(s = 2 /\ conn["in"].at = "queued")
      <3>1. conn' = conn
        BY <2>2 DEF FDClose, Interrupt
      <3> QED
        BY <1>3, <3>1 DEF ClosedConn
    <2> QED
      BY <2>1, <2>2
  <1> QED
    BY <1>1, <1>2, <1>4, <1>5

\* The sockets of a connection of the network, or one that a host connects to.
LEMMA CloseAccepted ==
    ASSUME IInv, FDClose(4)
    PROVE  IInv'
  <1>1. /\ task' \in [{1, 2} -> TaskType] /\ \A x \in {1, 2} : SoftTask(x)
        /\ conn' \in [Conns -> ConnType] /\ \A c \in Conns : ClosedConn(conn[c], conn'[c])
        /\ UNCHANGED <<mode, tun, heard>> /\ sock[4].at = "open" /\ IsStream /\ 4 \in Sockets /\ 1 \in Sockets /\ 2 \in Sockets
    BY CloseStarts DEF Sockets
  <1>2. PICK r \in SocketRecord : sock' = [sock EXCEPT ![4] = r] /\ Closed(sock[4], r) /\ r.at = "closing"
    BY <1>1, CloseStarts
  <1>3. sock' \in [Sockets -> SocketRecord] /\ sock'[4] = r /\ \A o \in Sockets : o # 4 => sock'[o] = sock[o]
    BY <1>1, <1>2, SockIs DEF IInv
  <1>4. PICK e \in Ends : /\ e = sock[4].fd0 /\ e # b0 /\ e # b1
                          /\ (mode = "local" /\ e = a1) \/ (mode = "listen" /\ e = c1)
    BY <1>1, OpenSocket, EndsAre
  <1>5. /\ a0 \in Ends /\ a1 \in Ends /\ b0 \in Ends /\ b1 \in Ends /\ c0 \in Ends /\ c1 \in Ends
        /\ ep \in [Ends -> UnixSocket] /\ {"file0", "fd"} \in SUBSET Holders /\ \A x \in Ends : ep[x].refs \subseteq Holders
    BY EndsAre DEF IInv, TypeOK, Holders, UnixSocket
  <1>6. ep[b0].q = <<>>
    BY <1>1 DEF IInv, QueueInv, NoSocket
  <1>7. ep[e].refs \subseteq {"file0", "fd"}
    <2>1. CASE mode = "local"
      <3>1. e = a1 /\ task[1].at = "none"
        BY <1>4, <2>1 DEF IInv, TaskInv
      <3> QED
        BY <1>1, <1>5, <1>6, <3>1 DEF IInv, RefInv, PairA, Holders
    <2>2. CASE mode = "listen"
      BY <1>4, <1>6, <2>2 DEF IInv, RefInv, PairC
    <2> QED
      BY <1>4, <2>1, <2>2
  <1>8. ep' = Drop(ep, e, {"file0", "fd"})
    <2>1. \A i \in DOMAIN ep[e].q : ep[e].q[i].fd = None
      BY <1>4 DEF IInv, QueueInv
    <2>2. ep' = Release(ep, e, {"file0", "fd"})
      BY <1>4 DEF FDClose
    <2> QED
      BY <1>5, <2>1, <2>2, ReleaseIs
  <1>9. /\ ep' \in [Ends -> UnixSocket] /\ \A x \in Ends : x # e => ep'[x] = ep[x]
        /\ ep'[e].refs = {} /\ ep'[e].shut = ep[e].shut /\ ep'[e].q = <<>>
    <2>1. ep[e].refs \ {"file0", "fd"} = {}
      BY <1>7
    <2> QED
      BY <1>5, <1>8, <2>1, DropDrops
  <1>10. ASSUME NEW x \in Ends
         PROVE  DroppedEnd(x)
    <2>1. CASE x = e
      <3>1. ep'[x].shut = ep[x].shut /\ ep'[x].refs = {} /\ ep'[x].q = <<>>
        BY <1>9, <2>1
      <3> QED
        BY <3>1 DEF DroppedEnd
    <2>2. CASE x # e
      <3>1. ep'[x] = ep[x] /\ (ep[x].refs = {} => ep[x].q = <<>>)
        BY <1>9, <2>2 DEF IInv, RefInv, NoRefs
      <3> QED
        BY <3>1 DEF DroppedEnd
    <2> QED
      BY <2>1, <2>2
  <1>11. /\ sock'[1] = sock[1] /\ sock'[2] = sock[2] /\ sock'[4].at = "closing"
         /\ ep'[a0] = ep[a0] /\ ep'[b0] = ep[b0] /\ ep'[b1] = ep[b1] /\ ep'[c0] = ep[c0]
         /\ mode = "local" => ep'[c1] = ep[c1] /\ ep'[a1].refs = {}
         /\ mode = "listen" => ep'[a1] = ep[a1] /\ ep'[c1].refs = {} /\ ep'[c1].shut = ep[c1].shut
         /\ task'[1].at = task[1].at /\ task'[2].at = task[2].at
    BY <1>1, <1>2, <1>3, <1>4, <1>5, <1>9, EndsAre DEF SoftTask
  <1>12. PairA'
    <2>1. CASE mode = "local"
      <3>1. sock[1].fd1 = None /\ task[1].at = "none"
        <4>1. "connected" \in sock[1].st
          BY <1>1, <2>1 DEF IInv, QueueInv
        <4> QED
          BY <1>1, <2>1, <4>1 DEF IInv, StateInv, TaskInv
      <3> QED
        BY <1>11, <2>1, <3>1 DEF IInv, RefInv, PairA
    <2>2. CASE mode = "listen"
      BY <1>1, <1>6, <1>11, <2>2 DEF IInv, RefInv, PairA, IsStream
    <2> QED
      BY <1>4, <2>1, <2>2
  <1>13. PairB'
    BY <1>1, <1>11 DEF IInv, RefInv, PairB, IsStream
  <1>14. PairC'
    <2>1. CASE mode = "local"
      BY <1>1, <1>6, <1>11, <2>1 DEF IInv, RefInv, PairC
    <2>2. CASE mode = "listen"
      BY <1>1, <1>6, <1>11, <2>2 DEF IInv, RefInv, PairC
    <2> QED
      BY <1>4, <2>1, <2>2
  <1>15. Accepted' /\ ep'[b0].q = <<>> /\ ep'[b1].q = <<>>
    BY <1>1, <1>6, <1>11 DEF Accepted, IInv, QueueInv
  <1> QED
    BY <1>1, <1>2, <1>9, <1>10, <1>12, <1>13, <1>14, <1>15, ClosedKeeps

\* A socket that connects; fd1 is closed unless it was sent or given away.
LEMMA CloseFirst ==
    ASSUME IInv, FDClose(1)
    PROVE  IInv'
  <1>1. /\ task' \in [{1, 2} -> TaskType] /\ \A x \in {1, 2} : SoftTask(x)
        /\ conn' \in [Conns -> ConnType] /\ \A c \in Conns : ClosedConn(conn[c], conn'[c])
        /\ UNCHANGED <<mode, tun, heard>> /\ sock[1].at = "open" /\ 4 \in Sockets /\ 1 \in Sockets /\ 2 \in Sockets
    BY CloseStarts DEF Sockets
  <1>2. PICK r \in SocketRecord : sock' = [sock EXCEPT ![1] = r] /\ Closed(sock[1], r) /\ r.at = "closing"
    BY <1>1, CloseStarts
  <1>3. sock' \in [Sockets -> SocketRecord] /\ sock'[1] = r /\ \A o \in Sockets : o # 1 => sock'[o] = sock[o]
    BY <1>1, <1>2, SockIs DEF IInv
  <1>4. /\ a0 \in Ends /\ a1 \in Ends /\ b0 \in Ends /\ b1 \in Ends /\ c0 \in Ends /\ c1 \in Ends
        /\ ep \in [Ends -> UnixSocket] /\ {"file0", "fd"} \in SUBSET Holders
    BY EndsAre DEF IInv, TypeOK, Holders
  <1>5. PICK hs \in SUBSET Holders : hs = IF sock[1].fd1 = None THEN {"file1"} ELSE {"file1", "fd"}
    BY DEF Holders
  <1>6. \A e \in {a0, a1} : \A i \in DOMAIN ep[e].q : ep[e].q[i].fd = None
    BY <1>4, EndsAre DEF IInv, QueueInv
  <1>7. PICK E0 : E0 = Release(ep, a0, {"file0", "fd"})
    OBVIOUS
  <1>8. ep' = Release(E0, a1, hs)
    <2>1. sock[1].fd0 = a0 /\ a1 = <<1, 1>> /\ 1 # 4
      BY <1>1, OpenSocket DEF a1
    <2> QED
      BY <1>5, <1>7, <2>1 DEF FDClose
  <1>9. /\ E0 \in [Ends -> UnixSocket] /\ \A x \in Ends : x # a0 => E0[x] = ep[x]
        /\ E0[a0].refs = {} /\ E0[a0].shut = ep[a0].shut /\ E0[a0].q = <<>>
    <2>1. E0 = Drop(ep, a0, {"file0", "fd"})
      BY <1>4, <1>6, <1>7, ReleaseIs
    <2>2. ep[a0].refs \ {"file0", "fd"} = {}
      BY DEF IInv, RefInv, PairA
    <2> QED
      BY <1>4, <2>1, <2>2, DropDrops
  <1>10. /\ ep' \in [Ends -> UnixSocket] /\ \A x \in Ends : x # a1 => ep'[x] = E0[x]
         /\ ep'[a1].refs = ep[a1].refs \ hs /\ ep'[a1].shut = ep[a1].shut
         /\ ep'[a1].refs = {} => ep'[a1].q = <<>>
         /\ ep'[a1].refs # {} => ep'[a1].q = ep[a1].q
    <2>1. E0[a1] = ep[a1]
      BY <1>4, <1>9, EndsAre
    <2>2. ep' = Drop(E0, a1, hs)
      BY <1>4, <1>6, <1>8, <1>9, <2>1, ReleaseIs
    <2> QED
      BY <1>4, <1>9, <2>1, <2>2, DropDrops
  <1>11. /\ ep'[a0].refs = {} /\ ep'[a0].q = <<>> /\ ep'[a0].shut = ep[a0].shut
         /\ ep'[b0] = ep[b0] /\ ep'[b1] = ep[b1] /\ ep'[c0] = ep[c0] /\ ep'[c1] = ep[c1]
    BY <1>4, <1>9, <1>10, EndsAre
  <1>12. ASSUME NEW x \in Ends
         PROVE  DroppedEnd(x)
    <2>1. CASE x = a0
      BY <1>11, <2>1 DEF DroppedEnd
    <2>2. CASE x = a1
      <3>1. ep'[a1].refs \subseteq ep[a1].refs
        BY <1>10
      <3> QED
        BY <1>10, <2>2, <3>1 DEF DroppedEnd
    <2>3. CASE x # a0 /\ x # a1
      <3>1. ep'[x] = ep[x] /\ (ep[x].refs = {} => ep[x].q = <<>>)
        BY <1>9, <1>10, <2>3 DEF IInv, RefInv, NoRefs
      <3> QED
        BY <3>1 DEF DroppedEnd
    <2> QED
      BY <2>1, <2>2, <2>3
  <1>13. /\ sock'[1].at = "closing" /\ sock'[1].fd1 = None /\ sock'[2] = sock[2] /\ sock'[4] = sock[4]
         /\ task'[1].at = task[1].at /\ task'[2].at = task[2].at
    BY <1>1, <1>2, <1>3 DEF SoftTask, Closed
  <1>14. mode = "local" /\ sock[4].at = "open" => sock[1].fd1 = None
    <2>1. mode = "local" /\ sock[4].at = "open" => IsStream /\ "connected" \in sock[1].st
      BY DEF IInv, QueueInv, IsStream, TypeOf
    <2> QED
      BY <1>1, <2>1 DEF IInv, StateInv
  <1>15. PairA'
    <2>1. "fd" \in ep'[a1].refs => mode = "local" /\ sock[4].at = "open"
      BY <1>5, <1>10 DEF IInv, RefInv, PairA
    <2>2. "file1" \notin ep'[a1].refs
      BY <1>5, <1>10
    <2>3. /\ "file0" \in ep'[a1].refs <=> "file0" \in ep[a1].refs
          /\ "msg" \in ep'[a1].refs <=> "msg" \in ep[a1].refs
          /\ "peer" \in ep'[a1].refs <=> "peer" \in ep[a1].refs
          /\ "net" \in ep'[a1].refs <=> "net" \in ep[a1].refs
      BY <1>5, <1>10
    <2> QED
      BY <1>1, <1>11, <1>13, <2>1, <2>2, <2>3 DEF IInv, RefInv, PairA, IsStream
  <1>16. PairB' /\ PairC'
    BY <1>1, <1>11, <1>13 DEF IInv, RefInv, PairB, PairC, IsStream
  <1>17. Accepted'
    <2> SUFFICES ASSUME sock[4].at = "open"
                 PROVE  "fd" \in ep'[sock[4].fd0].refs
      BY <1>13 DEF Accepted
    <2>1. "fd" \in ep[sock[4].fd0].refs
      BY DEF IInv, RefInv, Accepted
    <2>2. mode \in {"local", "listen"} /\ sock[4].fd0 = IF mode = "local" THEN a1 ELSE c1
      BY DEF IInv, SocketInv
    <2>3. CASE mode = "local"
      <3>1. hs = {"file1"}
        BY <1>5, <1>14, <2>3
      <3> QED
        BY <1>10, <2>1, <2>2, <2>3, <3>1
    <2>4. CASE mode = "listen"
      BY <1>11, <2>1, <2>2, <2>4
    <2> QED
      BY <2>2, <2>3, <2>4
  <1>18. IsStream => ep'[b1].q = <<>>
    BY <1>11 DEF IInv, QueueInv
  <1>19. IsStream /\ ep'[b0].q # <<>> => ep'[Offered.fd].refs = ep[Offered.fd].refs
    <2> SUFFICES ASSUME IsStream, ep[b0].q # <<>>
                 PROVE  ep'[Offered.fd].refs = ep[Offered.fd].refs
      BY <1>11
    <2>1. mode \in {"local", "listen"} /\ ep[Offered.fd].refs = {"msg"}
      BY DEF IInv, QueueInv
    <2>2. Offered.fd = IF mode = "local" THEN a1 ELSE c1
      BY DEF Offered, Connection
    <2>3. CASE mode = "local"
      <3>1. {"msg"} \ hs = {"msg"}
        BY <1>5
      <3> QED
        BY <1>10, <2>1, <2>2, <2>3, <3>1
    <2>4. CASE mode = "listen"
      BY <1>11, <2>1, <2>2, <2>4
    <2> QED
      BY <2>1, <2>3, <2>4
  <1>20. IsStream /\ ep'[b0].q # <<>> => ep'[Offered.fd].refs = ep[Offered.fd].refs /\ 1 # 4
    BY <1>19
  <1>21. /\ 1 \in {1, 2, 4} /\ ep' \in [Ends -> UnixSocket] /\ \A x \in Ends : DroppedEnd(x)
         /\ sock' = [sock EXCEPT ![1] = r] /\ Closed(sock[1], r)
    BY <1>2, <1>10, <1>12
  <1> QED
    BY <1>1, <1>15, <1>16, <1>17, <1>18, <1>20, <1>21, ClosedKeeps

\* What a server queues goes with it: a descriptor in flight is closed.
LEMMA ServerEnds ==
    ASSUME IInv, NEW hs \in SUBSET Holders, hs \subseteq {"file1", "fd"},
           ep' = Release(Release(ep, b0, {"file0", "fd"}), b1, hs)
    PROVE  \E f \in Ends :
              /\ ep' \in [Ends -> UnixSocket] /\ \A x \in Ends : DroppedEnd(x)
              /\ ep'[b0].refs = {} /\ ep'[b1].refs = ep[b1].refs \ hs
              /\ IF IsStream /\ ep[b0].q # <<>>
                 THEN f = Offered.fd /\ f \in {a1, c1} /\ ep[f].refs = {"msg"} /\ ep'[f].refs = {} /\ ep'[f].shut = ep[f].shut
                 ELSE f = b0
              /\ \A x \in Ends \ {b0, b1, f} : ep'[x] = ep[x]
  <1>1. /\ a1 \in Ends /\ b0 \in Ends /\ b1 \in Ends /\ c1 \in Ends /\ a1 # b0 /\ c1 # b0 /\ a1 # b1 /\ c1 # b1 /\ b0 # b1
        /\ ep \in [Ends -> UnixSocket] /\ {"file0", "fd"} \in SUBSET Holders /\ {"msg"} \in SUBSET Holders
        /\ ep[b0].refs \subseteq {"file0", "fd"} /\ ep[b0].refs \ {"file0", "fd"} = {}
    BY EndsAre DEF IInv, TypeOK, Holders, RefInv, PairB
  <1>2. PICK E0 : E0 = Release(ep, b0, {"file0", "fd"})
    OBVIOUS
  <1>3. PICK E1 : E1 = Drop(ep, b0, {"file0", "fd"})
    OBVIOUS
  <1>4. /\ E1 \in [Ends -> UnixSocket] /\ \A x \in Ends : x # b0 => E1[x] = ep[x]
        /\ E1[b0].refs = {} /\ E1[b0].shut = ep[b0].shut /\ E1[b0].q = <<>>
    BY <1>1, <1>3, DropDrops
  <1>5. \E f \in Ends :
           /\ E0 \in [Ends -> UnixSocket]
           /\ E0[b0].refs = {} /\ E0[b0].shut = ep[b0].shut /\ E0[b0].q = <<>>
           /\ IF IsStream /\ ep[b0].q # <<>>
              THEN f = Offered.fd /\ f \in {a1, c1} /\ ep[f].refs = {"msg"} /\ E0[f].refs = {} /\ E0[f].shut = ep[f].shut /\ E0[f].q = <<>>
              ELSE f = b0
           /\ \A x \in Ends \ {b0, f} : E0[x] = ep[x]
    <2>1. CASE IsStream /\ ep[b0].q # <<>>
      <3>1. ep[b0].q = <<Offered>> /\ ep[Offered.fd].refs = {"msg"}
        BY <2>1 DEF IInv, QueueInv
      <3>2. PICK f \in {a1, c1} : f = Offered.fd
        BY DEF Offered, Connection
      <3>3. Offered \in Message
        <4>1. ep[b0] \in UnixSocket
          BY <1>1
        <4>2. ep[b0].q \in Seq(Message)
          BY <4>1 DEF UnixSocket
        <4>3. ASSUME NEW x, <<x>> \in Seq(Message)
              PROVE  x \in Message
          BY <4>3
        <4> QED
          BY <3>1, <4>2, <4>3
      <3>4. E0 = Drop(E1, f, {"msg"})
        BY <1>1, <1>2, <1>3, <3>1, <3>2, <3>3, ReleaseOffered
      <3>5. f \in Ends /\ f # b0 /\ ep[f].refs = {"msg"} /\ E1[f] = ep[f] /\ E1[f].refs \ {"msg"} = {}
        BY <1>1, <1>4, <3>1, <3>2
      <3>6. /\ E0 \in [Ends -> UnixSocket] /\ \A x \in Ends : x # f => E0[x] = E1[x]
            /\ E0[f].refs = {} /\ E0[f].shut = E1[f].shut /\ E0[f].q = <<>>
        BY <1>1, <1>4, <3>4, <3>5, DropDrops
      <3>7. E0[b0] = E1[b0] /\ \A x \in Ends \ {b0, f} : E0[x] = ep[x]
        BY <1>1, <1>4, <3>5, <3>6
      <3> QED
        BY <1>4, <2>1, <3>2, <3>5, <3>6, <3>7
    <2>2. CASE ~(IsStream /\ ep[b0].q # <<>>)
      <3>1. \A i \in DOMAIN ep[b0].q : ep[b0].q[i].fd = None
        BY <1>1, <2>2 DEF IInv, QueueInv
      <3>2. E0 = E1
        BY <1>1, <1>2, <1>3, <3>1, ReleaseIs
      <3> QED
        BY <1>1, <1>4, <2>2, <3>2
    <2> QED
      BY <2>1, <2>2
  <1>6. PICK f \in Ends :
           /\ E0 \in [Ends -> UnixSocket]
           /\ E0[b0].refs = {} /\ E0[b0].shut = ep[b0].shut /\ E0[b0].q = <<>>
           /\ IF IsStream /\ ep[b0].q # <<>>
              THEN f = Offered.fd /\ f \in {a1, c1} /\ ep[f].refs = {"msg"} /\ E0[f].refs = {} /\ E0[f].shut = ep[f].shut /\ E0[f].q = <<>>
              ELSE f = b0
           /\ \A x \in Ends \ {b0, f} : E0[x] = ep[x]
    BY <1>5
  <1>7. E0[b1] = ep[b1] /\ f # b1
    BY <1>1, <1>6
  <1>8. /\ ep' \in [Ends -> UnixSocket] /\ \A x \in Ends : x # b1 => ep'[x] = E0[x]
        /\ ep'[b1].refs = ep[b1].refs \ hs /\ ep'[b1].shut = ep[b1].shut
        /\ ep'[b1].refs = {} => ep'[b1].q = <<>>
        /\ ep'[b1].refs # {} => ep'[b1].q = ep[b1].q
    <2>1. \A i \in DOMAIN ep[b1].q : ep[b1].q[i].fd = None
      BY <1>1 DEF IInv, QueueInv
    <2>2. ep' = Drop(E0, b1, hs)
      BY <1>1, <1>2, <1>6, <1>7, <2>1, ReleaseIs
    <2> QED
      BY <1>1, <1>6, <1>7, <2>2, DropDrops
  <1>9. ASSUME NEW x \in Ends
        PROVE  DroppedEnd(x)
    <2>1. CASE x = b0
      <3>1. ep'[x] = E0[x]
        BY <1>1, <1>8, <2>1
      <3> QED
        BY <1>6, <2>1, <3>1 DEF DroppedEnd
    <2>2. CASE x = b1
      <3>1. ep'[b1].refs \subseteq ep[b1].refs
        BY <1>8
      <3> QED
        BY <1>8, <2>2, <3>1 DEF DroppedEnd
    <2>3. CASE x = f /\ x # b0
      <3>1. ep'[x] = E0[x]
        BY <1>7, <1>8, <2>3
      <3>2. ep'[x].refs = {} /\ ep'[x].shut = ep[x].shut /\ ep'[x].q = <<>>
        BY <1>6, <2>3, <3>1
      <3> QED
        BY <3>2 DEF DroppedEnd
    <2>4. CASE x \notin {b0, b1, f}
      <3>1. ep'[x] = ep[x] /\ (ep[x].refs = {} => ep[x].q = <<>>)
        BY <1>6, <1>8, <2>4 DEF IInv, RefInv, NoRefs
      <3> QED
        BY <3>1 DEF DroppedEnd
    <2> QED
      BY <2>1, <2>2, <2>3, <2>4
  <1>10. ep'[b0] = E0[b0] /\ ep'[f] = E0[f] /\ \A x \in Ends \ {b0, b1, f} : ep'[x] = ep[x]
    BY <1>1, <1>6, <1>7, <1>8
  <1> QED
    BY <1>6, <1>8, <1>9, <1>10

\* A server, or a datagram socket that others send to.
LEMMA CloseSecond ==
    ASSUME IInv, FDClose(2)
    PROVE  IInv'
  <1>1. /\ task' \in [{1, 2} -> TaskType] /\ \A x \in {1, 2} : SoftTask(x)
        /\ conn' \in [Conns -> ConnType] /\ \A c \in Conns : ClosedConn(conn[c], conn'[c])
        /\ UNCHANGED <<mode, tun, heard>> /\ sock[2].at = "open" /\ 4 \in Sockets /\ 1 \in Sockets /\ 2 \in Sockets
    BY CloseStarts DEF Sockets
  <1>2. PICK r \in SocketRecord : sock' = [sock EXCEPT ![2] = r] /\ Closed(sock[2], r) /\ r.at = "closing"
    BY <1>1, CloseStarts
  <1>3. sock' \in [Sockets -> SocketRecord] /\ sock'[2] = r /\ \A o \in Sockets : o # 2 => sock'[o] = sock[o]
    BY <1>1, <1>2, SockIs DEF IInv
  <1>4. PICK hs \in SUBSET Holders : hs = IF sock[2].fd1 = None THEN {"file1"} ELSE {"file1", "fd"}
    BY DEF Holders
  <1>5. ep' = Release(Release(ep, b0, {"file0", "fd"}), b1, hs)
    <2>1. sock[2].fd0 = b0 /\ b1 = <<2, 1>> /\ 2 # 4
      BY <1>1, OpenSocket DEF b1
    <2> QED
      BY <1>4, <2>1 DEF FDClose
  <1>6. PICK f \in Ends :
              /\ ep' \in [Ends -> UnixSocket] /\ \A x \in Ends : DroppedEnd(x)
              /\ ep'[b0].refs = {} /\ ep'[b1].refs = ep[b1].refs \ hs
              /\ IF IsStream /\ ep[b0].q # <<>>
                 THEN f = Offered.fd /\ f \in {a1, c1} /\ ep[f].refs = {"msg"} /\ ep'[f].refs = {} /\ ep'[f].shut = ep[f].shut
                 ELSE f = b0
              /\ \A x \in Ends \ {b0, b1, f} : ep'[x] = ep[x]
    <2>1. hs \subseteq {"file1", "fd"}
      BY <1>4
    <2> QED
      BY <1>5, <2>1, ServerEnds
  <1>7. /\ a0 \in Ends /\ a1 \in Ends /\ b0 \in Ends /\ b1 \in Ends /\ c0 \in Ends /\ c1 \in Ends
        /\ f = a1 \/ f = c1 \/ f = b0
    BY <1>6, EndsAre
  <1>8. /\ ep'[a0] = ep[a0] /\ ep'[c0] = ep[c0]
        /\ f # a1 => ep'[a1] = ep[a1]
        /\ f # c1 => ep'[c1] = ep[c1]
        /\ ep'[b0].q = <<>>
    BY <1>6, <1>7, EndsAre DEF DroppedEnd
  <1>9. /\ f = a1 => mode = "local" /\ IsStream /\ ep[b0].q # <<>>
        /\ f = c1 => mode = "listen" /\ IsStream /\ ep[b0].q # <<>>
    BY <1>6, EndsAre DEF Offered, Connection, IInv, QueueInv
  <1>10. /\ sock'[2].at = "closing" /\ sock'[2].fd1 = None /\ sock'[1] = sock[1] /\ sock'[4] = sock[4]
         /\ task'[1].at = task[1].at /\ task'[2].at = task[2].at /\ (IsStream' <=> IsStream)
    BY <1>1, <1>2, <1>3 DEF SoftTask, Closed, IsStream
  <1>11. PairA'
    <2>1. CASE f = a1
      <3>1. /\ ep[a1].refs = {"msg"} /\ ep'[a1].refs = {} /\ ep[b0].q # <<>> /\ IsStream
        BY <1>6, <1>9, <2>1
      <3>2. sock[1].fd1 = None /\ task[1].at \in {"none", "done"}
        BY <3>1 DEF IInv, RefInv, PairA
      <3> QED
        BY <1>1, <1>8, <1>10, <3>1, <3>2 DEF IInv, RefInv, PairA
    <2>2. CASE f # a1
      <3>1. "msg" \notin ep[a1].refs
        <4>1. SUFFICES ASSUME "msg" \in ep[a1].refs
                       PROVE  FALSE
          OBVIOUS
        <4>2. mode = "local" /\ ep[b0].q # <<>>
          BY <4>1 DEF IInv, RefInv, PairA
        <4>3. f = a1
          BY <1>6, <4>2 DEF Offered, Connection, IsStream, TypeOf
        <4> QED
          BY <2>2, <4>3
      <3>2. ep'[a1] = ep[a1]
        BY <1>8, <2>2
      <3> QED
        BY <1>1, <1>8, <1>10, <3>1, <3>2 DEF IInv, RefInv, PairA
    <2> QED
      BY <2>1, <2>2
  <1>12. PairC'
    <2>1. CASE f = c1
      <3>1. ep'[c1].refs = {} /\ ep'[c1].shut = ep[c1].shut
        BY <1>6, <1>9, <2>1
      <3> QED
        BY <1>1, <1>8, <1>10, <3>1 DEF IInv, RefInv, PairC
    <2>2. CASE f # c1
      <3>1. "msg" \notin ep[c1].refs
        <4>1. SUFFICES ASSUME "msg" \in ep[c1].refs
                       PROVE  FALSE
          OBVIOUS
        <4>2. mode = "listen" /\ ep[b0].q # <<>>
          BY <4>1 DEF IInv, RefInv, PairC
        <4>3. f = c1
          BY <1>6, <4>2 DEF Offered, Connection, IsStream, TypeOf
        <4> QED
          BY <2>2, <4>3
      <3>2. ep'[c1] = ep[c1]
        BY <1>8, <2>2
      <3> QED
        BY <1>1, <1>8, <1>10, <3>1, <3>2 DEF IInv, RefInv, PairC
    <2> QED
      BY <2>1, <2>2
  <1>13. PairB'
    <2>1. "fd" \notin ep'[b1].refs /\ "file1" \notin ep'[b1].refs /\ ep'[b1].refs \subseteq ep[b1].refs
      <3>1. "fd" \in ep[b1].refs <=> sock[2].fd1 # None
        BY DEF IInv, RefInv, PairB
      <3> QED
        BY <1>4, <1>6, <3>1
    <2>2. /\ ep[b1].refs \subseteq {"fd", "file1", "peer"}
          /\ "peer" \in ep[b1].refs => ~IsStream \/ task[2].at = "serving"
      BY DEF IInv, RefInv, PairB
    <2> QED
      BY <1>6, <1>10, <2>1, <2>2 DEF PairB
  <1>14. Accepted'
    <2>1. CASE f = a1 \/ f = c1
      BY <1>9, <1>10, <2>1 DEF IInv, QueueInv, Accepted, NoSocket
    <2>2. CASE f = b0
      <3>1. ep'[a1] = ep[a1] /\ ep'[c1] = ep[c1]
        BY <1>8, <2>2, EndsAre
      <3> QED
        BY <1>10, <3>1 DEF IInv, RefInv, SocketInv, Accepted
    <2> QED
      BY <1>7, <2>1, <2>2
  <1>15. IsStream => ep'[b1].q = <<>>
    <2>1. IsStream => ep[b1].q = <<>>
      BY DEF IInv, QueueInv
    <2> QED
      BY <1>6, <1>7, <2>1 DEF DroppedEnd
  <1>16. IsStream /\ ep'[b0].q # <<>> => ep'[Offered.fd].refs = ep[Offered.fd].refs /\ 2 # 4
    BY <1>8
  <1>17. /\ 2 \in {1, 2, 4} /\ ep' \in [Ends -> UnixSocket] /\ \A x \in Ends : DroppedEnd(x)
         /\ sock' = [sock EXCEPT ![2] = r] /\ Closed(sock[2], r)
    BY <1>2, <1>6
  <1> QED
    BY <1>1, <1>11, <1>12, <1>13, <1>14, <1>15, <1>16, <1>17, ClosedKeeps

\* FDClose.
LEMMA FDCloseKeeps ==
    ASSUME IInv, NEW s \in Sockets, FDClose(s)
    PROVE  IInv'
  <1>1. s = 1 \/ s = 2 \/ s = 4
    BY CloseStarts
  <1>2. CASE s = 1
    <2>1. FDClose(1)
      BY <1>2
    <2> QED
      BY <2>1, CloseFirst
  <1>3. CASE s = 2
    <2>1. FDClose(2)
      BY <1>3
    <2> QED
      BY <2>1, CloseSecond
  <1>4. CASE s = 4
    <2>1. FDClose(4)
      BY <1>4
    <2> QED
      BY <2>1, CloseAccepted
  <1> QED
    BY <1>1, <1>2, <1>3, <1>4

-----------------------------------------------------------------------------
(* The invariant.                                                          *)

\* Nothing has been opened, and nothing has been sent.
LEMMA InitInv == Init => IInv
  <1> SUFFICES ASSUME Init
               PROVE  IInv
    OBVIOUS
  <1>1. /\ sock = [s \in Sockets |-> NoSocket] /\ ep = [e \in Ends |-> [refs |-> {}, q |-> <<>>, shut |-> FALSE]]
        /\ task = [s \in {1, 2} |-> NoTask] /\ conn = [c \in Conns |-> NoConn] /\ tun = [c \in Conns |-> NoTunnel]
        /\ heard = 0 /\ mode \in Modes
    BY DEF Init
  <1>2. TypeOK
    <2>1. NoSocket \in SocketRecord
      BY DEF NoSocket, idle, SocketRecord, EndOrNone, CallType, Peers
    <2>2. [refs |-> {}, q |-> <<>>, shut |-> FALSE] \in UnixSocket
      BY DEF UnixSocket
    <2>3. NoTask \in TaskType /\ NoConn \in ConnType /\ NoTunnel \in TunnelType
      BY DEF NoTask, TaskType, TaskStates, NoConn, ConnType, NoTunnel, TunnelType, EndOrNone
    <2> QED
      BY <1>1, <2>1, <2>2, <2>3 DEF TypeOK
  <1>3. /\ \A s \in Sockets : sock[s] = NoSocket
        /\ \A e \in Ends : ep[e].refs = {} /\ ep[e].q = <<>> /\ ep[e].shut = FALSE
        /\ \A s \in {1, 2} : task[s].at = "none" /\ task[s].made = FALSE /\ task[s].closed = FALSE
        /\ \A c \in Conns : conn[c] = NoConn /\ tun[c] = NoTunnel
        /\ 1 \in Sockets /\ 2 \in Sockets /\ 3 \in Sockets /\ 4 \in Sockets /\ "out" \in Conns /\ "in" \in Conns
    BY <1>1 DEF NoTask, Sockets, Conns
  <1>4. /\ a0 \in Ends /\ a1 \in Ends /\ b0 \in Ends /\ b1 \in Ends /\ c0 \in Ends /\ c1 \in Ends
    BY EndsAre
  <1>5. SocketInv /\ CallInv /\ StateInv
    <2>1. /\ NoSocket.at = "none" /\ NoSocket.fd1 = None /\ NoSocket.call = idle /\ NoSocket.st = {} /\ NoSocket.peer = None
          /\ NoSocket.htls = "none" /\ NoSocket.sent = 0 /\ idle.op = None
      BY DEF NoSocket, idle
    <2>2. SocketInv
      BY <1>3, <2>1 DEF SocketInv
    <2>3. CallInv
      BY <1>3, <2>1, NoneAssumption DEF CallInv, Silent
    <2>4. StateInv
      BY <1>3, <2>1, NoneAssumption DEF StateInv, Sockets, stray
    <2> QED
      BY <2>2, <2>3, <2>4
  <1>6. TaskInv /\ ConnInv
    <2>1. TaskInv
      BY <1>3 DEF TaskInv, NoSocket
    <2>2. ConnInv
      <3>1. \A c \in Conns : /\ tun[c] = NoTunnel /\ tun[c].at = "none" /\ conn[c].at = "none" /\ conn[c].end = "no"
                             /\ conn[c].sent = 0 /\ conn[c].down = <<>> /\ conn[c].got = <<>> /\ conn[c].upEnd = FALSE
        <4>1. /\ NoConn.at = "none" /\ NoConn.end = "no" /\ NoConn.sent = 0 /\ NoConn.down = <<>> /\ NoConn.got = <<>>
              /\ NoConn.upEnd = FALSE
          BY DEF NoConn
        <4>2. NoTunnel.at = "none"
          BY DEF NoTunnel
        <4> QED
          BY <1>3, <4>1, <4>2
      <3>2. tun["out"].at = "none" /\ tun["in"].at = "none" /\ conn["out"].at = "none" /\ conn["in"].at = "none"
        BY <1>3, <3>1
      <3>3. task[1].at = "none" /\ task[2].at = "none"
        BY <1>3
      <3> QED
        BY <3>1, <3>2, <3>3 DEF ConnInv, Blank
    <2> QED
      BY <2>1, <2>2
  <1>7. RefInv /\ QueueInv
    BY <1>3, <1>4 DEF RefInv, PairA, PairB, PairC, Accepted, NoRefs, QueueInv, NoSocket, NoTunnel
  <1>8. SecureInv
    BY <1>3 DEF SecureInv, NoConn, NoTunnel
  <1>9. StreamInv
    <2>1. ASSUME NEW c \in Conns
          PROVE  UpInv(c) /\ DownInv(c)
      <3>1. GuestOf(c) \in Sockets /\ GuestEnd(c) \in Ends /\ BridgeEnd(c) \in Ends
        <4>1. c = "out" \/ c = "in"
          BY DEF Conns
        <4> QED
          BY <1>3, <1>4, <4>1, EndsOf
      <3>2. /\ sock[GuestOf(c)].got = <<>> /\ sock[GuestOf(c)].sent = 0 /\ ~sock[GuestOf(c)].eof
            /\ conn[c].got = <<>> /\ conn[c].sent = 0 /\ conn[c].down = <<>> /\ ~conn[c].upEnd /\ tun[c].at = "none"
            /\ ep[GuestEnd(c)].q = <<>> /\ ep[GuestEnd(c)].refs = {} /\ ep[BridgeEnd(c)].q = <<>> /\ ep[BridgeEnd(c)].refs = {}
        BY <1>3, <3>1 DEF NoSocket, NoConn, NoTunnel
      <3> QED
        BY <3>2, NothingSent DEF UpInv, DownInv
    <2>2. PipeInv(1, 4, a0, a1) /\ PipeInv(4, 1, a1, a0)
      <3>1. /\ sock[1].got = <<>> /\ sock[4].got = <<>> /\ ~sock[1].eof /\ ~sock[4].eof
            /\ ep[a0].q = <<>> /\ ep[a1].q = <<>> /\ ep[a0].refs = {} /\ ep[a1].refs = {}
        BY <1>3, <1>4 DEF NoSocket
      <3> QED
        BY <3>1, NothingSent DEF PipeInv
    <2> QED
      BY <2>1, <2>2 DEF StreamInv
  <1>10. DatagramInv
    <2>1. ep[a0].q = <<>> /\ ep[b0].q = <<>> /\ sock[1].got = <<>> /\ sock[2].got = <<>>
      BY <1>3, <1>4 DEF NoSocket
    <2>2. \A sent : Mail(<<>>, <<>>, sent)
      BY DEF Mail
    <2> QED
      BY <2>1, <2>2 DEF DatagramInv, MailInv
  <1> QED
    BY <1>2, <1>5, <1>6, <1>7, <1>8, <1>9, <1>10 DEF IInv

\* What a guest asks for.
LEMMA FlagsAre ==
    ASSUME IInv
    PROVE  \A s \in {1, 2, 4} : NonBlock[mode][s] \subseteq BOOLEAN
  <1>1. mode \in Modes /\ NonBlock \in [Modes -> [{1, 2, 4} -> SUBSET BOOLEAN]]
    BY SocketsAssumption DEF IInv, TypeOK
  <1> QED
    BY <1>1

\* A call of a guest.
LEMMA CallKeeps ==
    ASSUME IInv, NEW s \in Sockets, Call(s)
    PROVE  IInv'
  <1>1. CASE \E st \in {"STREAM", "DGRAM", "ANY"}, proto \in {"TCP", "UDP"} :
                s \in {1, 2} /\ \E nb \in NonBlock[mode][s] : SockOpen(s, st, proto, nb)
    BY <1>1, FlagsAre, OpenKeeps
  <1>2. CASE ~Server(s) /\ \E ok \in BOOLEAN : Bind(s, ok)
    BY <1>2, BindKeeps
  <1>3. CASE SockListen(s)
    BY <1>3, ListenKeeps
  <1>4. CASE \E nb \in NonBlock[mode][4], room \in BOOLEAN : SockAccept(s, nb, room)
    BY <1>4, FlagsAre, AcceptKeeps
  <1>5. CASE ~Server(s) /\ \E to \in {1, 2, host} : SockConnect(s, to)
    BY <1>5, ConnectKeeps
  <1>6. CASE \E to \in {None, 1, 2, host} : SendTo(s, to)
    BY <1>6, SendToKeeps
  <1>7. CASE Sent(s)
    BY <1>7, SentKeeps
  <1>8. CASE RecvFrom(s)
    BY <1>8, RecvFromKeeps
  <1>9. CASE Received(s)
    BY <1>9, ReceivedKeeps
  <1>10. CASE ~Server(s) /\ \E flags \in SUBSET {"RD", "WR"} : SockShutdown(s, flags)
    BY <1>10, ShutdownKeeps
  <1>11. CASE SockSetOpt(s)
    BY <1>11, SetOptKeeps
  <1>12. CASE SockGetOpt(s)
    BY <1>12, ErrorKeeps DEF SockGetOpt
  <1>13. CASE FDClose(s)
    BY <1>13, FDCloseKeeps
  <1> QED
    BY <1>1, <1>2, <1>3, <1>4, <1>5, <1>6, <1>7, <1>8, <1>9, <1>10, <1>11, <1>12, <1>13 DEF Call

\* A step of Close, of a goroutine, or of a host.
LEMMA ProgressKeeps ==
    ASSUME IInv, Progress \/ Host
    PROVE  IInv'
  <1>1. CASE \E s \in Sockets : Closing(s)
    <2>1. PICK s \in Sockets : CloseReads(s) \/ CloseReturns(s)
      BY <1>1 DEF Closing
    <2>2. CASE CloseReads(s)
      BY <2>2, ErrorKeeps DEF CloseReads
    <2>3. CASE CloseReturns(s)
      BY <2>3, CloseReturnsKeeps
    <2> QED
      BY <2>1, <2>2, <2>3
  <1>2. CASE \E s \in {1, 2} : Bridge(s)
    <2>1. PICK s \in {1, 2} : Bridge(s)
      BY <1>2
    <2>2. CASE PacketEnd(s)
      BY <2>2, PacketEndKeeps
    <2>3. CASE Serve(s)
      BY <2>3, ServeKeeps
    <2>4. CASE (\E ok \in BOOLEAN : Served(s, ok)) \/ FileConnFails(s)
      BY <2>4, ServedKeeps, FileConnFailsKeeps
    <2>5. CASE ListenEnd(s)
      BY <2>5, ListenEndKeeps
    <2>6. CASE Decide(s) \/ \E ok \in BOOLEAN : Dialed(s, ok) \/ Handshake(s, ok)
      <3>1. PICK ok \in BOOLEAN : Dialed(s, ok) \/ Decide(s) \/ Handshake(s, ok)
        BY <2>6
      <3> QED
        BY <3>1, DialKeeps
    <2> QED
      BY <2>1, <2>2, <2>3, <2>4, <2>5, <2>6 DEF Bridge
  <1>3. CASE \E c \in Conns : CopyUp(c) \/ CopyDown(c) \/ TunnelEnd(c)
    BY <1>3, CopyUpKeeps, CopyDownKeeps, TunnelEndKeeps
  <1>4. CASE \E from \in Hosts : PacketRead(1, from)
    BY <1>4, PacketReadKeeps
  <1>5. CASE HostConnect
    BY <1>5, HostConnectKeeps
  <1>6. CASE \E c \in Conns : HostSend(c) \/ \E how \in {"write", "full"} : HostEnd(c, how)
    BY <1>6, HostSendKeeps, HostEndKeeps
  <1> QED
    BY <1>1, <1>2, <1>3, <1>4, <1>5, <1>6 DEF Progress, Host

\* A step of something else.
LEMMA StutterKeeps ==
    ASSUME IInv, UNCHANGED vars
    PROVE  IInv'
  <1>1. TypeOK' /\ SocketInv' /\ CallInv' /\ StateInv' /\ TaskInv' /\ ConnInv'
    BY DEF vars, IInv, TypeOK, SocketInv, CallInv, Silent, Server, IsStream, StateInv, TaskInv, ConnInv, Blank
  <1>2. RefInv' /\ QueueInv' /\ SecureInv'
    BY DEF vars, IInv, RefInv, PairA, PairB, PairC, Accepted, NoRefs, IsStream, QueueInv, Offered, SecureInv
  <1>3. StreamInv' /\ DatagramInv'
    BY Zenon DEF vars, IInv, StreamInv, Tunneled, UpInv, DownInv, PipeInv, DatagramInv, MailInv, SentBy
  <1> QED
    BY <1>1, <1>2, <1>3 DEF IInv

\* IInv holds in every state the program reaches.
LEMMA Invariance == Spec => []IInv
  <1>1. IInv /\ [Next]_vars => IInv'
    <2> SUFFICES ASSUME IInv, [Next]_vars
                 PROVE  IInv'
      OBVIOUS
    <2>1. CASE Progress \/ Host
      BY <2>1, ProgressKeeps
    <2>2. CASE \E s \in Sockets : Call(s)
      BY <2>2, CallKeeps
    <2>3. CASE UNCHANGED vars
      BY <2>3, StutterKeeps
    <2> QED
      BY <2>1, <2>2, <2>3 DEF Next
  <1> QED
    BY <1>1, InitInv, PTL DEF Spec

-----------------------------------------------------------------------------
(* What the invariant says of the data.                                    *)

\* The cells of a stream, at both ends and at the hosts.
LEMMA StreamIntactFollows ==
    ASSUME IInv
    PROVE  StreamIntact
  <1> SUFFICES ASSUME IsStream
               PROVE  /\ \A s \in {1, 4} : /\ InOrder(sock[s].got)
                                           /\ sock[s].eof /\ ~Is(s, "deaf") => Len(sock[s].got) = Source(s)
                      /\ \A c \in Conns : /\ InOrder(conn[c].got)
                                          /\ conn[c].upEnd /\ conn[c].end # "full" /\ (c = "in" => sock[4].fd0 = <<3, 1>>)
                                                => Len(conn[c].got) = sock[GuestOf(c)].sent
    BY DEF StreamIntact, IsStream
  <1>1. mode \in {"dial", "local", "listen"}
    <2>1. mode \in Modes /\ Modes \subseteq {"dial", "udp", "local", "listen", "packets"}
      BY SocketsAssumption DEF IInv, TypeOK
    <2> QED
      BY <2>1 DEF IsStream, TypeOf
  <1>2. /\ mode = "dial" => UpInv("out") /\ DownInv("out")
        /\ mode = "listen" => UpInv("in") /\ DownInv("in")
        /\ mode = "local" => PipeInv(1, 4, a0, a1) /\ PipeInv(4, 1, a1, a0)
    BY DEF IInv, StreamInv, Tunneled, Conns
  <1>3. /\ NoSocket.got = <<>> /\ NoSocket.eof = FALSE /\ NoSocket.sent = 0 /\ NoSocket.fd0 = None
        /\ InOrder(<<>>)
    BY NothingSent DEF NoSocket
  <1>4. /\ mode = "listen" => sock[1] = NoSocket
        /\ mode = "dial" => sock[4] = NoSocket
        /\ sock[4] # NoSocket => sock[4].fd0 = IF mode = "local" THEN a1 ELSE c1
    BY DEF IInv, SocketInv, Opens, Sockets
  <1>5. InOrder(sock[1].got) /\ (sock[1].eof /\ ~Is(1, "deaf") => Len(sock[1].got) = Source(1))
    <2>1. CASE mode = "dial"
      <3>1. Source(1) = conn["out"].sent
        BY <2>1 DEF Source
      <3>2. InOrder(sock[1].got) /\ (sock[1].eof /\ "deaf" \notin sock[1].st => Len(sock[1].got) = conn["out"].sent)
        BY <1>2, <2>1, EndsOf DEF DownInv
      <3> QED
        BY <3>1, <3>2 DEF Is
    <2>2. CASE mode = "local"
      <3>1. sock[4].fd0 # <<1, 1>> => sock[4].sent = 0
        BY <1>3, <1>4, <2>2 DEF a1
      <3> QED
        BY <1>2, <2>2, <3>1 DEF PipeInv, Source, Is
    <2>3. CASE mode = "listen"
      <3>1. sock[1].got = <<>> /\ ~sock[1].eof
        BY <1>3, <1>4, <2>3
      <3> QED
        BY <1>3, <3>1
    <2> QED
      BY <1>1, <2>1, <2>2, <2>3
  <1>6. InOrder(sock[4].got) /\ (sock[4].eof /\ ~Is(4, "deaf") => Len(sock[4].got) = Source(4))
    <2>1. CASE sock[4] = NoSocket
      BY <1>3, <2>1
    <2>2. CASE sock[4] # NoSocket /\ mode = "local"
      BY <1>2, <1>4, <2>2 DEF PipeInv, Source, Is, a1
    <2>3. CASE sock[4] # NoSocket /\ mode = "listen"
      <3>1. sock[4].fd0 # <<1, 1>>
        BY <1>4, <2>3, EndsAre DEF a1
      <3> QED
        BY <1>2, <2>3, <3>1, EndsOf DEF DownInv, Source, Is
    <2> QED
      BY <1>1, <1>4, <2>1, <2>2, <2>3
  <1>7. ASSUME NEW c \in Conns
        PROVE  /\ InOrder(conn[c].got)
               /\ conn[c].upEnd /\ conn[c].end # "full" => Len(conn[c].got) = sock[GuestOf(c)].sent
    <2>1. CASE Tunneled(c)
      <3>1. UpInv(c)
        BY <2>1 DEF IInv, StreamInv
      <3> QED
        BY <3>1 DEF UpInv
    <2>2. CASE ~Tunneled(c)
      <3>1. tun[c].at = "none"
        BY <1>1, <2>2 DEF IInv, ConnInv, Tunneled, Conns
      <3>2. conn[c].got = <<>> /\ ~conn[c].upEnd
        BY <3>1 DEF IInv, ConnInv, Blank
      <3> QED
        BY <1>3, <3>2
    <2> QED
      BY <2>1, <2>2
  <1> QED
    BY <1>5, <1>6, <1>7

\* The datagrams that a socket has received.
LEMMA DatagramsFollow ==
    ASSUME IInv
    PROVE  DatagramsFromPeer
  <1> SUFFICES ASSUME mode = "packets", NEW s \in {1, 2}, NEW i \in DOMAIN sock[s].got
               PROVE  /\ sock[s].got[i].from = sock[s].got[i].by
                      /\ sock[s].got[i].peer # None => sock[s].got[i].from = sock[s].got[i].peer
                      /\ \A j \in 1 .. i - 1 : sock[s].got[j].by = sock[s].got[i].by => sock[s].got[j].n < sock[s].got[i].n
    BY DEF DatagramsFromPeer
  <1>1. \E e \in {a0, b0} : Mail(ep[e].q, sock[s].got, SentBy)
    BY DEF IInv, DatagramInv, MailInv
  <1> QED
    BY <1>1 DEF Mail

\* In clear goes only what no name was set for.
LEMMA SecureFollows ==
    ASSUME IInv
    PROVE  SecureWhenAsked
  <1> SUFFICES ASSUME sock[1].htls = "name", NEW i \in DOMAIN conn["out"].got
               PROVE  conn["out"].got[i].tls
    BY DEF SecureWhenAsked
  <1>1. conn["out"].got # <<>> /\ "out" \in Conns
    BY DEF Conns
  <1>2. tun["out"].at # "none"
    BY <1>1 DEF IInv, ConnInv, Blank
  <1> QED
    BY <1>2 DEF IInv, SecureInv

-----------------------------------------------------------------------------
(* When Close has returned.                                                *)

(* The goroutine of a socket that is closed has ended: Close waits for the *)
(* channel of errors to be closed, and nothing starts one afterwards.      *)
LeftInv == \A s \in {1, 2} : sock[s].at = "closed" => task[s].at \in {"none", "done"}

\* Nothing is left of a closed socket, once its goroutine has ended.
LEMMA NothingLeftFollows ==
    ASSUME IInv, LeftInv
    PROVE  NothingLeft
  <1>1. \A s \in {1, 2} : sock[s].at = "closed" => sock[s].fd1 = None
    BY DEF IInv, SocketInv, Sockets
  <1>2. sock[1].at = "closed" =>
           ep[a0].refs \subseteq {"peer"} /\ ep[a1].refs \subseteq IF IsStream THEN {"msg", "fd", "file0"} ELSE {"peer"}
    <2> SUFFICES ASSUME sock[1].at = "closed"
                 PROVE  ep[a0].refs \subseteq {"peer"} /\ ep[a1].refs \subseteq IF IsStream THEN {"msg", "fd", "file0"} ELSE {"peer"}
      OBVIOUS
    <2>1. ep[a0].refs = {}
      BY DEF IInv, RefInv, PairA
    <2>2. "file1" \notin ep[a1].refs /\ "net" \notin ep[a1].refs /\ ("peer" \in ep[a1].refs => ~IsStream)
      BY DEF IInv, RefInv, PairA, LeftInv
    <2>3. ~IsStream => "fd" \notin ep[a1].refs /\ "file0" \notin ep[a1].refs /\ "msg" \notin ep[a1].refs
      BY <1>1 DEF IInv, RefInv, PairA, IsStream, TypeOf
    <2>4. ep[a1].refs \subseteq Holders
      BY EndsAre DEF IInv, TypeOK, UnixSocket
    <2> QED
      BY <2>1, <2>2, <2>3, <2>4 DEF Holders
  <1>3. sock[2].at = "closed" =>
           ep[b0].refs \subseteq {"peer"} /\ ep[b1].refs \subseteq IF IsStream THEN {"msg", "fd", "file0"} ELSE {"peer"}
    BY <1>1 DEF IInv, RefInv, PairB, LeftInv
  <1>4. <<1, 0>> = a0 /\ <<1, 1>> = a1 /\ <<2, 0>> = b0 /\ <<2, 1>> = b1
    BY DEF a0, a1, b0, b1
  <1>5. \A s \in {1, 2} : sock[s].at = "closed" =>
           /\ ep[<<s, 0>>].refs \subseteq {"peer"}
           /\ ep[<<s, 1>>].refs \subseteq IF TypeOf(mode) = "STREAM" THEN {"msg", "fd", "file0"} ELSE {"peer"}
    BY <1>2, <1>3, <1>4 DEF IsStream
  <1>6. /\ conn["out"].at = "open" => task[1].at \in {"decide", "handshake", "tunnel"}
        /\ conn["in"].at = "open" => task[2].at = "serving" \/ tun["in"].at = "run"
    BY DEF IInv, ConnInv
  <1> QED
    BY <1>5, <1>6 DEF NothingLeft, LeftInv

\* A step after which as many goroutines have ended as before, unless the socket was still open.
Ending(s) ==
    /\ sock'[s].at = "closed" => sock[s].at = "closed"
    /\ sock[s].at = "closed" /\ task[s].at \in {"none", "done"} => task'[s].at \in {"none", "done"}

\* Such steps keep LeftInv.
LEMMA EndingKeeps ==
    ASSUME LeftInv, \A s \in {1, 2} : Ending(s)
    PROVE  LeftInv'
  BY DEF LeftInv, Ending

\* The goroutine of a socket goes on only when it has not ended.
LEMMA GoesOn ==
    ASSUME IInv, UNCHANGED sock, NEW s \in {1, 2}, task[s].at \notin {"none", "done"} \/ task'[s].at \in {"none", "done", task[s].at},
           \A o \in {1, 2} : o # s => task'[o].at = task[o].at
    PROVE  \A o \in {1, 2} : Ending(o)
  BY DEF Ending

\* A step that leaves sockets and goroutines.
LEMMA NothingEnds ==
    ASSUME UNCHANGED sock, \A o \in {1, 2} : task'[o].at = task[o].at
    PROVE  \A o \in {1, 2} : Ending(o)
  BY DEF Ending

\* A call of a guest leaves a goroutine that has ended alone.
LEMMA CallEnding ==
    ASSUME IInv, NEW s \in Sockets, Call(s)
    PROVE  \A o \in {1, 2} : Ending(o)
  <1> DEFINE Calls == sock[s].at = "open" /\ (\A o \in Sockets : sock'[o].at = "closed" => sock[o].at = "closed")
                      /\ \A o \in {1, 2} : o # s => task'[o].at = task[o].at
             Stays == sock' = sock /\ \A o \in {1, 2} : task'[o].at = task[o].at
  <1>1. /\ sock \in [Sockets -> SocketRecord] /\ task \in [{1, 2} -> TaskType] /\ 1 \in Sockets /\ 2 \in Sockets
        /\ sock[s].at # "open" => sock[s].call = idle
    BY DEF IInv, TypeOK, SocketInv, Sockets
  <1>2. ASSUME Calls PROVE \A o \in {1, 2} : Ending(o)
    BY <1>1, <1>2 DEF Ending
  <1>3. ASSUME Stays PROVE \A o \in {1, 2} : Ending(o)
    BY <1>3, NothingEnds
  <1>4. ASSUME TakeError(s) PROVE \A o \in {1, 2} : task'[o].at = task[o].at
    BY <1>1, <1>4 DEF TakeError, TaskType
  <1>5. ASSUME NEW r, sock' = [sock EXCEPT ![s] = r], r.at = "open"
        PROVE  \A o \in Sockets : sock'[o].at = "closed" => sock[o].at = "closed"
    BY <1>1, <1>5
  <1>6. ASSUME sock[s].at = "open"
        PROVE  /\ sock[s] \in SocketRecord /\ htlsClear(sock[s]) \in SocketRecord /\ htlsClear(sock[s]).at = "open"
               /\ \A k : \A r \in SocketRecord : [r EXCEPT !.call = k].at = r.at /\ [r EXCEPT !.sent = k].at = r.at
                                            /\ [r EXCEPT !.eof = k].at = r.at /\ [r EXCEPT !.got = k].at = r.at
    BY <1>1, <1>6, ClearSoft DEF SocketRecord, Soft
  <1>7. ASSUME NEW st, NEW proto, NEW nb, SockOpen(s, st, proto, nb) PROVE \A o \in {1, 2} : Ending(o)
    BY <1>1, <1>7 DEF SockOpen, Ending, NoSocket
  <1>8. ASSUME NEW ok, Bind(s, ok) PROVE Calls
    <2>1. sock[s].at = "open" /\ sock' = [sock EXCEPT ![s] = [sock[s] EXCEPT !.st = @ \cup {"bound"}]]
      BY <1>8 DEF Bind, Ready
    <2>2. \A o \in {1, 2} : o # s => task'[o].at = task[o].at
      BY <1>1, <1>8 DEF Bind, listenPacket
    <2> QED
      BY <1>1, <2>1, <2>2 DEF SocketRecord
  <1>9. ASSUME SockListen(s) PROVE Calls
    <2>1. sock[s].at = "open" /\ sock' = [sock EXCEPT ![s] = [sock[s] EXCEPT !.st = @ \cup {"bound", "listening"}]]
      BY <1>9 DEF SockListen, Ready
    <2>2. \A o \in {1, 2} : o # s => task'[o].at = task[o].at
      BY <1>1, <1>9 DEF SockListen
    <2> QED
      BY <1>1, <2>1, <2>2 DEF SocketRecord
  <1>10. ASSUME NEW nb, NEW room, SockAccept(s, nb, room) PROVE \A o \in {1, 2} : Ending(o)
    <2>1. \A o \in {1, 2} : sock'[o] = sock[o]
      BY <1>1, <1>10 DEF SockAccept
    <2>2. \A o \in {1, 2} : task'[o].at = task[o].at
      BY <1>4, <1>10 DEF SockAccept
    <2> QED
      BY <2>1, <2>2 DEF Ending
  <1>11. ASSUME NEW to \in {1, 2, host}, SockConnect(s, to) PROVE Calls
    <2>1. sock[s].at = "open" /\ sock[s] \in SocketRecord /\ to \in Peers /\ host \in Peers
      BY <1>1, <1>11 DEF SockConnect, Ready, Peers
    <2>2. PICK p \in Peers, flags \in {{}, {"tunneled"}} :
             \/ sock' = [sock EXCEPT ![s] = Connected(sock[s], p, flags)]
             \/ sock' = [sock EXCEPT ![s] = [Connected(sock[s], p, flags) EXCEPT !.fd1 = None]]
             \/ sock' = [sock EXCEPT ![s] = [Connected(sock[s], p, flags) EXCEPT !.fd1 = None, !.htls = "open"]]
      BY <1>11, <2>1 DEF SockConnect, dial, ConnectLocal
    <2>3. PICK r : r = Connected(sock[s], p, flags)
      OBVIOUS
    <2>4. r \in SocketRecord /\ r.at = "open"
      BY <2>1, <2>3 DEF Connected, SocketRecord, Flags
    <2>5. [r EXCEPT !.fd1 = None].at = "open" /\ [r EXCEPT !.fd1 = None, !.htls = "open"].at = "open"
      BY <2>4 DEF SocketRecord
    <2>6. \A o \in Sockets : sock'[o].at = "closed" => sock[o].at = "closed"
      BY <1>5, <2>2, <2>3, <2>4, <2>5
    <2>7. \A o \in {1, 2} : o # s => task'[o].at = task[o].at
      BY <1>1, <1>11 DEF SockConnect, dial, ConnectLocal
    <2> QED
      BY <2>1, <2>6, <2>7
  <1>12. ASSUME NEW to, SendTo(s, to) PROVE Calls
    <2>1. sock[s].at = "open"
      BY <1>12 DEF SendTo, Ready
    <2>2. PICK r : r = htlsClear(sock[s])
      OBVIOUS
    <2>3. \/ sock' = [sock EXCEPT ![s] = r]
          \/ \E k : sock' = [sock EXCEPT ![s] = [r EXCEPT !.call = k]]
          \/ writeTo(s)
      BY <1>12, <2>2 DEF SendTo
    <2>4. \A o \in Sockets : sock'[o].at = "closed" => sock[o].at = "closed"
      <3>1. CASE sock' = [sock EXCEPT ![s] = r]
        BY <1>5, <1>6, <2>1, <2>2, <3>1
      <3>2. CASE \E k : sock' = [sock EXCEPT ![s] = [r EXCEPT !.call = k]]
        <4>1. PICK k : sock' = [sock EXCEPT ![s] = [r EXCEPT !.call = k]]
          BY <3>2
        <4>2. [r EXCEPT !.call = k].at = "open"
          BY <1>6, <2>1, <2>2
        <4> QED
          BY <1>5, <4>1, <4>2
      <3>3. CASE writeTo(s)
        <4>1. PICK r1 : r1 = [sock[s] EXCEPT !.sent = @ + 1]
          OBVIOUS
        <4>2. r1.at = "open" /\ sock' = [sock EXCEPT ![s] = r1]
          BY <1>6, <2>1, <3>3, <4>1 DEF writeTo, SocketRecord
        <4> QED
          BY <1>5, <4>2
      <3> QED
        BY <2>3, <3>1, <3>2, <3>3
    <2>5. \A o \in {1, 2} : o # s => task'[o].at = task[o].at
      BY <1>4, <1>12 DEF SendTo
    <2> QED
      BY <2>1, <2>4, <2>5
  <1>13. ASSUME Sent(s) \/ Received(s) PROVE Calls
    <2>1. sock[s].at = "open"
      BY <1>1, <1>13, NoneAssumption DEF Sent, Received, idle
    <2>2. PICK r : r = [sock[s] EXCEPT !.call = idle]
      OBVIOUS
    <2>3. r \in SocketRecord /\ r.at = "open"
      <3>1. idle \in CallType
        BY DEF idle, CallType, EndOrNone
      <3> QED
        BY <1>6, <2>1, <2>2, <3>1 DEF SocketRecord
    <2>4. \/ sock' = [sock EXCEPT ![s] = r]
          \/ sock' = [sock EXCEPT ![s] = sock[s]]
          \/ sock' = [sock EXCEPT ![s] = [r EXCEPT !.sent = @ + 1]]
          \/ sock' = [sock EXCEPT ![s] = [r EXCEPT !.eof = TRUE]]
          \/ \E x : sock' = [sock EXCEPT ![s] = [r EXCEPT !.got = Append(@, x)]]
      BY <1>13, <2>2, Zenon DEF Sent, Received
    <2>5. /\ [r EXCEPT !.sent = @ + 1].at = "open" /\ [r EXCEPT !.eof = TRUE].at = "open"
          /\ \A x : [r EXCEPT !.got = Append(@, x)].at = "open"
      BY <2>3 DEF SocketRecord
    <2>6. \A o \in Sockets : sock'[o].at = "closed" => sock[o].at = "closed"
      BY <1>5, <2>1, <2>3, <2>4, <2>5
    <2>7. \A o \in {1, 2} : task'[o].at = task[o].at
      BY <1>13 DEF Sent, Received
    <2> QED
      BY <2>1, <2>6, <2>7
  <1>14. ASSUME RecvFrom(s) PROVE Calls
    <2>1. sock[s].at = "open"
      BY <1>14 DEF RecvFrom, Ready
    <2>2. PICK r : r = htlsClear(sock[s])
      OBVIOUS
    <2>3. PICK k : k = [idle EXCEPT !.op = "recv"]
      OBVIOUS
    <2>4. sock' = [sock EXCEPT ![s] = r] \/ sock' = [sock EXCEPT ![s] = [r EXCEPT !.call = k]]
      BY <1>14, <2>2, <2>3 DEF RecvFrom
    <2>5. r.at = "open" /\ [r EXCEPT !.call = k].at = "open"
      BY <1>6, <2>1, <2>2
    <2>6. \A o \in Sockets : sock'[o].at = "closed" => sock[o].at = "closed"
      BY <1>5, <2>4, <2>5
    <2>7. \A o \in {1, 2} : o # s => task'[o].at = task[o].at
      BY <1>4, <1>14 DEF RecvFrom
    <2> QED
      BY <2>1, <2>6, <2>7
  <1>15. ASSUME NEW flags, SockShutdown(s, flags) PROVE Calls
    <2>1. sock[s].at = "open" /\ htlsClear(sock[s]).at = "open"
      BY <1>1, <1>15 DEF SockShutdown, Ready, htlsClear, SocketRecord
    <2> QED
      BY <1>1, <1>15, <2>1 DEF SockShutdown
  <1>16. ASSUME SockSetOpt(s) PROVE Calls
    <2>1. sock[s].at = "open" /\ sock' = [sock EXCEPT ![s] = [sock[s] EXCEPT !.htls = "name"]]
      BY <1>16 DEF SockSetOpt, SetTLSServerName, Ready
    <2> QED
      BY <1>1, <1>16, <2>1 DEF SockSetOpt, SocketRecord
  <1>17. ASSUME SockGetOpt(s) PROVE Stays
    BY <1>4, <1>17 DEF SockGetOpt
  <1>18. ASSUME FDClose(s) PROVE Calls
    <2>1. \A o \in Sockets : sock'[o].at = "closed" => sock[o].at = "closed"
      BY <1>1, <1>18, CloseStarts
    <2>2. sock[s].at = "open" /\ \A o \in {1, 2} : task'[o].at = task[o].at
      BY <1>18, CloseStarts DEF SoftTask
    <2> QED
      BY <2>1, <2>2
  <1> HIDE DEF Calls, Stays
  <1> QED
    BY <1>2, <1>3, <1>7, <1>8, <1>9, <1>10, <1>11, <1>12, <1>13, <1>14, <1>15, <1>16, <1>17, <1>18 DEF Call

\* Close returns when the goroutine has ended; the others go on from where they are.
LEMMA ProgressEnding ==
    ASSUME IInv, LeftInv, Progress \/ Host
    PROVE  LeftInv'
  <1>1. /\ sock \in [Sockets -> SocketRecord] /\ task \in [{1, 2} -> TaskType] /\ 1 \in Sockets /\ 2 \in Sockets
    BY DEF IInv, TypeOK, Sockets
  <1>2. ASSUME NEW s \in Sockets, TakeError(s) PROVE \A o \in {1, 2} : task'[o].at = task[o].at
    BY <1>1, <1>2 DEF TakeError, TaskType
  <1>3. CASE \E s \in Sockets : CloseReads(s)
    BY <1>2, <1>3, NothingEnds, EndingKeeps DEF CloseReads
  <1>4. CASE \E s \in Sockets : CloseReturns(s)
    <2>1. PICK s \in Sockets : CloseReturns(s)
      BY <1>4
    <2>2. ASSUME NEW o \in {1, 2}, o = s PROVE task'[o].at \in {"none", "done"}
      BY <2>1, <2>2 DEF CloseReturns, Bridged, IInv, TaskInv
    <2>3. ASSUME NEW o \in {1, 2}, o # s PROVE sock'[o] = sock[o] /\ task'[o] = task[o]
      BY <1>1, <2>1, <2>3 DEF CloseReturns
    <2> QED
      BY <2>2, <2>3 DEF LeftInv
  <1>5. CASE \E s \in {1, 2} : Bridge(s)
    <2>1. PICK s \in {1, 2} : Bridge(s)
      BY <1>5
    <2>2. sock' = sock /\ task[s].at \notin {"none", "done"}
      BY <2>1 DEF Bridge, PacketEnd, Serve, Served, FileConnFails, ListenEnd, Dialed, Decide, Handshake
    <2>3. \A o \in {1, 2} : o # s => task'[o].at = task[o].at
      BY <1>1, <2>1 DEF Bridge, PacketEnd, Serve, Served, ServeFails, FileConnFails, ListenEnd, Dialed, Decide, Handshake, EndTask, DialEnds, StartTunnel
    <2> QED
      BY <2>2, <2>3, GoesOn, EndingKeeps
  <1>6. CASE \E c \in Conns : CopyUp(c) \/ CopyDown(c)
    BY <1>6, NothingEnds, EndingKeeps DEF CopyUp, CopyDown
  <1>7. CASE \E c \in Conns : TunnelEnd(c)
    <2>1. PICK c \in Conns : TunnelEnd(c)
      BY <1>7
    <2>2. sock' = sock /\ \A o \in {1, 2} : task'[o].at \in {"done", task[o].at}
      <3>1. sock' = sock /\ (task' = task \/ \E errs : EndTask(1, errs))
        BY <2>1 DEF TunnelEnd, DialEnds
      <3> QED
        BY <1>1, <3>1 DEF EndTask, TaskType
    <2> QED
      BY <2>2, EndingKeeps DEF Ending
  <1>8. CASE \E from \in Hosts : PacketRead(1, from)
    <2>1. sock' = sock /\ \A o \in {1, 2} : task'[o].at \in {"done", task[o].at}
      BY <1>1, <1>8 DEF PacketRead, EndTask, TaskType
    <2> QED
      BY <2>1, EndingKeeps DEF Ending
  <1>9. CASE HostConnect \/ \E c \in Conns : HostSend(c) \/ \E how \in {"write", "full"} : HostEnd(c, how)
    BY <1>9, NothingEnds, EndingKeeps, Zenon DEF HostConnect, HostSend, HostEnd
  <1> QED
    BY <1>3, <1>4, <1>5, <1>6, <1>7, <1>8, <1>9 DEF Progress, Host, Closing

-----------------------------------------------------------------------------
(* Theorems.                                                               *)

\* IInv and LeftInv hold in every state the program reaches.
LEMMA LeftInvariance == Spec => []LeftInv
  <1>1. Init => LeftInv
    <2> SUFFICES ASSUME Init, NEW s \in {1, 2}
                 PROVE  sock[s].at # "closed"
      BY DEF LeftInv
    <2>1. sock[s] = NoSocket /\ NoSocket.at = "none"
      BY DEF Init, NoSocket, Sockets
    <2> QED
      BY <2>1
  <1>2. IInv /\ LeftInv /\ [Next]_vars => LeftInv'
    <2> SUFFICES ASSUME IInv, LeftInv, [Next]_vars
                 PROVE  LeftInv'
      OBVIOUS
    <2>1. CASE Progress \/ Host
      BY <2>1, ProgressEnding
    <2>2. CASE \E s \in Sockets : Call(s)
      <3>1. \A o \in {1, 2} : Ending(o)
        BY <2>2, CallEnding
      <3> QED
        BY <3>1, EndingKeeps
    <2>3. CASE UNCHANGED vars
      BY <2>3 DEF vars, LeftInv
    <2> QED
      BY <2>1, <2>2, <2>3 DEF Next
  <1> QED
    BY <1>1, <1>2, Invariance, PTL DEF Spec

(* The sockets, the UNIX sockets, the goroutines and the connections have  *)
(* the fields that local_unix.go gives them, whatever the guests, the      *)
(* hosts and the goroutines do.                                            *)
THEOREM TypeCorrect == Spec => []TypeOK
  <1>1. IInv => TypeOK
    BY DEF IInv
  <1> QED
    BY <1>1, Invariance, PTL

(* When Close has returned nothing of the socket is left, and a connection *)
(* with a host is always in the hands of a goroutine that will close it    *)
(* (local_unix.go:184-230 and 415-424).                                    *)
THEOREM NothingLeftHolds == Spec => []NothingLeft
  BY NothingLeftFollows, Invariance, LeftInvariance, PTL

(* A stream delivers what was sent, in order and without repetition, and   *)
(* an end that is seen comes after all of it; a datagram comes with the    *)
(* address of its sender, at most once, in its order, and from the peer of *)
(* a connected socket (tunnel and copyAndClose, SendTo, handleRecvFrom).   *)
THEOREM DataIntactHolds == Spec => []DataIntact
  <1>1. IInv => DataIntact
    BY StreamIntactFollows, DatagramsFollow DEF DataIntact
  <1> QED
    BY <1>1, Invariance, PTL

(* A guest that has set the name of a TLS server sends nothing in clear    *)
(* (SetTLSServerName against the goroutine of dial, local_unix.go:618-636).*)
THEOREM SecureWhenAskedHolds == Spec => []SecureWhenAsked
  BY SecureFollows, Invariance, PTL

=============================================================================
