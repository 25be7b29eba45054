----------------------------- MODULE LocalNetwork -----------------------------
(***************************************************************************)
(* The virtual network of the sandbox (internal/sandbox/local.go, with the *)
(* address pools of internal/ipam): every guest has a namespace with the   *)
(* interfaces lo0 and en0; en0 has one address of each pool, by which the  *)
(* other namespaces reach it.                                              *)
(*                                                                         *)
(* Actors: the processes, which create and detach namespaces under the     *)
(* network's lock; and the users of sockets, a guest and the host's dials  *)
(* and listeners in its namespace, each of which drives sockets of its     *)
(* own.  bind, lookup and unlink take the lock of one interface after the  *)
(* other: a step is what happens under one lock.                           *)
(*                                                                         *)
(* Sockets are of one family (that of pool 1) and one protocol: ports of   *)
(* different families and protocols do not interact.                       *)
(***************************************************************************)
EXTENDS Integers

CONSTANTS
    Namespaces,     \* the namespaces, each created at most once
    Ending,         \* those whose process ends, and which are then detached
    NumPools,       \* the number of address pools (two: IPv4 and IPv6)
    PoolSize,       \* how many addresses each pool has
    Sockets,
    NsOf,           \* the namespace of a socket
    Requests,       \* what each socket may be bound to: [addr, port]
    Targets,        \* what each socket may connect to: [kind, num, port]; num is
                    \* the number of an address of pool 1 when kind is "net"
    Dials,          \* the namespaces with a dial function, for the host's network
    Ports,          \* the ports that can be bound, 0 excluded
    Ephemeral,      \* the ports searched for port 0 (49152 to 65535)
    None

Pools == 1 .. NumPools
Interfaces == {"lo0", "en0"}

\* An address of en0: the pool and the number in the pool.
Addrs == UNION {{i} \X (0 .. PoolSize[i] - 1) : i \in Pools}

ASSUME NetworkAssumption ==
    /\ NumPools \in Nat \ {0}
    /\ PoolSize \in [Pools -> Nat]
    /\ NsOf \in [Sockets -> Namespaces]
    /\ Ports \subseteq Nat \ {0}
    /\ Ephemeral \subseteq Ports
    /\ \A s \in Sockets : Requests[s] \subseteq [addr : {"any"} \cup Interfaces, port : Ports \cup {0}]
    /\ \A s \in Sockets : Targets[s] \subseteq [kind : {"any", "lo", "net"}, num : Nat, port : Ports]
    /\ Ending \subseteq Namespaces
    /\ Dials \subseteq Namespaces
    /\ None \notin Namespaces \cup Sockets

VARIABLES
    pool,       \* the bitset of each pool: the numbers in use
    routes,     \* n.routes: the namespace whose en0 has an address
    ns,         \* "none", "attached", "detaching" (between Swap and the lock), "detached"
    addrs,      \* ns.en0.addrs: the numbers taken from the pools
    ports,      \* i.ports of both interfaces: the socket entered under a port
    sock        \* the sockets: where the call of its user is (at, op, req, target, via),
                \* the name, whether binding succeeded (ok), the peer it is
                \* connected to, the state, and the sockets connecting to it

netVars == <<pool, routes, ns, addrs>>
vars == <<pool, routes, ns, addrs, ports, sock>>

noReq == [addr |-> "any", port |-> 0]
newSocket == [at |-> "new", op |-> "none", name |-> None, req |-> noReq, ok |-> FALSE,
              target |-> None, via |-> None, peer |-> None, state |-> "none", queue |-> {}]

Init ==
    /\ pool = [i \in Pools |-> {}]
    /\ routes = [a \in Addrs |-> None]
    /\ ns = [n \in Namespaces |-> "none"]
    /\ addrs = [n \in Namespaces |-> <<>>]
    /\ ports = [n \in Namespaces |-> [f \in Interfaces |-> [p \in Ports |-> None]]]
    /\ sock = [s \in Sockets |-> newSocket]

-----------------------------------------------------------------------------
(* Address management.                                                     *)

\* The numbers that can be taken: not in use, and with the pool's prefix.
Free(i) == (0 .. PoolSize[i] - 1) \ pool[i]

\* Pool.Get, for the first k pools: the lowest number that is not in use.
IsNext(as, k) ==
    \A i \in 1 .. k : as[i] \in Free(i) /\ \A j \in Free(i) : as[i] <= j

\* The pools after the addresses as were taken, and after they were put back.
Get(p, as) == [i \in Pools |-> IF i \in DOMAIN as THEN p[i] \cup {as[i]} ELSE p[i]]
Put(p, as) == [i \in Pools |-> IF i \in DOMAIN as THEN p[i] \ {as[i]} ELSE p[i]]

Owns(as, a) == a[1] \in DOMAIN as /\ as[a[1]] = a[2]

\* LocalNetwork.attach.
Attached(n, as) == [a \in Addrs |-> IF Owns(as, a) THEN n ELSE routes[a]]

\* LocalNetwork.detach, of the interface whose addresses are as, where the
\* pools are p.
Detached(p, as) ==
    /\ pool' = Put(p, as)
    /\ routes' = [a \in Addrs |-> IF Owns(as, a) THEN None ELSE routes[a]]

CreateNamespace(n) ==
    /\ ns[n] = "none"
    /\ \E as \in [Pools -> UNION {Free(i) : i \in Pools}] :
        /\ IsNext(as, NumPools)
        /\ pool' = Get(pool, as)
        /\ routes' = Attached(n, as)
        /\ addrs' = [addrs EXCEPT ![n] = as]
    /\ ns' = [ns EXCEPT ![n] = "attached"]
    /\ UNCHANGED <<ports, sock>>

\* Mutant: what was taken before a pool was exhausted is kept.
CreateFailsKeeps(n) ==
    /\ ns[n] = "none"
    /\ \E k \in 0 .. NumPools - 1 : \E as \in [1 .. k -> UNION {Free(i) : i \in Pools}] :
        /\ IsNext(as, k)
        /\ Free(k + 1) = {}
        /\ pool' = Get(pool, as)
    /\ UNCHANGED <<routes, ns, addrs, ports, sock>>

\* Pool k + 1 is exhausted: the addresses of the pools before it are put
\* back, and there is no namespace.
CreateFails(n) ==
    /\ ns[n] = "none"
    /\ \E k \in 0 .. NumPools - 1 : \E as \in [1 .. k -> UNION {Free(i) : i \in Pools}] :
        /\ IsNext(as, k)
        /\ Free(k + 1) = {}
        /\ Detached(Get(pool, as), as)
    /\ UNCHANGED <<ns, addrs, ports, sock>>

\* Detach: the network is taken out of the namespace, then detached from.
DetachSwap(n) ==
    /\ n \in Ending
    /\ ns[n] = "attached"
    /\ ns' = [ns EXCEPT ![n] = "detaching"]
    /\ UNCHANGED <<pool, routes, addrs, ports, sock>>

Detach(n) ==
    /\ ns[n] = "detaching"
    /\ Detached(pool, addrs[n])
    /\ ns' = [ns EXCEPT ![n] = "detached"]
    /\ UNCHANGED <<addrs, ports, sock>>

-----------------------------------------------------------------------------
(* Bind, by Bind, Listen and Connect.                                      *)

At(s, place) == sock[s].at = place
Exists(n) == ns[n] # "none"
TableOf(s, f) == ports[NsOf[s]][f]

\* socketAndInterfaceMatch.
Match(addr, f) == addr \in {"any", f}

\* The port that bind takes on interface f, as a set of at most one element.
Usable(s, f, p) == Match(sock[s].req.addr, f) => TableOf(s, f)[p] = None

PortFor(s, f) ==
    LET p == sock[s].req.port IN
    IF p # 0 THEN {q \in {p} : Usable(s, f, q)}
    ELSE {q \in Ephemeral : Usable(s, f, q) /\ \A r \in Ephemeral : r < q => ~Usable(s, f, r)}

\* Entered in the table of f where the address matches; the name is set in
\* any case.
Enter(s, f, p, next) ==
    /\ ports' = IF Match(sock[s].req.addr, f)
                THEN [ports EXCEPT ![NsOf[s]][f][p] = s] ELSE ports
    /\ sock' = [sock EXCEPT ![s] = [next EXCEPT !.name = [addr |-> sock[s].req.addr, port |-> p]]]

StartBind(s, op, req, t) ==
    sock' = [sock EXCEPT ![s] = [@ EXCEPT !.at = "bindLo", !.op = op, !.req = req, !.target = t]]

Bind(s, req) ==
    /\ Exists(NsOf[s])
    /\ At(s, "new")
    /\ StartBind(s, "bind", req, None)
    /\ UNCHANGED <<netVars, ports>>

\* Listen; bindAny comes first when the socket is not bound.
Listen(s) ==
    /\ Exists(NsOf[s])
    /\ \/ At(s, "new") /\ noReq \in Requests[s] /\ StartBind(s, "listen", noReq, None)
       \/ /\ At(s, "open") /\ sock[s].state = "none"
          /\ sock' = [sock EXCEPT ![s] = [@ EXCEPT !.state = "listening"]]
    /\ UNCHANGED <<netVars, ports>>

BindLo(s) ==
    /\ At(s, "bindLo")
    /\ \/ \E p \in PortFor(s, "lo0") : Enter(s, "lo0", p, [sock[s] EXCEPT !.at = "bindEn"])
       \/ /\ PortFor(s, "lo0") = {}
          /\ sock' = [sock EXCEPT ![s] = newSocket]
          /\ UNCHANGED ports
    /\ UNCHANGED netVars

\* When en0 refuses, the call fails, but the socket stays bound on lo0.
BindEn(s) ==
    LET op == sock[s].op
        done == [sock[s] EXCEPT !.op = "none", !.req = noReq, !.at = "open"] IN
    /\ At(s, "bindEn")
    /\ \/ \E p \in PortFor(s, "en0") :
            Enter(s, "en0", p, [done EXCEPT !.ok = TRUE,
                                !.state = IF op = "listen" THEN "listening" ELSE "none",
                                !.at = IF op = "connect" THEN "lookupLo" ELSE "open"])
       \/ /\ PortFor(s, "en0") = {}
          /\ sock' = [sock EXCEPT ![s] = [done EXCEPT !.target = None]]
          /\ UNCHANGED ports
    /\ UNCHANGED netVars

\* Accept: the new socket c has the name of its server, and no port.
Accept(s, c) ==
    /\ At(s, "open") /\ sock[s].state = "listening"
    /\ At(c, "new") /\ NsOf[c] = NsOf[s]
    /\ \E k \in sock[s].queue :
        sock' = [sock EXCEPT ![s].queue = @ \ {k},
                             ![c] = [@ EXCEPT !.at = "open", !.name = sock[s].name,
                                              !.state = "accepted"]]
    /\ UNCHANGED <<netVars, ports>>

-----------------------------------------------------------------------------
(* Connect.                                                                *)

Connect(s, t) ==
    /\ Exists(NsOf[s])
    /\ sock[s].state = "none"
    /\ \/ At(s, "new") /\ noReq \in Requests[s] /\ StartBind(s, "connect", noReq, t)
       \/ /\ At(s, "open")
          /\ sock' = [sock EXCEPT ![s] = [@ EXCEPT !.at = "lookupLo", !.target = t]]
    /\ UNCHANGED <<netVars, ports>>

\* Whether interface f of namespace n has the address of t.
Has(n, f, t) ==
    \/ f = "lo0" /\ t.kind = "lo"
    \/ f = "en0" /\ t.kind = "net" /\ t.num = addrs[n][1]

\* localInterface.lookup.
Peer(n, f, t) == IF t.kind = "any" \/ Has(n, f, t) THEN ports[n][f][t.port] ELSE None

Found(s, peer) == sock' = [sock EXCEPT ![s] = [@ EXCEPT !.at = "acquire", !.peer = peer]]
Refused(s) == sock' = [sock EXCEPT ![s] = [@ EXCEPT !.at = "open", !.target = None, !.via = None, !.peer = None]]
Goes(s, place) == sock' = [sock EXCEPT ![s] = [@ EXCEPT !.at = place]]

LookupLo(s) ==
    LET peer == Peer(NsOf[s], "lo0", sock[s].target) IN
    /\ At(s, "lookupLo")
    /\ IF peer # None THEN Found(s, peer) ELSE Goes(s, "lookupEn")
    /\ UNCHANGED <<netVars, ports>>

\* Mutant: the wildcard address is looked up in the network too.
StaysLocalOwned(n, t) == \E f \in Interfaces : Has(n, f, t)

\* The addresses that are not looked up in the network.
StaysLocal(n, t) == t.kind = "any" \/ \E f \in Interfaces : Has(n, f, t)

LookupEn(s) ==
    LET t == sock[s].target
        peer == Peer(NsOf[s], "en0", t) IN
    /\ At(s, "lookupEn")
    /\ IF peer # None THEN Found(s, peer)
       ELSE IF StaysLocal(NsOf[s], t) THEN Refused(s)
       ELSE Goes(s, "route")
    /\ UNCHANGED <<netVars, ports>>

\* The interface that has the address; without one, or when the namespace is
\* detached, the connection is dialled on the host's network.
Route(s) ==
    LET n == NsOf[s]
        a == <<1, sock[s].target.num>>
        via == IF ns[n] = "attached" /\ a \in Addrs THEN routes[a] ELSE None IN
    /\ At(s, "route")
    /\ IF via # None
       THEN sock' = [sock EXCEPT ![s] = [@ EXCEPT !.at = "remote", !.via = via]]
       ELSE IF n \in Dials
       THEN sock' = [sock EXCEPT ![s] = [@ EXCEPT !.at = "open", !.state = "dialed"]]
       ELSE Refused(s)
    /\ UNCHANGED <<netVars, ports>>

\* The network is unlocked: the other namespace may be detached by now.
LookupRemote(s) ==
    LET peer == Peer(sock[s].via, "en0", sock[s].target) IN
    /\ At(s, "remote")
    /\ IF peer # None THEN Found(s, peer) ELSE Refused(s)
    /\ UNCHANGED <<netVars, ports>>

\* fd1 of a socket that is closed, or was connected, can not be acquired;
\* otherwise the connecting socket sends its own fd1 through it, which may
\* fail.  The sockets of one user are driven one at a time.
AcquirePeer(s) ==
    LET peer == sock[s].peer IN
    /\ At(s, "acquire")
    /\ \/ /\ ~At(peer, "closed") /\ sock[peer].state \notin {"connected", "dialed"}
          /\ sock' = [k \in Sockets |->
                [sock[k] EXCEPT
                    !.at    = IF k = s THEN "open" ELSE @,
                    !.state = IF k = s THEN "connected" ELSE @,
                    !.via   = IF k = s THEN None ELSE @,
                    !.queue = IF k = peer THEN @ \cup {s} ELSE @]]
       \/ Refused(s)
    /\ UNCHANGED <<netVars, ports>>

-----------------------------------------------------------------------------
(* Close: the name is unlinked from both interfaces.                       *)

Closed(s) == sock' = [sock EXCEPT ![s] = [newSocket EXCEPT !.at = "closed", !.name = sock[s].name]]

Close(s) ==
    /\ Exists(NsOf[s])
    /\ \/ At(s, "open") /\ Goes(s, "closeLo")
       \/ At(s, "new") /\ Closed(s)
    /\ UNCHANGED <<netVars, ports>>

\* Mutant: the port is given back, whoever has it.
UnlinkedAny(s, f) ==
    LET name == sock[s].name IN
    IF Match(name.addr, f) THEN [ports EXCEPT ![NsOf[s]][f][name.port] = None] ELSE ports

\* localInterface.unlink: only the socket's own entry is removed.
Unlinked(s, f) ==
    LET name == sock[s].name IN
    IF Match(name.addr, f) /\ TableOf(s, f)[name.port] = s
    THEN [ports EXCEPT ![NsOf[s]][f][name.port] = None] ELSE ports

UnlinkLo(s) ==
    /\ At(s, "closeLo")
    /\ ports' = Unlinked(s, "lo0")
    /\ Goes(s, "closeEn")
    /\ UNCHANGED netVars

UnlinkEn(s) ==
    /\ At(s, "closeEn")
    /\ ports' = Unlinked(s, "en0")
    /\ Closed(s)
    /\ UNCHANGED netVars

-----------------------------------------------------------------------------
Next ==
    \/ \E n \in Namespaces : CreateNamespace(n)
    \/ \E n \in Namespaces : CreateFails(n)
    \/ \E n \in Namespaces : DetachSwap(n)
    \/ \E n \in Namespaces : Detach(n)
    \/ \E s \in Sockets : \E req \in Requests[s] : Bind(s, req)
    \/ \E s \in Sockets : BindLo(s)
    \/ \E s \in Sockets : BindEn(s)
    \/ \E s \in Sockets : Listen(s)
    \/ \E s, c \in Sockets : Accept(s, c)
    \/ \E s \in Sockets : \E t \in Targets[s] : Connect(s, t)
    \/ \E s \in Sockets : LookupLo(s)
    \/ \E s \in Sockets : LookupEn(s)
    \/ \E s \in Sockets : Route(s)
    \/ \E s \in Sockets : LookupRemote(s)
    \/ \E s \in Sockets : AcquirePeer(s)
    \/ \E s \in Sockets : Close(s)
    \/ \E s \in Sockets : UnlinkLo(s)
    \/ \E s \in Sockets : UnlinkEn(s)

Spec == Init /\ [][Next]_vars

-----------------------------------------------------------------------------
(* Properties. *)

Places == {"new", "bindLo", "bindEn", "open", "lookupLo", "lookupEn", "route", "remote",
           "acquire", "closeLo", "closeEn", "closed"}

\* The type invariant; in particular no number outside a pool is handed out.
TypeOK ==
    /\ pool \in [Pools -> SUBSET Nat]
    /\ \A i \in Pools : pool[i] \subseteq 0 .. PoolSize[i] - 1
    /\ routes \in [Addrs -> Namespaces \cup {None}]
    /\ ns \in [Namespaces -> {"none", "attached", "detaching", "detached"}]
    /\ addrs \in [Namespaces -> [Pools -> Nat] \cup {<<>>}]
    /\ ports \in [Namespaces -> [Interfaces -> [Ports -> Sockets \cup {None}]]]
    /\ sock \in [Sockets -> [at : Places, op : {"none", "bind", "listen", "connect"},
            name : [addr : {"any"} \cup Interfaces, port : Ports] \cup {None},
            req : [addr : {"any"} \cup Interfaces, port : Ports \cup {0}], ok : BOOLEAN,
            target : (UNION {Targets[s] : s \in Sockets}) \cup {None}, via : Namespaces \cup {None},
            peer : Sockets \cup {None},
            state : {"none", "listening", "accepted", "connected", "dialed"},
            queue : SUBSET Sockets]]

Holds(n) == ns[n] \in {"attached", "detaching"}

\* Addresses are exclusive and never lost: a namespace that was created and
\* not detached has one address of each pool, in use in the pool (so that
\* returning it does not panic), routed to it and no other's; and an address
\* in use, or routed, is that of such a namespace, failed creations included.
AddressesExclusive ==
    /\ \A n \in Namespaces : Holds(n) =>
        \A i \in Pools : addrs[n][i] \in pool[i] /\ routes[<<i, addrs[n][i]>>] = n
    /\ \A i \in Pools : \A k \in pool[i] :
        \E n \in Namespaces : Holds(n) /\ addrs[n][i] = k
    /\ \A a \in Addrs : routes[a] # None => Holds(routes[a]) /\ addrs[routes[a]][a[1]] = a[2]

\* A socket whose Bind succeeded is found under its name, on every interface
\* that the name's address stands for, until it is closed: nobody else gets
\* or gives back its port, neither a socket that fails to bind, nor one it
\* accepted, nor one that closes.
NameIsBound ==
    \A s \in Sockets : \A f \in Interfaces :
        /\ sock[s].ok
        /\ sock[s].at \notin {"closeLo", "closeEn", "closed"}
        /\ Match(sock[s].name.addr, f)
        => TableOf(s, f)[sock[s].name.port] = s

\* A closed socket is in no table, even when it was bound on one interface
\* only because the other refused it.
ClosedHoldsNoPort ==
    \A n \in Namespaces, f \in Interfaces, p \in Ports :
        ports[n][f][p] # None => sock[ports[n][f][p]].at # "closed"

\* A port belongs to the socket that bound it, as long as it is open.
PortsSound == TypeOK /\ NameIsBound /\ ClosedHoldsNoPort

\* A connection reaches the socket it was addressed to: one bound to the
\* port, in the same namespace or in one that was given the address; and a
\* connection to a loopback or wildcard address never leaves the namespace.
ReachesAddressee ==
    \A s \in Sockets :
        LET t == sock[s].target
            peer == sock[s].peer IN
        /\ sock[s].state = "connected" =>
            /\ sock[peer].name.port = t.port
            /\ NsOf[peer] # NsOf[s] => t.kind = "net" /\ t.num = addrs[NsOf[peer]][1]
        /\ sock[s].state = "dialed" => t.kind = "net"
=============================================================================
