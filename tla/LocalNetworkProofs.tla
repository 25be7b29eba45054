------------------------- MODULE LocalNetworkProofs -------------------------
(***************************************************************************)
(* For any number of namespaces, pools, addresses, sockets and ports: the  *)
(* addresses that the pools hand out are exclusive and never lost (IInv,   *)
(* which the steps of sockets do not touch); names stay bound, closed      *)
(* sockets hold no port and connections reach their addressee (SockInv).   *)
(***************************************************************************)
EXTENDS LocalNetwork, TLAPS

\* The types of the network's part of the state.  The addresses of a
\* namespace that holds some are numbers of the pools.
NetOK ==
    /\ pool \in [Pools -> SUBSET Nat]
    /\ \A i \in Pools : pool[i] \subseteq 0 .. PoolSize[i] - 1
    /\ routes \in [Addrs -> Namespaces \cup {None}]
    /\ ns \in [Namespaces -> {"none", "attached", "detaching", "detached"}]
    /\ addrs \in [Namespaces -> [Pools -> Nat] \cup {<<>>}]
    /\ \A n \in Namespaces : Holds(n) => addrs[n] \in [Pools -> Nat]

\* AddressesExclusive is inductive once the types are known.
IInv == NetOK /\ AddressesExclusive

\* An address of en0 is a pool and a number of that pool.
LEMMA AddrsAre ==
    /\ \A i \in Pools : \A k \in 0 .. PoolSize[i] - 1 : <<i, k>> \in Addrs
    /\ \A a \in Addrs : /\ a[1] \in Pools
                        /\ a[2] \in 0 .. PoolSize[a[1]] - 1
                        /\ a = <<a[1], a[2]>>
<1>1. \A i \in Pools : \A k \in 0 .. PoolSize[i] - 1 : <<i, k>> \in Addrs
  <2>1. SUFFICES ASSUME NEW i \in Pools, NEW k \in 0 .. PoolSize[i] - 1 PROVE <<i, k>> \in Addrs
    OBVIOUS
  <2>2. <<i, k>> \in {i} \X (0 .. PoolSize[i] - 1)
    OBVIOUS
  <2> QED BY <2>2 DEF Addrs
<1>2. ASSUME NEW a \in Addrs
      PROVE  a[1] \in Pools /\ a[2] \in 0 .. PoolSize[a[1]] - 1 /\ a = <<a[1], a[2]>>
  <2>1. PICK i \in Pools : a \in {i} \X (0 .. PoolSize[i] - 1)
    BY <1>2 DEF Addrs
  <2> QED BY <2>1
<1> QED BY <1>1, <1>2

\* The numbers of a pool are natural numbers.
LEMMA PoolNumbers == \A i \in Pools : 0 .. PoolSize[i] - 1 \subseteq Nat
<1> SUFFICES ASSUME NEW i \in Pools PROVE 0 .. PoolSize[i] - 1 \subseteq Nat
  OBVIOUS
<1>1. PoolSize[i] \in Nat
  BY NetworkAssumption
<1> QED BY <1>1

\* None stands for no namespace.
LEMMA NoneAssumed == None \notin Namespaces
  BY NetworkAssumption

\* What no step of a socket changes keeps the invariant.
LEMMA NetUnchanged == IInv /\ UNCHANGED netVars => IInv'
  BY DEF IInv, NetOK, AddressesExclusive, Holds, netVars

\* No address is in use before the first namespace is created.
LEMMA InitIInv == Init => IInv
<1> SUFFICES ASSUME Init PROVE IInv
  OBVIOUS
<1> USE NetworkAssumption DEF Init
<1>1. NetOK
  BY DEF NetOK, Holds
<1>2. AddressesExclusive
  BY DEF AddressesExclusive, Holds
<1> QED BY <1>1, <1>2 DEF IInv

\* A namespace takes one free number of each pool.
LEMMA CreateIInv ==
    ASSUME IInv, NEW n \in Namespaces, CreateNamespace(n) PROVE IInv'
<1>1. PICK as \in [Pools -> UNION {Free(i) : i \in Pools}] :
        /\ IsNext(as, NumPools)
        /\ pool' = Get(pool, as)
        /\ routes' = Attached(n, as)
        /\ addrs' = [addrs EXCEPT ![n] = as]
  BY DEF CreateNamespace
<1>2. \A i \in Pools : as[i] \in 0 .. PoolSize[i] - 1 /\ as[i] \notin pool[i]
  BY <1>1 DEF IsNext, Free, Pools
<1>3. as \in [Pools -> Nat]
  <2>1. \A i \in Pools : as[i] \in Nat
    BY <1>2, PoolNumbers
  <2>2. as = [i \in Pools |-> as[i]]
    OBVIOUS
  <2> QED BY <2>1, <2>2
<1>4. ns[n] = "none" /\ ns' = [ns EXCEPT ![n] = "attached"]
  BY DEF CreateNamespace
<1>5. \A i \in Pools : pool'[i] = pool[i] \cup {as[i]}
  BY <1>1 DEF Get
<1>6. NetOK'
  <2>1. pool' \in [Pools -> SUBSET Nat] /\ \A i \in Pools : pool'[i] \subseteq 0 .. PoolSize[i] - 1
    <3>1. \A i \in Pools : pool'[i] \subseteq 0 .. PoolSize[i] - 1 /\ pool'[i] \subseteq Nat
      <4> SUFFICES ASSUME NEW i \in Pools
                   PROVE  pool'[i] \subseteq 0 .. PoolSize[i] - 1 /\ pool'[i] \subseteq Nat
        OBVIOUS
      <4>1. pool[i] \subseteq 0 .. PoolSize[i] - 1
        BY DEF IInv, NetOK
      <4>2. pool'[i] \subseteq 0 .. PoolSize[i] - 1
        BY <4>1, <1>2, <1>5
      <4> QED BY <4>2, PoolNumbers
    <3>2. pool' = [i \in Pools |-> pool'[i]]
      BY <1>1 DEF Get
    <3> QED BY <3>1, <3>2
  <2>2. routes' \in [Addrs -> Namespaces \cup {None}]
    BY <1>1 DEF IInv, NetOK, Attached
  <2>3. ns' \in [Namespaces -> {"none", "attached", "detaching", "detached"}]
    BY <1>4 DEF IInv, NetOK
  <2>4. /\ addrs' \in [Namespaces -> [Pools -> Nat] \cup {<<>>}]
        /\ \A m \in Namespaces : Holds(m)' => addrs'[m] \in [Pools -> Nat]
    BY <1>1, <1>3, <1>4 DEF IInv, NetOK, Holds
  <2> QED BY <2>1, <2>2, <2>3, <2>4 DEF NetOK
<1>7. \A m \in Namespaces : m # n =>
        (Holds(m)' <=> Holds(m)) /\ addrs'[m] = addrs[m]
  BY <1>1, <1>4 DEF IInv, NetOK, Holds
<1>8. Holds(n)' /\ ~Holds(n) /\ addrs'[n] = as
  BY <1>1, <1>4 DEF IInv, NetOK, Holds
<1>9. \A a \in Addrs : routes'[a] = IF as[a[1]] = a[2] THEN n ELSE routes[a]
  BY <1>1, AddrsAre DEF Attached, Owns
<1>10. \A m \in Namespaces : Holds(m)' =>
        \A i \in Pools : addrs'[m][i] \in pool'[i] /\ routes'[<<i, addrs'[m][i]>>] = m
  <2> SUFFICES ASSUME NEW m \in Namespaces, Holds(m)', NEW i \in Pools
               PROVE  addrs'[m][i] \in pool'[i] /\ routes'[<<i, addrs'[m][i]>>] = m
    OBVIOUS
  <2>1. CASE m = n
    BY <2>1, <1>2, <1>5, <1>8, <1>9, AddrsAre
  <2>2. CASE m # n
    <3>1. Holds(m) /\ addrs'[m] = addrs[m]
      BY <2>2, <1>7
    <3>2. addrs[m][i] \in pool[i] /\ routes[<<i, addrs[m][i]>>] = m
      BY <3>1 DEF IInv, AddressesExclusive
    <3>3. as[i] # addrs[m][i]
      BY <3>2, <1>2
    <3>4. <<i, addrs[m][i]>> \in Addrs
      BY <3>2, AddrsAre DEF IInv, NetOK
    <3> QED BY <3>1, <3>2, <3>3, <3>4, <1>5, <1>9
  <2> QED BY <2>1, <2>2
<1>11. \A i \in Pools : \A k \in pool'[i] : \E m \in Namespaces : Holds(m)' /\ addrs'[m][i] = k
  <2> SUFFICES ASSUME NEW i \in Pools, NEW k \in pool'[i]
               PROVE  \E m \in Namespaces : Holds(m)' /\ addrs'[m][i] = k
    OBVIOUS
  <2>1. CASE k = as[i]
    BY <2>1, <1>8
  <2>2. CASE k # as[i]
    <3>1. k \in pool[i]
      BY <2>2, <1>5
    <3>2. PICK m \in Namespaces : Holds(m) /\ addrs[m][i] = k
      BY <3>1 DEF IInv, AddressesExclusive
    <3> QED BY <3>2, <1>7, <1>8
  <2> QED BY <2>1, <2>2
<1>12. ASSUME NEW a \in Addrs, NEW m \in Namespaces, routes'[a] = m
       PROVE  Holds(m)' /\ addrs'[m][a[1]] = a[2]
  <2>1. CASE as[a[1]] = a[2]
    BY <2>1, <1>8, <1>9, <1>12
  <2>2. CASE as[a[1]] # a[2]
    <3>1. routes[a] = m
      BY <2>2, <1>9, <1>12
    <3>2. Holds(m) /\ addrs[m][a[1]] = a[2]
      BY <3>1, NoneAssumed DEF IInv, AddressesExclusive
    <3> QED BY <3>2, <1>7, <1>8
  <2> QED BY <2>1, <2>2
<1> QED BY <1>6, <1>10, <1>11, <1>12 DEF IInv, AddressesExclusive, NetOK, Holds

\* A creation that fails leaves the pools and the routes as they were: what
\* it took was free, so nobody had it.
LEMMA CreateFailsIInv ==
    ASSUME IInv, NEW n \in Namespaces, CreateFails(n) PROVE IInv'
<1>0. PICK k \in 0 .. NumPools - 1 : \E as \in [1 .. k -> UNION {Free(i) : i \in Pools}] :
        IsNext(as, k) /\ Detached(Get(pool, as), as)
  BY DEF CreateFails
<1>1. PICK as \in [1 .. k -> UNION {Free(i) : i \in Pools}] :
        IsNext(as, k) /\ Detached(Get(pool, as), as)
  BY <1>0
<1>2. 1 .. k \subseteq Pools
  BY NetworkAssumption DEF Pools
<1>3. \A i \in 1 .. k : as[i] \notin pool[i]
  BY <1>1 DEF IsNext, Free
<1>4. pool' = pool
  <2>1. \A i \in Pools : Put(Get(pool, as), as)[i] = pool[i]
    <3> SUFFICES ASSUME NEW i \in Pools PROVE Put(Get(pool, as), as)[i] = pool[i]
      OBVIOUS
    <3>1. CASE i \in 1 .. k
      <4>1. Put(Get(pool, as), as)[i] = (pool[i] \cup {as[i]}) \ {as[i]}
        BY <3>1 DEF Put, Get
      <4> QED BY <4>1, <3>1, <1>3
    <3>2. CASE i \notin 1 .. k
      BY <3>2 DEF Put, Get
    <3> QED BY <3>1, <3>2
  <2>2. Put(Get(pool, as), as) = [i \in Pools |-> Put(Get(pool, as), as)[i]]
    BY DEF Put
  <2>3. pool = [i \in Pools |-> pool[i]]
    BY DEF IInv, NetOK
  <2> QED BY <1>1, <2>1, <2>2, <2>3 DEF Detached
<1>5. \A a \in Addrs : Owns(as, a) => routes[a] = None
  <2> SUFFICES ASSUME NEW a \in Addrs, Owns(as, a), routes[a] # None PROVE FALSE
    OBVIOUS
  <2>1. a[1] \in 1 .. k /\ as[a[1]] = a[2]
    BY DEF Owns
  <2>2. routes[a] \in Namespaces /\ Holds(routes[a]) /\ addrs[routes[a]][a[1]] = a[2]
    BY DEF IInv, NetOK, AddressesExclusive
  <2>3. a[2] \in pool[a[1]]
    BY <2>1, <2>2, <1>2 DEF IInv, AddressesExclusive
  <2> QED BY <2>1, <2>3, <1>3
<1>6. routes' = routes
  <2>1. routes' = [a \in Addrs |-> IF Owns(as, a) THEN None ELSE routes[a]]
    BY <1>1 DEF Detached
  <2>2. routes = [a \in Addrs |-> routes[a]]
    BY DEF IInv, NetOK
  <2> QED BY <2>1, <2>2, <1>5
<1>7. UNCHANGED netVars
  BY <1>4, <1>6 DEF CreateFails, netVars
<1> QED BY <1>7, NetUnchanged

\* Swapping the pointer of the network leaves the addresses where they are.
LEMMA DetachSwapIInv ==
    ASSUME IInv, NEW n \in Namespaces, DetachSwap(n) PROVE IInv'
<1>1. \A m \in Namespaces : Holds(m)' <=> Holds(m)
  BY DEF DetachSwap, Holds, IInv, NetOK
<1>2. UNCHANGED <<pool, routes, addrs>>
  BY DEF DetachSwap
<1>3. NetOK'
  <2>1. ns' \in [Namespaces -> {"none", "attached", "detaching", "detached"}]
    BY DEF DetachSwap, IInv, NetOK
  <2> QED BY <2>1, <1>1, <1>2 DEF IInv, NetOK
<1>4. AddressesExclusive'
  <2>1. ASSUME NEW a \in Addrs, routes'[a] # None
        PROVE  Holds(routes[a])' /\ addrs'[routes'[a]][a[1]] = a[2]
    <3>1. routes[a] \in Namespaces /\ Holds(routes[a]) /\ addrs[routes[a]][a[1]] = a[2]
      BY <2>1, <1>2 DEF IInv, NetOK, AddressesExclusive
    <3> QED BY <3>1, <1>1, <1>2 DEF Holds
  <2> QED BY <2>1, <1>1, <1>2 DEF IInv, AddressesExclusive, Holds
<1> QED BY <1>3, <1>4 DEF IInv

\* The addresses of n are in use, so returning them does not panic, and they
\* are those of no other namespace.
LEMMA DetachIInv ==
    ASSUME IInv, NEW n \in Namespaces, Detach(n) PROVE IInv'
<1> DEFINE as == addrs[n]
<1>1. /\ ns[n] = "detaching" /\ ns' = [ns EXCEPT ![n] = "detached"]
      /\ Detached(pool, as) /\ addrs' = addrs
  BY DEF Detach
<1>2. Holds(n) /\ ~Holds(n)' /\ as \in [Pools -> Nat]
  BY <1>1 DEF Holds, IInv, NetOK
<1>3. \A m \in Namespaces : m # n => (Holds(m)' <=> Holds(m))
  BY <1>1 DEF Holds, IInv, NetOK
<1>4. \A i \in Pools : pool'[i] = pool[i] \ {as[i]}
  BY <1>1, <1>2 DEF Detached, Put
<1>5. \A a \in Addrs : routes'[a] = IF as[a[1]] = a[2] THEN None ELSE routes[a]
  BY <1>1, <1>2, AddrsAre DEF Detached, Owns
<1>6. NetOK'
  <2>1. \A i \in Pools : pool'[i] \in SUBSET Nat /\ pool'[i] \subseteq 0 .. PoolSize[i] - 1
    BY <1>4 DEF IInv, NetOK
  <2>2. pool' = [i \in Pools |-> pool'[i]]
    BY <1>1 DEF Detached, Put
  <2>3. routes' \in [Addrs -> Namespaces \cup {None}]
    BY <1>1 DEF Detached, IInv, NetOK
  <2>4. ns' \in [Namespaces -> {"none", "attached", "detaching", "detached"}]
    BY <1>1 DEF IInv, NetOK
  <2>5. /\ addrs' \in [Namespaces -> [Pools -> Nat] \cup {<<>>}]
        /\ \A m \in Namespaces : Holds(m)' => addrs'[m] \in [Pools -> Nat]
    BY <1>1, <1>2, <1>3 DEF IInv, NetOK
  <2>6. pool' \in [Pools -> SUBSET Nat]
    BY <2>1, <2>2
  <2> QED BY <2>1, <2>3, <2>4, <2>5, <2>6 DEF NetOK
<1>7. ASSUME NEW m \in Namespaces, Holds(m)', NEW i \in Pools
      PROVE  addrs'[m][i] \in pool'[i] /\ routes'[<<i, addrs'[m][i]>>] = m
  <2>1. m # n /\ Holds(m)
    BY <1>7, <1>2, <1>3
  <2>2. addrs[m][i] \in pool[i] /\ routes[<<i, addrs[m][i]>>] = m
    BY <2>1 DEF IInv, AddressesExclusive
  <2>3. routes[<<i, as[i]>>] = n
    BY <1>2 DEF IInv, AddressesExclusive
  <2>4. as[i] # addrs[m][i]
    BY <2>1, <2>2, <2>3
  <2>5. <<i, addrs[m][i]>> \in Addrs
    BY <2>2, AddrsAre DEF IInv, NetOK
  <2> QED BY <2>2, <2>4, <2>5, <1>1, <1>4, <1>5
<1>8. ASSUME NEW i \in Pools, NEW k \in pool'[i]
      PROVE  \E m \in Namespaces : Holds(m)' /\ addrs'[m][i] = k
  <2>1. k \in pool[i] /\ k # as[i]
    BY <1>4
  <2>2. PICK m \in Namespaces : Holds(m) /\ addrs[m][i] = k
    BY <2>1 DEF IInv, AddressesExclusive
  <2>3. m # n
    BY <2>1, <2>2
  <2> QED BY <2>2, <2>3, <1>1, <1>3
<1>9. ASSUME NEW a \in Addrs, NEW m \in Namespaces, routes'[a] = m
      PROVE  Holds(m)' /\ addrs'[m][a[1]] = a[2]
  <2>1. as[a[1]] # a[2] /\ routes[a] = m
    BY <1>5, <1>9, NoneAssumed
  <2>2. Holds(m) /\ addrs[m][a[1]] = a[2]
    BY <2>1, NoneAssumed DEF IInv, AddressesExclusive
  <2>3. m # n
    BY <2>1, <2>2
  <2> QED BY <2>2, <2>3, <1>1, <1>3
<1> QED BY <1>6, <1>7, <1>8, <1>9 DEF IInv, AddressesExclusive, NetOK, Holds

-----------------------------------------------------------------------------
\* IInv is an inductive invariant of the network: creations, failed
\* creations and detachments of namespaces keep it, and bind, lookup, accept
\* and close of sockets do not touch what it is about.
THEOREM Invariance == Spec => []IInv
<1>1. Init => IInv
  BY InitIInv
<1>2. IInv /\ [Next]_vars => IInv'
  <2> SUFFICES ASSUME IInv, [Next]_vars PROVE IInv'
    OBVIOUS
  <2>1. CASE \E n \in Namespaces : CreateNamespace(n)
    BY <2>1, CreateIInv
  <2>2. CASE \E n \in Namespaces : CreateFails(n)
    BY <2>2, CreateFailsIInv
  <2>3. CASE \E n \in Namespaces : DetachSwap(n)
    BY <2>3, DetachSwapIInv
  <2>4. CASE \E n \in Namespaces : Detach(n)
    BY <2>4, DetachIInv
  <2>5. CASE \E s \in Sockets :
               \/ \E req \in Requests[s] : Bind(s, req)
               \/ BindLo(s) \/ BindEn(s) \/ Listen(s)
               \/ \E c \in Sockets : Accept(s, c)
    <3>1. UNCHANGED netVars
      BY <2>5 DEF Bind, BindLo, BindEn, Listen, Accept
    <3> QED BY <3>1, NetUnchanged
  <2>6. CASE \E s \in Sockets :
               \/ \E t \in Targets[s] : Connect(s, t)
               \/ LookupLo(s) \/ LookupEn(s) \/ Route(s) \/ LookupRemote(s) \/ AcquirePeer(s)
    <3>1. UNCHANGED netVars
      BY <2>6 DEF Connect, LookupLo, LookupEn, Route, LookupRemote, AcquirePeer
    <3> QED BY <3>1, NetUnchanged
  <2>7. CASE \E s \in Sockets : Close(s) \/ UnlinkLo(s) \/ UnlinkEn(s)
    <3>1. UNCHANGED netVars
      BY <2>7 DEF Close, UnlinkLo, UnlinkEn
    <3> QED BY <3>1, NetUnchanged
  <2>8. CASE UNCHANGED vars
    BY <2>8, NetUnchanged DEF vars, netVars
  <2> QED BY <2>1, <2>2, <2>3, <2>4, <2>5, <2>6, <2>7, <2>8 DEF Next
<1> QED BY <1>1, <1>2, PTL DEF Spec

\* However namespaces are created, fail to be created and are detached, and
\* whatever their sockets do, the addresses that CreateNamespace takes from
\* the pools are exclusive, routed to their namespace, and all returned.
THEOREM AddressesExclusiveHolds == Spec => []AddressesExclusive
  BY Invariance, PTL DEF IInv

-----------------------------------------------------------------------------
(* Sockets.                                                                *)

Names == [addr : {"any"} \cup Interfaces, port : Ports]
ReqSet == [addr : {"any"} \cup Interfaces, port : Ports \cup {0}]
OpSet == {"none", "bind", "listen", "connect"}
StateSet == {"none", "listening", "accepted", "connected", "dialed"}
AllTargets == UNION {Targets[s] : s \in Sockets}

Sock == [at : Places, op : OpSet, name : Names \cup {None}, req : ReqSet, ok : BOOLEAN,
         target : AllTargets \cup {None}, via : Namespaces \cup {None}, peer : Sockets \cup {None},
         state : StateSet, queue : SUBSET Sockets]

\* The two interfaces give a socket the same port: it asks for one, or there
\* is one at most to choose for port 0.
PortsAgree ==
    \/ \A s \in Sockets : \A r \in Requests[s] : r.port # 0
    \/ \A p, q \in Ephemeral : p = q

\* Socket peer is one that socket s may be connected to by target t.
Reaches(s, t, peer) ==
    /\ peer \in Sockets
    /\ sock[peer].at \notin {"new", "bindLo"}
    /\ sock[peer].name \in Names /\ sock[peer].name.port = t.port
    /\ NsOf[peer] # NsOf[s] => t.kind = "net" /\ Exists(NsOf[peer]) /\ t.num = addrs[NsOf[peer]][1]

\* What socket s has at each place of its calls, when it is q.
Placed(s, q) ==
    /\ q.at \in {"new", "bindLo", "bindEn"} => ~q.ok /\ q.state = "none"
    /\ q.at \in {"bindLo", "bindEn"} => q.req \in Requests[s] /\ (q.op = "connect" => q.target \in AllTargets)
    /\ q.at \notin {"new", "bindLo", "closed"} => q.name \in Names
    /\ q.at = "bindEn" =>
        /\ q.name.addr = q.req.addr
        /\ IF q.req.port # 0 THEN q.name.port = q.req.port ELSE q.name.port \in Ephemeral
    /\ q.at \in {"lookupLo", "lookupEn", "route", "remote", "acquire"} => q.target \in AllTargets /\ q.state = "none"
    /\ q.at \in {"route", "remote"} => q.target.kind = "net"
    /\ q.at = "remote" => q.via \in Namespaces /\ Exists(q.via) /\ q.target.num = addrs[q.via][1]
    /\ q.at = "acquire" \/ q.state = "connected" => Reaches(s, q.target, q.peer)
    /\ q.state = "dialed" => q.target.kind = "net"

PlaceInv == \A s \in Sockets : Placed(s, sock[s])

\* A socket in a table of ports has the name it is entered under, and is open;
\* it leaves the table of lo0 first.
Entered(s, n, f, p) ==
    /\ NsOf[s] = n
    /\ sock[s].name \in Names /\ sock[s].name.port = p /\ Match(sock[s].name.addr, f)
    /\ sock[s].at \notin {"new", "bindLo", "closed"}
    /\ f = "lo0" => sock[s].at # "closeEn"

TableInv ==
    \A n \in Namespaces, f \in Interfaces, p \in Ports :
        ports[n][f][p] # None => Entered(ports[n][f][p], n, f, p)

\* A socket that goes on to en0 is in the table of lo0.
HalfBound ==
    \A s \in Sockets : At(s, "bindEn") /\ Match(sock[s].req.addr, "lo0") =>
        TableOf(s, "lo0")[sock[s].name.port] = s

SockType ==
    /\ ports \in [Namespaces -> [Interfaces -> [Ports -> Sockets \cup {None}]]]
    /\ sock \in [Sockets -> Sock]

SockInv == SockType /\ PlaceInv /\ TableInv /\ HalfBound /\ NameIsBound

\* The fields of a socket that the invariant is about.
Rec(r, at, op, name, req, ok, target, via, peer, state) ==
    /\ r \in Sock
    /\ r.at = at /\ r.op = op /\ r.name = name /\ r.req = req /\ r.ok = ok
    /\ r.target = target /\ r.via = via /\ r.peer = peer /\ r.state = state

\* What the assignments of each step make of a socket.
LEMMA SetAt ==
    ASSUME NEW q \in Sock, NEW at \in Places
    PROVE  Rec([q EXCEPT !.at = at], at, q.op, q.name, q.req, q.ok, q.target, q.via, q.peer, q.state)
  BY DEF Sock, Rec

LEMMA SetStart ==
    ASSUME NEW q \in Sock, NEW at \in Places, NEW op \in OpSet, NEW req \in ReqSet,
           NEW t \in AllTargets \cup {None}
    PROVE  Rec([q EXCEPT !.at = at, !.op = op, !.req = req, !.target = t],
                    at, op, q.name, req, q.ok, t, q.via, q.peer, q.state)
  BY DEF Sock, Rec

LEMMA SetTarget ==
    ASSUME NEW q \in Sock, NEW at \in Places, NEW t \in AllTargets \cup {None}
    PROVE  Rec([q EXCEPT !.at = at, !.target = t],
                    at, q.op, q.name, q.req, q.ok, t, q.via, q.peer, q.state)
  BY DEF Sock, Rec

LEMMA SetPeer ==
    ASSUME NEW q \in Sock, NEW at \in Places, NEW peer \in Sockets
    PROVE  Rec([q EXCEPT !.at = at, !.peer = peer],
                    at, q.op, q.name, q.req, q.ok, q.target, q.via, peer, q.state)
  BY DEF Sock, Rec

LEMMA SetRefused ==
    ASSUME NEW q \in Sock
    PROVE  Rec([q EXCEPT !.at = "open", !.target = None, !.via = None, !.peer = None],
                    "open", q.op, q.name, q.req, q.ok, None, None, None, q.state)
  BY DEF Sock, Rec, Places

LEMMA SetVia ==
    ASSUME NEW q \in Sock, NEW at \in Places, NEW via \in Namespaces
    PROVE  Rec([q EXCEPT !.at = at, !.via = via],
                    at, q.op, q.name, q.req, q.ok, q.target, via, q.peer, q.state)
  BY DEF Sock, Rec

LEMMA SetState ==
    ASSUME NEW q \in Sock, NEW at \in Places, NEW st \in StateSet
    PROVE  /\ Rec([q EXCEPT !.state = st],
                    q.at, q.op, q.name, q.req, q.ok, q.target, q.via, q.peer, st)
           /\ Rec([q EXCEPT !.at = at, !.state = st],
                    at, q.op, q.name, q.req, q.ok, q.target, q.via, q.peer, st)
  BY DEF Sock, Rec

LEMMA SetQueue ==
    ASSUME NEW q \in Sock, NEW qs \in SUBSET Sockets
    PROVE  Rec([q EXCEPT !.queue = qs],
                    q.at, q.op, q.name, q.req, q.ok, q.target, q.via, q.peer, q.state)
  BY DEF Sock, Rec

LEMMA SetName ==
    ASSUME NEW q \in Sock, NEW name \in Names \cup {None}
    PROVE  Rec([q EXCEPT !.name = name],
                    q.at, q.op, name, q.req, q.ok, q.target, q.via, q.peer, q.state)
  BY DEF Sock, Rec

LEMMA SetAccepted ==
    ASSUME NEW q \in Sock, NEW name \in Names, NEW st \in StateSet
    PROVE  Rec([q EXCEPT !.at = "open", !.name = name, !.state = st],
                    "open", q.op, name, q.req, q.ok, q.target, q.via, q.peer, st)
  BY DEF Sock, Rec, Places

LEMMA SetDone ==
    ASSUME NEW q \in Sock
    PROVE  Rec([q EXCEPT !.op = "none", !.req = noReq, !.at = "open"],
                    "open", "none", q.name, noReq, q.ok, q.target, q.via, q.peer, q.state)
  <1>1. noReq \in ReqSet /\ "none" \in OpSet /\ "open" \in Places
    BY DEF noReq, ReqSet, OpSet, Places
  <1> QED
    BY <1>1 DEF Sock, Rec

LEMMA SetBound ==
    ASSUME NEW q \in Sock, NEW at \in Places, NEW st \in StateSet
    PROVE  Rec([q EXCEPT !.ok = TRUE, !.state = st, !.at = at],
                    at, q.op, q.name, q.req, TRUE, q.target, q.via, q.peer, st)
  BY DEF Sock, Rec

\* A new socket, and one that is closed.
LEMMA NewSocket ==
    /\ Rec(newSocket, "new", "none", None, noReq, FALSE, None, None, None, "none")
    /\ \A name \in Names \cup {None} :
        Rec([newSocket EXCEPT !.at = "closed", !.name = name],
            "closed", "none", name, noReq, FALSE, None, None, None, "none")
  <1>1. noReq \in ReqSet /\ "none" \in OpSet /\ "new" \in Places /\ "closed" \in Places /\ "none" \in StateSet
    BY DEF noReq, ReqSet, OpSet, Places, StateSet
  <1> QED
    BY <1>1 DEF newSocket, Rec, Sock

\* What a step may do to a socket and leave the tables as they are.
Keeps(s, r) ==
    /\ \/ sock[s].at \in {"new", "bindLo"}
       \/ r.name = sock[s].name /\ r.at \notin {"new", "bindLo", "closeEn", "closed"}
    /\ r.ok = sock[s].ok
    /\ r.at # "bindEn"
    /\ sock[s].at \in {"closeLo", "closeEn", "closed"} => r.at \in {"closeLo", "closeEn", "closed"}

\* A socket stays what it is, but for its queue.
Same(s, r) == r.at = sock[s].at /\ r.name = sock[s].name /\ r.req = sock[s].req /\ r.ok = sock[s].ok

\* Steps that leave the network and the tables as they are.
LEMMA SocketsStep ==
    ASSUME SockInv, sock' \in [Sockets -> Sock], UNCHANGED <<netVars, ports>>,
           \A k \in Sockets : Placed(k, sock'[k]) /\ (Keeps(k, sock'[k]) \/ Same(k, sock'[k]))
    PROVE  SockInv'
  <1>1. \A k, peer \in Sockets : \A t : Reaches(k, t, peer) => Reaches(k, t, peer)'
    BY DEF Reaches, Keeps, Same, netVars, Exists
  <1>2. PlaceInv'
    <2> SUFFICES ASSUME NEW k \in Sockets PROVE Placed(k, sock[k])'
      BY DEF PlaceInv
    <2>1. PICK q \in Sock : q = sock'[k]
      OBVIOUS
    <2>2. Placed(k, q)
      BY <2>1
    <2>3. q.at = "acquire" \/ q.state = "connected" => Reaches(k, q.target, q.peer)'
      BY <1>1, <2>2 DEF Placed, Reaches
    <2>4. Placed(k, q)'
      BY <2>2, <2>3 DEF Placed, netVars, Exists
    <2> QED
      BY <2>1, <2>4 DEF Placed, Reaches, Exists
  <1>3. TableInv'
    BY DEF SockInv, SockType, TableInv, Entered, Keeps, Same
  <1>4. HalfBound'
    <2> SUFFICES ASSUME NEW k \in Sockets, sock'[k].at = "bindEn", Match(sock'[k].req.addr, "lo0")
                 PROVE  ports'[NsOf[k]]["lo0"][sock'[k].name.port] = k
      BY DEF HalfBound, At, TableOf
    <2>1. Same(k, sock'[k])
      BY DEF Keeps
    <2> QED
      BY <2>1 DEF Same, SockInv, HalfBound, At, TableOf
  <1>5. NameIsBound'
    <2> SUFFICES ASSUME NEW k \in Sockets, NEW f \in Interfaces, sock'[k].ok,
                        sock'[k].at \notin {"closeLo", "closeEn", "closed"},
                        Match(sock'[k].name.addr, f)
                 PROVE  ports'[NsOf[k]][f][sock'[k].name.port] = k
      BY DEF NameIsBound, TableOf
    <2>1. sock[k].ok /\ sock[k].at \notin {"closeLo", "closeEn", "closed"}
      BY DEF Keeps, Same
    <2>2. sock[k].at \notin {"new", "bindLo"}
      BY <2>1 DEF SockInv, PlaceInv, Placed
    <2>3. sock'[k].name = sock[k].name
      BY <2>2 DEF Keeps, Same
    <2> QED
      BY <2>1, <2>3 DEF SockInv, NameIsBound, TableOf
  <1> QED
    BY <1>2, <1>3, <1>4, <1>5 DEF SockInv, SockType

\* The same for a step of one socket.
LEMMA SocketStep ==
    ASSUME SockInv, NEW s \in Sockets, NEW r \in Sock, sock' = [sock EXCEPT ![s] = r],
           UNCHANGED <<netVars, ports>>, Placed(s, r), Keeps(s, r)
    PROVE  SockInv'
  <1>1. sock' \in [Sockets -> Sock] /\ sock'[s] = r /\ \A k \in Sockets \ {s} : sock'[k] = sock[k]
    BY DEF SockInv, SockType
  <1>2. \A k \in Sockets : Placed(k, sock'[k]) /\ (Keeps(k, sock'[k]) \/ Same(k, sock'[k]))
    BY <1>1 DEF SockInv, PlaceInv, Same
  <1> QED
    BY <1>1, <1>2, SocketsStep

\* What a place of sock[s] and the invariant say of it.
LEMMA SocketAt ==
    ASSUME SockInv, NEW s \in Sockets
    PROVE  /\ sock[s] \in Sock /\ Placed(s, sock[s])
           /\ sock[s].ok \in BOOLEAN /\ sock[s].at \in Places /\ sock[s].op \in OpSet
           /\ sock[s].target \in AllTargets \cup {None} /\ sock[s].name \in Names \cup {None}
           /\ sock[s].queue \in SUBSET Sockets /\ sock[s].state \in StateSet
  BY DEF SockInv, SockType, PlaceInv, Sock

\* The fields of the address that a connect names.
LEMMA TargetsTyped ==
    ASSUME NEW t \in AllTargets
    PROVE  t.kind \in {"any", "lo", "net"} /\ t.num \in Nat /\ t.port \in Ports
  BY NetworkAssumption DEF AllTargets

\* A call of a socket that is not bound yet begins with bind.
LEMMA StartStep ==
    ASSUME SockInv, NEW s \in Sockets, At(s, "new"), UNCHANGED <<netVars, ports>>,
           NEW op \in OpSet, NEW req \in Requests[s], NEW t \in AllTargets \cup {None},
           op = "connect" => t \in AllTargets, StartBind(s, op, req, t)
    PROVE  SockInv'
  <1> DEFINE r == [sock[s] EXCEPT !.at = "bindLo", !.op = op, !.req = req, !.target = t]
  <1>1. req \in ReqSet /\ "bindLo" \in Places
    BY NetworkAssumption DEF ReqSet, Places
  <1>2. sock[s] \in Sock /\ Placed(s, sock[s])
    BY SocketAt
  <1>3. Rec(r, "bindLo", op, sock[s].name, req, sock[s].ok, t, sock[s].via, sock[s].peer, sock[s].state)
    BY <1>1, <1>2, SetStart
  <1>4. sock' = [sock EXCEPT ![s] = r]
    BY DEF StartBind
  <1> HIDE DEF r
  <1>5. Placed(s, r) /\ Keeps(s, r) /\ r \in Sock
    BY <1>2, <1>3 DEF Rec, Placed, Keeps, At
  <1> QED
    BY <1>4, <1>5, SocketStep

\* A call of Bind.
LEMMA BindStep ==
    ASSUME SockInv, NEW s \in Sockets, NEW req \in Requests[s], Bind(s, req)
    PROVE  SockInv'
  BY StartStep DEF Bind, OpSet

\* A bound socket listens.
LEMMA ListenStep ==
    ASSUME SockInv, NEW s \in Sockets, Listen(s)
    PROVE  SockInv'
  <1>1. CASE At(s, "new") /\ noReq \in Requests[s] /\ StartBind(s, "listen", noReq, None)
    BY <1>1, StartStep DEF Listen, OpSet
  <1>2. CASE /\ At(s, "open") /\ sock[s].state = "none"
             /\ sock' = [sock EXCEPT ![s] = [@ EXCEPT !.state = "listening"]]
    <2> DEFINE r == [sock[s] EXCEPT !.state = "listening"]
    <2>1. sock[s] \in Sock /\ Placed(s, sock[s]) /\ "listening" \in StateSet /\ "open" \in Places
      BY SocketAt DEF StateSet, Places
    <2>2. Rec(r, sock[s].at, sock[s].op, sock[s].name, sock[s].req, sock[s].ok, sock[s].target,
              sock[s].via, sock[s].peer, "listening")
      BY <2>1, SetState
    <2>3. sock' = [sock EXCEPT ![s] = r]
      BY <1>2
    <2> HIDE DEF r
    <2>4. Placed(s, r) /\ Keeps(s, r) /\ r \in Sock
      BY <1>2, <2>1, <2>2 DEF Rec, Placed, Keeps, At
    <2> QED
      BY <2>3, <2>4, SocketStep DEF Listen
  <1> QED
    BY <1>1, <1>2 DEF Listen

\* A call of connect begins.
LEMMA ConnectStep ==
    ASSUME SockInv, NEW s \in Sockets, NEW t \in Targets[s], Connect(s, t)
    PROVE  SockInv'
  <1>1. t \in AllTargets
    BY DEF AllTargets
  <1>2. CASE At(s, "new") /\ noReq \in Requests[s] /\ StartBind(s, "connect", noReq, t)
    BY <1>1, <1>2, StartStep DEF Connect, OpSet
  <1>3. CASE /\ At(s, "open")
             /\ sock' = [sock EXCEPT ![s] = [@ EXCEPT !.at = "lookupLo", !.target = t]]
    <2> DEFINE r == [sock[s] EXCEPT !.at = "lookupLo", !.target = t]
    <2>1. sock[s] \in Sock /\ Placed(s, sock[s]) /\ "lookupLo" \in Places
      BY SocketAt DEF Places
    <2>2. Rec(r, "lookupLo", sock[s].op, sock[s].name, sock[s].req, sock[s].ok, t,
              sock[s].via, sock[s].peer, sock[s].state)
      BY <1>1, <2>1, SetTarget
    <2>3. sock' = [sock EXCEPT ![s] = r]
      BY <1>3
    <2> HIDE DEF r
    <2>4. Placed(s, r) /\ Keeps(s, r) /\ r \in Sock
      BY <1>1, <1>3, <2>1, <2>2 DEF Rec, Placed, Keeps, At, Connect
    <2> QED
      BY <2>3, <2>4, SocketStep DEF Connect
  <1> QED
    BY <1>2, <1>3 DEF Connect

\* A socket that was found, that was not, and one that goes on.
LEMMA FoundStep ==
    ASSUME SockInv, NEW s \in Sockets, NEW peer \in Sockets, UNCHANGED <<netVars, ports>>,
           sock[s].at \in {"lookupLo", "lookupEn", "remote"},
           Reaches(s, sock[s].target, peer), Found(s, peer)
    PROVE  SockInv'
  <1> DEFINE r == [sock[s] EXCEPT !.at = "acquire", !.peer = peer]
  <1>1. sock[s] \in Sock /\ Placed(s, sock[s]) /\ "acquire" \in Places
    BY SocketAt DEF Places
  <1>2. Rec(r, "acquire", sock[s].op, sock[s].name, sock[s].req, sock[s].ok, sock[s].target,
            sock[s].via, peer, sock[s].state)
    BY <1>1, SetPeer
  <1>3. sock' = [sock EXCEPT ![s] = r]
    BY DEF Found
  <1> HIDE DEF r
  <1>4. Placed(s, r) /\ Keeps(s, r) /\ r \in Sock
    BY <1>1, <1>2 DEF Rec, Placed, Keeps
  <1> QED
    BY <1>3, <1>4, SocketStep

\* A connect that finds nobody is refused.
LEMMA RefusedStep ==
    ASSUME SockInv, NEW s \in Sockets, UNCHANGED <<netVars, ports>>,
           sock[s].at \in {"lookupEn", "route", "remote", "acquire"}, Refused(s)
    PROVE  SockInv'
  <1> DEFINE r == [sock[s] EXCEPT !.at = "open", !.target = None, !.via = None, !.peer = None]
  <1>1. sock[s] \in Sock /\ Placed(s, sock[s])
    BY SocketAt
  <1>2. Rec(r, "open", sock[s].op, sock[s].name, sock[s].req, sock[s].ok, None, None, None, sock[s].state)
    BY <1>1, SetRefused
  <1>3. sock' = [sock EXCEPT ![s] = r]
    BY DEF Refused
  <1> HIDE DEF r
  <1>4. Placed(s, r) /\ Keeps(s, r) /\ r \in Sock
    BY <1>1, <1>2 DEF Rec, Placed, Keeps
  <1> QED
    BY <1>3, <1>4, SocketStep

\* A call that goes on to its next step.
LEMMA GoesStep ==
    ASSUME SockInv, NEW s \in Sockets, UNCHANGED <<netVars, ports>>, NEW place,
           \/ At(s, "lookupLo") /\ place = "lookupEn"
           \/ At(s, "lookupEn") /\ place = "route" /\ sock[s].target.kind = "net"
           \/ At(s, "open") /\ place = "closeLo",
           Goes(s, place)
    PROVE  SockInv'
  <1> DEFINE r == [sock[s] EXCEPT !.at = place]
  <1>1. sock[s] \in Sock /\ Placed(s, sock[s]) /\ place \in Places
    BY SocketAt DEF Places
  <1>2. Rec(r, place, sock[s].op, sock[s].name, sock[s].req, sock[s].ok, sock[s].target,
            sock[s].via, sock[s].peer, sock[s].state)
    BY <1>1, SetAt
  <1>3. sock' = [sock EXCEPT ![s] = r]
    BY DEF Goes
  <1> HIDE DEF r
  <1>4. Placed(s, r) /\ Keeps(s, r) /\ r \in Sock
    BY <1>1, <1>2 DEF Rec, Placed, Keeps, At
  <1> QED
    BY <1>3, <1>4, SocketStep

\* A lookup finds a socket that has the port, in the namespace that has the
\* address.
LEMMA Lookup ==
    ASSUME SockInv, NEW n \in Namespaces, NEW f \in Interfaces, NEW t \in AllTargets,
           Peer(n, f, t) # None
    PROVE  /\ Peer(n, f, t) \in Sockets
           /\ Entered(Peer(n, f, t), n, f, t.port)
           /\ t.kind = "any" \/ Has(n, f, t)
  BY TargetsTyped DEF SockInv, SockType, TableInv, Peer

\* The lookup in the table of lo0.
LEMMA LookupLoStep ==
    ASSUME SockInv, NEW s \in Sockets, LookupLo(s)
    PROVE  SockInv'
  <1> DEFINE t == sock[s].target
             peer == Peer(NsOf[s], "lo0", t)
  <1>1. t \in AllTargets /\ NsOf[s] \in Namespaces /\ "lo0" \in Interfaces
    BY SocketAt, NetworkAssumption DEF LookupLo, Placed, At, Interfaces
  <1>2. CASE peer # None
    <2>1. peer \in Sockets /\ Entered(peer, NsOf[s], "lo0", t.port)
      BY <1>1, <1>2, Lookup
    <2>2. Reaches(s, t, peer)
      BY <2>1 DEF Entered, Reaches
    <2> QED
      BY <1>2, <2>1, <2>2, FoundStep DEF LookupLo, At
  <1>3. CASE peer = None
    BY <1>3, GoesStep DEF LookupLo
  <1> QED
    BY <1>2, <1>3

\* The lookup in the table of en0.
LEMMA LookupEnStep ==
    ASSUME SockInv, NEW s \in Sockets, LookupEn(s)
    PROVE  SockInv'
  <1> DEFINE t == sock[s].target
             peer == Peer(NsOf[s], "en0", t)
  <1>1. t \in AllTargets /\ NsOf[s] \in Namespaces /\ "en0" \in Interfaces /\ "lo0" \in Interfaces
    BY SocketAt, NetworkAssumption DEF LookupEn, Placed, At, Interfaces
  <1>2. CASE peer # None
    <2>1. peer \in Sockets /\ Entered(peer, NsOf[s], "en0", t.port)
      BY <1>1, <1>2, Lookup
    <2>2. Reaches(s, t, peer)
      BY <2>1 DEF Entered, Reaches
    <2> QED
      BY <1>2, <2>1, <2>2, FoundStep DEF LookupEn, At
  <1>3. CASE peer = None /\ StaysLocal(NsOf[s], t)
    BY <1>3, RefusedStep DEF LookupEn, At
  <1>4. CASE peer = None /\ ~StaysLocal(NsOf[s], t)
    <2>1. t.kind = "net"
      BY <1>1, <1>4, TargetsTyped DEF StaysLocal, Has
    <2> QED
      BY <1>4, <2>1, GoesStep DEF LookupEn
  <1> QED
    BY <1>2, <1>3, <1>4

\* The lookup in the table of another namespace.
LEMMA LookupRemoteStep ==
    ASSUME SockInv, NEW s \in Sockets, LookupRemote(s)
    PROVE  SockInv'
  <1> DEFINE t == sock[s].target
             via == sock[s].via
             peer == Peer(via, "en0", t)
  <1>1. /\ t \in AllTargets /\ "en0" \in Interfaces /\ t.kind = "net"
        /\ via \in Namespaces /\ Exists(via) /\ t.num = addrs[via][1]
    BY SocketAt DEF LookupRemote, Placed, At, Interfaces
  <1>2. CASE peer # None
    <2>1. peer \in Sockets /\ Entered(peer, via, "en0", t.port)
      BY <1>1, <1>2, Lookup
    <2>2. Reaches(s, t, peer)
      BY <1>1, <2>1 DEF Entered, Reaches
    <2> QED
      BY <1>2, <2>1, <2>2, FoundStep DEF LookupRemote, At
  <1>3. CASE peer = None
    BY <1>3, RefusedStep DEF LookupRemote, At
  <1> QED
    BY <1>2, <1>3

\* The route of an address leads to the namespace that has it.
LEMMA RouteStep ==
    ASSUME IInv, SockInv, NEW s \in Sockets, Route(s)
    PROVE  SockInv'
  <1> DEFINE t == sock[s].target
             a == <<1, t.num>>
             via == IF ns[NsOf[s]] = "attached" /\ a \in Addrs THEN routes[a] ELSE None
  <1>1. sock[s] \in Sock /\ Placed(s, sock[s]) /\ t.kind = "net" /\ t \in AllTargets /\ At(s, "route")
    BY SocketAt DEF Route, Placed, At
  <1>2. "remote" \in Places /\ "open" \in Places /\ "dialed" \in StateSet
    BY DEF Places, StateSet
  <1>3. CASE via # None
    <2>1. a \in Addrs /\ via = routes[a] /\ routes[a] # None
      BY <1>3
    <2>2. via \in Namespaces /\ Holds(via) /\ addrs[via][a[1]] = a[2]
      BY <2>1 DEF IInv, NetOK, AddressesExclusive
    <2>3. Exists(via) /\ addrs[via][1] = t.num
      BY <2>2 DEF Holds, Exists
    <2> DEFINE r == [sock[s] EXCEPT !.at = "remote", !.via = via]
    <2>4. Rec(r, "remote", sock[s].op, sock[s].name, sock[s].req, sock[s].ok, sock[s].target,
              via, sock[s].peer, sock[s].state)
      BY <1>1, <1>2, <2>2, SetVia
    <2>5. sock' = [sock EXCEPT ![s] = r] /\ UNCHANGED <<netVars, ports>>
      BY <1>3 DEF Route
    <2> HIDE DEF r, via
    <2>6. Placed(s, r) /\ Keeps(s, r) /\ r \in Sock
      BY <1>1, <2>2, <2>3, <2>4 DEF Rec, Placed, Keeps, At
    <2> QED
      BY <2>5, <2>6, SocketStep
  <1>4. CASE via = None /\ NsOf[s] \in Dials
    <2> DEFINE r == [sock[s] EXCEPT !.at = "open", !.state = "dialed"]
    <2>1. Rec(r, "open", sock[s].op, sock[s].name, sock[s].req, sock[s].ok, sock[s].target,
              sock[s].via, sock[s].peer, "dialed")
      BY <1>1, <1>2, SetState
    <2>2. sock' = [sock EXCEPT ![s] = r] /\ UNCHANGED <<netVars, ports>>
      BY <1>4 DEF Route
    <2> HIDE DEF r, via
    <2>3. Placed(s, r) /\ Keeps(s, r) /\ r \in Sock
      BY <1>1, <2>1 DEF Rec, Placed, Keeps, At
    <2> QED
      BY <2>2, <2>3, SocketStep
  <1>5. CASE via = None /\ NsOf[s] \notin Dials
    BY <1>5, RefusedStep DEF Route, At
  <1> QED
    BY <1>3, <1>4, <1>5

\* What AcquirePeer makes of either socket.
LEMMA SetAcquired ==
    ASSUME NEW q \in Sock, NEW at \in Places, NEW st \in StateSet, NEW via \in Namespaces \cup {None},
           NEW qs \in SUBSET Sockets
    PROVE  Rec([q EXCEPT !.at = at, !.state = st, !.via = via, !.queue = qs],
                    at, q.op, q.name, q.req, q.ok, q.target, via, q.peer, st)
  BY DEF Sock, Rec

\* The connection is queued at the socket that was found.
LEMMA AcquireStep ==
    ASSUME SockInv, NEW s \in Sockets, AcquirePeer(s)
    PROVE  SockInv'
  <1> DEFINE peer == sock[s].peer
             After(k) == [sock[k] EXCEPT
                    !.at    = IF k = s THEN "open" ELSE @,
                    !.state = IF k = s THEN "connected" ELSE @,
                    !.via   = IF k = s THEN None ELSE @,
                    !.queue = IF k = peer THEN @ \cup {s} ELSE @]
  <1>1. At(s, "acquire") /\ UNCHANGED <<netVars, ports>>
    BY DEF AcquirePeer
  <1>2. CASE sock' = [k \in Sockets |-> After(k)]
    <2>1. ASSUME NEW k \in Sockets
          PROVE  Rec(After(k), IF k = s THEN "open" ELSE sock[k].at, sock[k].op, sock[k].name, sock[k].req,
                     sock[k].ok, sock[k].target, IF k = s THEN None ELSE sock[k].via, sock[k].peer,
                     IF k = s THEN "connected" ELSE sock[k].state)
      <3> DEFINE at == IF k = s THEN "open" ELSE sock[k].at
                 st == IF k = s THEN "connected" ELSE sock[k].state
                 via == IF k = s THEN None ELSE sock[k].via
                 qs == IF k = peer THEN sock[k].queue \cup {s} ELSE sock[k].queue
      <3>1. sock[k] \in Sock
        BY SocketAt
      <3>2. at \in Places /\ st \in StateSet
        BY <3>1 DEF Sock, Places, StateSet
      <3>3. via \in Namespaces \cup {None} /\ qs \in SUBSET Sockets
        BY <3>1 DEF Sock
      <3>4. After(k) = [sock[k] EXCEPT !.at = at, !.state = st, !.via = via, !.queue = qs]
        OBVIOUS
      <3> HIDE DEF at, st, via, qs, After
      <3>5. Rec(After(k), at, sock[k].op, sock[k].name, sock[k].req,
                     sock[k].ok, sock[k].target, via, sock[k].peer, st)
        <4>1. \A b \in Places, x \in StateSet, v \in Namespaces \cup {None}, y \in SUBSET Sockets :
                Rec([sock[k] EXCEPT !.at = b, !.state = x, !.via = v, !.queue = y], b, sock[k].op,
                    sock[k].name, sock[k].req, sock[k].ok, sock[k].target, v, sock[k].peer, x)
          BY <3>1, SetAcquired
        <4>2. Rec([sock[k] EXCEPT !.at = at, !.state = st, !.via = via, !.queue = qs], at, sock[k].op,
                    sock[k].name, sock[k].req, sock[k].ok, sock[k].target, via, sock[k].peer, st)
          BY <3>2, <3>3, <4>1, Zenon
        <4> QED
          BY <3>4, <4>2, Zenon
      <3> QED
        BY <3>5 DEF at, via, st
    <2>2. \A k \in Sockets : sock'[k] = After(k)
      BY <1>2
    <2> HIDE DEF After
    <2>3. sock' \in [Sockets -> Sock]
      BY <1>2, <2>1 DEF Rec
    <2>4. ASSUME NEW k \in Sockets
          PROVE  Placed(k, After(k)) /\ (Keeps(k, After(k)) \/ Same(k, After(k)))
      <3>1. Placed(k, sock[k])
        BY SocketAt
      <3>2. CASE k = s
        <4>1. Rec(After(k), "open", sock[k].op, sock[k].name, sock[k].req,
                     sock[k].ok, sock[k].target, None, sock[k].peer, "connected")
          BY <2>1, <3>2
        <4> QED
          BY <1>1, <3>1, <3>2, <4>1 DEF Rec, Placed, Keeps, At
      <3>3. CASE k # s
        <4>1. Rec(After(k), sock[k].at, sock[k].op, sock[k].name, sock[k].req,
                     sock[k].ok, sock[k].target, sock[k].via, sock[k].peer, sock[k].state)
          BY <2>1, <3>3
        <4> QED
          BY <3>1, <4>1 DEF Rec, Placed, Same
      <3> QED
        BY <3>2, <3>3
    <2> QED
      BY <1>1, <2>2, <2>3, <2>4, SocketsStep
  <1>3. CASE Refused(s)
    BY <1>1, <1>3, RefusedStep DEF At
  <1> QED
    BY <1>2, <1>3 DEF AcquirePeer

\* A listening socket takes a connection from its queue.
LEMMA AcceptStep ==
    ASSUME SockInv, NEW s \in Sockets, NEW c \in Sockets, Accept(s, c)
    PROVE  SockInv'
  <1>1. PICK k \in sock[s].queue :
            sock' = [sock EXCEPT ![s].queue = @ \ {k},
                                 ![c] = [@ EXCEPT !.at = "open", !.name = sock[s].name,
                                                  !.state = "accepted"]]
    BY DEF Accept
  <1>2. At(s, "open") /\ At(c, "new") /\ UNCHANGED <<netVars, ports>> /\ s # c
    BY DEF Accept, At
  <1> DEFINE rs == [sock[s] EXCEPT !.queue = sock[s].queue \ {k}]
             rc == [sock[c] EXCEPT !.at = "open", !.name = sock[s].name, !.state = "accepted"]
  <1>3. sock[s] \in Sock /\ Placed(s, sock[s]) /\ sock[c] \in Sock /\ Placed(c, sock[c])
    BY SocketAt
  <1>4. sock[s].name \in Names /\ sock[s].queue \in SUBSET Sockets /\ "accepted" \in StateSet
    BY <1>2, <1>3 DEF Placed, At, Sock, StateSet
  <1>5. Rec(rs, sock[s].at, sock[s].op, sock[s].name, sock[s].req, sock[s].ok, sock[s].target,
            sock[s].via, sock[s].peer, sock[s].state)
    BY <1>3, <1>4, SetQueue
  <1>6. Rec(rc, "open", sock[c].op, sock[s].name, sock[c].req, sock[c].ok, sock[c].target,
            sock[c].via, sock[c].peer, "accepted")
    BY <1>3, <1>4, SetAccepted
  <1>7. sock' = [sock EXCEPT ![s] = rs, ![c] = rc]
    BY <1>1
  <1> HIDE DEF rs, rc
  <1>8. /\ sock' \in [Sockets -> Sock]
        /\ sock'[s] = rs /\ sock'[c] = rc /\ \A i \in Sockets \ {s, c} : sock'[i] = sock[i]
    BY <1>2, <1>5, <1>6, <1>7 DEF SockInv, SockType, Rec
  <1>9. Placed(s, rs) /\ Same(s, rs)
    BY <1>3, <1>5 DEF Rec, Placed, Same
  <1>10. Placed(c, rc) /\ Keeps(c, rc)
    BY <1>2, <1>3, <1>4, <1>6 DEF Rec, Placed, Keeps, At
  <1>11. \A i \in Sockets : Placed(i, sock'[i]) /\ (Keeps(i, sock'[i]) \/ Same(i, sock'[i]))
    BY <1>8, <1>9, <1>10 DEF SockInv, PlaceInv, Same
  <1> QED
    BY <1>2, <1>8, <1>11, SocketsStep

\* A call of close begins.
LEMMA CloseStep ==
    ASSUME SockInv, NEW s \in Sockets, Close(s)
    PROVE  SockInv'
  <1>1. CASE At(s, "open") /\ Goes(s, "closeLo")
    BY <1>1, GoesStep DEF Close
  <1>2. CASE At(s, "new") /\ Closed(s)
    <2> DEFINE r == [newSocket EXCEPT !.at = "closed", !.name = sock[s].name]
    <2>1. sock[s].name \in Names \cup {None} /\ Placed(s, sock[s]) /\ sock[s].ok = FALSE
      BY <1>2, SocketAt DEF Placed, At
    <2>2. Rec(r, "closed", "none", sock[s].name, noReq, FALSE, None, None, None, "none")
      BY <2>1, NewSocket
    <2>3. sock' = [sock EXCEPT ![s] = r]
      BY <1>2 DEF Closed
    <2> HIDE DEF r
    <2>4. Placed(s, r) /\ Keeps(s, r) /\ r \in Sock
      BY <1>2, <2>1, <2>2 DEF Rec, Placed, Keeps, At
    <2> QED
      BY <2>3, <2>4, SocketStep DEF Close
  <1> QED
    BY <1>1, <1>2 DEF Close

\* The entry of s under port p of interface f, once s is r.
EnteredAs(s, r, n, f, p) ==
    /\ NsOf[s] = n
    /\ r.name \in Names /\ r.name.port = p /\ Match(r.name.addr, f)
    /\ r.at \notin {"new", "bindLo", "closed"}
    /\ f = "lo0" => r.at # "closeEn"

\* A step of socket s that changes no entry of the tables but its own.
LEMMA TablesStep ==
    ASSUME SockInv, NEW s \in Sockets, NEW r \in Sock, sock' = [sock EXCEPT ![s] = r], UNCHANGED netVars,
           ports' \in [Namespaces -> [Interfaces -> [Ports -> Sockets \cup {None}]]],
           \A n \in Namespaces, f \in Interfaces, p \in Ports :
                /\ ports[n][f][p] \notin {None, s} => ports'[n][f][p] = ports[n][f][p]
                /\ ports[n][f][p] \in {None, s} => ports'[n][f][p] \in {None, s}
                /\ ports'[n][f][p] = s => EnteredAs(s, r, n, f, p),
           Placed(s, r),
           \/ sock[s].at \in {"new", "bindLo"}
           \/ r.name = sock[s].name /\ r.at \notin {"new", "bindLo"},
           r.at = "bindEn" /\ Match(r.req.addr, "lo0") => ports'[NsOf[s]]["lo0"][r.name.port] = s,
           r.ok /\ r.at \notin {"closeLo", "closeEn", "closed"} =>
                \A f \in Interfaces : Match(r.name.addr, f) => ports'[NsOf[s]][f][r.name.port] = s
    PROVE  SockInv'
  <1>1. sock' \in [Sockets -> Sock] /\ sock'[s] = r /\ \A k \in Sockets \ {s} : sock'[k] = sock[k]
    BY DEF SockInv, SockType
  <1>2. \A k, peer \in Sockets : \A t : Reaches(k, t, peer) => Reaches(k, t, peer)'
    BY <1>1 DEF Reaches, netVars, Exists
  <1>3. PlaceInv'
    <2> SUFFICES ASSUME NEW k \in Sockets PROVE Placed(k, sock[k])'
      BY DEF PlaceInv
    <2>1. PICK q \in Sock : q = sock'[k]
      BY <1>1
    <2>2. Placed(k, q)
      BY <1>1, <2>1 DEF SockInv, PlaceInv
    <2>3. q.at = "acquire" \/ q.state = "connected" => Reaches(k, q.target, q.peer)'
      BY <1>2, <2>2 DEF Placed, Reaches
    <2>4. Placed(k, q)'
      BY <2>2, <2>3 DEF Placed, netVars, Exists
    <2> QED
      BY <2>1, <2>4 DEF Placed, Reaches, Exists
  <1>4. TableInv'
    <2> SUFFICES ASSUME NEW n \in Namespaces, NEW f \in Interfaces, NEW p \in Ports,
                        ports'[n][f][p] # None
                 PROVE  Entered(ports[n][f][p], n, f, p)'
      BY DEF TableInv
    <2>1. CASE ports'[n][f][p] = s
      BY <1>1, <2>1 DEF EnteredAs, Entered
    <2>2. CASE ports'[n][f][p] # s
      <3>1. ports[n][f][p] \notin {None, s} /\ ports'[n][f][p] = ports[n][f][p]
        BY <2>2
      <3>2. ports[n][f][p] \in Sockets \ {s} /\ Entered(ports[n][f][p], n, f, p)
        BY <3>1 DEF SockInv, SockType, TableInv
      <3> QED
        BY <1>1, <3>1, <3>2 DEF Entered
    <2> QED
      BY <2>1, <2>2
  <1>6. HalfBound'
    <2> SUFFICES ASSUME NEW k \in Sockets, sock'[k].at = "bindEn", Match(sock'[k].req.addr, "lo0")
                 PROVE  ports'[NsOf[k]]["lo0"][sock'[k].name.port] = k
      BY DEF HalfBound, At, TableOf
    <2>1. CASE k = s
      BY <1>1, <2>1
    <2>2. CASE k # s
      <3>1. sock'[k] = sock[k] /\ ports[NsOf[k]]["lo0"][sock[k].name.port] = k
        BY <1>1, <2>2 DEF SockInv, HalfBound, At, TableOf
      <3>2. NsOf[k] \in Namespaces /\ sock[k].name.port \in Ports /\ "lo0" \in Interfaces /\ k # None
        BY <3>1, NetworkAssumption DEF SockInv, PlaceInv, Placed, Names, Interfaces
      <3> QED
        BY <2>2, <3>1, <3>2
    <2> QED
      BY <2>1, <2>2
  <1>7. NameIsBound'
    <2> SUFFICES ASSUME NEW k \in Sockets, NEW f \in Interfaces, sock'[k].ok,
                        sock'[k].at \notin {"closeLo", "closeEn", "closed"},
                        Match(sock'[k].name.addr, f)
                 PROVE  ports'[NsOf[k]][f][sock'[k].name.port] = k
      BY DEF NameIsBound, TableOf
    <2>1. CASE k = s
      BY <1>1, <2>1
    <2>2. CASE k # s
      <3>1. sock'[k] = sock[k] /\ ports[NsOf[k]][f][sock[k].name.port] = k
        BY <1>1, <2>2 DEF SockInv, NameIsBound, TableOf
      <3>2. NsOf[k] \in Namespaces /\ sock[k].name.port \in Ports /\ k # None
        BY <3>1, NetworkAssumption DEF SockInv, PlaceInv, Placed, Names
      <3> QED
        BY <2>2, <3>1, <3>2
    <2> QED
      BY <2>1, <2>2
  <1> QED
    BY <1>1, <1>3, <1>4, <1>6, <1>7 DEF SockInv, SockType

\* A port that bind takes is one that can be bound, and free where the
\* address matches.
LEMMA PortTaken ==
    ASSUME SockInv, NEW s \in Sockets, sock[s].req \in Requests[s], NEW f \in Interfaces, NEW p \in PortFor(s, f)
    PROVE  /\ p \in Ports
           /\ Match(sock[s].req.addr, f) => ports[NsOf[s]][f][p] = None
           /\ IF sock[s].req.port # 0 THEN p = sock[s].req.port ELSE p \in Ephemeral
           /\ sock[s].req.addr \in {"any"} \cup Interfaces
  BY NetworkAssumption DEF PortFor, Usable, TableOf

\* The port is entered in the table of lo0.
LEMMA BindLoStep ==
    ASSUME SockInv, NEW s \in Sockets, BindLo(s)
    PROVE  SockInv'
  <1>1. sock[s] \in Sock /\ Placed(s, sock[s]) /\ sock[s].at = "bindLo" /\ UNCHANGED netVars
    BY SocketAt DEF BindLo, At
  <1>2. sock[s].req \in Requests[s] /\ "lo0" \in Interfaces /\ "bindEn" \in Places /\ NsOf[s] \in Namespaces
    BY <1>1, NetworkAssumption DEF Placed, Interfaces, Places
  <1>3. ASSUME NEW p \in PortFor(s, "lo0"), Enter(s, "lo0", p, [sock[s] EXCEPT !.at = "bindEn"])
        PROVE  SockInv'
    <2> DEFINE q == [sock[s] EXCEPT !.at = "bindEn"]
               name == [addr |-> sock[s].req.addr, port |-> p]
               r == [q EXCEPT !.name = name]
               matches == Match(sock[s].req.addr, "lo0")
    <2>1. /\ p \in Ports /\ sock[s].req.addr \in {"any"} \cup Interfaces
          /\ matches => ports[NsOf[s]]["lo0"][p] = None
          /\ IF sock[s].req.port # 0 THEN p = sock[s].req.port ELSE p \in Ephemeral
      BY <1>2, <1>3, PortTaken
    <2>2. name \in Names
      BY <2>1 DEF Names
    <2>3. Rec(q, "bindEn", sock[s].op, sock[s].name, sock[s].req, sock[s].ok, sock[s].target,
              sock[s].via, sock[s].peer, sock[s].state)
      BY <1>1, <1>2, SetAt
    <2>4. sock' = [sock EXCEPT ![s] = r]
      BY <1>3 DEF Enter
    <2>5. name.addr = sock[s].req.addr /\ name.port = p
      OBVIOUS
    <2>6. ports' = IF matches THEN [ports EXCEPT ![NsOf[s]]["lo0"][p] = s] ELSE ports
      BY <1>3 DEF Enter
    <2> HIDE DEF q, name
    <2>7. q \in Sock
      BY <2>3 DEF Rec
    <2>8. Rec(r, q.at, q.op, name, q.req, q.ok, q.target, q.via, q.peer, q.state)
      BY <2>2, <2>7, SetName
    <2> HIDE DEF r
    <2>9. /\ r \in Sock /\ r.at = "bindEn" /\ r.op = sock[s].op /\ r.name = name /\ r.req = sock[s].req
          /\ r.ok = sock[s].ok /\ r.target = sock[s].target /\ r.state = sock[s].state
      BY <2>3, <2>8 DEF Rec
    <2>10. Placed(s, r)
      BY <1>1, <2>1, <2>2, <2>5, <2>9 DEF Placed
    <2>11. \A n \in Namespaces, f \in Interfaces, i \in Ports : ports[n][f][i] # s
      BY <1>1, NetworkAssumption DEF SockInv, TableInv, Entered
    <2>12. CASE matches
      <3>1. /\ ports' \in [Namespaces -> [Interfaces -> [Ports -> Sockets \cup {None}]]]
            /\ ports'[NsOf[s]]["lo0"][p] = s
            /\ \A n \in Namespaces, g \in Interfaces, i \in Ports :
                ~(n = NsOf[s] /\ g = "lo0" /\ i = p) => ports'[n][g][i] = ports[n][g][i]
        <4>1. ports' = [ports EXCEPT ![NsOf[s]]["lo0"][p] = s] /\ s \in Sockets \cup {None}
          BY <2>6, <2>12
        <4> QED
          BY <1>2, <2>1, <4>1 DEF SockInv, SockType
      <3>2. EnteredAs(s, r, NsOf[s], "lo0", p)
        BY <2>2, <2>5, <2>9, <2>12 DEF EnteredAs
      <3>3. \A n \in Namespaces, f \in Interfaces, i \in Ports :
                /\ ports[n][f][i] \notin {None, s} => ports'[n][f][i] = ports[n][f][i]
                /\ ports[n][f][i] \in {None, s} => ports'[n][f][i] \in {None, s}
                /\ ports'[n][f][i] = s => EnteredAs(s, r, n, f, i)
        BY <2>1, <2>11, <2>12, <3>1, <3>2
      <3>4. ~r.ok
        BY <1>1, <2>9 DEF Placed
      <3> QED
        BY <1>1, <2>4, <2>5, <2>9, <2>10, <3>1, <3>3, <3>4, TablesStep
    <2>13. CASE ~matches
      <3>1. ports' = ports /\ ports \in [Namespaces -> [Interfaces -> [Ports -> Sockets \cup {None}]]]
        BY <2>6, <2>13 DEF SockInv, SockType
      <3>2. ~r.ok /\ ~Match(r.req.addr, "lo0")
        BY <1>1, <2>9, <2>13 DEF Placed
      <3> QED
        BY <1>1, <2>4, <2>9, <2>10, <2>11, <3>1, <3>2, TablesStep
    <2> QED
      BY <2>12, <2>13
  <1>4. CASE sock' = [sock EXCEPT ![s] = newSocket] /\ UNCHANGED ports
    <2>1. Placed(s, newSocket) /\ Keeps(s, newSocket) /\ newSocket \in Sock
      BY <1>1, SocketAt, NewSocket DEF Rec, Placed, Keeps
    <2> QED
      BY <1>1, <1>4, <2>1, SocketStep
  <1> QED
    BY <1>3, <1>4 DEF BindLo

\* Where the interfaces agree, the name that bind sets for en0 is the one it
\* set for lo0.
LEMMA BindEnStep ==
    ASSUME PortsAgree, SockInv, NEW s \in Sockets, BindEn(s)
    PROVE  SockInv'
  <1> DEFINE done == [sock[s] EXCEPT !.op = "none", !.req = noReq, !.at = "open"]
  <1>1. sock[s] \in Sock /\ Placed(s, sock[s]) /\ sock[s].at = "bindEn" /\ UNCHANGED netVars
    BY SocketAt DEF BindEn, At
  <1>2. sock[s].req \in Requests[s] /\ "en0" \in Interfaces /\ NsOf[s] \in Namespaces
    BY <1>1, NetworkAssumption DEF Placed, Interfaces
  <1>3. Rec(done, "open", "none", sock[s].name, noReq, sock[s].ok, sock[s].target,
            sock[s].via, sock[s].peer, sock[s].state)
    BY <1>1, SetDone
  <1>4. ASSUME NEW p \in PortFor(s, "en0"),
               Enter(s, "en0", p, [done EXCEPT !.ok = TRUE,
                                !.state = IF sock[s].op = "listen" THEN "listening" ELSE "none",
                                !.at = IF sock[s].op = "connect" THEN "lookupLo" ELSE "open"])
        PROVE  SockInv'
    <2> DEFINE st == IF sock[s].op = "listen" THEN "listening" ELSE "none"
               at == IF sock[s].op = "connect" THEN "lookupLo" ELSE "open"
               q == [done EXCEPT !.ok = TRUE, !.state = st, !.at = at]
               name == [addr |-> sock[s].req.addr, port |-> p]
               r == [q EXCEPT !.name = name]
               matches == Match(sock[s].req.addr, "en0")
    <2>1. /\ p \in Ports /\ sock[s].req.addr \in {"any"} \cup Interfaces
          /\ matches => ports[NsOf[s]]["en0"][p] = None
          /\ IF sock[s].req.port # 0 THEN p = sock[s].req.port ELSE p \in Ephemeral
      BY <1>2, <1>4, PortTaken
    <2>2. name \in Names
      BY <2>1 DEF Names
    <2>3. st \in StateSet /\ at \in Places
      BY DEF StateSet, Places
    <2>4. sock' = [sock EXCEPT ![s] = r]
      BY <1>4 DEF Enter
    <2>5. name.addr = sock[s].req.addr /\ name.port = p
      OBVIOUS
    <2>6. ports' = IF matches THEN [ports EXCEPT ![NsOf[s]]["en0"][p] = s] ELSE ports
      BY <1>4 DEF Enter
    <2>7. sock[s].name = name
      <3>1. sock[s].name \in Names /\ sock[s].name.addr = sock[s].req.addr
        BY <1>1 DEF Placed
      <3>2. sock[s].name.port = p
        BY <1>1, <1>2, <2>1 DEF Placed, PortsAgree
      <3> QED
        BY <3>1, <3>2 DEF Names
    <2> HIDE DEF done, name, st, at
    <2>8. Rec(q, at, done.op, done.name, done.req, TRUE, done.target, done.via, done.peer, st)
      <3>1. done \in Sock
        BY <1>3 DEF Rec
      <3> QED
        BY <2>3, <3>1, SetBound
    <2> HIDE DEF q
    <2>9. Rec(r, q.at, q.op, name, q.req, q.ok, q.target, q.via, q.peer, q.state)
      BY <2>2, <2>8, SetName DEF Rec
    <2> HIDE DEF r
    <2>10. /\ r \in Sock /\ r.at = at /\ r.name = name /\ r.target = sock[s].target /\ r.state = st
      BY <1>3, <2>8, <2>9 DEF Rec
    <2>11. at \in {"open", "lookupLo"} /\ st \in {"none", "listening"}
           /\ (at = "lookupLo" => st = "none" /\ sock[s].target \in AllTargets)
      BY <1>1 DEF at, st, Placed
    <2>12. Placed(s, r)
      BY <2>2, <2>10, <2>11 DEF Placed
    <2>13. \A n \in Namespaces, f \in Interfaces, i \in Ports : ports[n][f][i] = s =>
                EnteredAs(s, r, n, f, i)
      <3>1. \A n \in Namespaces, f \in Interfaces, i \in Ports : ports[n][f][i] = s =>
                Entered(s, n, f, i)
        BY NetworkAssumption DEF SockInv, TableInv
      <3> QED
        BY <2>7, <2>10, <2>11, <3>1 DEF Entered, EnteredAs
    <2>14. Match(name.addr, "lo0") => ports[NsOf[s]]["lo0"][p] = s
      BY <1>1, <2>5, <2>7 DEF SockInv, HalfBound, At, TableOf
    <2>15. CASE matches
      <3>1. /\ ports' \in [Namespaces -> [Interfaces -> [Ports -> Sockets \cup {None}]]]
            /\ ports'[NsOf[s]]["en0"][p] = s
            /\ \A n \in Namespaces, g \in Interfaces, i \in Ports :
                ~(n = NsOf[s] /\ g = "en0" /\ i = p) => ports'[n][g][i] = ports[n][g][i]
        <4>1. ports' = [ports EXCEPT ![NsOf[s]]["en0"][p] = s] /\ s \in Sockets \cup {None}
          BY <2>6, <2>15
        <4> QED
          BY <1>2, <2>1, <4>1 DEF SockInv, SockType
      <3>2. EnteredAs(s, r, NsOf[s], "en0", p)
        BY <2>2, <2>5, <2>10, <2>11, <2>15 DEF EnteredAs
      <3>3. \A n \in Namespaces, f \in Interfaces, i \in Ports :
                /\ ports[n][f][i] \notin {None, s} => ports'[n][f][i] = ports[n][f][i]
                /\ ports[n][f][i] \in {None, s} => ports'[n][f][i] \in {None, s}
                /\ ports'[n][f][i] = s => EnteredAs(s, r, n, f, i)
        BY <2>1, <2>13, <2>15, <3>1, <3>2
      <3>4. \A f \in Interfaces : Match(r.name.addr, f) => ports'[NsOf[s]][f][r.name.port] = s
        BY <1>2, <2>1, <2>5, <2>10, <2>14, <3>1 DEF Interfaces
      <3> QED
        BY <1>1, <2>4, <2>7, <2>10, <2>11, <2>12, <3>1, <3>3, <3>4, TablesStep
    <2>16. CASE ~matches
      <3>1. ports' = ports /\ ports \in [Namespaces -> [Interfaces -> [Ports -> Sockets \cup {None}]]]
        BY <2>6, <2>16 DEF SockInv, SockType
      <3>2. \A f \in Interfaces : Match(r.name.addr, f) => ports'[NsOf[s]][f][r.name.port] = s
        BY <2>5, <2>10, <2>14, <2>16, <3>1 DEF Interfaces
      <3> QED
        BY <1>1, <2>4, <2>7, <2>10, <2>11, <2>12, <2>13, <3>1, <3>2, TablesStep
    <2> QED
      BY <2>15, <2>16
  <1>5. CASE sock' = [sock EXCEPT ![s] = [done EXCEPT !.target = None]] /\ UNCHANGED ports
    <2> DEFINE r == [done EXCEPT !.target = None]
    <2>1. sock' = [sock EXCEPT ![s] = r]
      BY <1>5
    <2> HIDE DEF done
    <2>2. Rec(r, done.at, done.op, done.name, done.req, done.ok, None, done.via, done.peer, done.state)
      BY <1>3 DEF Rec, Sock
    <2> HIDE DEF r
    <2>3. Placed(s, r) /\ Keeps(s, r) /\ r \in Sock
      BY <1>1, <1>3, <2>2 DEF Rec, Placed, Keeps
    <2> QED
      BY <1>1, <1>5, <2>1, <2>3, SocketStep
  <1> QED
    BY <1>4, <1>5 DEF BindEn

\* What unlink removes: the entry that s has under interface f, and no other.
LEMMA Unlinks ==
    ASSUME SockInv, NEW s \in Sockets, sock[s].name \in Names, NEW f \in Interfaces, ports' = Unlinked(s, f)
    PROVE  /\ ports' \in [Namespaces -> [Interfaces -> [Ports -> Sockets \cup {None}]]]
           /\ \A n \in Namespaces, g \in Interfaces, i \in Ports :
                /\ ports[n][g][i] # s => ports'[n][g][i] = ports[n][g][i]
                /\ ports[n][g][i] = s => IF g = f THEN ports'[n][g][i] = None ELSE ports'[n][g][i] = s
  <1> DEFINE port == sock[s].name.port
  <1>1. port \in Ports /\ NsOf[s] \in Namespaces /\ s # None
    BY NetworkAssumption DEF Names
  <1>2. ports \in [Namespaces -> [Interfaces -> [Ports -> Sockets \cup {None}]]]
    BY DEF SockInv, SockType
  <1>3. \A n \in Namespaces, g \in Interfaces, i \in Ports : ports[n][g][i] = s =>
            n = NsOf[s] /\ i = port /\ Match(sock[s].name.addr, g)
    BY <1>1 DEF SockInv, TableInv, Entered
  <1> HIDE DEF port
  <1>4. CASE Match(sock[s].name.addr, f) /\ ports[NsOf[s]][f][port] = s
    <2>1. ports' = [ports EXCEPT ![NsOf[s]][f][port] = None]
      BY <1>4 DEF Unlinked, TableOf, port
    <2> QED
      BY <1>1, <1>2, <1>3, <1>4, <2>1
  <1>5. CASE ~(Match(sock[s].name.addr, f) /\ ports[NsOf[s]][f][port] = s)
    <2>1. ports' = ports
      BY <1>5 DEF Unlinked, TableOf, port
    <2> QED
      BY <1>1, <1>2, <1>3, <1>5, <2>1
  <1> QED
    BY <1>4, <1>5

\* The port is removed from the table of lo0.
LEMMA UnlinkLoStep ==
    ASSUME SockInv, NEW s \in Sockets, UnlinkLo(s)
    PROVE  SockInv'
  <1> DEFINE r == [sock[s] EXCEPT !.at = "closeEn"]
  <1>1. /\ sock[s] \in Sock /\ Placed(s, sock[s]) /\ sock[s].at = "closeLo" /\ UNCHANGED netVars
        /\ "closeEn" \in Places /\ "lo0" \in Interfaces
    BY SocketAt DEF UnlinkLo, At, Places, Interfaces
  <1>2. Rec(r, "closeEn", sock[s].op, sock[s].name, sock[s].req, sock[s].ok, sock[s].target,
            sock[s].via, sock[s].peer, sock[s].state)
    BY <1>1, SetAt
  <1>3. sock' = [sock EXCEPT ![s] = r] /\ ports' = Unlinked(s, "lo0")
    BY DEF UnlinkLo, Goes
  <1> HIDE DEF r
  <1>4. Placed(s, r) /\ r \in Sock /\ r.at = "closeEn" /\ r.name = sock[s].name /\ r.name \in Names
    BY <1>1, <1>2 DEF Rec, Placed
  <1>5. /\ ports' \in [Namespaces -> [Interfaces -> [Ports -> Sockets \cup {None}]]]
        /\ \A n \in Namespaces, g \in Interfaces, i \in Ports :
                /\ ports[n][g][i] # s => ports'[n][g][i] = ports[n][g][i]
                /\ ports[n][g][i] = s => IF g = "lo0" THEN ports'[n][g][i] = None ELSE ports'[n][g][i] = s
    BY <1>1, <1>3, <1>4, Unlinks
  <1>6. \A n \in Namespaces, g \in Interfaces, i \in Ports : ports[n][g][i] = s => Entered(s, n, g, i)
    BY NetworkAssumption DEF SockInv, TableInv
  <1>7. ASSUME NEW n \in Namespaces, NEW g \in Interfaces, NEW i \in Ports
        PROVE  /\ ports[n][g][i] \notin {None, s} => ports'[n][g][i] = ports[n][g][i]
               /\ ports[n][g][i] \in {None, s} => ports'[n][g][i] \in {None, s}
               /\ ports'[n][g][i] = s => EnteredAs(s, r, n, g, i)
    <2>1. ports'[n][g][i] = s => ports[n][g][i] = s /\ g # "lo0"
      BY <1>5, NetworkAssumption
    <2> QED
      BY <1>4, <1>5, <1>6, <2>1 DEF Entered, EnteredAs
  <1> QED
    BY <1>1, <1>3, <1>4, <1>5, <1>7, TablesStep

\* The port is removed from the table of en0.
LEMMA UnlinkEnStep ==
    ASSUME SockInv, NEW s \in Sockets, UnlinkEn(s)
    PROVE  SockInv'
  <1> DEFINE r == [newSocket EXCEPT !.at = "closed", !.name = sock[s].name]
  <1>1. /\ sock[s] \in Sock /\ Placed(s, sock[s]) /\ sock[s].at = "closeEn" /\ UNCHANGED netVars
        /\ "en0" \in Interfaces
    BY SocketAt DEF UnlinkEn, At, Interfaces
  <1>2. sock[s].name \in Names
    BY <1>1 DEF Placed
  <1>3. Rec(r, "closed", "none", sock[s].name, noReq, FALSE, None, None, None, "none")
    BY <1>2, NewSocket
  <1>4. sock' = [sock EXCEPT ![s] = r] /\ ports' = Unlinked(s, "en0")
    BY DEF UnlinkEn, Closed
  <1> HIDE DEF r
  <1>5. Placed(s, r) /\ r \in Sock /\ r.at = "closed" /\ r.name = sock[s].name
    BY <1>3 DEF Rec, Placed
  <1>6. /\ ports' \in [Namespaces -> [Interfaces -> [Ports -> Sockets \cup {None}]]]
        /\ \A n \in Namespaces, g \in Interfaces, i \in Ports :
                /\ ports[n][g][i] # s => ports'[n][g][i] = ports[n][g][i]
                /\ ports[n][g][i] = s => IF g = "en0" THEN ports'[n][g][i] = None ELSE ports'[n][g][i] = s
    BY <1>1, <1>2, <1>4, Unlinks
  <1>7. \A n \in Namespaces, g \in Interfaces, i \in Ports : ports[n][g][i] = s => g # "lo0"
    BY <1>1, NetworkAssumption DEF SockInv, TableInv, Entered
  <1>8. ASSUME NEW n \in Namespaces, NEW g \in Interfaces, NEW i \in Ports
        PROVE  /\ ports[n][g][i] \notin {None, s} => ports'[n][g][i] = ports[n][g][i]
               /\ ports[n][g][i] \in {None, s} => ports'[n][g][i] \in {None, s}
               /\ ports'[n][g][i] = s => EnteredAs(s, r, n, g, i)
    <2>1. ports[n][g][i] # s => ports'[n][g][i] = ports[n][g][i]
      BY <1>6
    <2>2. ports[n][g][i] = s => ports'[n][g][i] = None
      BY <1>6, <1>7 DEF Interfaces
    <2>3. s # None
      BY NetworkAssumption
    <2> QED
      BY <2>1, <2>2, <2>3
  <1> QED
    BY <1>1, <1>4, <1>5, <1>6, <1>8, TablesStep

\* Steps of the network: no namespace that exists loses or changes its
\* address, even once it is detached.
LEMMA NetworkStep ==
    ASSUME SockInv, UNCHANGED <<ports, sock>>,
           \A n \in Namespaces : Exists(n) => ns'[n] # "none" /\ addrs'[n] = addrs[n]
    PROVE  SockInv'
  <1>1. \A k, peer \in Sockets : \A t : Reaches(k, t, peer) => Reaches(k, t, peer)'
    BY NetworkAssumption DEF Reaches, Exists
  <1>2. PlaceInv'
    <2> SUFFICES ASSUME NEW k \in Sockets PROVE Placed(k, sock[k])'
      BY DEF PlaceInv
    <2>1. PICK q \in Sock : q = sock[k]
      BY SocketAt
    <2>2. Placed(k, q) /\ q = sock'[k]
      BY <2>1 DEF SockInv, PlaceInv
    <2>3. q.at = "acquire" \/ q.state = "connected" => Reaches(k, q.target, q.peer)'
      BY <1>1, <2>2 DEF Placed, Reaches
    <2>4. Placed(k, q)'
      BY <2>2, <2>3 DEF Placed, Exists
    <2> QED
      BY <2>2, <2>4 DEF Placed, Reaches, Exists
  <1>3. TableInv' /\ HalfBound' /\ NameIsBound' /\ SockType'
    BY DEF SockInv, TableInv, Entered, HalfBound, At, TableOf, NameIsBound, SockType
  <1> QED
    BY <1>2, <1>3 DEF SockInv

\* Steps of the network leave sockets and tables alone.
LEMMA NamespaceSteps ==
    ASSUME IInv, SockInv, NEW n \in Namespaces,
           CreateNamespace(n) \/ CreateFails(n) \/ DetachSwap(n) \/ Detach(n)
    PROVE  SockInv'
  <1>1. /\ UNCHANGED <<ports, sock>>
        /\ \A m \in Namespaces : Exists(m) => ns'[m] # "none" /\ addrs'[m] = addrs[m]
    <2>1. CASE CreateNamespace(n)
      BY <2>1 DEF CreateNamespace, Exists, IInv, NetOK
    <2>2. CASE CreateFails(n)
      BY <2>2 DEF CreateFails, Exists
    <2>3. CASE DetachSwap(n)
      BY <2>3 DEF DetachSwap, Exists, IInv, NetOK
    <2>4. CASE Detach(n)
      BY <2>4 DEF Detach, Exists, IInv, NetOK
    <2> QED
      BY <2>1, <2>2, <2>3, <2>4
  <1> QED
    BY <1>1, NetworkStep

\* There are no sockets and no ports at first.
LEMMA InitSockInv == Init => SockInv
  <1> SUFFICES ASSUME Init PROVE SockInv
    OBVIOUS
  <1>1. Rec(newSocket, "new", "none", None, noReq, FALSE, None, None, None, "none")
    BY NewSocket
  <1>2. \A s \in Sockets : sock[s] = newSocket
    BY DEF Init
  <1>3. SockType
    BY <1>1 DEF Init, SockType, Rec
  <1>4. PlaceInv
    BY <1>1, <1>2 DEF Rec, PlaceInv, Placed
  <1>5. TableInv
    BY DEF Init, TableInv
  <1>6. HalfBound /\ NameIsBound
    BY <1>1, <1>2 DEF Rec, HalfBound, At, NameIsBound
  <1> QED
    BY <1>3, <1>4, <1>5, <1>6 DEF SockInv

\* The invariant of the sockets holds in every reachable state.
LEMMA SocketInvariance == PortsAgree => (Spec => []SockInv)
  <1> SUFFICES ASSUME PortsAgree PROVE Spec => []SockInv
    OBVIOUS
  <1>1. Init => SockInv
    BY InitSockInv
  <1>2. IInv /\ SockInv /\ [Next]_vars => SockInv'
    <2> SUFFICES ASSUME IInv, SockInv, [Next]_vars PROVE SockInv'
      OBVIOUS
    <2>1. CASE \E n \in Namespaces : CreateNamespace(n) \/ CreateFails(n) \/ DetachSwap(n) \/ Detach(n)
      BY <2>1, NamespaceSteps
    <2>2. CASE \E s \in Sockets : \E req \in Requests[s] : Bind(s, req)
      BY <2>2, BindStep
    <2>3. CASE \E s \in Sockets : BindLo(s)
      BY <2>3, BindLoStep
    <2>4. CASE \E s \in Sockets : BindEn(s)
      BY <2>4, BindEnStep
    <2>5. CASE \E s \in Sockets : Listen(s)
      BY <2>5, ListenStep
    <2>6. CASE \E s, c \in Sockets : Accept(s, c)
      BY <2>6, AcceptStep
    <2>7. CASE \E s \in Sockets : \E t \in Targets[s] : Connect(s, t)
      BY <2>7, ConnectStep
    <2>8. CASE \E s \in Sockets : LookupLo(s)
      BY <2>8, LookupLoStep
    <2>9. CASE \E s \in Sockets : LookupEn(s)
      BY <2>9, LookupEnStep
    <2>10. CASE \E s \in Sockets : Route(s)
      BY <2>10, RouteStep
    <2>11. CASE \E s \in Sockets : LookupRemote(s)
      BY <2>11, LookupRemoteStep
    <2>12. CASE \E s \in Sockets : AcquirePeer(s)
      BY <2>12, AcquireStep
    <2>13. CASE \E s \in Sockets : Close(s)
      BY <2>13, CloseStep
    <2>14. CASE \E s \in Sockets : UnlinkLo(s)
      BY <2>14, UnlinkLoStep
    <2>15. CASE \E s \in Sockets : UnlinkEn(s)
      BY <2>15, UnlinkEnStep
    <2>16. CASE UNCHANGED vars
      BY <2>16, NetworkStep DEF vars, Exists
    <2> QED
      BY <2>1, <2>2, <2>3, <2>4, <2>5, <2>6, <2>7, <2>8, <2>9, <2>10, <2>11, <2>12, <2>13, <2>14,
         <2>15, <2>16 DEF Next
  <1> QED
    BY <1>1, <1>2, Invariance, PTL DEF Spec

\* Bind and close: where both interfaces give a socket the same port, a port
\* belongs to the socket whose Bind succeeded until it is closed, and no
\* closed socket is left in a table.  Without PortsAgree it is false: with
\* port 0 the interfaces may choose different ports, and the name keeps one.
THEOREM PortsSoundHolds == PortsAgree => (Spec => []PortsSound)
  <1>1. IInv /\ SockInv => PortsSound
    <2> SUFFICES ASSUME IInv, SockInv PROVE PortsSound
      OBVIOUS
    <2>1. TypeOK
      <3>1. sock \in [Sockets -> [at : Places, op : {"none", "bind", "listen", "connect"},
              name : [addr : {"any"} \cup Interfaces, port : Ports] \cup {None},
              req : [addr : {"any"} \cup Interfaces, port : Ports \cup {0}], ok : BOOLEAN,
              target : (UNION {Targets[s] : s \in Sockets}) \cup {None}, via : Namespaces \cup {None},
              peer : Sockets \cup {None},
              state : {"none", "listening", "accepted", "connected", "dialed"},
              queue : SUBSET Sockets]]
        BY Zenon DEF SockInv, SockType, Sock, Names, ReqSet, OpSet, StateSet, AllTargets
      <3>2. ports \in [Namespaces -> [Interfaces -> [Ports -> Sockets \cup {None}]]]
        BY DEF SockInv, SockType
      <3> QED
        BY <3>1, <3>2, Zenon DEF IInv, NetOK, TypeOK
    <2>2. ClosedHoldsNoPort
      BY DEF SockInv, TableInv, Entered, ClosedHoldsNoPort
    <2> QED
      BY <2>1, <2>2 DEF SockInv, PortsSound
  <1> QED
    BY <1>1, Invariance, SocketInvariance, PTL

\* Connect: under the same condition a connection reaches a socket that was
\* bound to the port, in the same namespace or in the one that was given the
\* address, whatever is bound, closed, created or detached between the
\* lookups; and only network addresses are dialled.
THEOREM ReachesAddresseeHolds == PortsAgree => (Spec => []ReachesAddressee)
  <1>1. SockInv => ReachesAddressee
    BY DEF SockInv, PlaceInv, Placed, Reaches, ReachesAddressee
  <1> QED
    BY <1>1, SocketInvariance, PTL
=============================================================================
