--------------------------- MODULE MCLocalNetwork ---------------------------
(* Bounded instances of LocalNetwork. *)
EXTENDS LocalNetwork

CONSTANTS n1, n2, n3, s1, s2, s3

\* The second pool is the smaller one: the third namespace takes an address
\* of the first pool and has to put it back.
Sizes == <<3, 2>>

\* s1 and s2 are sockets of n1, s3 is one of n2.
Owners == [s \in Sockets |-> IF s = s3 THEN n2 ELSE n1]

Req(addr, port) == [addr |-> addr, port |-> port]

\* s1 and s2 fight over port 49152, the only one of the range for port 0.
Servers == [s \in Sockets |->
    CASE s = s1 -> {Req("any", 49152)}
      [] s = s2 -> {Req("any", 0), Req("en0", 49152)}
      [] s = s3 -> {Req("any", 80)}]

Target(kind, num, port) == [kind |-> kind, num |-> num, port |-> port]

\* s2 connects to s1 by the wildcard address, and to s3 or whoever has its address
\* later; s3 connects to s1 and s2.
Addressees == [s \in Sockets |->
    CASE s = s1 -> {}
      [] s = s2 -> {Target("any", 0, 49152), Target("net", 1, 80)}
      [] s = s3 -> {Target("net", 0, 49152)}]

\* Every socket asks for any free port of the loopback, or of the namespace.
AnyPort == [s \in Sockets |-> {Req("lo0", 0), Req("any", 0)}]
=============================================================================
