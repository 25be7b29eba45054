---------------------------- MODULE NetworkTrace -----------------------------
(***************************************************************************)
(* Network events, HTTP messages and exchanges rebuilt from the log of a   *)
(* guest (internal/debug/tracing).                                         *)
(*                                                                         *)
(* The guest makes calls on sockets; each call is a record of the log.     *)
(* EventReader reads records in groups, and MessageReader events; a group  *)
(* is looked at when it is complete, or at the end of the log.  What was   *)
(* read is in the memory of the log's current batch until then: when the   *)
(* next batch is read into the same memory, it is overwritten.  Batches    *)
(* have any size, and their memory is used again or not (slices.Grow).     *)
(* The bytes of an HTTP message are cells: the start line, its line break, *)
(* the end of the header and the body.  Times and addresses are left out,  *)
(* a socket is told by its connection.                                     *)
(***************************************************************************)
EXTENDS Integers, Sequences, SequencesExt, FiniteSets

CONSTANTS FDs,              \* descriptors that sockets can have
          NumConns,         \* connections of the guest
          Bounds,           \* [group, requests, extras]: how many events MessageReader
                            \* reads at a time (1000), how many requests there are, and
                            \* how many moves, shutdowns and calls that fail
          None

ASSUME FDsAssumption == FDs \subseteq Nat \ {0}
ASSUME BoundsAssumption ==
    NumConns \in Nat /\ Bounds \subseteq [group : Nat \ {0}, requests : Nat, extras : Nat]

VARIABLES
    bound,      \* which of Bounds holds
    host,       \* the connection that each descriptor is open on
    conns,      \* what happened on each connection
    extras,     \* descriptors moved, shutdowns and calls that failed so far
    moved,      \* a descriptor was moved
    records,    \* EventReader.records, as far as they were read
    events,     \* MessageReader.events, as far as they were read
    intact,     \* no record or event was overwritten before it was looked at
    sockets,    \* EventReader.sockets
    shown,      \* the data of the events of each connection
    readers,    \* MessageReader.conns
    inflight,   \* ExchangeReader.inflight, a set of messages
    exchanges,  \* what ExchangeReader returned
    ended       \* the log has been read to its end

guestVars == <<bound, host, conns, extras, moved>>
readerVars == <<records, events, intact, sockets, shown, readers, inflight, exchanges>>
vars == <<guestVars, readerVars, ended>>

Conns == 1..NumConns
listener == 0
Numbers == FDs \cup {listener}

-----------------------------------------------------------------------------
(* The guest and its peers (not in the repository).  A transaction is a    *)
(* request and its response; each is delimited by its length, by having no *)
(* body, or by the end of the connection.                                  *)

Transactions ==
    {[req |-> "none", res |-> "length"], [req |-> "length", res |-> "eof"]}

Cells(c, i, side, body) ==
    LET part(p) == [c |-> c, i |-> i, side |-> side, part |-> p, body |-> body]
    IN  <<part("line"), part("break"), part("end")>> \o
        (IF body = "none" THEN <<>> ELSE <<part("body")>>)

(* The cells that were transferred of request or response i of connection c. *)
Stream(c, side) ==
    FlattenSeq([i \in DOMAIN conns[c].script |-> Cells(c, i, side, conns[c].script[i][side])])

Incoming(c) == IF conns[c].role = "server" THEN "req" ELSE "res"
Outgoing(c) == IF conns[c].role = "server" THEN "res" ELSE "req"

(* The next cells of a stream: a response follows its request, and a       *)
(* request the response to the previous one.                               *)
NextCells(c, side) ==
    LET last == Len(conns[c].script)
        own == IF last = 0 THEN <<>> ELSE Cells(c, last, side, conns[c].script[last][side])
        done == conns[c].count[side] - (Len(Stream(c, side)) - Len(own))
        asked == conns[c].count["req"] = Len(Stream(c, "req"))
    IN  IF side = "res" /\ ~asked THEN <<>> ELSE SubSeq(own, done + 1, Len(own))

-----------------------------------------------------------------------------
(* EventReader.                                                            *)

Both == {"rd", "wr"}

Event(socket, type, flags, data) ==
    [fd |-> socket.fd, c |-> socket.c, type |-> type, flags |-> flags, data |-> data]

NoEvent(table) == [sockets |-> table, events |-> <<>>]

OnClose(table, fd) ==
    IF table[fd] = None THEN NoEvent(table)
    ELSE [sockets |-> [table EXCEPT ![fd] = None],
          events |-> <<Event(table[fd], "shutdown", Both \ table[fd].shut, <<>>)>>]

\* Mutant: the descriptor is left where it was.
OnRenumberStay(table, from, to, ok) == NoEvent(table)

OnRenumber(table, from, to, ok) ==
    IF ~ok \/ table[from] = None THEN NoEvent(table)
    ELSE NoEvent([table EXCEPT ![from] = None, ![to] = table[from]])

(* FDRead, FDWrite, SockRecv and SockSend: no event for a call that would  *)
(* block or that transferred nothing; one for a call that failed.          *)
OnTransfer(table, fd, type, errno, data) ==
    IF (errno \in {"none", "again"} /\ data = <<>>) \/ table[fd] = None THEN NoEvent(table)
    ELSE [sockets |-> table, events |-> <<Event(table[fd], type, {}, data)>>]

OnAccept(table, fd, newfd, c, errno) ==
    LET server == IF table[fd] = None THEN [fd |-> fd, shut |-> {}, c |-> None] ELSE table[fd]
        known == [table EXCEPT ![fd] = server]
        client == [fd |-> newfd, shut |-> {}, c |-> c]
    IN  CASE errno = "again" -> NoEvent(known)
          [] errno = "none" -> [sockets |-> [known EXCEPT ![newfd] = client],
                                events |-> <<Event(client, "accept", {}, <<>>)>>]
          [] OTHER -> [sockets |-> known, events |-> <<Event(server, "accept", {}, <<>>)>>]

OnShutdown(table, fd, flags) ==
    IF table[fd] = None \/ flags \subseteq table[fd].shut THEN NoEvent(table)
    ELSE [sockets |-> [table EXCEPT ![fd].shut = @ \cup flags],
          events |-> <<Event(table[fd], "shutdown", flags \ table[fd].shut, <<>>)>>]

OnOpen(table, fd) == NoEvent([table EXCEPT ![fd] = [fd |-> fd, shut |-> {}, c |-> None]])

OnConnect(table, fd, c, errno) ==
    IF errno = "refused" \/ table[fd] = None THEN NoEvent(table)
    ELSE LET socket == [table[fd] EXCEPT !.c = c]
         IN  [sockets |-> [table EXCEPT ![fd] = socket],
              events |-> <<Event(socket, "connect", {}, <<>>)>>]

(* The record of a call: its function, which is copied, and its parameters *)
(* and results, which are where the batch is.                              *)
Record(call, args) == [call |-> call, args |-> args]

OnRecord(table, r) ==
    LET a == r.args
    IN  CASE r.call = "close"    -> OnClose(table, a[1])
          [] r.call = "renumber" -> OnRenumber(table, a[1], a[2], a[3])
          [] r.call = "accept"   -> OnAccept(table, a[1], a[2], a[3], a[4])
          [] r.call = "shutdown" -> OnShutdown(table, a[1], a[2])
          [] r.call = "open"     -> OnOpen(table, a[1])
          [] r.call = "connect"  -> OnConnect(table, a[1], a[2], a[3])
          [] OTHER               -> OnTransfer(table, a[1], r.call, a[2], a[3])

(* A group is decoded record by record, up to one that can not be decoded. *)
Bad(r) == r.args = None
Decode(table, group) ==
    LET bad == SelectInSeq(group, Bad)
        good == IF bad = 0 THEN group ELSE SubSeq(group, 1, bad - 1)
        next(s, r) == LET out == OnRecord(s.sockets, r)
                      IN  [sockets |-> out.sockets, events |-> s.events \o out.events]
    IN  FoldLeft(next, NoEvent(table), good)

(* The memory of what was read of a batch now holds another batch: a       *)
(* record may be one that can not be decoded, a transfer and an event show *)
(* bytes of another call.                                                  *)
other == [c |-> None, i |-> 0, side |-> "req", part |-> "line", body |-> "none"]

OverwriteRecord(r) ==
    IF r.call \in {"receive", "send"} /\ r.args[3] # <<>>
    THEN [r EXCEPT !.args[3] = [k \in DOMAIN @ |-> other]] ELSE [r EXCEPT !.args = None]

OverwriteEvent(e) == [e EXCEPT !.data = [k \in DOMAIN @ |-> other]]

-----------------------------------------------------------------------------
(* HTTP/1 connections.  A parser is [bytes, header, content]: the length   *)
(* of the header that was found, 0 if none, and of the body, -1 if unknown.*)

newParser == [bytes |-> <<>>, header |-> 0, content |-> 0]

CanHandle(data) == \E i \in DOMAIN data : data[i].part = "break"

HeaderLength(bytes) ==
    LET ends == {i \in DOMAIN bytes : bytes[i].part = "end"}
    IN  IF ends = {} THEN 0 ELSE CHOOSE i \in ends : \A j \in ends : i <= j

\* Mutant: the end of the connection is not taken for the end of the body.
ContentLengthNoEOF(bytes, header, eof) ==
    CASE bytes[1].body = "length" -> 1 [] bytes[1].body = "none" -> 0 [] OTHER -> -1

ContentLength(bytes, header, eof) ==
    CASE bytes[1].body = "length" -> 1
      [] bytes[1].body = "none" -> 0
      [] OTHER -> IF eof THEN Len(bytes) - header ELSE -1

ParserWrite(p, data, eof) ==
    LET bytes == p.bytes \o data
        found == p.header = 0 /\ HeaderLength(bytes) # 0
        header == IF p.header = 0 THEN HeaderLength(bytes) ELSE p.header
        content == IF found THEN -1 ELSE p.content
    IN  [bytes |-> bytes, header |-> header,
         content |-> IF header # 0 /\ content < 0 THEN ContentLength(bytes, header, eof)
                     ELSE content]

CanRead(p) == p.header # 0 /\ p.content >= 0 /\ Len(p.bytes) >= p.header + p.content

ParserRead(p) ==
    IF ~CanRead(p) THEN p
    ELSE [newParser EXCEPT !.bytes = SubSeq(p.bytes, p.header + p.content + 1, Len(p.bytes))]

newConn(role, fd) ==
    [kind |-> "http", role |-> role, fd |-> fd, flag |-> {}, recv |-> newParser, send |-> newParser,
     reqID |-> 0, resID |-> 0]

Done(conn) == conn.kind = "http" /\ conn.flag = Both

Observe(conn, e) ==
    CASE e.type = "receive"  -> [conn EXCEPT !.recv = ParserWrite(@, e.data, FALSE)]
      [] e.type = "send"     -> [conn EXCEPT !.send = ParserWrite(@, e.data, FALSE)]
      [] e.type = "shutdown" ->
           LET flag == conn.flag \cup e.flags
           IN  [conn EXCEPT !.flag = flag,
                            !.recv = ParserWrite(@, <<>>, "rd" \in flag),
                            !.send = ParserWrite(@, <<>>, "wr" \in flag)]

req(conn) == IF conn.role = "server" THEN conn.recv ELSE conn.send
res(conn) == IF conn.role = "server" THEN conn.send ELSE conn.recv

ErrUnexpectedEOF == [c |-> None, i |-> 0, side |-> "res"]

Content(p) == [c |-> p.bytes[1].c, i |-> p.bytes[1].i, side |-> p.bytes[1].side]

\* Mutant: the requests that were not answered are forgotten.
MissingForgotten(conn) == <<>>

(* nextResponse: a connection that is done answers what it has not yet.    *)
Missing(conn) ==
    IF ~Done(conn) \/ conn.resID >= conn.reqID THEN <<>>
    ELSE [n \in 1..(conn.reqID - conn.resID) |->
             [id |-> <<conn.fd, conn.resID + n>>, msg |-> ErrUnexpectedEOF]]

(* The calls of Next until it returns false: a request, a response, and    *)
(* the responses that are missing.  A message that is still in the buffer  *)
(* is not looked at before the next event.                                 *)
NextAll(conn) ==
    LET one(id, p) == IF CanRead(p) THEN <<[id |-> <<conn.fd, id + 1>>, msg |-> Content(p)]>> ELSE <<>>
        requests == one(conn.reqID, req(conn))
        responses == one(conn.resID, res(conn))
        read == [conn EXCEPT !.recv = ParserRead(@), !.send = ParserRead(@),
                             !.reqID = @ + Len(requests), !.resID = @ + Len(responses)]
        missing == Missing(read)
    IN  [conn |-> [read EXCEPT !.resID = @ + Len(missing)],
         messages |-> requests \o responses \o missing]

-----------------------------------------------------------------------------
(* MessageReader: a connection is pending until its protocol is known.     *)

pendingConn(role) == [kind |-> "pending", role |-> role, events |-> <<>>]

EventData(es, type) ==
    FlattenSeq([i \in DOMAIN es |-> IF es[i].type = type THEN es[i].data ELSE <<>>])

Detect(pc, e) ==
    IF CanHandle(EventData(pc.events, e.type) \o e.data)
    THEN FoldLeft(Observe, newConn(pc.role, e.fd), pc.events)
    ELSE [pc EXCEPT !.events = Append(@, e)]

(* What is left at e.fd, and the messages that were formed. *)
OnEvent(table, e) ==
    LET Only(c) == [readers |-> [table EXCEPT ![e.fd] = c], messages |-> <<>>]
        known == IF table[e.fd] # None /\ table[e.fd].kind = "pending" /\ e.type \in {"receive", "send"}
                 THEN Detect(table[e.fd], e) ELSE table[e.fd]
    IN  CASE e.type = "accept" -> Only(pendingConn("server"))
          [] e.type = "connect" -> Only(pendingConn("client"))
          [] OTHER ->
               IF known = None \/ known.kind = "pending" THEN Only(known)
               ELSE LET next == NextAll(Observe(known, e))
                    IN  [readers |-> [table EXCEPT ![e.fd] = IF Done(next.conn) THEN None ELSE next.conn],
                         messages |-> next.messages]

-----------------------------------------------------------------------------
(* ExchangeReader: a message answers the one in flight with its id.        *)

OnMessage(s, m) ==
    LET before == {r \in s.inflight : r.id = m.id}
    IN  IF before = {} THEN [s EXCEPT !.inflight = @ \cup {m}]
        ELSE [inflight |-> s.inflight \ before,
              exchanges |-> Append(s.exchanges,
                                   [req |-> (CHOOSE r \in before : TRUE).msg, res |-> m.msg])]

(* A complete group of events goes through the other readers. *)
Process(group) ==
    LET each(s, e) ==
            LET out == OnEvent(s.readers, e)
            IN  [shown |-> IF e.c = None \/ e.type \notin {"receive", "send"} THEN s.shown
                           ELSE [s.shown EXCEPT ![e.c][e.type] = @ \o e.data],
                 readers |-> out.readers,
                 s |-> FoldLeft(OnMessage, s.s, out.messages)]
    IN  FoldLeft(each, [shown |-> shown, readers |-> readers,
                        s |-> [inflight |-> inflight, exchanges |-> exchanges]], group)

(* EventReader is asked for as many events as MessageReader's group lacks  *)
(* and reads as many records, which are no more events; it goes on until   *)
(* there is one, and MessageReader until its group is complete or a record *)
(* can not be decoded.                                                     *)
Trace(call, args) ==
    \E reload \in {FALSE} \cup {records # <<>> \/ \E k \in DOMAIN events : events[k].data # <<>>} :
        LET old == IF reload THEN [k \in DOMAIN records |-> OverwriteRecord(records[k])] ELSE records
            held == IF reload THEN [k \in DOMAIN events |-> OverwriteEvent(events[k])] ELSE events
        IN  /\ intact' = (intact /\ ~reload)
            /\ \E group \in {Append(old, Record(call, args))} :
                  IF Len(group) + Len(held) < bound.group
                  THEN /\ records' = group /\ events' = held
                       /\ UNCHANGED <<sockets, shown, readers, inflight, exchanges>>
                  ELSE \E out \in {Decode(sockets, group)} :
                          /\ records' = <<>> /\ sockets' = out.sockets
                          /\ IF Len(held \o out.events) < bound.group /\ ~\E k \in DOMAIN group : Bad(group[k])
                             THEN /\ events' = held \o out.events
                                  /\ UNCHANGED <<shown, readers, inflight, exchanges>>
                             ELSE /\ events' = <<>>
                                  /\ \E done \in {Process(held \o out.events)} :
                                        /\ shown' = done.shown /\ readers' = done.readers
                                        /\ inflight' = done.s.inflight /\ exchanges' = done.s.exchanges

-----------------------------------------------------------------------------
Init ==
    /\ bound \in Bounds
    /\ host = [fd \in FDs |-> None]
    /\ conns = [c \in Conns |-> [state |-> "new", role |-> None, script |-> <<>>, shut |-> {}, early |-> FALSE,
                                 count |-> [req |-> 0, res |-> 0]]]
    /\ extras = 0 /\ moved = FALSE
    /\ records = <<>> /\ events = <<>> /\ intact = TRUE
    /\ sockets = [fd \in Numbers |-> None]
    /\ shown = [c \in Conns |-> [receive |-> <<>>, send |-> <<>>]]
    /\ readers = [fd \in Numbers |-> None]
    /\ inflight = {} /\ exchanges = <<>> /\ ended = FALSE

Lowest(fd) == host[fd] = None /\ \A f \in FDs : host[f] = None => fd <= f

(* The log goes on.  Nothing is said of what is read after something was   *)
(* overwritten, so the guest makes no further call.                        *)
Goes == ~ended /\ intact

(* Connections are interchangeable: they are made in their order. *)
Fresh(c) == conns[c].state = "new" /\ \A d \in 1..(c - 1) : conns[d].state # "new"

Accept(c, fd) ==
    /\ Goes /\ Fresh(c) /\ Lowest(fd)
    /\ host' = [host EXCEPT ![fd] = c]
    /\ conns' = [conns EXCEPT ![c].state = "open", ![c].role = "server"]
    /\ Trace("accept", <<listener, fd, c, "none">>)
    /\ UNCHANGED <<bound, extras, moved, ended>>

AcceptFails(errno) ==
    /\ Goes /\ extras < bound.extras
    /\ extras' = extras + 1
    /\ Trace("accept", <<listener, listener, None, errno>>)
    /\ UNCHANGED <<bound, host, conns, moved, ended>>

Open(c, fd) ==
    /\ Goes /\ Fresh(c) /\ Lowest(fd)
    /\ host' = [host EXCEPT ![fd] = c]
    /\ conns' = [conns EXCEPT ![c].state = "opened", ![c].role = "client"]
    /\ Trace("open", <<fd>>)
    /\ UNCHANGED <<bound, extras, moved, ended>>

Connect(fd, errno) ==
    LET c == host[fd]
    IN  /\ Goes /\ c # None /\ conns[c].state = "opened"
        /\ conns' = [conns EXCEPT ![c].state = IF errno = "refused" THEN @ ELSE "open"]
        /\ Trace("connect", <<fd, c, errno>>)
        /\ UNCHANGED <<bound, host, extras, moved, ended>>

(* A new request on a connection whose last response is complete. *)
NewTransaction(c) ==
    LET done == Len(conns[c].script)
    IN  /\ Goes /\ conns[c].state = "open"
        /\ FoldFunction(LAMBDA d, n : n + Len(d.script), 0, conns) < bound.requests
        /\ \A side \in {"req", "res"} : conns[c].count[side] = Len(Stream(c, side))
        /\ done > 0 => conns[c].script[done].res # "eof"
        /\ \E t \in Transactions : conns' = [conns EXCEPT ![c].script = Append(@, t)]
        /\ UNCHANGED <<bound, host, extras, moved, readerVars, ended>>

Transfer(fd, type) ==
    LET c == host[fd]
        side == IF type = "receive" THEN Incoming(c) ELSE Outgoing(c)
    IN  /\ Goes /\ c # None /\ conns[c].state = "open"
        /\ (IF type = "receive" THEN "rd" ELSE "wr") \notin conns[c].shut
        /\ \E n \in 1..Len(NextCells(c, side)) :
               /\ conns' = [conns EXCEPT ![c].count[side] = @ + n]
               /\ Trace(type, <<fd, "none", SubSeq(NextCells(c, side), 1, n)>>)
        /\ UNCHANGED <<bound, host, extras, moved, ended>>

(* A call that would block, or that fails. *)
TransferFails(fd, type, errno) ==
    /\ Goes /\ host[fd] # None /\ conns[host[fd]].state = "open" /\ extras < bound.extras
    /\ extras' = extras + 1
    /\ Trace(type, <<fd, errno, <<>>>>)
    /\ UNCHANGED <<bound, host, conns, moved, ended>>

Shutdown(fd, flags) ==
    LET c == host[fd]
    IN  /\ Goes /\ c # None /\ conns[c].state = "open" /\ extras < bound.extras
        /\ extras' = extras + 1
        /\ conns' = [conns EXCEPT ![c].shut = @ \cup flags,
                                  ![c].early = @ \/ ~\E side \in {"req", "res"} : conns[c].count[side] > 1]
        /\ Trace("shutdown", <<fd, flags>>)
        /\ UNCHANGED <<bound, host, moved, ended>>

Close(fd) ==
    LET c == host[fd]
    IN  /\ Goes /\ c # None
        /\ host' = [host EXCEPT ![fd] = None]
        /\ conns' = [conns EXCEPT ![c].state = "closed"]
        /\ Trace("close", <<fd>>)
        /\ UNCHANGED <<bound, extras, moved, ended>>

Renumber(from, to) ==
    /\ Goes /\ extras < bound.extras /\ from # to
    /\ extras' = extras + 1 /\ moved' = TRUE
    /\ IF host[from] = None THEN UNCHANGED <<host, conns>>
       ELSE /\ host' = [host EXCEPT ![from] = None, ![to] = host[from]]
            /\ conns' = IF host[to] = None THEN conns ELSE [conns EXCEPT ![host[to]].state = "closed"]
    /\ Trace("renumber", <<from, to, host[from] # None>>)
    /\ UNCHANGED <<bound, ended>>

(* The end of the log: what was read of the groups is looked at, and the   *)
(* requests in flight are returned without response.                       *)
ReadEnd ==
    /\ ~ended
    /\ ended' = TRUE
    /\ records' = <<>> /\ events' = <<>> /\ inflight' = {}
    /\ \E out \in {Decode(sockets, records)} :
          /\ sockets' = out.sockets
          /\ \E done \in {Process(events \o out.events)} :
                /\ shown' = done.shown /\ readers' = done.readers
                /\ exchanges' = done.s.exchanges \o
                      SetToSeq({[req |-> m.msg, res |-> ErrUnexpectedEOF] : m \in done.s.inflight})
    /\ UNCHANGED <<guestVars, intact>>

Next ==
    \/ \E c \in Conns, fd \in FDs : Accept(c, fd) \/ Open(c, fd)
    \/ \E errno \in {"again", "failed"} : AcceptFails(errno)
    \/ \E fd \in FDs, errno \in {"none", "inprogress", "refused"} : Connect(fd, errno)
    \/ \E c \in Conns : NewTransaction(c)
    \/ \E fd \in FDs, type \in {"receive", "send"} :
           \/ Transfer(fd, type)
           \/ \E errno \in {"again", "failed"} : TransferFails(fd, type, errno)
    \/ \E fd \in FDs, flags \in SUBSET Both \ {{}} : Shutdown(fd, flags)
    \/ \E fd \in FDs : Close(fd)
    \/ \E from, to \in FDs : Renumber(from, to)
    \/ ReadEnd

Spec == Init /\ [][Next]_vars

-----------------------------------------------------------------------------
(* The events of a connection carry, in order, every byte that the guest   *)
(* received and sent on it, whatever descriptor it is under, and nothing   *)
(* that was received or sent on another one, unless a batch was read over  *)
(* records or events that were not yet looked at (README, section 4).      *)
EventsFollowSocket ==
    intact =>
        \A c \in Conns : conns[c].role # None =>
            LET follows(data, side) ==
                    LET all == SubSeq(Stream(c, side), 1, conns[c].count[side])
                    IN  IF ended THEN data = all ELSE IsPrefix(data, all)
            IN  follows(shown[c].receive, Incoming(c)) /\ follows(shown[c].send, Outgoing(c))

(* No descriptor was moved, no connection was shut down, in either         *)
(* direction, before its first line had been transferred, and nothing was  *)
(* overwritten: EventReader and MessageReader lose track of those (README, *)
(* section 4).                                                             *)
Plain == intact /\ ~moved /\ \A c \in Conns : ~conns[c].early

(* A request is shown with the response to it or with an error, never with *)
(* the response to another request, of the same connection or of another   *)
(* one that had the same descriptor.                                       *)
AnswersItsRequest ==
    Plain =>
        \A k \in DOMAIN exchanges :
            /\ exchanges[k].req.side = "req" /\ exchanges[k].res.side = "res"
            /\ exchanges[k].res = ErrUnexpectedEOF \/
               <<exchanges[k].res.c, exchanges[k].res.i>> = <<exchanges[k].req.c, exchanges[k].req.i>>

(* Response i of connection c can be told to be whole. *)
Delimited(c, i) ==
    conns[c].script[i].res = "eof" =>
        conns[c].state = "closed" \/ (IF conns[c].role = "server" THEN "wr" ELSE "rd") \in conns[c].shut

(* At the end of the log every request that was transferred completely is  *)
(* in exactly one exchange, and with its response if that was transferred  *)
(* completely too.                                                         *)
NothingMasked ==
    ended /\ Plain =>
        \A c \in Conns : \A i \in DOMAIN conns[c].script :
            LET whole(side) ==
                    \/ i < Len(conns[c].script)
                    \/ conns[c].count[side] = Len(Stream(c, side))
                mine == {k \in DOMAIN exchanges : exchanges[k].req = [c |-> c, i |-> i, side |-> "req"]}
            IN  /\ Cardinality(mine) = IF whole("req") THEN 1 ELSE 0
                /\ whole("req") /\ whole("res") /\ Delimited(c, i) =>
                       \A k \in mine : exchanges[k].res # ErrUnexpectedEOF
=============================================================================
