------------------------------ MODULE WasiCodec ------------------------------
(***************************************************************************)
(* The codec of the recorded system calls                                  *)
(* (internal/timemachine/wasicall/codec.go).                               *)
(*                                                                         *)
(* A buffer is a sequence of cells.  A 32 bit integer takes one cell, of   *)
(* Word values, a 64 bit integer two, low half first, and a byte one cell. *)
(* The value of a structure is the flat sequence of the values of its      *)
(* members, in the order in which the encoder writes them; a union is told *)
(* by its tag, the last member of its head.  A decoder returns a record:   *)
(* ok is FALSE when the Go function returns an error, v is the value and   *)
(* rest the part of the buffer that is left.                               *)
(***************************************************************************)
EXTENDS Integers, Sequences, SequencesExt, TLC

CONSTANT Word

ASSUME WordAssumption == Word \in Nat /\ Word > 3

Lengths(iovecs) == [i \in DOMAIN iovecs |-> Len(iovecs[i])]

Take(s, n) == SubSeq(s, 1, IF n < Len(s) THEN n ELSE Len(s))

Total(ns) == FoldLeft(LAMBDA a, n : a + n, 0, ns)

-----------------------------------------------------------------------------
(* Integers and byte strings.                                              *)

EncodeU32(v) == <<v % Word>>

\* Mutant: a 64 bit integer is written as if it were a 32 bit one.
EncodeU64Low(v) == <<v % Word, 0>>

EncodeU64(v) == <<v % Word, (v \div Word) % Word>>

EncodeBytes(b) == EncodeU32(Len(b)) \o b

ErrShortBuffer == [ok |-> FALSE, v |-> <<>>, rest |-> <<>>]

Decoded(v, rest) == [ok |-> TRUE, v |-> v, rest |-> rest]

DecodeU32(b) ==
    IF Len(b) < 1 THEN ErrShortBuffer ELSE Decoded(b[1], SubSeq(b, 2, Len(b)))

DecodeU64(b) ==
    IF Len(b) < 2 THEN ErrShortBuffer
    ELSE Decoded(b[1] + Word * b[2], SubSeq(b, 3, Len(b)))

DecodeRaw(n, b) ==
    IF Len(b) < n THEN ErrShortBuffer
    ELSE Decoded(SubSeq(b, 1, n), SubSeq(b, n + 1, Len(b)))

DecodeBytes(b) ==
    LET n == DecodeU32(b) IN IF ~n.ok THEN n ELSE DecodeRaw(n.v, n.rest)

(* The width, in cells, of each named integer type. *)
FileWidth ==
    [Errno |-> 1, FD |-> 1, ClockID |-> 1, Timestamp |-> 2, Size |-> 1, FileType |-> 1,
     FDFlags |-> 1, FSTFlags |-> 1, Rights |-> 2, FileSize |-> 2, Device |-> 2,
     INode |-> 2, LinkCount |-> 2, Advice |-> 1]

PollWidth ==
    [ExitCode |-> 1, Signal |-> 1, PreOpenType |-> 1, UserData |-> 2, EventType |-> 1,
     SubscriptionClockFlags |-> 1, EventFDReadWriteFlags |-> 1, DirCookie |-> 2,
     FileDelta |-> 2, Whence |-> 1, LookupFlags |-> 1, OpenFlags |-> 1]

SocketWidth ==
    [RIFlags |-> 1, ROFlags |-> 1, SIFlags |-> 1, SDFlags |-> 1, ProtocolFamily |-> 1,
     SocketType |-> 1, Protocol |-> 1, SocketOption |-> 2, AddressInfoFlags |-> 1]

Width == FileWidth @@ PollWidth @@ SocketWidth @@ [Int |-> 2]

(* An address is opaque: an IPv4 one takes one cell, an IPv6 one two. *)
RawLength == [IP4 |-> 1, IP6 |-> 2]

EncodePrimitive(t, v) ==
    CASE t = "Bytes" -> EncodeBytes(v)
      [] t \in DOMAIN RawLength -> v
      [] OTHER -> IF Width[t] = 1 THEN EncodeU32(v) ELSE EncodeU64(v)

DecodePrimitive(t, b) ==
    CASE t = "Bytes" -> DecodeBytes(b)
      [] t \in DOMAIN RawLength -> DecodeRaw(RawLength[t], b)
      [] OTHER -> IF Width[t] = 1 THEN DecodeU32(b) ELSE DecodeU64(b)

-----------------------------------------------------------------------------
(* Structures and unions: the members that are always there, and the ones  *)
(* that the tag announces.                                                 *)

ClockEvent == 0

StatMembers ==
    [PreStat  |-> <<"PreOpenType", "Size">>,
     FDStat   |-> <<"FileType", "FDFlags", "Rights", "Rights">>,
     FileStat |-> <<"Device", "INode", "FileType", "LinkCount", "FileSize",
                    "Timestamp", "Timestamp", "Timestamp">>]

SubscriptionVariants ==
    [e \in 0..2 |-> IF e = ClockEvent
                    THEN <<"ClockID", "Timestamp", "Timestamp", "SubscriptionClockFlags">>
                    ELSE <<"FD">>]

EventVariants ==
    [e \in 0..2 |-> IF e = ClockEvent THEN <<>> ELSE <<"FileSize", "EventFDReadWriteFlags">>]

DirEntryMembers == <<"DirCookie", "INode", "FileType", "Bytes">>

(* 0 is the nil address, then the families inet, inet6 and unix. *)
SocketAddressVariants ==
    [f \in 0..3 |-> <<<<>>, <<"Int", "IP4">>, <<"Int", "IP6">>, <<"Bytes">>>>[f + 1]]

SocketOptionValueVariants == [k \in 0..2 |-> <<<<>>, <<"Int">>, <<"Bytes">>>>[k + 1]]

AddressInfoMembers ==
    <<"AddressInfoFlags", "ProtocolFamily", "SocketType", "Protocol", "ProtocolFamily">>

AddressInfoVariants == [f \in 0..3 |-> SocketAddressVariants[f] \o <<"Bytes">>]

Members ==
    StatMembers @@
    [Subscription |-> <<"UserData", "EventType">>,
     Event |-> <<"UserData", "Errno", "EventType">>,
     DirEntry |-> DirEntryMembers, SocketAddress |-> <<"ProtocolFamily">>,
     SocketOptionValue |-> <<"Int">>, AddressInfo |-> AddressInfoMembers]

Variants ==
    [Subscription |-> SubscriptionVariants, Event |-> EventVariants,
     SocketAddress |-> SocketAddressVariants,
     SocketOptionValue |-> SocketOptionValueVariants, AddressInfo |-> AddressInfoVariants]

TagOf(t, v) == v[Len(Members[t])]

(* The encoder panics on a union whose tag it does not know. *)
Encodable(t, v) == t \in DOMAIN Variants => TagOf(t, v) \in DOMAIN Variants[t]

VariantOf(t, v) == IF t \in DOMAIN Variants THEN Variants[t][TagOf(t, v)] ELSE <<>>

(* A list is a count and its elements. *)
ElementType ==
    [Strings |-> "Bytes", IOVecs |-> "Bytes", IOVecsPrefix |-> "Bytes",
     DirEntries |-> "DirEntry", Subscriptions |-> "Subscription", Events |-> "Event",
     AddressInfos |-> "AddressInfo"]

Copies(n, t) == [i \in 1..n |-> t]

RECURSIVE EncodeAll(_, _)
RECURSIVE DecodeAll(_, _)

EncodeValue(t, v) ==
    CASE t \in DOMAIN Members -> EncodeAll(Members[t] \o VariantOf(t, v), v)
      [] t \in DOMAIN ElementType ->
           EncodeU32(Len(v)) \o EncodeAll(Copies(Len(v), ElementType[t]), v)
      [] OTHER -> EncodePrimitive(t, v)

(* The values vs, of the types ts, one after the other. *)
EncodeAll(ts, vs) ==
    IF ts = <<>> THEN <<>>
    ELSE EncodeValue(Head(ts), Head(vs)) \o EncodeAll(Tail(ts), Tail(vs))

(* The value whose first part is v and whose others are in tail. *)
Joined(v, tail) == IF ~tail.ok THEN ErrShortBuffer ELSE Decoded(v \o tail.v, tail.rest)

DecodeVariant(t, head) ==
    IF ~head.ok \/ ~Encodable(t, head.v) THEN ErrShortBuffer
    ELSE Joined(head.v, DecodeAll(VariantOf(t, head.v), head.rest))

DecodeUnion(t, b) == DecodeVariant(t, DecodeAll(Members[t], b))

DecodeList(t, b) ==
    LET n == DecodeU32(b)
    IN  IF ~n.ok THEN n ELSE DecodeAll(Copies(n.v, ElementType[t]), n.rest)

DecodeValue(t, b) ==
    CASE t \in DOMAIN Members -> DecodeUnion(t, b)
      [] t \in DOMAIN ElementType -> DecodeList(t, b)
      [] OTHER -> DecodePrimitive(t, b)

(* Decoding stops at the first value that fails. *)
DecodeAll(ts, b) ==
    LET DecodeTail(first) ==
            IF ~first.ok THEN ErrShortBuffer
            ELSE Joined(<<first.v>>, DecodeAll(Tail(ts), first.rest))
    IN  IF ts = <<>> THEN Decoded(<<>>, b) ELSE DecodeTail(DecodeValue(Head(ts), b))

(* encodeIOVecsPrefix: of the buffers that a read filled, the first size   *)
(* bytes; nothing when size, as an int32, is not positive.                 *)
EncodeIOVecsPrefix(iovecs, size) ==
    LET Reach(k) == Total(SubSeq(Lengths(iovecs), 1, k))
        Enough == {k \in DOMAIN iovecs : Reach(k) >= size}
    IN  CASE size = 0 \/ size >= Word \div 2 -> <<>>
          [] OTHER -> IF Enough = {} THEN iovecs
                      ELSE LET last == CHOOSE k \in Enough : \A j \in Enough : k <= j
                           IN  Append(SubSeq(iovecs, 1, last - 1),
                                      SubSeq(iovecs[last], 1, size - Reach(last - 1)))

-----------------------------------------------------------------------------
(* The layout of each call after its errno, which is always written first. *)

ProcessLayout ==
    [ArgsSizesGet    |-> <<"Int", "Int">>,
     ArgsGet         |-> <<"Strings">>,
     EnvironSizesGet |-> <<"Int", "Int">>,
     EnvironGet      |-> <<"Strings">>,
     ClockResGet     |-> <<"ClockID", "Timestamp">>,
     ClockTimeGet    |-> <<"ClockID", "Timestamp", "Timestamp">>,
     FDAdvise        |-> <<"FD", "FileSize", "FileSize", "Advice">>]

FileStatLayout ==
    [FDAllocate         |-> <<"FD", "FileSize", "FileSize">>,
     FDClose            |-> <<"FD">>,
     FDDataSync         |-> <<"FD">>,
     FDStatGet          |-> <<"FD", "FDStat">>,
     FDStatSetFlags     |-> <<"FD", "FDFlags">>,
     FDStatSetRights    |-> <<"FD", "Rights", "Rights">>,
     FDFileStatGet      |-> <<"FD", "FileStat">>,
     FDFileStatSetSize  |-> <<"FD", "FileSize">>]

FileReadLayout ==
    [FDFileStatSetTimes |-> <<"FD", "Timestamp", "Timestamp", "FSTFlags">>,
     FDPread            |-> <<"FD", "IOVecsPrefix", "FileSize", "Size">>,
     FDPreStatGet       |-> <<"FD", "PreStat">>,
     FDPreStatDirName   |-> <<"FD", "Bytes">>,
     FDPwrite           |-> <<"FD", "IOVecs", "FileSize", "Size">>,
     FDRead             |-> <<"FD", "IOVecsPrefix", "Size">>]

FileWriteLayout ==
    [FDReadDir  |-> <<"FD", "DirEntries", "DirCookie", "Int">>,
     FDRenumber |-> <<"FD", "FD">>,
     FDSeek     |-> <<"FD", "FileDelta", "Whence", "FileSize">>,
     FDSync     |-> <<"FD">>,
     FDTell     |-> <<"FD", "FileSize">>,
     FDWrite    |-> <<"FD", "IOVecs", "Size">>]

PathStatLayout ==
    [PathCreateDirectory  |-> <<"FD", "Bytes">>,
     PathFileStatGet      |-> <<"FD", "LookupFlags", "Bytes", "FileStat">>,
     PathFileStatSetTimes |-> <<"FD", "LookupFlags", "Bytes", "Timestamp", "Timestamp", "FSTFlags">>,
     PathLink             |-> <<"FD", "LookupFlags", "Bytes", "FD", "Bytes">>,
     PathOpen             |-> <<"FD", "LookupFlags", "Bytes", "OpenFlags", "Rights", "Rights",
                                "FDFlags", "FD">>]

PathLayout ==
    [PathReadLink        |-> <<"FD", "Bytes", "Bytes">>,
     PathRemoveDirectory |-> <<"FD", "Bytes">>,
     PathRename          |-> <<"FD", "Bytes", "FD", "Bytes">>,
     PathSymlink         |-> <<"Bytes", "FD", "Bytes">>,
     PathUnlinkFile      |-> <<"FD", "Bytes">>,
     PollOneOff          |-> <<"Subscriptions", "Events">>]

SocketIOLayout ==
    [ProcExit     |-> <<"ExitCode">>,
     ProcRaise    |-> <<"Signal">>,
     SchedYield   |-> <<>>,
     RandomGet    |-> <<"Bytes">>,
     SockAccept   |-> <<"FD", "FDFlags", "FD", "SocketAddress", "SocketAddress">>,
     SockRecv     |-> <<"FD", "IOVecsPrefix", "RIFlags", "Size", "ROFlags">>,
     SockSend     |-> <<"FD", "IOVecs", "SIFlags", "Size">>,
     SockShutdown |-> <<"FD", "SDFlags">>]

SocketLayout ==
    [SockOpen     |-> <<"ProtocolFamily", "SocketType", "Protocol", "Rights", "Rights", "FD">>,
     SockBind     |-> <<"FD", "SocketAddress", "SocketAddress">>,
     SockConnect  |-> <<"FD", "SocketAddress", "SocketAddress">>,
     SockListen   |-> <<"FD", "Int">>,
     SockSendTo   |-> <<"FD", "IOVecs", "SIFlags", "SocketAddress", "Size">>]

SocketOptionLayout ==
    [SockRecvFrom      |-> <<"FD", "IOVecsPrefix", "RIFlags", "Size", "ROFlags", "SocketAddress">>,
     SockGetOpt        |-> <<"FD", "SocketOption", "SocketOptionValue">>,
     SockSetOpt        |-> <<"FD", "SocketOption", "SocketOptionValue">>,
     SockLocalAddress  |-> <<"FD", "SocketAddress">>,
     SockRemoteAddress |-> <<"FD", "SocketAddress">>,
     SockAddressInfo   |-> <<"Bytes", "Bytes", "AddressInfo", "AddressInfos">>]

Layout == ProcessLayout @@ FileStatLayout @@ FileReadLayout @@ FileWriteLayout @@
          PathStatLayout @@ PathLayout @@ SocketIOLayout @@ SocketLayout @@ SocketOptionLayout

SyscallID == DOMAIN Layout

(* The size that a call returns, which cuts the buffers that it filled. *)
SizeField(id, args) ==
    IF "Size" \in Range(Layout[id])
    THEN args[CHOOSE i \in DOMAIN Layout[id] : Layout[id][i] = "Size"] ELSE 0

(* The errno, then the fields; of a vector that a read filled, what was read. *)
Encode(id, errno, args) ==
    EncodeAll(<<"Errno">> \o Layout[id],
              <<errno>> \o
              [i \in DOMAIN Layout[id] |->
                  IF Layout[id][i] = "IOVecsPrefix"
                  THEN EncodeIOVecsPrefix(args[i], SizeField(id, args)) ELSE args[i]])

(* Bytes after the last field are not looked at. *)
Decode(id, b) == DecodeAll(<<"Errno">> \o Layout[id], b)
=============================================================================
