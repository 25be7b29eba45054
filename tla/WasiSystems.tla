----------------------------- MODULE WasiSystems -----------------------------
(***************************************************************************)
(* The systems that answer the guest's calls while they are recorded and   *)
(* while they are replayed (internal/timemachine/wasicall: syscall.go,     *)
(* record.go, replay.go, reader.go, fallback.go, exit.go).                 *)
(*                                                                         *)
(* A call of the guest is [id, in] with one entry per field of Layout[id]: *)
(* a parameter is given by its value, a buffer to fill by its capacity, a  *)
(* vector of buffers by the sequence of their lengths; the entry of a      *)
(* result is 0.  The answer of the host is [errno, out]: out holds the     *)
(* results, for a vector of buffers what they hold after the call, and for *)
(* any other buffer [n, data], the count that was returned and the data.   *)
(***************************************************************************)
EXTENDS WasiCodec

ESUCCESS == 0

CONSTANT ENOSYS

ASSUME ENOSYSAssumption == ENOSYS \in 1..(Word - 1)

-----------------------------------------------------------------------------
(* syscall.go: Params() of a call returns its first fields, Results() the  *)
(* others (a list that the call fills is a parameter, and its length a     *)
(* result).                                                                *)

ProcessParams ==
    [ArgsSizesGet |-> 0, ArgsGet |-> 0, EnvironSizesGet |-> 0, EnvironGet |-> 0,
     ClockResGet |-> 1, ClockTimeGet |-> 2, FDAdvise |-> 4, FDAllocate |-> 3, FDClose |-> 1,
     FDDataSync |-> 1, FDStatGet |-> 1, FDStatSetFlags |-> 2]

FileParams ==
    [FDStatSetRights |-> 3, FDFileStatGet |-> 1, FDFileStatSetSize |-> 2,
     FDFileStatSetTimes |-> 4, FDPread |-> 3, FDPreStatGet |-> 1, FDPreStatDirName |-> 1,
     FDPwrite |-> 3, FDRead |-> 2, FDReadDir |-> 4, FDRenumber |-> 2]

PathParams ==
    [FDSeek |-> 3, FDSync |-> 1, FDTell |-> 1, FDWrite |-> 2, PathCreateDirectory |-> 2,
     PathFileStatGet |-> 3, PathFileStatSetTimes |-> 6, PathLink |-> 5, PathOpen |-> 7,
     PathReadLink |-> 2]

SocketParams ==
    [PathRemoveDirectory |-> 2, PathRename |-> 4, PathSymlink |-> 3, PathUnlinkFile |-> 2,
     PollOneOff |-> 2, ProcExit |-> 1, ProcRaise |-> 1, SchedYield |-> 0, RandomGet |-> 1,
     SockAccept |-> 2, SockShutdown |-> 2, SockRecv |-> 3]

SocketOptionParams ==
    [SockSend |-> 3, SockOpen |-> 5, SockBind |-> 2, SockConnect |-> 2, SockListen |-> 2,
     SockSendTo |-> 4, SockRecvFrom |-> 3, SockGetOpt |-> 2, SockSetOpt |-> 3,
     SockLocalAddress |-> 1, SockRemoteAddress |-> 1, SockAddressInfo |-> 3]

NumParams == ProcessParams @@ FileParams @@ PathParams @@ SocketParams @@ SocketOptionParams

-----------------------------------------------------------------------------
(* record.go: the calls that are forwarded to the system and then written  *)
(* to the log.  ProcExit is the other way round.                           *)

RecordsFile ==
    {"ArgsSizesGet", "ArgsGet", "EnvironSizesGet", "EnvironGet", "ClockResGet",
     "ClockTimeGet", "FDAdvise", "FDAllocate", "FDClose", "FDDataSync", "FDStatGet",
     "FDStatSetFlags", "FDStatSetRights", "FDFileStatGet", "FDFileStatSetSize",
     "FDFileStatSetTimes", "FDPread", "FDPreStatGet", "FDPreStatDirName", "FDPwrite", "FDRead"}

RecordsPath ==
    {"FDReadDir", "FDRenumber", "FDSeek", "FDSync", "FDTell", "FDWrite",
     "PathCreateDirectory", "PathFileStatGet", "PathFileStatSetTimes", "PathLink", "PathOpen",
     "PathReadLink", "PathRemoveDirectory", "PathRename", "PathSymlink", "PathUnlinkFile",
     "PollOneOff", "ProcRaise", "SchedYield", "RandomGet"}

RecordsSocket ==
    {"SockAccept", "SockShutdown", "SockRecv", "SockSend", "SockOpen", "SockBind",
     "SockConnect", "SockListen", "SockSendTo", "SockRecvFrom", "SockGetOpt", "SockSetOpt",
     "SockLocalAddress", "SockRemoteAddress", "SockAddressInfo"}

RecordsAfterCall == RecordsFile \cup RecordsPath \cup RecordsSocket

(* The list that each of these calls fills, of which the first n elements are written. *)
Filled == [FDReadDir |-> 2, PathReadLink |-> 3, PollOneOff |-> 2, SockAddressInfo |-> 4]

IsFilled(id, i) == id \in DOMAIN Filled /\ Filled[id] = i

\* Mutant: the whole list is written, whatever was returned.
RecordedWhole(id, in, out, i) ==
    CASE IsFilled(id, i) -> out[i].data
      [] i <= NumParams[id] /\ Layout[id][i] # "IOVecsPrefix" /\ id # "RandomGet" -> in[i]
      [] OTHER -> out[i]

(* What the recorder gives the encoder for field i. *)
Recorded(id, in, out, i) ==
    CASE IsFilled(id, i) ->
           IF out[i].n \in 0..Len(out[i].data) THEN SubSeq(out[i].data, 1, out[i].n) ELSE <<>>
      [] i <= NumParams[id] /\ Layout[id][i] # "IOVecsPrefix" /\ id # "RandomGet"
           /\ ~IsFilled(id, i) -> in[i]
      [] OTHER -> out[i]

RecordOf(id, in, errno, out) ==
    [id |-> id,
     bytes |-> Encode(id, errno, [i \in DOMAIN Layout[id] |-> Recorded(id, in, out, i)])]

(* A subscription or an event of an unknown type cannot be encoded: the    *)
(* recorder panics after the call was made.                                *)
CanRecord(id, in, out) ==
    \A i \in DOMAIN Layout[id] :
        Layout[id][i] \in {"Subscriptions", "Events"} =>
            \A e \in Range(Recorded(id, in, out, i)) :
                Encodable(ElementType[Layout[id][i]], e)

-----------------------------------------------------------------------------
(* replay.go: how each field of the call is compared with the record: "eq" *)
(* by value, "shape" the lengths of the buffers of a vector, "fits" and    *)
(* "len" the capacity of a buffer, "hints" a structure that holds an       *)
(* address by pointer; "-" is a result.                                    *)

ProcessChecks ==
    [ArgsSizesGet |-> <<"-", "-">>, ArgsGet |-> <<"-">>, EnvironSizesGet |-> <<"-", "-">>,
     EnvironGet |-> <<"-">>, ClockResGet |-> <<"eq", "-">>, ClockTimeGet |-> <<"eq", "eq", "-">>,
     FDAdvise |-> <<"eq", "eq", "eq", "eq">>]

FileChecks ==
    [FDAllocate |-> <<"eq", "eq", "eq">>, FDClose |-> <<"eq">>, FDDataSync |-> <<"eq">>,
     FDStatGet |-> <<"eq", "-">>, FDStatSetFlags |-> <<"eq", "eq">>,
     FDStatSetRights |-> <<"eq", "eq", "eq">>]

FileStatChecks ==
    [FDFileStatGet |-> <<"eq", "-">>, FDFileStatSetSize |-> <<"eq", "eq">>,
     FDFileStatSetTimes |-> <<"eq", "eq", "eq", "eq">>,
     FDPread |-> <<"eq", "shape", "eq", "-">>, FDPreStatGet |-> <<"eq", "-">>,
     FDPreStatDirName |-> <<"eq", "-">>]

FileReadChecks ==
    [FDPwrite |-> <<"eq", "eq", "eq", "-">>, FDRead |-> <<"eq", "shape", "-">>,
     FDReadDir |-> <<"eq", "fits", "eq", "eq">>, FDRenumber |-> <<"eq", "eq">>,
     FDSeek |-> <<"eq", "eq", "eq", "-">>]

FileWriteChecks ==
    [FDSync |-> <<"eq">>, FDTell |-> <<"eq", "-">>, FDWrite |-> <<"eq", "eq", "-">>,
     PathCreateDirectory |-> <<"eq", "eq">>, PathFileStatGet |-> <<"eq", "eq", "eq", "-">>]

PathChecks ==
    [PathFileStatSetTimes |-> <<"eq", "eq", "eq", "eq", "eq", "eq">>,
     PathLink |-> <<"eq", "eq", "eq", "eq", "eq">>,
     PathOpen |-> <<"eq", "eq", "eq", "eq", "eq", "eq", "eq", "-">>,
     PathReadLink |-> <<"eq", "eq", "fits">>]

PathRenameChecks ==
    [PathRemoveDirectory |-> <<"eq", "eq">>, PathRename |-> <<"eq", "eq", "eq", "eq">>,
     PathSymlink |-> <<"eq", "eq", "eq">>, PathUnlinkFile |-> <<"eq", "eq">>,
     PollOneOff |-> <<"eq", "fits">>]

SocketChecks ==
    [ProcExit |-> <<"eq">>, ProcRaise |-> <<"eq">>, SchedYield |-> <<>>,
     RandomGet |-> <<"len">>, SockAccept |-> <<"eq", "eq", "-", "-", "-">>,
     SockShutdown |-> <<"eq", "eq">>, SockRecv |-> <<"eq", "shape", "eq", "-", "-">>]

SocketSendChecks ==
    [SockSend |-> <<"eq", "eq", "eq", "-">>, SockOpen |-> <<"eq", "eq", "eq", "eq", "eq", "-">>,
     SockBind |-> <<"eq", "eq", "-">>, SockConnect |-> <<"eq", "eq", "-">>,
     SockListen |-> <<"eq", "eq">>]

SocketOptionChecks ==
    [SockSendTo |-> <<"eq", "eq", "eq", "eq", "-">>,
     SockRecvFrom |-> <<"eq", "shape", "eq", "-", "-", "-">>, SockGetOpt |-> <<"eq", "eq", "-">>,
     SockSetOpt |-> <<"eq", "eq", "eq">>]

SocketAddressChecks ==
    [SockLocalAddress |-> <<"eq", "-">>, SockRemoteAddress |-> <<"eq", "-">>,
     SockAddressInfo |-> <<"eq", "eq", "hints", "fits">>]

Checks == ProcessChecks @@ FileChecks @@ FileStatChecks @@ FileReadChecks @@ FileWriteChecks @@
          PathChecks @@ PathRenameChecks @@ SocketChecks @@ SocketSendChecks @@
          SocketOptionChecks @@ SocketAddressChecks

\* Mutant: the buffers of a shorter vector are compared as far as they go.
EqualIovecsShapeShort(shape, prefix) ==
    \A i \in DOMAIN prefix \cap DOMAIN shape :
        IF i < Len(prefix) THEN shape[i] = Len(prefix[i]) ELSE shape[i] >= Len(prefix[i])

(* equalIovecsShapePrefix *)
EqualIovecsShapePrefix(shape, prefix) ==
    /\ Len(shape) >= Len(prefix)
    /\ \A i \in DOMAIN prefix :
           IF i < Len(prefix) THEN shape[i] = Len(prefix[i]) ELSE shape[i] >= Len(prefix[i])

(* Two hints that carry an address hold two pointers, which differ. *)
EqualHints(a, b) == a = b /\ TagOf("AddressInfo", a) = 0

FieldMatches(check, given, recorded) ==
    CASE check = "eq"    -> given = recorded
      [] check = "shape" -> EqualIovecsShapePrefix(given, recorded)
      [] check = "fits"  -> given >= Len(recorded)
      [] check = "len"   -> given = Len(recorded)
      [] check = "hints" -> EqualHints(given, recorded)
      [] check = "-"     -> TRUE

(* What the guest's buffers hold once the recorded ones are copied into them. *)
CopyIOVecs(shape, recorded) ==
    [i \in DOMAIN shape |->
        [j \in 1..shape[i] |->
            IF i \in DOMAIN recorded /\ j \in DOMAIN recorded[i] THEN recorded[i][j] ELSE 0]]

(* Replay: kind is "end" after the last record, "panic" when the record    *)
(* does not match the call, "exit" when the guest's exit is replayed.      *)
ReplayRecord(id, in, recorded, d) ==
    LET field(i) == d.v[i + 1]
    IN  IF recorded # id \/ ~d.ok \/
           ~\A i \in DOMAIN Layout[id] : FieldMatches(Checks[id][i], in[i], field(i))
        THEN [kind |-> "panic"]
        ELSE IF id = "ProcExit" THEN [kind |-> "exit", code |-> in[1]]
        ELSE [kind |-> "return", errno |-> d.v[1],
              out |-> [i \in DOMAIN Layout[id] |->
                          CASE Checks[id][i] = "shape" -> CopyIOVecs(in[i], field(i))
                            [] Checks[id][i] = "fits" -> [n |-> Len(field(i)), data |-> field(i)]
                            [] OTHER -> field(i)]]

ReplayCall(log, next, id, in) ==
    IF next > Len(log) THEN [kind |-> "end"]
    ELSE ReplayRecord(id, in, log[next].id, Decode(id, log[next].bytes))

-----------------------------------------------------------------------------
(* fallback.go: the calls that are made again on the secondary system when *)
(* the primary one answers ENOSYS.                                         *)

FallbackFile ==
    {"ArgsSizesGet", "ArgsGet", "EnvironSizesGet", "EnvironGet", "ClockResGet",
     "ClockTimeGet", "FDAdvise", "FDAllocate", "FDClose", "FDDataSync", "FDStatGet",
     "FDStatSetFlags", "FDStatSetRights", "FDFileStatGet", "FDFileStatSetSize",
     "FDFileStatSetTimes"}

FallbackPath ==
    {"FDPread", "FDPreStatGet", "FDPreStatDirName", "FDPwrite", "FDRead", "FDReadDir",
     "FDRenumber", "FDSeek", "FDSync", "FDTell", "FDWrite", "PathCreateDirectory",
     "PathFileStatGet", "PathFileStatSetTimes", "PathLink", "PathOpen", "PathReadLink",
     "PathRemoveDirectory"}

FallbackSocket ==
    {"PathRename", "PathSymlink", "PathUnlinkFile", "PollOneOff", "ProcExit", "ProcRaise",
     "SchedYield", "RandomGet", "SockAccept", "SockRecv", "SockSend", "SockShutdown",
     "SockOpen", "SockBind", "SockConnect", "SockListen", "SockSendTo", "SockRecvFrom"}

FallbackOption ==
    {"SockGetOpt", "SockSetOpt", "SockLocalAddress", "SockRemoteAddress", "SockAddressInfo"}

FallbackCalls == FallbackFile \cup FallbackPath \cup FallbackSocket \cup FallbackOption

(* exit.go: every method panics with the exit code. *)
ExitCall(code) == [kind |-> "exit", code |-> code]

(* The primary system, which answers r, and behind it one that exits with 0. *)
Fallback(id, r) ==
    IF id \in FallbackCalls /\ (r.kind = "end" \/ (r.kind = "return" /\ r.errno = ENOSYS))
    THEN ExitCall(0) ELSE r

(* The systems that ReplayRecordsModule makes. *)
ReplaySystem(log, next, id, in) == Fallback(id, ReplayCall(log, next, id, in))

-----------------------------------------------------------------------------
(* reader.go: the calls that the offline reader knows how to decode.       *)

DecodesFile ==
    {"ArgsSizesGet", "ArgsGet", "EnvironSizesGet", "EnvironGet", "ClockResGet",
     "ClockTimeGet", "FDAdvise", "FDAllocate", "FDClose", "FDDataSync", "FDStatGet",
     "FDStatSetFlags", "FDStatSetRights", "FDFileStatGet", "FDFileStatSetSize",
     "FDFileStatSetTimes", "FDPread", "FDPreStatGet", "FDPreStatDirName", "FDPwrite", "FDRead"}

DecodesPath ==
    {"FDReadDir", "FDRenumber", "FDSeek", "FDSync", "FDTell", "FDWrite",
     "PathCreateDirectory", "PathFileStatGet", "PathFileStatSetTimes", "PathLink", "PathOpen",
     "PathReadLink", "PathRemoveDirectory", "PathRename", "PathSymlink", "PathUnlinkFile",
     "PollOneOff", "ProcExit", "ProcRaise", "SchedYield", "RandomGet", "SockAccept"}

DecodesSocket ==
    {"SockRecv", "SockSend", "SockShutdown", "SockOpen", "SockBind", "SockConnect",
     "SockListen", "SockSendTo", "SockRecvFrom", "SockGetOpt", "SockSetOpt",
     "SockLocalAddress", "SockRemoteAddress", "SockAddressInfo"}

(* Decoder.Decode: the call of a record, split by Params and Results. *)
ReadSyscall(rec) ==
    LET Split(d) == [ok |-> d.ok, errno |-> d.v[1],
                     params |-> SubSeq(d.v, 2, NumParams[rec.id] + 1),
                     results |-> SubSeq(d.v, NumParams[rec.id] + 2, Len(d.v))]
    IN  IF rec.id \notin DecodesFile \cup DecodesPath \cup DecodesSocket
           \/ ~Decode(rec.id, rec.bytes).ok
        THEN [ok |-> FALSE]
        ELSE Split(Decode(rec.id, rec.bytes))
=============================================================================
