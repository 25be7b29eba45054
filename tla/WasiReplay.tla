----------------------------- MODULE WasiReplay ------------------------------
(***************************************************************************)
(* A guest is run under the recorder, its log is cut or not, and the log   *)
(* is then replayed (internal/timecraft/replay.go with wasicall) or its    *)
(* standard streams are printed (internal/debug/stdio).                    *)
(*                                                                         *)
(* Two scopes: "wide", one call of any kind with any of its small values;  *)
(* "deep", several calls on the descriptors of the standard streams, which *)
(* the host answers from a table of descriptors.                           *)
(***************************************************************************)
EXTENDS WasiSystems, FiniteSets

CONSTANTS MaxDeep,      \* calls of a recording in the deep scope
          NumRecords,   \* records that stdio.Reader takes at a time (100)
          ReadSize      \* length of the buffers given to stdio.Reader

ASSUME BoundsAssumption ==
    MaxDeep \in Nat /\ NumRecords \in Nat \ {0} /\ ReadSize \in Nat \ {0}

VARIABLES
    scope,      \* "wide" or "deep"
    phase,      \* "recording", "stopped", "replaying", "printing" or "done"
    calls,      \* the calls of the recorded guest: [id, in, files, seen]
    ended,      \* how the recorded guest ended
    log,        \* the records that can be read
    files,      \* the host's descriptors: what each of them is open on
    streams,    \* the bytes of the standard streams, in order: <<stream, byte>>
    guest,      \* "same" as the recorded one, or "other"
    seen,       \* what the replayed guest has been answered, call by call
    result,     \* how the replayed guest ended
    fds,        \* Replay.stdout and .stderr, Reader.stdin, .stdout and .stderr
    printed,    \* what the replay wrote to its Stdout and Stderr
    stdio       \* the state of stdio.Reader

vars == <<scope, phase, calls, ended, log, files, streams, guest, seen, result, fds, printed, stdio>>

recorderVars == <<calls, ended, files, streams>>
replayVars == <<guest, seen, result, printed>>

-----------------------------------------------------------------------------
(* The small values of each type.                                          *)

FDs == 0..2
noneFD == Word - 1
EBADF == 1
failed == Word - 1      \* ^Size(0)

PrimitiveSamples(t) ==
    CASE t = "Bytes" -> {<<1>>, <<>>, <<2, 1>>}
      [] t \in DOMAIN RawLength -> {[i \in 1..RawLength[t] |-> 3]}
      [] OTHER -> IF Width[t] = 1 THEN {1, 2} ELSE {1, Word + 2}

(* The value of a structure with the given tag whose members have value k. *)
StructSample(t, tag, k) ==
    LET ts == Members[t] \o (IF t \in DOMAIN Variants THEN Variants[t][tag] ELSE <<>>)
        pick(u) == IF k = 1 THEN CHOOSE x \in PrimitiveSamples(u) : TRUE
                   ELSE CHOOSE x \in PrimitiveSamples(u) :
                            Cardinality(PrimitiveSamples(u)) = 1 \/
                            x # CHOOSE y \in PrimitiveSamples(u) : TRUE
    IN  [i \in DOMAIN ts |-> IF t \in DOMAIN Variants /\ i = Len(Members[t]) THEN tag
                             ELSE pick(ts[i])]

ElementSamples(t) ==
    IF t \in DOMAIN Members
    THEN {StructSample(t, tag, k) :
            tag \in IF t \in DOMAIN Variants THEN DOMAIN Variants[t] ELSE {0}, k \in 1..2}
    ELSE PrimitiveSamples(t)

Samples(t) ==
    IF t \in DOMAIN ElementType
    THEN LET es == ElementSamples(ElementType[t])
             e == CHOOSE x \in es : TRUE
         IN  {<<x>> : x \in es} \cup {<<>>, <<e, e>>}
    ELSE ElementSamples(t)

(* What the guest may give as field i: for a buffer its capacity. *)
Given(id, i) ==
    CASE Layout[id][i] = "IOVecsPrefix" -> {<<2, 1>>, <<1, 2>>, <<2>>}
      [] IsFilled(id, i) \/ id = "RandomGet" -> {1, 2}
      [] Layout[id][i] = "AddressInfo" ->       \* the host module gives no address
           {h \in Samples("AddressInfo") : TagOf("AddressInfo", h) = 0}
      [] i <= NumParams[id] /\ ~IsFilled(id, i) /\ id # "RandomGet"
           /\ Layout[id][i] \notin {"IOVecsPrefix", "AddressInfo"} -> Samples(Layout[id][i])
      [] OTHER -> {0}

(* The vectors that differ from one of them in at most one field. *)
OneChanged(n, choices(_)) ==
    LET base == [i \in 1..n |-> CHOOSE x \in choices(i) : TRUE]
    IN  {base} \cup UNION {{[base EXCEPT ![i] = x] : x \in choices(i)} : i \in 1..n}

Inputs(id) == LET g(i) == Given(id, i) IN OneChanged(Len(Layout[id]), g)

Fill(shape) == [i \in DOMAIN shape |-> [j \in 1..shape[i] |-> (i + j) % Word]]

(* What the host may answer in field i. *)
Returned(id, in, errno, i) ==
    LET t == Layout[id][i]
        vector == {j \in DOMAIN in : Layout[id][j] \in {"IOVecsPrefix", "IOVecs"}}
        size == Total(LET j == CHOOSE k \in vector : TRUE
                      IN  IF Layout[id][j] = "IOVecs" THEN Lengths(in[j]) ELSE in[j])
    IN  CASE t = "IOVecsPrefix" -> {Fill(in[i])}
          [] IsFilled(id, i) ->
               {[n |-> n, data |-> [j \in 1..in[i] |->
                    IF t = "Bytes" THEN j ELSE StructSample(ElementType[t], j % 2, j)]] :
                n \in (IF errno = ESUCCESS THEN 0 ELSE -1)..in[i]}
          [] id = "RandomGet" -> {[j \in 1..in[i] |-> j]}
          [] i <= NumParams[id] /\ t # "IOVecsPrefix" /\ ~IsFilled(id, i)
               /\ id # "RandomGet" -> {in[i]}
          [] t = "Size" -> IF errno = ESUCCESS THEN 0..size ELSE {0, failed}
          [] OTHER -> Samples(t)

(* Results that come with an error are the ones Go returns with it: any. *)
Outputs(id, in, errno) ==
    LET r(i) == Returned(id, in, errno, i) IN OneChanged(Len(Layout[id]), r)

(* What the guest is told: the host module stores the results of a call    *)
(* that succeeded, and the errno alone of one that failed.                 *)
Seen(id, errno, out) ==
    [errno |-> errno,
     results |->
        IF errno # ESUCCESS THEN <<>>
        ELSE [i \in DOMAIN Layout[id] |->
                 CASE Layout[id][i] = "IOVecsPrefix" ->
                        Take(FlattenSeq(out[i]), SizeField(id, out))
                   [] IsFilled(id, i) -> SubSeq(out[i].data, 1, out[i].n)
                   [] id = "RandomGet" -> out[i]
                   [] OTHER -> IF i <= NumParams[id] THEN 0 ELSE out[i]]]

-----------------------------------------------------------------------------
(* The host's descriptors in the deep scope (the file table of wasi-go).   *)

Free == {fd \in FDs : files[fd] = "none"}

(* The answers to a call, with what they make of the files. *)
HostAnswers(id, in) ==
    CASE id = "FDWrite" ->
           IF files[in[1]] \in {"none", "stdin"}
           THEN {[errno |-> EBADF, out |-> <<in[1], in[2], 0>>, files |-> files]}
           ELSE {[errno |-> ESUCCESS, out |-> <<in[1], in[2], n>>, files |-> files] :
                    n \in 0..Total(Lengths(in[2]))}
                \cup {[errno |-> EBADF + 1, out |-> <<in[1], in[2], failed>>, files |-> files]}
      [] id = "FDRead" ->
           IF files[in[1]] # "stdin"
           THEN {[errno |-> EBADF, out |-> <<in[1], Fill(in[2]), 0>>, files |-> files]}
           ELSE {[errno |-> ESUCCESS, out |-> <<in[1], Fill(in[2]), n>>, files |-> files] :
                    n \in 0..Total(in[2])}
      [] id = "FDClose" ->
           IF files[in[1]] = "none" THEN {[errno |-> EBADF, out |-> in, files |-> files]}
           ELSE {[errno |-> ESUCCESS, out |-> in, files |-> [files EXCEPT ![in[1]] = "none"]]}
      [] id = "FDRenumber" ->
           IF files[in[1]] = "none"
           THEN {[errno |-> EBADF, out |-> in, files |-> files]}
           ELSE {[errno |-> ESUCCESS, out |-> in,
                  files |-> [files EXCEPT ![in[2]] = files[in[1]], ![in[1]] = "none"]]}
      [] id = "SockOpen" ->
           {[errno |-> ESUCCESS, out |-> [in EXCEPT ![6] = fd],
             files |-> [files EXCEPT ![fd] = "other"]] :
                fd \in {f \in Free : \A g \in Free : f <= g}}

DeepCalls ==
    {[id |-> "FDWrite", in |-> <<fd, <<<<n>>, <<n + 1>>>>, 0>>] : fd \in FDs, n \in {Len(calls)}}
    \cup {[id |-> "FDRead", in |-> <<fd, <<1, 1>>, 0>>] : fd \in FDs}
    \cup {[id |-> "FDClose", in |-> <<fd>>] : fd \in FDs}
    \cup {[id |-> "FDRenumber", in |-> m] : m \in {p \in FDs \X FDs : p[1] # p[2]}}
    \cup {[id |-> "SockOpen", in |-> <<1, 1, 1, 1, 1, 0>>]}

(* The bytes of a read or a write that went through a standard stream. *)
Transferred(id, in, answer) ==
    LET vector == CASE id = "FDRead" -> answer.out[2] [] id = "FDWrite" -> in[2] [] OTHER -> <<>>
        stream == files[in[1]]
    IN  IF vector = <<>> \/ answer.errno # ESUCCESS \/ stream \notin {"stdin", "stdout", "stderr"}
        THEN <<>>
        ELSE LET bytes == SubSeq(FlattenSeq(vector), 1, answer.out[3])
             IN  [i \in DOMAIN bytes |-> <<stream, bytes[i]>>]

-----------------------------------------------------------------------------
Init ==
    /\ scope \in {"wide", "deep"}
    /\ phase = "recording"
    /\ calls = <<>> /\ ended = [kind |-> "none"] /\ log = <<>>
    /\ files = [fd \in FDs |-> <<"stdin", "stdout", "stderr">>[fd + 1]]
    /\ streams = <<>>
    /\ guest = "same" /\ seen = <<>> /\ result = [kind |-> "none"]
    /\ fds = [stdin |-> 0, stdout |-> 1, stderr |-> 2]
    /\ printed = [stdout |-> <<>>, stderr |-> <<>>]
    /\ stdio = [next |-> 1, buffer |-> <<>>, n |-> 0, out |-> <<>>, eof |-> FALSE]

Stop(how) == phase' = "stopped" /\ ended' = how

Limit == IF scope = "wide" THEN 1 ELSE MaxDeep

(* A call that the host answers.  The record is written once the host has  *)
(* answered; the recorder panics if it cannot be encoded.                  *)
RecordCall(id, in, answer) ==
    /\ id \in RecordsAfterCall
    /\ calls' = Append(calls, [id |-> id, in |-> in, files |-> files,
                               seen |-> Seen(id, answer.errno, answer.out)])
    /\ files' = answer.files
    /\ streams' = streams \o IF scope = "wide" THEN <<>> ELSE Transferred(id, in, answer)
    /\ IF CanRecord(id, in, answer.out)
       THEN /\ log' = Append(log, RecordOf(id, in, answer.errno, answer.out))
            /\ UNCHANGED <<phase, ended>>
       ELSE UNCHANGED log /\ Stop([kind |-> "panic"])
    /\ UNCHANGED <<scope, fds, stdio>> /\ UNCHANGED replayVars

RecordWide ==
    /\ phase = "recording" /\ scope = "wide" /\ Len(calls) < Limit
    /\ \E id \in SyscallID \ {"ProcExit", "ProcRaise"} :
       \E in \in Inputs(id), errno \in {ESUCCESS, EBADF, ENOSYS} :
       \E out \in Outputs(id, in, errno) :
           RecordCall(id, in, [errno |-> errno, out |-> out, files |-> files])

RecordDeep ==
    /\ phase = "recording" /\ scope = "deep" /\ Len(calls) < Limit
    /\ \E c \in DeepCalls : \E answer \in HostAnswers(c.id, c.in) : RecordCall(c.id, c.in, answer)

\* Mutant: ProcExit is written after the call, as the others are.
RecordProcExitLate ==
    /\ phase = "recording" /\ Len(calls) < Limit
    /\ \E code \in {0, 2} :
           /\ calls' = Append(calls, [id |-> "ProcExit", in |-> <<code>>, files |-> files, seen |-> <<>>])
           /\ Stop([kind |-> "exit", code |-> code])
    /\ UNCHANGED <<scope, log, files, streams, fds, stdio>> /\ UNCHANGED replayVars

(* ProcExit is written before the call, which panics in the sandbox.       *)
RecordProcExit ==
    /\ phase = "recording" /\ Len(calls) < Limit
    /\ \E code \in {0, 2} :
           /\ calls' = Append(calls, [id |-> "ProcExit", in |-> <<code>>, files |-> files, seen |-> <<>>])
           /\ log' = Append(log, RecordOf("ProcExit", <<code>>, ESUCCESS, <<code>>))
           /\ Stop([kind |-> "exit", code |-> code])
    /\ UNCHANGED <<scope, files, streams, fds, stdio>> /\ UNCHANGED replayVars

(* ProcRaise panics in the sandbox before it is written.                   *)
RecordProcRaise ==
    /\ phase = "recording" /\ Len(calls) < Limit
    /\ calls' = Append(calls, [id |-> "ProcRaise", in |-> <<1>>, files |-> files, seen |-> <<>>])
    /\ Stop([kind |-> "exit", code |-> 128])
    /\ UNCHANGED <<scope, log, files, streams, fds, stdio>> /\ UNCHANGED replayVars

(* The guest's entry point returns.                                        *)
GuestReturns ==
    /\ phase = "recording" /\ Stop([kind |-> "returned"])
    /\ UNCHANGED <<scope, calls, log, files, streams, fds, stdio>> /\ UNCHANGED replayVars

(* A crash of the recorder leaves a prefix of the log.                     *)
Crash ==
    /\ phase = "recording"
    /\ Stop([kind |-> "crashed"])
    /\ \E k \in 0..Len(log) : log' = SubSeq(log, 1, k)
    /\ UNCHANGED <<scope, calls, files, streams, fds, stdio>> /\ UNCHANGED replayVars

-----------------------------------------------------------------------------
(* Replay.                                                                 *)

StartReplay ==
    /\ phase = "stopped"
    /\ phase' = "replaying"
    /\ guest' \in IF scope = "wide" THEN {"same", "other"} ELSE {"same"}
    /\ UNCHANGED <<scope, log, seen, result, fds, printed, stdio>> /\ UNCHANGED recorderVars

\* Mutant: a descriptor that was moved is not followed.
TrackFDStay(id, in, errno) ==
    IF id = "FDClose"
    THEN [s \in DOMAIN fds |-> IF fds[s] = in[1] THEN noneFD ELSE fds[s]]
    ELSE fds

(* Which descriptors the replay takes for the standard streams.  The       *)
(* switches take the first case that matches.                              *)
TrackFD(id, in, errno) ==
    CASE id = "FDClose" ->
           IF in[1] = fds.stdout THEN [fds EXCEPT !.stdout = noneFD]
           ELSE IF in[1] = fds.stderr THEN [fds EXCEPT !.stderr = noneFD] ELSE fds
      [] id = "FDRenumber" ->
           IF errno # ESUCCESS THEN fds
           ELSE IF in[1] = fds.stdout THEN [fds EXCEPT !.stdout = in[2]]
           ELSE IF in[1] = fds.stderr THEN [fds EXCEPT !.stderr = in[2]] ELSE fds
      [] OTHER -> fds

(* FDWrite prints the buffers given, whatever the record says was written. *)
WriteStdio(id, in) ==
    IF id # "FDWrite" THEN printed
    ELSE IF in[1] = fds.stdout THEN [printed EXCEPT !.stdout = @ \o FlattenSeq(in[2])]
    ELSE IF in[1] = fds.stderr THEN [printed EXCEPT !.stderr = @ \o FlattenSeq(in[2])]
    ELSE printed

(* One call of the guest on the replay system.                             *)
ReplayOne(id, in) ==
    /\ \E r \in {ReplaySystem(log, Len(seen) + 1, id, in)} :
           IF r.kind = "return"
           THEN /\ seen' = Append(seen, [id |-> id, in |-> in, seen |-> Seen(id, r.errno, r.out)])
                /\ fds' = TrackFD(id, in, r.errno)
                /\ printed' = WriteStdio(id, in)
                /\ UNCHANGED <<phase, result>>
           ELSE /\ result' = r
                /\ phase' = "done"
                /\ UNCHANGED <<seen, fds, printed>>
    /\ UNCHANGED <<scope, log, guest, stdio>> /\ UNCHANGED recorderVars

(* The same guest makes the same calls as long as it is answered the same. *)
ReplaySame ==
    /\ phase = "replaying" /\ guest = "same"
    /\ Len(seen) < Len(calls)
    /\ \A i \in DOMAIN seen : seen[i].seen = calls[i].seen
    /\ LET c == calls[Len(seen) + 1] IN ReplayOne(c.id, c.in)

(* Past the calls that the recorded guest made before it was cut.          *)
ReplayBeyond ==
    /\ phase = "replaying" /\ guest = "same" /\ ended.kind \in {"crashed", "panic"}
    /\ Len(seen) = Len(calls)
    /\ ReplayOne("SchedYield", <<>>)

ReplayOther ==
    /\ phase = "replaying" /\ guest = "other" /\ Len(seen) = 0 /\ Len(calls) = 1
    /\ \/ \E in \in Inputs(calls[1].id) : ReplayOne(calls[1].id, in)
       \/ calls[1].id # "FDSync" /\ ReplayOne("FDSync", <<1>>)

ReplayReturns ==
    /\ phase = "replaying"
    /\ \/ guest = "same" /\ ended.kind = "returned" /\ Len(seen) = Len(calls)
       \/ guest = "other" /\ (Len(seen) > 0 \/ calls = <<>>)
    /\ phase' = "done" /\ result' = [kind |-> "returned"]
    /\ UNCHANGED <<scope, log, guest, seen, fds, printed, stdio>> /\ UNCHANGED recorderVars

-----------------------------------------------------------------------------
(* stdio.Reader over the same log, as the logs command makes it: all three *)
(* streams are selected, Stdin being 0 when it is not set.                 *)

(* Read starts over from the configured descriptors, unless they are gone. *)
ResetFDs(f) ==
    LET configured == [stdin |-> 0, stdout |-> 1, stderr |-> 2]
    IN  [s \in DOMAIN f |-> IF f[s] = noneFD THEN noneFD ELSE configured[s]]

StartPrint ==
    /\ phase = "stopped" /\ scope = "deep"
    /\ phase' = "printing"
    /\ fds' = ResetFDs(fds)
    /\ UNCHANGED <<scope, log, stdio>> /\ UNCHANGED recorderVars /\ UNCHANGED replayVars

(* writeIOVecs: the first size bytes of the buffers. *)
SizedBytes(iovecs, size) == Take(FlattenSeq(iovecs), size)

(* One record: s is [fds, buffer]. *)
PrintCall(s, id, d) ==
    LET f == s.fds
        Moved(to) == IF d[2] = f.stdin THEN [f EXCEPT !.stdin = to]
                     ELSE IF d[2] = f.stdout THEN [f EXCEPT !.stdout = to]
                     ELSE IF d[2] = f.stderr THEN [f EXCEPT !.stderr = to] ELSE f
    IN  CASE id = "FDClose" -> [s EXCEPT !.fds = Moved(noneFD)]
          [] id = "FDRenumber" -> IF d[1] = ESUCCESS THEN [s EXCEPT !.fds = Moved(d[3])] ELSE s
          [] id = "FDRead" ->
               IF d[2] = f.stdin THEN [s EXCEPT !.buffer = @ \o SizedBytes(d[3], d[4])] ELSE s
          [] id = "FDWrite" ->
               IF d[2] \in {f.stdout, f.stderr}
               THEN [s EXCEPT !.buffer = @ \o SizedBytes(d[3], d[4])] ELSE s
          [] OTHER -> s

PrintRecord(s, rec) == PrintCall(s, rec.id, Decode(rec.id, rec.bytes).v)

(* One turn of the loop of Read: the buffer is drained into what is left   *)
(* of the caller's slice, then the call returns or reads more records.     *)
ReadLoop ==
    /\ phase = "printing" /\ ~stdio.eof
    /\ LET room == ReadSize - stdio.n
           k == IF Len(stdio.buffer) < room THEN Len(stdio.buffer) ELSE room
           drained == [stdio EXCEPT !.out = @ \o SubSeq(stdio.buffer, 1, k), !.n = @ + k,
                                    !.buffer = SubSeq(@, k + 1, Len(@))]
           last == IF stdio.next + NumRecords - 1 < Len(log)
                   THEN stdio.next + NumRecords - 1 ELSE Len(log)
       IN  IF drained.n = ReadSize
           THEN stdio' = [drained EXCEPT !.n = 0] /\ fds' = ResetFDs(fds)
           ELSE IF Range(fds) = {noneFD} \/ stdio.next > Len(log)
           THEN stdio' = [drained EXCEPT !.eof = TRUE] /\ UNCHANGED fds
           ELSE \E read \in {FoldLeft(PrintRecord, [fds |-> fds, buffer |-> drained.buffer],
                                      SubSeq(log, stdio.next, last))} :
                    /\ stdio' = [drained EXCEPT !.buffer = read.buffer, !.next = last + 1]
                    /\ fds' = read.fds
    /\ UNCHANGED <<scope, phase, log>> /\ UNCHANGED recorderVars /\ UNCHANGED replayVars

PrintEnds ==
    /\ phase = "printing" /\ stdio.eof
    /\ phase' = "done"
    /\ UNCHANGED <<scope, log, fds, stdio>> /\ UNCHANGED recorderVars /\ UNCHANGED replayVars

Next ==
    \/ RecordWide \/ RecordDeep \/ RecordProcExit \/ RecordProcRaise \/ GuestReturns \/ Crash
    \/ StartReplay \/ ReplaySame \/ ReplayBeyond \/ ReplayOther \/ ReplayReturns
    \/ StartPrint \/ ReadLoop \/ PrintEnds

Spec == Init /\ [][Next]_vars

-----------------------------------------------------------------------------
Replayed == guest = "same" /\ phase = "done" /\ result.kind # "none"

ErrnoOf(rec) == Decode(rec.id, rec.bytes).v[1]

(* A guest that is replayed on its own log is answered, call by call, what *)
(* it was answered while it was recorded, and its calls are never taken    *)
(* for someone else's: what the encoder drops, what the recorder cuts and  *)
(* what the replay copies back make no difference to the guest.            *)
ReplayFaithful ==
    guest = "same" => /\ result.kind # "panic"
                      /\ \A i \in DOMAIN seen : seen[i].seen = calls[i].seen

(* The replay goes through every record, up to the first one whose errno   *)
(* is ENOSYS, and if there is none it ends as a guest that returned or     *)
(* exited did, or with 0 where the log ends before the guest does.         *)
ReplayEndsAtLog ==
    Replayed =>
        LET stops == {i \in DOMAIN log : ErrnoOf(log[i]) = ENOSYS}
        IN  IF stops # {}
            THEN result = ExitCall(0) /\ \A i \in stops : Len(seen) < i
            ELSE /\ Len(seen) = Cardinality({i \in DOMAIN log : log[i].id # "ProcExit"})
                 /\ result = IF \/ ended.kind = "returned"
                                 \/ (ended.kind = "exit" /\ Last(calls).id = "ProcExit")
                              THEN ended ELSE ExitCall(0)

(* A call that is answered from a record is the call that was recorded: it *)
(* has the same parameters, and if its buffers are not the ones recorded   *)
(* it still receives every byte that was.                                  *)
OnlyTheRecordedCall ==
    \A i \in DOMAIN seen :
        /\ seen[i].id = calls[i].id
        /\ \A j \in DOMAIN seen[i].in :
               Checks[seen[i].id][j] \in {"eq", "hints"} => seen[i].in[j] = calls[i].in[j]
        /\ seen[i].seen = calls[i].seen

(* The offline reader reports of each record the parameters that the guest *)
(* gave and the results that it was told.                                  *)
ReaderAgrees ==
    \A i \in DOMAIN log :
        LET c == calls[i]
            r == ReadSyscall(log[i])
            n == NumParams[c.id]
        IN  /\ r.ok
            /\ \A j \in 1..n : Checks[c.id][j] = "eq" => r.params[j] = c.in[j]
            /\ c.id # "ProcExit" =>
                 /\ r.errno = c.seen.errno
                 /\ c.seen.results # <<>> =>
                       \A j \in (n + 1)..Len(Layout[c.id]) : r.results[j - n] = c.seen.results[j]

(* No record is the beginning of another: a record that lost its end is an *)
(* error to the decoder, never a shorter call.                             *)
CutRecordIsError ==
    \A i \in DOMAIN log : \A k \in 0..(Len(log[i].bytes) - 1) :
        ~Decode(log[i].id, SubSeq(log[i].bytes, 1, k)).ok

(* What is read back from a log is what was recorded: all of it, or an     *)
(* error.  (Replaying and printing leave the log as it is: it is looked at *)
(* once, before them.)                                                     *)
ReadsBack == phase = "stopped" => ReaderAgrees /\ CutRecordIsError

Stream(s, name) ==
    LET own == SelectSeq(s, LAMBDA w : w[1] = name) IN [i \in DOMAIN own |-> own[i][2]]

(* Every write was complete, or on a descriptor that was not open. *)
CompleteWrites ==
    \A i \in DOMAIN calls :
        calls[i].id = "FDWrite" =>
            \/ calls[i].seen.errno = EBADF
            \/ /\ calls[i].seen.errno = ESUCCESS
               /\ calls[i].seen.results[3] = Len(FlattenSeq(calls[i].in[2]))

(* The calls that moved a descriptor. *)
Moves == {i \in DOMAIN calls : calls[i].id = "FDRenumber" /\ calls[i].seen.errno = ESUCCESS}

(* A whole replay prints on each stream what the guest wrote on it,        *)
(* through any sequence of closing, reopening and moving descriptors that  *)
(* moves none onto an open standard stream, if the writes were complete.   *)
StreamsReplayed ==
    (/\ Replayed /\ scope = "deep" /\ Len(log) = Len(calls) /\ CompleteWrites
     /\ \A i \in Moves : calls[i].files[calls[i].in[2]] \notin {"stdout", "stderr"})
        => \A s \in {"stdout", "stderr"} : printed[s] = Stream(streams, s)

(* stdio.Reader prints the bytes that went through the standard streams,   *)
(* in order and through any split in buffers, partial writes and closed    *)
(* descriptors included, if no write failed and no descriptor was moved.   *)
LogsShowStreams ==
    (/\ phase = "done" /\ stdio.eof /\ Len(log) = Len(calls) /\ Moves = {}
     /\ \A i \in DOMAIN calls : calls[i].id = "FDWrite" => calls[i].seen.errno # EBADF + 1)
        => stdio.out = [i \in DOMAIN streams |-> streams[i][2]]

(* Both ways to print what a guest wrote, a replay and the offline reader, *)
(* print it.                                                               *)
StreamsShown == StreamsReplayed /\ LogsShowStreams
=============================================================================
