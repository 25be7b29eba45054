----------------------------- MODULE LogRecorder -----------------------------
(***************************************************************************)
(* Recording a log segment: the recorder of a guest and the end of its     *)
(* process (internal/timecraft/process.go), LogRecordWriter, LogWriter     *)
(* (internal/timemachine/log.go) and RecordBatchBuilder (record_batch.go), *)
(* and Registry.CreateLogSegment (registry.go), which hands the bytes over *)
(* a pipe to a goroutine that runs the store's CreateObject.               *)
(*                                                                         *)
(* A write is a sequence of pieces: io.Copy takes one from the pipe, then  *)
(* writes it to a temporary file.  The write returns when its last piece   *)
(* was taken, before that piece is in the file.  The file is renamed, and  *)
(* thereby becomes a segment, when the pipe is closed.  The store may fail *)
(* at any point, and the process may be killed at any point.               *)
(***************************************************************************)
EXTENDS Naturals, Sequences, SequencesExt

CONSTANTS
    BatchSize,   \* LogSpec.BatchSize
    MaxRecords,  \* bounds the records of a guest
    Pieces       \* the pieces of a write

ASSUME ConstantsAssumption == {BatchSize, MaxRecords, Pieces} \subseteq Nat \ {0}

VARIABLES
    recorded,     \* the records that WriteRecord was called with
    firstOffset,  \* of LogRecordWriter
    count,        \* of LogRecordWriter
    batch,        \* the RecordBatchBuilder: [first, n, finished]
    at,           \* where the guest's goroutine is
    exiting,      \* the flush is the one after the guest has ended
    pending,      \* what is left of the write in progress
    pipe,         \* "open", "closed" by the writer or "broken" by the reader
    copying,      \* the piece that io.Copy has taken, if any
    file,         \* what the temporary file or the segment holds
    store         \* CreateObject: "copy", "created", "failed" or "killed"

writerVars == <<recorded, firstOffset, count, batch>>
storeVars == <<copying, file, store>>
vars == <<recorded, firstOffset, count, batch, at, exiting, pending, pipe, copying, file, store>>

\* The two writes of RecordBatchBuilder.Write for n records from first on.
PiecesOf(part, first, n) ==
    [i \in 1 .. Pieces |-> [part |-> part, first |-> first, n |-> n, piece |-> i]]

Init ==
    /\ recorded = 0
    /\ firstOffset = 0
    /\ count = 0
    /\ batch = [first |-> 0, n |-> 0, finished |-> FALSE]
    /\ at = "run"
    /\ exiting = FALSE
    /\ pending = <<>>
    /\ pipe = "open"
    /\ copying = <<>>
    /\ file = <<>>
    /\ store = "copy"

-----------------------------------------------------------------------------
(* The guest's goroutine. *)

\* RecordBatchBuilder.Write of builder b: build once, then write the frame.
Write(b) ==
    /\ batch' = [b EXCEPT !.finished = TRUE]
    /\ pending' = PiecesOf("frame", b.first, b.n)
    /\ at' = "frame"

\* A batch is flushed once it reaches the configured size.
Full(n) == n >= BatchSize

\* The guest makes a host call, which is recorded.  A builder that was
\* written and not reset does not take the record.
WriteRecord ==
    /\ at = "run"
    /\ recorded < MaxRecords
    /\ \/ /\ batch.finished
          /\ at' = "panic"
          /\ UNCHANGED <<writerVars, pending>>
       \/ /\ ~batch.finished
          /\ recorded' = recorded + 1
          /\ count' = count + 1
          /\ LET b == [batch EXCEPT !.n = @ + 1] IN
             IF Full(count + 1) THEN Write(b)
             ELSE batch' = b /\ UNCHANGED <<at, pending>>
          /\ UNCHANGED firstOffset
    /\ UNCHANGED <<exiting, pipe, storeVars>>

\* The frame was written: the records follow.
FrameWritten ==
    /\ at = "frame"
    /\ pending = <<>>
    /\ pending' = PiecesOf("records", batch.first, batch.n)
    /\ at' = "records"
    /\ UNCHANGED <<writerVars, exiting, pipe, storeVars>>

\* Mutant: the offset of the next batch is not advanced.
FlushedSameOffset ==
    /\ at = "records"
    /\ pending = <<>>
    /\ UNCHANGED firstOffset
    /\ count' = 0
    /\ batch' = [first |-> firstOffset, n |-> 0, finished |-> FALSE]
    /\ at' = IF exiting THEN "close" ELSE "run"
    /\ UNCHANGED <<recorded, exiting, pending, pipe, storeVars>>

\* The end of a Flush that succeeded.
Flushed ==
    /\ at = "records"
    /\ pending = <<>>
    /\ firstOffset' = firstOffset + count
    /\ count' = 0
    /\ batch' = [first |-> firstOffset', n |-> 0, finished |-> FALSE]
    /\ at' = IF exiting THEN "close" ELSE "run"
    /\ UNCHANGED <<recorded, exiting, pending, pipe, storeVars>>

\* A write to the broken pipe returns the store's error.  The recorder turns
\* it into a panic that ends the guest; the last flush ignores it.
WriteFails ==
    /\ at \in {"frame", "records"}
    /\ pending # <<>>
    /\ pipe = "broken"
    /\ pending' = <<>>
    /\ at' = IF exiting THEN "close" ELSE "exit"
    /\ UNCHANGED <<writerVars, exiting, pipe, storeVars>>

\* The guest returns or is terminated.
Exit ==
    /\ at = "run"
    /\ at' = "exit"
    /\ UNCHANGED <<writerVars, exiting, pending, pipe, storeVars>>

\* recordWriter.Flush() once the guest has ended.
LastFlush ==
    /\ at = "exit"
    /\ exiting' = TRUE
    /\ IF count = 0 THEN at' = "close" /\ UNCHANGED <<batch, pending>> ELSE Write(batch)
    /\ UNCHANGED <<recorded, firstOffset, count, pipe, storeVars>>

\* logSegment.Close() closes the pipe and waits for the store.
Close ==
    /\ at = "close"
    /\ pipe' = IF pipe = "open" THEN "closed" ELSE pipe
    /\ at' = "wait"
    /\ UNCHANGED <<writerVars, exiting, pending, storeVars>>

CloseReturns ==
    /\ at = "wait"
    /\ store # "copy"
    /\ at' = "done"
    /\ UNCHANGED <<writerVars, exiting, pending, pipe, storeVars>>

-----------------------------------------------------------------------------
(* The goroutine of CreateLogSegment: CreateObject from the pipe. *)

CopyRead ==
    /\ store = "copy"
    /\ copying = <<>>
    /\ pending # <<>>
    /\ copying' = <<Head(pending)>>
    /\ pending' = Tail(pending)
    /\ UNCHANGED <<writerVars, at, exiting, pipe, file, store>>

CopyWrite ==
    /\ store = "copy"
    /\ copying # <<>>
    /\ file' = file \o copying
    /\ copying' = <<>>
    /\ UNCHANGED <<writerVars, at, exiting, pending, pipe, store>>

\* The end of the pipe's data: the file is renamed.
Rename ==
    /\ store = "copy"
    /\ copying = <<>>
    /\ pipe = "closed"
    /\ store' = "created"
    /\ UNCHANGED <<writerVars, at, exiting, pending, pipe, copying, file>>

\* Mutant: the error of CreateObject is not given to the pipe.
StoreFailsSilently ==
    /\ store = "copy"
    /\ store' = "failed"
    /\ copying' = <<>>
    /\ file' = <<>>
    /\ UNCHANGED <<writerVars, at, exiting, pending, pipe>>

\* CreateObject fails: it removes the file, and r.CloseWithError hands the
\* error to the writer.
StoreFails ==
    /\ store = "copy"
    /\ store' = "failed"
    /\ copying' = <<>>
    /\ file' = <<>>
    /\ pipe' = "broken"
    /\ UNCHANGED <<writerVars, at, exiting, pending>>

Kill ==
    /\ at \notin {"done", "killed"}
    /\ at' = "killed"
    /\ store' = IF store = "copy" THEN "killed" ELSE store
    /\ UNCHANGED <<writerVars, exiting, pending, pipe, copying, file>>

-----------------------------------------------------------------------------
Flush ==
    \/ FrameWritten \/ Flushed \/ WriteFails
    \/ LastFlush \/ Close \/ CloseReturns

CreateObject == CopyRead \/ CopyWrite \/ Rename

Next ==
    \/ WriteRecord
    \/ Exit
    \/ Flush
    \/ CreateObject
    \/ StoreFails
    \/ Kill

\* Both goroutines run.  No guest has to make calls or to end, and the store
\* need not fail.
Spec == /\ Init /\ [][Next]_vars
        /\ WF_vars(Flush)
        /\ WF_vars(CreateObject)

-----------------------------------------------------------------------------
(* Properties. *)

\* The type invariant: a batch never has more records than BatchSize.
TypeOK ==
    /\ recorded \in 0 .. MaxRecords
    /\ firstOffset \in 0 .. MaxRecords
    /\ count \in 0 .. BatchSize
    /\ batch \in [first : 0 .. MaxRecords, n : 0 .. BatchSize, finished : BOOLEAN]
    /\ at \in {"run", "frame", "records", "exit", "close", "wait", "done", "panic", "killed"}
    /\ exiting \in BOOLEAN
    /\ Len(pending) <= Pieces
    /\ pipe \in {"open", "closed", "broken"}
    /\ Len(copying) <= 1
    /\ store \in {"copy", "created", "failed", "killed"}

\* The log of n records: batches of BatchSize records from offset 0 on, the
\* last one with the rest, each as a frame and its records.
BatchPieces(first, n) == PiecesOf("frame", first, n) \o PiecesOf("records", first, n)

Layout(n) ==
    FlattenSeq([b \in 1 .. (n + BatchSize - 1) \div BatchSize |->
        LET first == (b - 1) * BatchSize IN
        BatchPieces(first, IF n - first < BatchSize THEN n - first ELSE BatchSize)])

\* What has reached the file is always the beginning of the log of what was
\* recorded: no batch is written twice, out of order or over a partial one,
\* also after an error and in the last flush.
FileIsPrefix == IsPrefix(file \o copying, Layout(recorded))

\* A segment that exists is complete: it has every record of the guest, in
\* the layout LogReader expects.  A guest that was killed or whose log could
\* not be written has no segment, rather than half of one.
SegmentIsComplete == store = "created" => file = Layout(recorded)

\* AddRecord's "builder must be reset before records can be added" is never
\* raised: after a failed flush no record is added.
NoPanic == at # "panic"

\* The log of a process is whole or absent, whenever and wherever writing it
\* fails.
SegmentSound == TypeOK /\ FileIsPrefix /\ SegmentIsComplete /\ NoPanic

\* The end of a guest's process does not hang on its log, whatever the store
\* does while the pipe is written, flushed and closed.
ExitReturns == at = "exit" ~> at \in {"done", "killed"}
=============================================================================
