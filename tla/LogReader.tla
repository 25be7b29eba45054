------------------------------ MODULE LogReader ------------------------------
(***************************************************************************)
(* Reading a log segment (internal/timemachine): bufferedReadSeeker        *)
(* (io.go) over the segment's file, LogReader over it (log.go), which      *)
(* reads the frame of a batch and leaves its records to be read or         *)
(* skipped, and LogRecordReader (log.go) with RecordBatch.Read             *)
(* (record_batch.go), which deliver single records.                        *)
(*                                                                         *)
(* The file is a sequence of cells: each batch has FrameCells cells of     *)
(* frame and DataCells cells of records.  A cell is identified by its      *)
(* position, so what a read returns shows where it was read from.  The     *)
(* file may end anywhere: it is renamed without having been synced, and    *)
(* readFrame and readRecords handle an unexpected end.                     *)
(* Compression and the encoding of records are left out.                   *)
(***************************************************************************)
EXTENDS Integers, Sequences

CONSTANTS
    BatchSizes,  \* the number of records of each batch
    FrameCells,  \* the size of a frame
    DataCells,   \* the size of the records of a batch
    Uses         \* how the log may be used: the program ("batches" reads the records
                 \* of each batch, "metadata" only the frames as describe does,
                 \* "records" uses a LogRecordReader as replay, trace and logs do),
                 \* whether it calls Seek, and the size of the reader's buffer

ASSUME ConstantsAssumption ==
    /\ BatchSizes \in Seq(Nat \ {0})
    /\ {FrameCells, DataCells} \subseteq Nat \ {0}
    /\ Uses \subseteq [program : {"batches", "metadata", "records"}, seeks : BOOLEAN,
                      buffer : Nat \ {0}]

VARIABLES
    use,               \* the use that is made of the reader
    size,              \* the size of the file
    input,             \* bufferedReadSeeker: [pos, buf, offset], pos the file's
    nextByteOffset,    \* of LogReader
    nextRecordOffset,  \* of LogReader
    batch,             \* the current batch (no = 0: none), the cells of its records
                       \* that are left to read and the index of the next record
    result,            \* "none", or what the last call returned; "skip": the loop
                       \* of ReadRecordBatch goes on
    holding,           \* LogRecordReader has a batch
    offset,            \* of LogRecordReader
    seekTo,            \* the target of the last Seek
    returned,          \* the batches returned since then
    delivered          \* the offsets of the records delivered since then

vars == <<use, size, input, nextByteOffset, nextRecordOffset, batch, result,
          holding, offset, seekTo, returned, delivered>>

program == use.program
BufferSize == use.buffer

NumBatches == Len(BatchSizes)
BatchCells == FrameCells + DataCells
FullSize == NumBatches * BatchCells

\* The first cell of a batch's frame and of its records.
FrameAt(b) == (b - 1) * BatchCells
DataAt(b) == FrameAt(b) + FrameCells

Cells(first, n) == [i \in 1 .. n |-> first + i - 1]

\* How many records the first batches of the log have.
recordsUpTo[b \in 0 .. NumBatches] == IF b = 0 THEN 0 ELSE recordsUpTo[b - 1] + BatchSizes[b]

\* RecordBatch.FirstOffset and NextOffset.
NextOffset(b) == recordsUpTo[b]
FirstOffset(b) == NextOffset(b - 1)

-----------------------------------------------------------------------------
(* bufferedReadSeeker *)

Least(a, b) == IF a < b THEN a ELSE b

\* What the file holds from its position on.
Left(in) == IF in.pos < size THEN size - in.pos ELSE 0

\* io.ReadFull of n cells: what is left in the buffer, then the file's.
ReadCells(in, n) ==
    LET available == in.buf \o Cells(in.pos, Left(in)) IN
    SubSeq(available, 1, Least(n, Len(available)))

\* Mutant: what was read ahead is dropped.
AfterReadUnbuffered(in, n) ==
    [pos |-> in.pos + Least(BufferSize, Left(in)), offset |-> in.offset + n, buf |-> <<>>]

\* The reader after it.  bufio.Reader refills its buffer with one read, unless
\* the rest of the request is as large as the buffer.
AfterRead(in, n) ==
    LET got == Len(ReadCells(in, n))
        rest == n - Len(in.buf)
        fill == Least(IF rest >= BufferSize THEN rest ELSE BufferSize, Left(in)) IN
    IF rest <= 0
    THEN [pos |-> in.pos, offset |-> in.offset + n, buf |-> SubSeq(in.buf, n + 1, Len(in.buf))]
    ELSE [pos |-> in.pos + fill, offset |-> in.offset + got,
          buf |-> SubSeq(Cells(in.pos, fill), Least(rest, fill) + 1, fill)]

\* Seek moves the file, and drops the buffer unless the target is in it.
SeekInput(in, to) ==
    [pos |-> to, offset |-> to,
     buf |-> IF to >= in.offset /\ to < in.offset + Len(in.buf)
             THEN SubSeq(in.buf, to - in.offset + 1, Len(in.buf))
             ELSE <<>>]

-----------------------------------------------------------------------------
(* LogReader *)

noBatch == [no |-> 0, n |-> 0, index |-> 0]

Init ==
    /\ use \in Uses
    /\ size \in 0 .. FullSize
    /\ input = [pos |-> 0, buf |-> <<>>, offset |-> 0]
    /\ nextByteOffset = 0
    /\ nextRecordOffset = 0
    /\ batch = noBatch
    /\ result = "none"
    /\ holding = FALSE
    /\ offset = 0
    /\ seekTo = 0
    /\ returned = <<>>
    /\ delivered = <<>>

\* The batches with the frame that was read; there is none if the cells are
\* not those of one frame.
Decoded(frame) == {b \in 1 .. NumBatches : frame = Cells(FrameAt(b), FrameCells)}

\* Mutant: the end of the file is not returned.
FrameErrorIgnored(frame) == IF frame = <<>> THEN "skip" ELSE "UnexpectedEOF"

FrameError(frame) ==
    IF frame = <<>> THEN "EOF"
    ELSE IF Len(frame) < FrameCells THEN "UnexpectedEOF" ELSE "garbage"

\* The program is done with the current batch.
DoneWithBatch ==
    CASE program = "metadata" -> TRUE
      [] program = "batches" -> batch.no = 0 \/ batch.index > 0
      [] program = "records" -> ~holding

\* A batch is returned when it may have the record that is sought.
Wanted(b) == NextOffset(b) >= nextRecordOffset

\* Where the next frame is read: the records that were not read are skipped.
SkipRecords == IF batch.n > 0 THEN SeekInput(input, nextByteOffset) ELSE input

\* One turn of the loop of ReadRecordBatch.  It returns the batch, or goes on
\* to the next one, and LogRecordReader.Read keeps the batch returned.
ReadRecordBatch ==
    /\ result \in {"none", "batch", "skip"}
    /\ result # "skip" => DoneWithBatch
    /\ LET frame == ReadCells(SkipRecords, FrameCells) IN
        /\ input' = AfterRead(SkipRecords, FrameCells)
        /\ \/ /\ Decoded(frame) = {}
              /\ result' = FrameError(frame)
              /\ batch' = [batch EXCEPT !.n = 0]
              /\ UNCHANGED <<nextByteOffset, nextRecordOffset, holding, offset, returned>>
           \/ \E b \in Decoded(frame) :
              /\ batch' = [no |-> b, n |-> DataCells, index |-> 0]
              /\ nextByteOffset' = nextByteOffset + BatchCells
              /\ IF Wanted(b)
                 THEN /\ result' = "batch"
                      /\ nextRecordOffset' = NextOffset(b)
                      /\ returned' = Append(returned, b)
                      /\ holding' = (program = "records" /\ NextOffset(b) >= seekTo)
                      /\ offset' = IF holding' THEN FirstOffset(b) ELSE offset
                 ELSE /\ result' = "skip"
                      /\ UNCHANGED <<nextRecordOffset, holding, offset, returned>>
    /\ UNCHANGED <<use, size, seekTo, delivered>>

\* RecordBatch.readRecords: the first access reads the records of the batch,
\* which have to match the checksum.  If the file ends where the records
\* begin, the batch looks empty.
RecordsResult ==
    LET cells == ReadCells(input, batch.n) IN
    IF batch.n = 0 \/ cells = Cells(DataAt(batch.no), DataCells) THEN "batch"
    ELSE IF cells = <<>> THEN "empty"
    ELSE IF Len(cells) < DataCells THEN "UnexpectedEOF" ELSE "garbage"

readRecords ==
    /\ input' = IF batch.n > 0 THEN AfterRead(input, batch.n) ELSE input
    /\ result' = IF RecordsResult = "empty" THEN "batch" ELSE RecordsResult

NumLeft == BatchSizes[batch.no] - batch.index

\* The program iterates over all the records of the batch.
ReadBatch ==
    /\ program = "batches"
    /\ result = "batch"
    /\ ~DoneWithBatch
    /\ readRecords
    /\ batch' = [batch EXCEPT !.n = IF RecordsResult = "empty" THEN @ ELSE 0, !.index = NumLeft]
    /\ delivered' = IF RecordsResult = "batch"
                    THEN delivered \o Cells(FirstOffset(batch.no), NumLeft) ELSE delivered
    /\ UNCHANGED <<use, size, nextByteOffset, nextRecordOffset, holding, offset, seekTo,
                   returned>>

-----------------------------------------------------------------------------
(* LogRecordReader *)

\* How many of n records that begin at the reader's offset come before the
\* one that is sought.
Skipped(n) == IF offset < seekTo THEN Least(seekTo - offset, n) ELSE 0

\* A turn of the loop of Read with a batch and a slice of max records.  The
\* batch is given up when it has fewer records left than the slice takes and
\* none of them is delivered.
Read(max) ==
    /\ program = "records"
    /\ result = "batch"
    /\ holding
    /\ readRecords
    /\ LET n == IF RecordsResult = "batch" THEN Least(max, NumLeft) ELSE 0
           skip == Skipped(n) IN
        /\ batch' = [batch EXCEPT !.n = IF RecordsResult = "empty" THEN @ ELSE 0, !.index = @ + n]
        /\ offset' = offset + n
        /\ delivered' = delivered \o Cells(FirstOffset(batch.no) + batch.index + skip, n - skip)
        /\ holding' = (n - skip > 0 \/ n = max \/ RecordsResult \notin {"batch", "empty"})
    /\ UNCHANGED <<use, size, nextByteOffset, nextRecordOffset, seekTo, returned>>

-----------------------------------------------------------------------------
(* Seek, of LogReader and of LogRecordReader *)

\* The accessors of a batch that was not read panic: its table has no bytes.
Panic ==
    /\ result' = "panic"
    /\ UNCHANGED <<use, size, input, nextByteOffset, nextRecordOffset, batch, holding,
                   offset, seekTo, returned, delivered>>

\* Seeking before the end of the current batch rewinds.
SeekReader(to) ==
    /\ IF to < NextOffset(batch.no)
       THEN /\ input' = SeekInput(input, 0)
            /\ batch' = noBatch
            /\ nextByteOffset' = 0
       ELSE UNCHANGED <<input, batch, nextByteOffset>>
    /\ nextRecordOffset' = to
    /\ seekTo' = to
    /\ result' = "none"
    /\ returned' = <<>>
    /\ delivered' = <<>>

Seek(to) ==
    /\ use.seeks
    /\ result \in {"none", "batch"}
    /\ \/ batch.no = 0 /\ Panic
       \/ /\ batch.no # 0
          /\ program # "records"
          /\ SeekReader(to)
          /\ UNCHANGED <<use, size, holding, offset>>
       \/ /\ batch.no # 0
          /\ program = "records"
          /\ to < offset \/ ~holding \/ to >= NextOffset(batch.no)
          /\ SeekReader(to)
          /\ holding' = FALSE
          /\ offset' = IF to < offset THEN 0
                       ELSE IF holding THEN NextOffset(batch.no) ELSE offset
          /\ UNCHANGED <<use, size>>
       \/ /\ batch.no # 0
          /\ program = "records"
          \* The batch that LogRecordReader holds is the one that was reset.
          /\ holding /\ offset <= to /\ to < NextOffset(batch.no)
          /\ Panic

-----------------------------------------------------------------------------
Next ==
    \/ ReadRecordBatch
    \/ ReadBatch
    \/ \E max \in 1 .. 2 : Read(max)
    \/ \E to \in 0 .. NextOffset(NumBatches) : Seek(to)

\* The program reads until it gets an error.
Spec == /\ Init /\ [][Next]_vars
        /\ WF_vars(ReadRecordBatch \/ ReadBatch \/ \E max \in 1 .. 2 : Read(max))

-----------------------------------------------------------------------------
(* Properties. *)

\* The type invariant.
TypeOK ==
    /\ use \in Uses
    /\ size \in 0 .. FullSize
    /\ input.pos \in Nat /\ input.offset \in Nat /\ Len(input.buf) <= BufferSize
    /\ nextByteOffset \in 0 .. FullSize
    /\ nextRecordOffset \in 0 .. NextOffset(NumBatches)
    /\ batch \in [no : 0 .. NumBatches, n : {0, DataCells}, index : 0 .. NextOffset(NumBatches)]
    /\ result \in {"none", "batch", "skip", "EOF", "UnexpectedEOF", "garbage", "panic"}
    /\ holding \in BOOLEAN
    /\ offset \in 0 .. NextOffset(NumBatches)
    /\ seekTo \in 0 .. NextOffset(NumBatches)

\* ReadRecordBatch returns the batches of the log in order and each once,
\* whatever was read of them, and starts no later than at the batch of the
\* record that was sought.
BatchesInOrder ==
    returned # <<>> =>
        /\ returned = Cells(Head(returned), Len(returned))
        /\ FirstOffset(Head(returned)) <= seekTo

\* The reader never decodes cells that are not those of the frame or of the
\* records it is about to read: a log that was cut short is a clean end or an
\* unexpected end of file.
NeverGarbage == result # "garbage"

\* The records delivered are those of the log from the one that was sought
\* on, without a gap and each once, across batches, short reads and Seek.
RecordsInOrder ==
    program = "records" \/ seekTo = 0 => delivered = Cells(seekTo, Len(delivered))

\* Nothing that was written completely is lost: a reader at the end of the
\* file has delivered the records of every batch that is complete in it.
CompleteAtEOF ==
    result \in {"EOF", "UnexpectedEOF"} /\ program # "metadata" /\ seekTo = 0 =>
        Len(delivered) = NextOffset(size \div BatchCells)

\* What a program reads is the log: its batches and records in order, all
\* that is complete, and nothing that is not.
LogIntact == TypeOK /\ BatchesInOrder /\ NeverGarbage /\ RecordsInOrder /\ CompleteAtEOF

\* A program that keeps reading gets to the end of the log.
ReachesEnd == ~use.seeks => <>(result \in {"EOF", "UnexpectedEOF"})
=============================================================================
