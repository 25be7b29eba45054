----------------------------- MODULE MCLogReader -----------------------------
(* Bounded instances of LogReader: three batches.                          *)
EXTENDS LogReader

ThreeBatches == <<2, 1, 3>>

\* Programs that read the records of every batch, with buffers from less than
\* a frame to more than a batch; and programs that skip records or seek, with
\* a buffer in which no skip ends.
SoundUses ==
    [program : {"batches", "records"}, seeks : {FALSE}, buffer : {1, 3, 5}]
    \cup [program : {"batches", "metadata", "records"}, seeks : {TRUE}, buffer : {1, 3}]

\* The describe command, with a buffer that holds more than a batch.
DescribeUse == [program : {"metadata"}, seeks : {FALSE}, buffer : {5}]
=============================================================================
