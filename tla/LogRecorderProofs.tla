-------------------------- MODULE LogRecorderProofs --------------------------
(***************************************************************************)
(* Proofs about LogRecorder, for batches, logs and writes of any size.     *)
(*                                                                         *)
(* A log is laid out by FlattenSeq, which is defined by recursion: the     *)
(* first part shows what one more batch adds to it.  The second part is    *)
(* the inductive invariant: what is in the file, in io.Copy's hands and    *)
(* in the pipe is, at each place of the guest's goroutine, the log up to   *)
(* the current batch and what has been written of that batch.              *)
(***************************************************************************)
EXTENDS LogRecorder, WellFoundedInduction, SequenceTheorems, TLAPS

-----------------------------------------------------------------------------
(* Induction over numbers, with a set in place of a predicate; division.   *)

\* A set that has 0 and with a number the next one has all of them.
LEMMA NatSetInduction ==
    ASSUME NEW S, 0 \in S, \A n \in Nat : n \in S => n + 1 \in S
    PROVE  Nat \subseteq S
  <1> DEFINE R == OpToRel(<, Nat)
             T == Nat \ S
  <1> SUFFICES ASSUME T # {} PROVE FALSE
    OBVIOUS
  <1>1. PICK m \in T : \A n \in T : ~(<<n, m>> \in R)
    <2>1. IsWellFoundedOn(R, Nat) /\ T \subseteq Nat
      BY NatLessThanWellFounded DEF OpToRel
    <2> HIDE DEF R, T
    <2> QED
      BY <2>1, WFMin
  <1>2. \A n \in T : ~(n < m)
    BY <1>1 DEF OpToRel
  <1>3. m - 1 \in Nat /\ m - 1 \in S
    BY <1>2
  <1> QED
    BY <1>3

\* A number that is q times B, and less than B more, divided by B.
LEMMA Division ==
    ASSUME NEW B \in Nat \ {0}, NEW q \in Nat, NEW r \in 0 .. (B - 1)
    PROVE  (q * B + r) \div B = q
  <1> DEFINE a == q * B + r
             d == a \div B
  <1>1. a \in Nat /\ q * B \in Nat
    OBVIOUS
  <1>2. d \in Int /\ d * B <= a /\ a < d * B + B
    <2> HIDE DEF a
    <2> QED
      BY <1>1
  <1> HIDE DEF d
  <1>3. d * B <= q * B + r /\ q * B + r < d * B + B
    BY <1>2
  <1>4. ~(d >= q + 1)
    <2> SUFFICES ASSUME d >= q + 1 PROVE FALSE
      OBVIOUS
    <2>1. d * B >= (q + 1) * B
      BY <1>2
    <2> QED
      BY <1>2, <1>3, <2>1
  <1>5. ~(q >= d + 1)
    <2> SUFFICES ASSUME q >= d + 1 PROVE FALSE
      OBVIOUS
    <2>1. q * B >= (d + 1) * B
      BY <1>2
    <2> QED
      BY <1>2, <1>3, <2>1
  <1>6. d = q
    BY <1>2, <1>4, <1>5
  <1> QED
    BY <1>6 DEF d

-----------------------------------------------------------------------------
(* Flattening.                                                             *)

\* h accumulates the first n sequences of ss, as FlattenSeq does.
Flattens(h, ss, n) ==
    h = [i \in 1 .. n |-> IF i = 1 THEN ss[i] ELSE h[i - 1] \o ss[i]]

\* What it has at i.
LEMMA FlattensAt ==
    ASSUME NEW ss, NEW n, NEW h, Flattens(h, ss, n), NEW i \in 1 .. n
    PROVE  h[i] = IF i = 1 THEN ss[i] ELSE h[i - 1] \o ss[i]
  <1> DEFINE e == [j \in 1 .. n |-> IF j = 1 THEN ss[j] ELSE h[j - 1] \o ss[j]]
  <1>1. h = e
    BY DEF Flattens
  <1>2. e[i] = IF i = 1 THEN ss[i] ELSE h[i - 1] \o ss[i]
    OBVIOUS
  <1> HIDE DEF e
  <1> QED
    BY <1>1, <1>2

\* There is such an accumulation of any length.
LEMMA FlattensExists ==
    ASSUME NEW ss, NEW n \in Nat
    PROVE  \E h : Flattens(h, ss, n)
  <1> DEFINE S == {m \in Nat : \E h : Flattens(h, ss, m)}
  <1>1. 0 \in S
    <2>1. Flattens([i \in 1 .. 0 |-> ss[i]], ss, 0)
      BY DEF Flattens
    <2> QED
      BY <2>1
  <1>2. ASSUME NEW m \in Nat, m \in S
        PROVE  m + 1 \in S
    <2>1. PICK h : Flattens(h, ss, m)
      BY <1>2
    <2> DEFINE g == [i \in 1 .. (m + 1) |-> IF i = m + 1
                        THEN (IF i = 1 THEN ss[i] ELSE h[i - 1] \o ss[i]) ELSE h[i]]
    <2>2. ASSUME NEW i \in 1 .. (m + 1)
          PROVE  g[i] = IF i = 1 THEN ss[i] ELSE g[i - 1] \o ss[i]
      <3>1. CASE i = m + 1
        <4>1. i # 1 => g[i - 1] = h[i - 1]
          BY <3>1
        <4> QED
          BY <3>1, <4>1
      <3>2. CASE i # m + 1
        <4>1. g[i] = h[i] /\ (i # 1 => g[i - 1] = h[i - 1]) /\ i \in 1 .. m
          BY <3>2
        <4>2. h[i] = IF i = 1 THEN ss[i] ELSE h[i - 1] \o ss[i]
          BY <2>1, <4>1, FlattensAt
        <4> HIDE DEF g
        <4> QED
          BY <4>1, <4>2
      <3> QED
        BY <3>1, <3>2
    <2>3. g = [i \in 1 .. (m + 1) |-> g[i]]
      OBVIOUS
    <2> HIDE DEF g
    <2>4. Flattens(g, ss, m + 1)
      BY <2>2, <2>3 DEF Flattens
    <2> QED
      BY <2>4
  <1> HIDE DEF S
  <1>3. n \in S
    BY <1>1, <1>2, NatSetInduction
  <1> QED
    BY <1>3 DEF S

\* Accumulations of sequences that agree on the first n agree there.
LEMMA FlattensUnique ==
    ASSUME NEW n \in Nat, NEW rr, NEW ss, NEW g, NEW h,
           Flattens(g, rr, n), Flattens(h, ss, n + 1), \A i \in 1 .. n : rr[i] = ss[i]
    PROVE  \A i \in 1 .. n : g[i] = h[i]
  <1> DEFINE S == {i \in Nat : i \in 1 .. n => g[i] = h[i]}
  <1>1. 0 \in S
    OBVIOUS
  <1>2. ASSUME NEW i \in Nat, i \in S
        PROVE  i + 1 \in S
    <2> SUFFICES ASSUME i + 1 \in 1 .. n PROVE g[i + 1] = h[i + 1]
      OBVIOUS
    <2>0. (i + 1) - 1 = i /\ i + 1 \in 1 .. (n + 1)
      OBVIOUS
    <2>1. g[i + 1] = IF i + 1 = 1 THEN rr[i + 1] ELSE g[i] \o rr[i + 1]
      BY <2>0, FlattensAt
    <2>2. h[i + 1] = IF i + 1 = 1 THEN ss[i + 1] ELSE h[i] \o ss[i + 1]
      BY <2>0, FlattensAt
    <2>3. i # 0 => g[i] = h[i]
      BY <1>2
    <2> QED
      BY <2>1, <2>2, <2>3
  <1> HIDE DEF S
  <1>3. Nat \subseteq S
    BY <1>1, <1>2, NatSetInduction
  <1> QED
    BY <1>3 DEF S

\* FlattenSeq is the end of the accumulation.
LEMMA FlattenSeqIs ==
    ASSUME NEW ss, Len(ss) \in Nat, Len(ss) # 0
    PROVE  \E h : Flattens(h, ss, Len(ss)) /\ FlattenSeq(ss) = h[Len(ss)]
  <1> DEFINE c == CHOOSE h : h = [i \in 1 .. Len(ss) |-> IF i = 1 THEN ss[i] ELSE h[i - 1] \o ss[i]]
  <1>1. \E h : h = [i \in 1 .. Len(ss) |-> IF i = 1 THEN ss[i] ELSE h[i - 1] \o ss[i]]
    BY FlattensExists DEF Flattens
  <1>2. c = [i \in 1 .. Len(ss) |-> IF i = 1 THEN ss[i] ELSE c[i - 1] \o ss[i]]
    BY <1>1
  <1>3. FlattenSeq(ss) = c[Len(ss)]
    BY DEF FlattenSeq
  <1> HIDE DEF c
  <1> QED
    BY <1>2, <1>3 DEF Flattens

\* One more sequence is appended.
LEMMA FlattenSeqAppends ==
    ASSUME NEW n \in Nat \ {0}, NEW rr, NEW ss, Len(rr) = n, Len(ss) = n + 1,
           \A i \in 1 .. n : rr[i] = ss[i]
    PROVE  FlattenSeq(ss) = FlattenSeq(rr) \o ss[n + 1]
  <1>1. PICK h : Flattens(h, ss, n + 1) /\ FlattenSeq(ss) = h[n + 1]
    BY FlattenSeqIs
  <1>2. PICK g : Flattens(g, rr, n) /\ FlattenSeq(rr) = g[n]
    BY FlattenSeqIs
  <1>3. g[n] = h[n]
    BY <1>1, <1>2, FlattensUnique
  <1>4. h[n + 1] = h[n] \o ss[n + 1]
    <2> DEFINE m == n + 1
    <2>1. m \in 1 .. m /\ m # 1 /\ m - 1 = n
      OBVIOUS
    <2>2. Flattens(h, ss, m)
      BY <1>1
    <2> HIDE DEF m
    <2>3. \A i \in 1 .. m : h[i] = IF i = 1 THEN ss[i] ELSE h[i - 1] \o ss[i]
      BY <2>2, FlattensAt
    <2>4. h[m] = h[n] \o ss[m]
      BY <2>1, <2>3
    <2> QED
      BY <2>4 DEF m
  <1> QED
    BY <1>1, <1>2, <1>3, <1>4

\* The first sequence, and none.
LEMMA FlattenSeqFirst ==
    ASSUME NEW ss
    PROVE  /\ Len(ss) = 0 => FlattenSeq(ss) = ss
           /\ Len(ss) = 1 => FlattenSeq(ss) = ss[1]
  <1>1. ASSUME Len(ss) = 1
        PROVE  FlattenSeq(ss) = ss[1]
    <2>1. Len(ss) \in Nat /\ Len(ss) # 0
      BY <1>1
    <2>2. PICK h : Flattens(h, ss, Len(ss)) /\ FlattenSeq(ss) = h[Len(ss)]
      BY <2>1, FlattenSeqIs
    <2>3. 1 \in 1 .. Len(ss)
      BY <1>1
    <2>4. h[1] = ss[1]
      BY <2>2, <2>3, FlattensAt
    <2> QED
      BY <1>1, <2>2, <2>4
  <1> QED
    BY <1>1 DEF FlattenSeq

-----------------------------------------------------------------------------
(* The layout of a log.                                                    *)

\* What a write is made of.
Piece == [part : {"frame", "records"}, first : Nat, n : Nat, piece : 1 .. Pieces]

\* The two writes of a batch.
LEMMA PiecesType ==
    ASSUME NEW first \in Nat, NEW n \in Nat
    PROVE  /\ PiecesOf("frame", first, n) \in Seq(Piece) /\ Len(PiecesOf("frame", first, n)) = Pieces
           /\ PiecesOf("records", first, n) \in Seq(Piece) /\ Len(PiecesOf("records", first, n)) = Pieces
           /\ BatchPieces(first, n) \in Seq(Piece)
  <1>1. Pieces \in Nat
    BY ConstantsAssumption
  <1>2. ASSUME NEW part \in {"frame", "records"}
        PROVE  PiecesOf(part, first, n) \in Seq(Piece) /\ Len(PiecesOf(part, first, n)) = Pieces
    <2>1. \A i \in 1 .. Pieces : [part |-> part, first |-> first, n |-> n, piece |-> i] \in Piece
      BY DEF Piece
    <2>2. PiecesOf(part, first, n) \in [1 .. Pieces -> Piece]
      BY <2>1 DEF PiecesOf
    <2> QED
      BY <1>1, <2>2
  <1>3. PiecesOf("frame", first, n) \o PiecesOf("records", first, n) \in Seq(Piece)
    BY <1>2, ConcatProperties
  <1> QED
    BY <1>2, <1>3 DEF BatchPieces

\* Batch b of the log of n records.
Part(n, b) ==
    LET first == (b - 1) * BatchSize IN
    BatchPieces(first, IF n - first < BatchSize THEN n - first ELSE BatchSize)

Parts(n, q) == [b \in 1 .. q |-> Part(n, b)]

\* The log of q full batches, and of one more.
LEMMA LayoutParts ==
    ASSUME NEW q \in Nat
    PROVE  /\ Layout(q * BatchSize) = FlattenSeq(Parts(q * BatchSize, q))
           /\ \A c \in 1 .. BatchSize :
                Layout(q * BatchSize + c) = FlattenSeq(Parts(q * BatchSize + c, q + 1))
  <1>0. BatchSize \in Nat \ {0}
    BY ConstantsAssumption
  <1>1. ASSUME NEW n, NEW p, (n + BatchSize - 1) \div BatchSize = p
        PROVE  Layout(n) = FlattenSeq(Parts(n, p))
    BY <1>1 DEF Layout, Parts, Part
  <1>2. (q * BatchSize + BatchSize - 1) \div BatchSize = q
    <2>1. BatchSize - 1 \in 0 .. (BatchSize - 1)
      BY <1>0
    <2>2. q * BatchSize + BatchSize - 1 = q * BatchSize + (BatchSize - 1)
      BY <1>0
    <2> QED
      BY <1>0, <2>1, <2>2, Division
  <1>3. ASSUME NEW c \in 1 .. BatchSize
        PROVE  (q * BatchSize + c + BatchSize - 1) \div BatchSize = q + 1
    <2>1. c - 1 \in 0 .. (BatchSize - 1) /\ q + 1 \in Nat
      BY <1>0
    <2>2. q * BatchSize + c + BatchSize - 1 = (q + 1) * BatchSize + (c - 1)
      BY <1>0
    <2> QED
      BY <1>0, <2>1, <2>2, Division
  <1> QED
    BY <1>1, <1>2, <1>3

\* One more batch adds its frame and its records.
LEMMA LayoutNext ==
    ASSUME NEW q \in Nat, NEW c \in 1 .. BatchSize
    PROVE  Layout(q * BatchSize + c) = Layout(q * BatchSize) \o BatchPieces(q * BatchSize, c)
  <1> DEFINE full == q * BatchSize
             n == full + c
  <1>0. BatchSize \in Nat \ {0} /\ full \in Nat /\ n \in Nat
    BY ConstantsAssumption
  <1>1. ASSUME NEW b \in 1 .. q
        PROVE  Part(full, b) = Part(n, b)
    <2>1. (b - 1) * BatchSize + BatchSize <= full
      <3>1. (b - 1) * BatchSize + BatchSize = b * BatchSize
        BY <1>0
      <3>2. b * BatchSize <= q * BatchSize
        BY <1>0
      <3> QED
        BY <3>1, <3>2
    <2>2. (b - 1) * BatchSize \in Nat
      BY <1>0
    <2> HIDE DEF full
    <2> QED
      BY <1>0, <2>1, <2>2 DEF Part
  <1>2. Part(n, q + 1) = BatchPieces(full, c)
    <2>1. ((q + 1) - 1) * BatchSize = full
      OBVIOUS
    <2>2. n - full = c
      BY <1>0
    <2>3. (IF n - full < BatchSize THEN n - full ELSE BatchSize) = c
      BY <1>0, <2>2
    <2> HIDE DEF full, n
    <2> QED
      BY <2>1, <2>3 DEF Part
  <1>3. Layout(full) = FlattenSeq(Parts(full, q)) /\ Layout(n) = FlattenSeq(Parts(n, q + 1))
    BY LayoutParts
  <1>4. BatchPieces(full, c) \in Seq(Piece)
    BY <1>0, PiecesType
  <1> HIDE DEF full, n
  <1>5. Len(Parts(full, q)) = q /\ Len(Parts(n, q + 1)) = q + 1 /\ Parts(n, q + 1)[q + 1] = Part(n, q + 1)
    BY DEF Parts
  <1>6. FlattenSeq(Parts(n, q + 1)) = FlattenSeq(Parts(full, q)) \o Part(n, q + 1)
    <2>1. CASE q = 0
      <3>1. Len(Parts(n, q + 1)) = 1 /\ Parts(n, q + 1)[1] = Part(n, q + 1)
        BY <1>5, <2>1
      <3>2. FlattenSeq(Parts(n, q + 1)) = Part(n, q + 1)
        BY <3>1, FlattenSeqFirst
      <3>3. FlattenSeq(Parts(full, q)) = Parts(full, q)
        BY <1>5, <2>1, FlattenSeqFirst
      <3>4. Parts(full, q) = <<>>
        BY <2>1 DEF Parts
      <3> QED
        BY <1>2, <1>4, <3>2, <3>3, <3>4, ConcatEmptySeq
    <2>2. CASE q # 0
      <3>1. \A i \in 1 .. q : Parts(full, q)[i] = Parts(n, q + 1)[i]
        BY <1>1 DEF Parts
      <3>2. q \in Nat \ {0}
        BY <2>2
      <3>3. FlattenSeq(Parts(n, q + 1)) = FlattenSeq(Parts(full, q)) \o Parts(n, q + 1)[q + 1]
        BY <1>5, <3>1, <3>2, FlattenSeqAppends
      <3> QED
        BY <1>5, <3>3
    <2> QED
      BY <2>1, <2>2
  <1>7. Layout(n) = Layout(full) \o BatchPieces(full, c)
    BY <1>2, <1>3, <1>6
  <1> QED
    BY <1>7 DEF full, n

\* The log of no record is empty.
LEMMA LayoutNone == Layout(0) = <<>>
  <1>1. 0 * BatchSize = 0
    BY ConstantsAssumption
  <1>2. Layout(0) = FlattenSeq(Parts(0, 0))
    BY <1>1, LayoutParts
  <1>3. Parts(0, 0) = <<>>
    BY DEF Parts
  <1> QED
    BY <1>2, <1>3, FlattenSeqFirst

\* A log is a sequence of pieces.
LEMMA LayoutType ==
    ASSUME NEW q \in Nat
    PROVE  Layout(q * BatchSize) \in Seq(Piece)
  <1> DEFINE S == {p \in Nat : Layout(p * BatchSize) \in Seq(Piece)}
  <1>0. BatchSize \in Nat \ {0}
    BY ConstantsAssumption
  <1>1. 0 \in S
    <2>1. 0 * BatchSize = 0
      BY <1>0
    <2> QED
      BY <2>1, LayoutNone, EmptySeq
  <1>2. ASSUME NEW p \in Nat, p \in S
        PROVE  p + 1 \in S
    <2>1. (p + 1) * BatchSize = p * BatchSize + BatchSize /\ BatchSize \in 1 .. BatchSize /\ p * BatchSize \in Nat
      BY <1>0
    <2>2. Layout((p + 1) * BatchSize) = Layout(p * BatchSize) \o BatchPieces(p * BatchSize, BatchSize)
      BY <2>1, LayoutNext
    <2>3. BatchPieces(p * BatchSize, BatchSize) \in Seq(Piece)
      BY <1>0, <2>1, PiecesType
    <2>4. Layout((p + 1) * BatchSize) \in Seq(Piece)
      BY <1>2, <2>2, <2>3, ConcatProperties
    <2> QED
      BY <2>4
  <1> HIDE DEF S
  <1>3. q \in S
    BY <1>1, <1>2, NatSetInduction
  <1> QED
    BY <1>3 DEF S

-----------------------------------------------------------------------------
(* The invariant.                                                          *)

DataOK == file \in Seq(Piece) /\ copying \in Seq(Piece) /\ pending \in Seq(Piece)

\* The current batch starts after full ones.
Aligned == \E q \in Nat : firstOffset = q * BatchSize

\* LogRecordWriter and its builder agree; a batch is written when it is full
\* or when the guest has ended.
WriterInv ==
    /\ recorded = firstOffset + count
    /\ batch.first = firstOffset /\ batch.n = count
    /\ at \in {"run", "frame", "records", "exit"} => Aligned
    /\ at = "run" => ~batch.finished /\ count < BatchSize /\ ~exiting
    /\ at \in {"frame", "records"} => count > 0 /\ (~exiting => count = BatchSize)
    /\ at \in {"run", "exit", "close", "wait", "done"} => pending = <<>>

\* What each end of the pipe knows of the other one.
PipeInv ==
    /\ store = "failed" <=> pipe = "broken"
    /\ pipe = "closed" => at \in {"wait", "done", "killed"}
    /\ store = "created" => pipe = "closed"
    /\ store \in {"created", "failed"} => copying = <<>>
    /\ store = "failed" => file = <<>>
    /\ store = "killed" => at = "killed"
    /\ at = "killed" => store # "copy"

\* What was handed over: in the file, in io.Copy's hands or in the pipe.
Out == (file \o copying) \o pending

\* It is what the guest's goroutine has come to, unless the store failed.
Contents ==
    store # "failed" =>
        /\ at \in {"run", "exit"} => Out = Layout(firstOffset)
        /\ at = "frame" => Out = Layout(firstOffset) \o PiecesOf("frame", firstOffset, count)
        /\ at = "records" => Out = Layout(firstOffset) \o BatchPieces(firstOffset, count)
        /\ at \in {"close", "wait", "done"} => Out = Layout(recorded)

\* The rest is read off the invariant while the process is alive, and stays
\* as it is when it is killed.
KilledInv == at = "killed" => FileIsPrefix /\ SegmentIsComplete

IInv == TypeOK /\ DataOK /\ WriterInv /\ PipeInv /\ Contents /\ KilledInv /\ NoPanic

\* A sequence begins a longer one.
LEMMA PrefixOfConcat ==
    ASSUME NEW P, NEW u \in Seq(P), NEW v \in Seq(P)
    PROVE  IsPrefix(u, u \o v)
  <1>1. Len(u) <= Len(u \o v)
    BY ConcatProperties, LenProperties
  <1>2. SubSeq(u \o v, 1, Len(u)) = SubSeq(u, 1, Len(u))
    <2>1. CASE u = <<>>
      BY <2>1, SubSeqEmpty
    <2>2. CASE u # <<>>
      <3>1. Len(u) \in 1 .. Len(u) /\ 1 \in 1 .. Len(u)
        BY <2>2, EmptySeq
      <3> QED
        BY <3>1, SubSeqOfConcat1
    <2> QED
      BY <2>1, <2>2
  <1> QED
    BY <1>1, <1>2 DEF IsPrefix

\* The log with the current batch.
LEMMA CurrentBatch ==
    ASSUME TypeOK, WriterInv, Aligned
    PROVE  /\ firstOffset \in Nat /\ count \in Nat /\ Layout(firstOffset) \in Seq(Piece)
           /\ IF count = 0 THEN recorded = firstOffset
              ELSE Layout(recorded) = Layout(firstOffset) \o BatchPieces(firstOffset, count)
  <1>0. BatchSize \in Nat \ {0} /\ firstOffset \in Nat /\ count \in 0 .. BatchSize /\ recorded = firstOffset + count
    BY ConstantsAssumption DEF TypeOK, WriterInv
  <1>1. PICK q \in Nat : firstOffset = q * BatchSize
    BY DEF Aligned
  <1>2. Layout(firstOffset) \in Seq(Piece)
    BY <1>1, LayoutType
  <1>3. ASSUME count # 0
        PROVE  Layout(recorded) = Layout(firstOffset) \o BatchPieces(firstOffset, count)
    <2>1. count \in 1 .. BatchSize
      BY <1>0, <1>3
    <2> QED
      BY <1>0, <1>1, <2>1, LayoutNext
  <1> QED
    BY <1>0, <1>2, <1>3

\* What is in the file is the beginning of the log.
LEMMA InvPrefix == IInv => FileIsPrefix
  <1> SUFFICES ASSUME IInv PROVE FileIsPrefix
    OBVIOUS
  <1> DEFINE fc == file \o copying
             F == PiecesOf("frame", firstOffset, count)
             R == PiecesOf("records", firstOffset, count)
             L == Layout(firstOffset)
  <1>0. fc \in Seq(Piece) /\ pending \in Seq(Piece) /\ Out = fc \o pending
    BY ConcatProperties DEF IInv, DataOK, Out
  <1>c. at \in {"run", "frame", "records", "exit"} =>
            /\ firstOffset \in Nat /\ count \in Nat /\ L \in Seq(Piece)
            /\ IF count = 0 THEN recorded = firstOffset
               ELSE Layout(recorded) = L \o BatchPieces(firstOffset, count)
    BY CurrentBatch DEF IInv, WriterInv
  <1>1. CASE store = "failed"
    <2>1. fc = <<>>
      <3>1. file = <<>> /\ copying = <<>>
        BY <1>1 DEF IInv, PipeInv
      <3> QED
        BY <3>1, EmptySeq, ConcatEmptySeq
    <2>2. Len(fc) = 0 /\ SubSeq(fc, 1, 0) = <<>> /\ SubSeq(Layout(recorded), 1, 0) = <<>>
      BY <2>1, EmptySeq, SubSeqEmpty
    <2>3. Len(Layout(recorded)) \in Nat
      <3>1. PICK q \in Nat, c \in 0 .. BatchSize : recorded = q * BatchSize + c
        <4>1. BatchSize \in Nat \ {0} /\ recorded \in Nat
          BY ConstantsAssumption DEF IInv, TypeOK
        <4>2. recorded \div BatchSize \in Nat /\ recorded % BatchSize \in 0 .. BatchSize
              /\ recorded = (recorded \div BatchSize) * BatchSize + (recorded % BatchSize)
          BY <4>1
        <4> QED
          BY <4>2
      <3>2. CASE c = 0
        BY <3>1, <3>2, LayoutType, LenProperties
      <3>3. CASE c # 0
        <4>1. c \in 1 .. BatchSize /\ q * BatchSize \in Nat /\ c \in Nat
          BY <3>3, ConstantsAssumption
        <4>2. Layout(recorded) = Layout(q * BatchSize) \o BatchPieces(q * BatchSize, c)
          BY <3>1, <4>1, LayoutNext
        <4>3. Layout(q * BatchSize) \in Seq(Piece) /\ BatchPieces(q * BatchSize, c) \in Seq(Piece)
          BY <3>1, <4>1, LayoutType, PiecesType
        <4> QED
          BY <4>2, <4>3, ConcatProperties, LenProperties
      <3> QED
        BY <3>2, <3>3
    <2> HIDE DEF fc
    <2>4. IsPrefix(fc, Layout(recorded))
      BY <2>2, <2>3 DEF IsPrefix
    <2> QED
      BY <2>4 DEF FileIsPrefix, fc
  <1>2. CASE store # "failed" /\ at \in {"run", "exit"}
    <2>1. fc = L
      <3>1. pending = <<>> /\ Out = L
        BY <1>2 DEF IInv, WriterInv, Contents
      <3> QED
        BY <1>0, <3>1, ConcatEmptySeq
    <2>2. BatchPieces(firstOffset, count) \in Seq(Piece)
      BY <1>c, <1>2, PiecesType
    <2> HIDE DEF fc, L
    <2>3. IsPrefix(fc, Layout(recorded))
      <3>1. CASE count = 0
        <4>1. Layout(recorded) = fc \o <<>>
          BY <1>0, <1>c, <1>2, <2>1, <3>1, ConcatEmptySeq DEF L
        <4> QED
          BY <1>0, <4>1, PrefixOfConcat, EmptySeq
      <3>2. CASE count # 0
        BY <1>0, <1>c, <1>2, <2>1, <2>2, <3>2, PrefixOfConcat
      <3> QED
        BY <3>1, <3>2
    <2> QED
      BY <2>3 DEF FileIsPrefix, fc
  <1>3. CASE store # "failed" /\ at = "frame"
    <2>1. F \in Seq(Piece) /\ R \in Seq(Piece) /\ BatchPieces(firstOffset, count) = F \o R
      BY <1>c, <1>3, PiecesType DEF BatchPieces
    <2>2. fc \o pending = L \o F /\ Layout(recorded) = L \o (F \o R) /\ L \in Seq(Piece)
      <3>1. Out = L \o F
        BY <1>3 DEF IInv, Contents
      <3>2. count # 0
        BY <1>c, <1>3 DEF IInv, WriterInv
      <3> HIDE DEF L, fc
      <3> QED
        BY <1>0, <1>c, <1>3, <2>1, <3>1, <3>2
    <2> HIDE DEF fc, F, R, L
    <2>3. Layout(recorded) = fc \o (pending \o R)
      <3>0. L \in Seq(Piece) /\ F \in Seq(Piece) /\ R \in Seq(Piece)
        BY <2>1, <2>2
      <3>1. (L \o F) \o R = L \o (F \o R)
        BY <3>0, ConcatAssociative
      <3>2. (fc \o pending) \o R = fc \o (pending \o R)
        BY <1>0, <2>1, ConcatAssociative
      <3> QED
        BY <2>2, <3>1, <3>2
    <2>4. pending \o R \in Seq(Piece)
      BY <1>0, <2>1, ConcatProperties
    <2> QED
      BY <1>0, <2>3, <2>4, PrefixOfConcat DEF FileIsPrefix, fc
  <1>4. CASE store # "failed" /\ at \in {"records", "close", "wait", "done"}
    <2>1. Layout(recorded) = fc \o pending
      <3>1. CASE at = "records"
        <4>1. Out = L \o BatchPieces(firstOffset, count)
          BY <1>4, <3>1 DEF IInv, Contents
        <4>2. count # 0
          BY <1>c, <3>1 DEF IInv, WriterInv
        <4> HIDE DEF L, fc
        <4> QED
          BY <1>0, <1>c, <3>1, <4>1, <4>2
      <3>2. CASE at # "records"
        <4>1. Out = Layout(recorded)
          BY <1>4, <3>2 DEF IInv, Contents
        <4> HIDE DEF fc
        <4> QED
          BY <1>0, <4>1
      <3> QED
        BY <3>1, <3>2
    <2> HIDE DEF fc
    <2> QED
      BY <1>0, <2>1, PrefixOfConcat DEF FileIsPrefix, fc
  <1>5. CASE at = "killed"
    BY <1>5 DEF IInv, KilledInv
  <1> QED
    BY <1>1, <1>2, <1>3, <1>4, <1>5 DEF IInv, TypeOK, NoPanic

\* A segment that exists is the log.
LEMMA InvComplete == IInv => SegmentIsComplete
  <1> SUFFICES ASSUME IInv, store = "created" PROVE file = Layout(recorded)
    BY DEF SegmentIsComplete
  <1>1. CASE at = "killed"
    BY <1>1 DEF IInv, KilledInv, SegmentIsComplete
  <1>2. CASE at # "killed"
    <2>1. at \in {"wait", "done"} /\ copying = <<>> /\ pending = <<>> /\ Out = Layout(recorded)
      BY <1>2 DEF IInv, PipeInv, WriterInv, Contents
    <2>2. file \in Seq(Piece)
      BY DEF IInv, DataOK
    <2>3. Out = file
      BY <2>1, <2>2, ConcatEmptySeq DEF Out
    <2> QED
      BY <2>1, <2>3
  <1> QED
    BY <1>1, <1>2

\* Nothing has been recorded.
LEMMA InitInv == Init => IInv
  <1> SUFFICES ASSUME Init PROVE IInv
    OBVIOUS
  <1>0. BatchSize \in Nat \ {0} /\ MaxRecords \in Nat \ {0} /\ Pieces \in Nat \ {0}
    BY ConstantsAssumption
  <1>1. TypeOK
    <2>1. batch \in [first : 0 .. MaxRecords, n : 0 .. BatchSize, finished : BOOLEAN]
      BY <1>0 DEF Init
    <2>2. Len(pending) <= Pieces /\ Len(copying) <= 1
      BY <1>0, EmptySeq DEF Init
    <2>3. recorded \in 0 .. MaxRecords /\ firstOffset \in 0 .. MaxRecords /\ count \in 0 .. BatchSize
      BY <1>0 DEF Init
    <2>4. /\ at \in {"run", "frame", "records", "exit", "close", "wait", "done", "panic", "killed"}
          /\ pipe \in {"open", "closed", "broken"} /\ store \in {"copy", "created", "failed", "killed"}
      BY DEF Init
    <2>5. exiting \in BOOLEAN
      BY DEF Init
    <2> QED
      BY <2>1, <2>2, <2>3, <2>4, <2>5 DEF TypeOK
  <1>2. DataOK
    BY EmptySeq DEF Init, DataOK
  <1>3. WriterInv
    <2>1. Aligned
      BY <1>0 DEF Init, Aligned
    <2> QED
      BY <1>0, <2>1 DEF Init, WriterInv
  <1>4. Contents
    <2>1. Out = <<>>
      BY EmptySeq, ConcatEmptySeq DEF Init, Out
    <2> QED
      BY <2>1, LayoutNone DEF Init, Contents
  <1>5. PipeInv /\ KilledInv /\ NoPanic
    BY DEF Init, PipeInv, KilledInv, NoPanic
  <1> QED
    BY <1>1, <1>2, <1>3, <1>4, <1>5 DEF IInv

-----------------------------------------------------------------------------
(* The steps.                                                              *)

Builder == [first : 0 .. MaxRecords, n : 0 .. BatchSize, finished : BOOLEAN]

\* A builder that takes a record, and one that is written.
LEMMA BuilderSteps ==
    ASSUME NEW b \in Builder
    PROVE  /\ \A m \in 0 .. BatchSize :
                LET c == [b EXCEPT !.n = m] IN
                c \in Builder /\ c.first = b.first /\ c.n = m /\ c.finished = b.finished
           /\ LET c == [b EXCEPT !.finished = TRUE] IN
                c \in Builder /\ c.first = b.first /\ c.n = b.n /\ c.finished = TRUE
  BY DEF Builder

\* The flush of a batch with n records: what has been handed over is followed
\* by its frame.
LEMMA WriteContents ==
    ASSUME IInv, at \in {"run", "exit"}, NEW n \in Nat, UNCHANGED <<firstOffset, file, copying, store>>,
           at' = "frame", pending' = PiecesOf("frame", firstOffset, n), count' = n
    PROVE  Contents' /\ DataOK' /\ Len(pending') <= Pieces
  <1>0. file \o copying \in Seq(Piece) /\ pending = <<>> /\ firstOffset \in Nat /\ Pieces \in Nat
    BY ConcatProperties, ConstantsAssumption DEF IInv, DataOK, WriterInv, TypeOK
  <1>1. pending' \in Seq(Piece) /\ Len(pending') = Pieces
    BY <1>0, PiecesType
  <1>2. Out = file \o copying
    BY <1>0, ConcatEmptySeq DEF Out
  <1>3. ASSUME store # "failed"
        PROVE  Out' = Layout(firstOffset) \o PiecesOf("frame", firstOffset, n)
    <2>1. Out = Layout(firstOffset)
      BY <1>3 DEF IInv, Contents
    <2> QED
      BY <1>2, <2>1 DEF Out
  <1>4. Contents'
    BY <1>3 DEF Contents
  <1>5. DataOK'
    BY <1>1 DEF IInv, DataOK
  <1> QED
    BY <1>0, <1>1, <1>4, <1>5

\* A host call is recorded.
LEMMA WriteRecordInv == ASSUME IInv, WriteRecord PROVE IInv'
  <1>0. /\ at = "run" /\ ~batch.finished /\ ~exiting /\ count < BatchSize /\ pending = <<>>
        /\ recorded = firstOffset + count /\ batch.first = firstOffset /\ batch.n = count /\ Aligned
    BY DEF IInv, WriterInv, WriteRecord
  <1>t. /\ recorded \in Nat /\ firstOffset \in Nat /\ count \in Nat /\ BatchSize \in Nat \ {0} /\ MaxRecords \in Nat
        /\ recorded < MaxRecords /\ batch \in Builder
    BY ConstantsAssumption DEF IInv, TypeOK, Builder, WriteRecord
  <1>1. /\ recorded' = recorded + 1 /\ count' = count + 1
        /\ UNCHANGED <<firstOffset, exiting, pipe, file, copying, store>>
    BY <1>0 DEF WriteRecord, storeVars
  <1> DEFINE b == [batch EXCEPT !.n = @ + 1]
  <1>2. /\ b \in Builder /\ b.first = firstOffset /\ b.n = count + 1 /\ ~b.finished
        /\ [b EXCEPT !.finished = TRUE] \in Builder /\ [b EXCEPT !.finished = TRUE].first = firstOffset
        /\ [b EXCEPT !.finished = TRUE].n = count + 1
    <2>1. batch.n + 1 \in 0 .. BatchSize
      BY <1>0, <1>t
    <2>2. b \in Builder /\ b.first = batch.first /\ b.n = batch.n + 1 /\ b.finished = batch.finished
      BY <1>t, <2>1, BuilderSteps
    <2> HIDE DEF b
    <2> QED
      BY <1>0, <2>2, BuilderSteps
  <1>3. IF Full(count + 1) THEN Write(b) ELSE batch' = b /\ UNCHANGED <<at, pending>>
    BY <1>0 DEF WriteRecord
  <1> HIDE DEF b
  <1>4. batch' \in Builder /\ batch'.first = firstOffset /\ batch'.n = count'
    BY <1>1, <1>2, <1>3 DEF Write
  <1>5. KilledInv' /\ NoPanic' /\ PipeInv' /\ Aligned'
    BY <1>0, <1>1, <1>3 DEF KilledInv, NoPanic, IInv, PipeInv, Aligned, Write
  <1>6. CASE Full(count + 1)
    <2>1. at' = "frame" /\ pending' = PiecesOf("frame", firstOffset, count + 1)
      BY <1>2, <1>3, <1>6 DEF Write
    <2>2. Contents' /\ DataOK' /\ Len(pending') <= Pieces
      BY <1>0, <1>t, <1>1, <2>1, WriteContents
    <2>3. TypeOK'
      BY <1>0, <1>t, <1>1, <1>4, <2>1, <2>2 DEF IInv, TypeOK, Builder
    <2>4. WriterInv'
      BY <1>0, <1>t, <1>1, <1>4, <1>5, <1>6, <2>1 DEF WriterInv, Full
    <2> QED
      BY <1>5, <2>2, <2>3, <2>4 DEF IInv
  <1>7. CASE ~Full(count + 1)
    <2>1. at' = "run" /\ batch' = b /\ UNCHANGED pending
      BY <1>0, <1>3, <1>7
    <2>2. Contents' /\ DataOK'
      BY <1>0, <1>1, <2>1 DEF IInv, Contents, Out, DataOK
    <2>3. TypeOK'
      BY <1>0, <1>t, <1>1, <1>4, <2>1 DEF IInv, TypeOK, Builder
    <2>4. WriterInv'
      BY <1>0, <1>t, <1>1, <1>2, <1>4, <1>5, <1>7, <2>1 DEF WriterInv, Full
    <2> QED
      BY <1>5, <2>2, <2>3, <2>4 DEF IInv
  <1> QED
    BY <1>6, <1>7

\* The records of a batch follow its frame.
LEMMA FrameWrittenInv == ASSUME IInv, FrameWritten PROVE IInv'
  <1> DEFINE F == PiecesOf("frame", firstOffset, count)
             R == PiecesOf("records", firstOffset, count)
             fc == file \o copying
             L == Layout(firstOffset)
  <1>0. at = "frame" /\ pending = <<>> /\ at' = "records" /\ pending' = R
        /\ UNCHANGED <<recorded, firstOffset, count, batch, exiting, pipe, file, copying, store>>
    BY DEF FrameWritten, IInv, WriterInv, writerVars, storeVars
  <1>1. /\ firstOffset \in Nat /\ count \in Nat /\ L \in Seq(Piece) /\ Pieces \in Nat /\ fc \in Seq(Piece)
        /\ Out = fc
    <2>1. fc \in Seq(Piece)
      BY ConcatProperties DEF IInv, DataOK
    <2>2. Aligned
      BY <1>0 DEF IInv, WriterInv
    <2> QED
      BY <1>0, <2>1, <2>2, CurrentBatch, ConcatEmptySeq, ConstantsAssumption DEF IInv, Out
  <1>2. /\ F \in Seq(Piece) /\ R \in Seq(Piece) /\ Len(R) = Pieces
        /\ BatchPieces(firstOffset, count) = F \o R
    BY <1>1, PiecesType DEF BatchPieces
  <1>3. ASSUME store # "failed"
        PROVE  Out' = L \o BatchPieces(firstOffset, count)
    <2>1. fc = L \o F
      BY <1>0, <1>1, <1>3 DEF IInv, Contents
    <2>2. Out' = fc \o R
      BY <1>0 DEF Out
    <2> HIDE DEF L, F, R, fc
    <2>3. (L \o F) \o R = L \o (F \o R)
      BY <1>1, <1>2, ConcatAssociative
    <2> QED
      BY <1>2, <2>1, <2>2, <2>3
  <1>4. Contents'
    BY <1>0, <1>3 DEF Contents
  <1> HIDE DEF R
  <1>5. TypeOK' /\ DataOK'
    BY <1>0, <1>1, <1>2 DEF IInv, TypeOK, DataOK
  <1>6. WriterInv' /\ PipeInv' /\ KilledInv' /\ NoPanic'
    BY <1>0 DEF IInv, WriterInv, PipeInv, KilledInv, NoPanic, Aligned
  <1> QED
    BY <1>4, <1>5, <1>6 DEF IInv

\* The end of a flush.
LEMMA FlushedInv == ASSUME IInv, Flushed PROVE IInv'
  <1>0. /\ at = "records" /\ pending = <<>> /\ firstOffset' = firstOffset + count /\ count' = 0
        /\ batch' = [first |-> firstOffset', n |-> 0, finished |-> FALSE]
        /\ at' = IF exiting THEN "close" ELSE "run"
        /\ UNCHANGED <<recorded, exiting, pending, pipe, file, copying, store>>
    BY DEF Flushed, storeVars
  <1>t. /\ recorded \in 0 .. MaxRecords /\ firstOffset \in Nat /\ count \in Nat /\ BatchSize \in Nat \ {0}
        /\ MaxRecords \in Nat /\ exiting \in BOOLEAN
    BY ConstantsAssumption DEF IInv, TypeOK
  <1>1. recorded = firstOffset + count /\ count > 0 /\ (~exiting => count = BatchSize) /\ Aligned
    BY <1>0 DEF IInv, WriterInv
  <1>2. firstOffset' = recorded /\ firstOffset' \in 0 .. MaxRecords
    BY <1>0, <1>t, <1>1
  <1>3. batch' \in Builder /\ batch'.first = firstOffset' /\ batch'.n = count' /\ batch'.finished = FALSE
    BY <1>0, <1>t, <1>2 DEF Builder
  <1>4. TypeOK' /\ DataOK'
    BY <1>0, <1>t, <1>2, <1>3 DEF IInv, TypeOK, DataOK, Builder
  <1>5. ~exiting => Aligned'
    <2> SUFFICES ASSUME ~exiting PROVE Aligned'
      OBVIOUS
    <2>1. PICK q \in Nat : firstOffset = q * BatchSize
      BY <1>1 DEF Aligned
    <2>2. firstOffset' = (q + 1) * BatchSize
      BY <1>0, <1>t, <1>1, <2>1
    <2> QED
      BY <2>2 DEF Aligned
  <1>6. WriterInv'
    BY <1>0, <1>t, <1>1, <1>2, <1>3, <1>5 DEF WriterInv
  <1>7. Contents'
    <2>1. Layout(recorded) = Layout(firstOffset) \o BatchPieces(firstOffset, count)
      <3>1. TypeOK /\ WriterInv /\ count # 0
        BY <1>1, <1>t DEF IInv
      <3> QED
        BY <1>1, <3>1, CurrentBatch
    <2>2. Out' = Out
      BY <1>0 DEF Out
    <2> QED
      BY <1>0, <1>2, <2>1, <2>2 DEF IInv, Contents
  <1>8. PipeInv' /\ KilledInv' /\ NoPanic'
    BY <1>0 DEF IInv, PipeInv, KilledInv, NoPanic
  <1> QED
    BY <1>4, <1>6, <1>7, <1>8 DEF IInv

\* A write that fails: the store has failed.
LEMMA WriteFailsInv == ASSUME IInv, WriteFails PROVE IInv'
  <1>0. /\ at \in {"frame", "records"} /\ pipe = "broken" /\ pending' = <<>>
        /\ at' = IF exiting THEN "close" ELSE "exit"
        /\ UNCHANGED <<recorded, firstOffset, count, batch, exiting, pipe, file, copying, store>>
    BY DEF WriteFails, writerVars, storeVars
  <1>1. Pieces \in Nat /\ Len(pending') = 0 /\ pending' \in Seq(Piece)
    BY <1>0, ConstantsAssumption, EmptySeq
  <1>2. TypeOK' /\ DataOK'
    BY <1>0, <1>1 DEF IInv, TypeOK, DataOK
  <1>3. Contents'
    BY <1>0 DEF IInv, PipeInv, Contents
  <1>4. WriterInv' /\ PipeInv' /\ KilledInv' /\ NoPanic'
    BY <1>0 DEF IInv, WriterInv, PipeInv, KilledInv, NoPanic, Aligned
  <1> QED
    BY <1>2, <1>3, <1>4 DEF IInv

\* The flush after the guest has ended.
LEMMA LastFlushInv == ASSUME IInv, LastFlush PROVE IInv'
  <1>0. /\ at = "exit" /\ pending = <<>> /\ exiting' = TRUE
        /\ UNCHANGED <<recorded, firstOffset, count, pipe, file, copying, store>>
        /\ recorded = firstOffset + count /\ batch.first = firstOffset /\ batch.n = count /\ Aligned
    BY DEF LastFlush, storeVars, IInv, WriterInv
  <1>t. firstOffset \in Nat /\ count \in Nat /\ batch \in Builder
    BY DEF IInv, TypeOK, Builder
  <1>1. Aligned'
    BY <1>0 DEF Aligned
  <1>2. CASE count = 0
    <2>1. at' = "close" /\ UNCHANGED <<batch, pending>>
      BY <1>2 DEF LastFlush
    <2>2. recorded = firstOffset
      BY <1>0, <1>t, <1>2
    <2>3. TypeOK' /\ DataOK'
      BY <1>0, <2>1 DEF IInv, TypeOK, DataOK
    <2>4. Contents'
      BY <1>0, <2>1, <2>2 DEF IInv, Contents, Out
    <2>5. WriterInv' /\ PipeInv' /\ KilledInv' /\ NoPanic'
      BY <1>0, <2>1 DEF IInv, WriterInv, PipeInv, KilledInv, NoPanic
    <2> QED
      BY <2>3, <2>4, <2>5 DEF IInv
  <1>3. CASE count # 0
    <2>1. /\ at' = "frame" /\ batch' = [batch EXCEPT !.finished = TRUE]
          /\ pending' = PiecesOf("frame", firstOffset, count)
      BY <1>0, <1>3 DEF LastFlush, Write
    <2>2. batch' \in Builder /\ batch'.first = firstOffset /\ batch'.n = count
      BY <1>0, <1>t, <2>1, BuilderSteps
    <2>3. Contents' /\ DataOK' /\ Len(pending') <= Pieces
      BY <1>0, <1>t, <2>1, WriteContents
    <2>4. TypeOK'
      BY <1>0, <2>1, <2>2, <2>3 DEF IInv, TypeOK, Builder
    <2>5. WriterInv'
      BY <1>0, <1>t, <1>1, <1>3, <2>1, <2>2 DEF WriterInv
    <2>6. PipeInv' /\ KilledInv' /\ NoPanic'
      BY <1>0, <2>1 DEF IInv, PipeInv, KilledInv, NoPanic
    <2> QED
      BY <2>3, <2>4, <2>5, <2>6 DEF IInv
  <1> QED
    BY <1>2, <1>3

\* The guest ends, and the log is closed.
LEMMA CloseInv == ASSUME IInv, Exit \/ Close \/ CloseReturns PROVE IInv'
  <1>0. /\ UNCHANGED <<recorded, firstOffset, count, batch, exiting, pending, file, copying, store>>
        /\ \/ at = "run" /\ at' = "exit" /\ UNCHANGED pipe
           \/ at = "close" /\ at' = "wait" /\ pipe' = IF pipe = "open" THEN "closed" ELSE pipe
           \/ at = "wait" /\ at' = "done" /\ UNCHANGED pipe
    BY DEF Exit, Close, CloseReturns, writerVars, storeVars
  <1>1. TypeOK' /\ DataOK'
    BY <1>0 DEF IInv, TypeOK, DataOK
  <1>2. Contents'
    BY <1>0 DEF IInv, Contents, Out
  <1>3. WriterInv' /\ KilledInv' /\ NoPanic'
    BY <1>0 DEF IInv, WriterInv, KilledInv, NoPanic, Aligned
  <1>4. PipeInv'
    BY <1>0 DEF IInv, PipeInv, TypeOK
  <1> QED
    BY <1>1, <1>2, <1>3, <1>4 DEF IInv

\* io.Copy takes a piece from the pipe, or writes it to the file.
LEMMA CopyInv == ASSUME IInv, CopyRead \/ CopyWrite PROVE IInv'
  <1>0. /\ UNCHANGED <<recorded, firstOffset, count, batch, at, exiting, pipe, store>>
        /\ store = "copy" /\ at # "killed" /\ DataOK /\ Len(pending) <= Pieces /\ Pieces \in Nat
    BY ConstantsAssumption DEF CopyRead, CopyWrite, writerVars, IInv, PipeInv, TypeOK
  <1>1. DataOK' /\ Len(copying') <= 1 /\ Len(pending') <= Pieces /\ Out' = Out /\ (pending = <<>> => pending' = <<>>)
    <2>1. CASE CopyRead
      <3>1. /\ copying = <<>> /\ pending # <<>> /\ copying' = <<Head(pending)>> /\ pending' = Tail(pending)
            /\ file' = file
        BY <2>1 DEF CopyRead
      <3>2. Head(pending) \in Piece /\ Tail(pending) \in Seq(Piece) /\ Len(Tail(pending)) = Len(pending) - 1
        BY <1>0, <3>1, HeadTailProperties DEF DataOK
      <3>3. <<Head(pending)>> \in Seq(Piece) /\ Len(<<Head(pending)>>) = 1
        BY <3>2
      <3>4. <<Head(pending)>> \o Tail(pending) = pending
        BY <1>0, <3>1 DEF DataOK
      <3>5. (file \o <<Head(pending)>>) \o Tail(pending) = file \o (<<Head(pending)>> \o Tail(pending))
        BY <1>0, <3>2, <3>3, ConcatAssociative DEF DataOK
      <3>6. Out = file \o pending
        BY <1>0, <3>1, ConcatEmptySeq DEF DataOK, Out
      <3>7. Out' = Out
        BY <3>1, <3>4, <3>5, <3>6 DEF Out
      <3>8. Len(pending) \in Nat
        BY <1>0, LenProperties DEF DataOK
      <3>9. DataOK'
        BY <1>0, <3>1, <3>2, <3>3 DEF DataOK
      <3> QED
        BY <1>0, <3>1, <3>2, <3>3, <3>7, <3>8, <3>9
    <2>2. CASE CopyWrite
      <3>1. copying' = <<>> /\ file' = file \o copying /\ pending' = pending
        BY <2>2 DEF CopyWrite
      <3>2. file' \in Seq(Piece) /\ copying' \in Seq(Piece) /\ Len(copying') = 0
        BY <1>0, <3>1, ConcatProperties, EmptySeq DEF DataOK
      <3>3. file' \o copying' = file \o copying
        BY <3>1, <3>2, ConcatEmptySeq
      <3> QED
        BY <1>0, <3>1, <3>2, <3>3 DEF DataOK, Out
    <2> QED
      BY <2>1, <2>2
  <1>2. TypeOK'
    BY <1>0, <1>1 DEF IInv, TypeOK
  <1>3. WriterInv' /\ KilledInv' /\ NoPanic'
    BY <1>0, <1>1 DEF IInv, WriterInv, KilledInv, NoPanic, Aligned
  <1>4. Contents'
    BY <1>0, <1>1 DEF IInv, Contents
  <1>5. PipeInv'
    BY <1>0 DEF IInv, PipeInv
  <1> QED
    BY <1>1, <1>2, <1>3, <1>4, <1>5 DEF IInv

\* CreateObject ends, well or not, or with the process.
LEMMA StoreInv == ASSUME IInv, Rename \/ StoreFails \/ Kill PROVE IInv'
  <1>0. UNCHANGED <<recorded, firstOffset, count, batch, exiting, pending>>
    BY DEF Rename, StoreFails, Kill, writerVars
  <1>1. CASE Rename
    <2>1. /\ store = "copy" /\ copying = <<>> /\ pipe = "closed" /\ store' = "created"
          /\ UNCHANGED <<at, pipe, copying, file>>
      BY <1>1 DEF Rename
    <2>2. TypeOK' /\ DataOK' /\ Contents'
      BY <1>0, <2>1 DEF IInv, TypeOK, DataOK, Contents, Out
    <2>3. WriterInv' /\ PipeInv' /\ KilledInv' /\ NoPanic'
      BY <1>0, <2>1 DEF IInv, WriterInv, PipeInv, KilledInv, NoPanic, Aligned
    <2> QED
      BY <2>2, <2>3 DEF IInv
  <1>2. CASE StoreFails
    <2>1. /\ store = "copy" /\ store' = "failed" /\ copying' = <<>> /\ file' = <<>> /\ pipe' = "broken"
          /\ UNCHANGED at
      BY <1>2 DEF StoreFails
    <2>2. Len(copying') = 0 /\ copying' \in Seq(Piece) /\ file' \in Seq(Piece)
      BY <2>1, EmptySeq
    <2>3. TypeOK' /\ DataOK' /\ Contents'
      BY <1>0, <2>1, <2>2 DEF IInv, TypeOK, DataOK, Contents
    <2>4. WriterInv' /\ PipeInv' /\ KilledInv' /\ NoPanic'
      BY <1>0, <2>1 DEF IInv, WriterInv, PipeInv, KilledInv, NoPanic, Aligned
    <2> QED
      BY <2>3, <2>4 DEF IInv
  <1>3. CASE Kill
    <2>1. /\ at' = "killed" /\ store' = (IF store = "copy" THEN "killed" ELSE store)
          /\ UNCHANGED <<pipe, copying, file>>
      BY <1>3 DEF Kill
    <2>2. TypeOK' /\ DataOK' /\ Contents'
      BY <1>0, <2>1 DEF IInv, TypeOK, DataOK, Contents
    <2>3. WriterInv' /\ PipeInv' /\ NoPanic'
      BY <1>0, <2>1 DEF IInv, WriterInv, PipeInv, NoPanic, TypeOK
    <2>4. KilledInv'
      BY <1>0, <2>1, InvPrefix, InvComplete DEF KilledInv, FileIsPrefix, SegmentIsComplete
    <2> QED
      BY <2>2, <2>3, <2>4 DEF IInv
  <1> QED
    BY <1>1, <1>2, <1>3

\* The invariant is inductive.
LEMMA NextInv == IInv /\ [Next]_vars => IInv'
  <1> SUFFICES ASSUME IInv, [Next]_vars PROVE IInv'
    OBVIOUS
  <1>1. CASE UNCHANGED vars
    BY <1>1 DEF vars, IInv, TypeOK, DataOK, WriterInv, PipeInv, Contents, KilledInv, NoPanic, Aligned, Out,
       FileIsPrefix, SegmentIsComplete
  <1> QED
    BY <1>1, WriteRecordInv, FrameWrittenInv, FlushedInv, WriteFailsInv, LastFlushInv, CloseInv, CopyInv, StoreInv
    DEF Next, Flush, CreateObject

\* The log of a process is whole or absent: whenever the store fails or the
\* process is killed, what is in the file begins the log of what was recorded,
\* and a file that was renamed to a segment has all of it.
THEOREM SegmentSoundHolds == Spec => []SegmentSound
  <1>1. IInv => SegmentSound
    BY InvPrefix, InvComplete DEF SegmentSound, IInv
  <1> QED
    BY <1>1, InitInv, NextInv, PTL DEF Spec
=============================================================================
