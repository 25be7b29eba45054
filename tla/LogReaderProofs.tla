--------------------------- MODULE LogReaderProofs ---------------------------
(***************************************************************************)
(* Proofs about LogReader, for logs, batches, frames and buffers of any    *)
(* size: what a program reads is the log.                                  *)
(***************************************************************************)
EXTENDS LogReader, WellFoundedInduction, SequenceTheorems, TLAPS

-----------------------------------------------------------------------------
(* Induction over numbers, with a set in place of a predicate; division.   *)

\* A set that has 0 and with a number the next one has all of them.
LEMMA NatSetInduction ==
    ASSUME NEW S, 0 \in S, \A n \in Nat : n \in S => n + 1 \in S
    PROVE  Nat \subseteq S
  <1> DEFINE R == OpToRel(<, Nat)
             T == Nat \ S
  <1> SUFFICES ASSUME T # {} PROVE FALSE
    OBVIOUS
  <1>1. PICK m \in T : \A n \in T : ~(<<n, m>> \in R)
    <2>1. IsWellFoundedOn(R, Nat) /\ T \subseteq Nat
      BY NatLessThanWellFounded DEF OpToRel
    <2> HIDE DEF R, T
    <2> QED
      BY <2>1, WFMin
  <1>2. \A n \in T : ~(n < m)
    BY <1>1 DEF OpToRel
  <1>3. m - 1 \in Nat /\ m - 1 \in S
    BY <1>2
  <1> QED
    BY <1>3

\* A number that is q times B, and less than B more, divided by B.
LEMMA Division ==
    ASSUME NEW B \in Nat \ {0}, NEW q \in Nat, NEW r \in 0 .. (B - 1)
    PROVE  (q * B + r) \div B = q
  <1> DEFINE a == q * B + r
             d == a \div B
  <1>1. a \in Nat /\ q * B \in Nat
    OBVIOUS
  <1>2. d \in Int /\ d * B <= a /\ a < d * B + B
    <2> HIDE DEF a
    <2> QED
      BY <1>1
  <1> HIDE DEF d
  <1>3. d * B <= q * B + r /\ q * B + r < d * B + B
    BY <1>2
  <1>4. ~(d >= q + 1)
    <2> SUFFICES ASSUME d >= q + 1 PROVE FALSE
      OBVIOUS
    <2>1. d * B >= (q + 1) * B
      BY <1>2
    <2> QED
      BY <1>2, <1>3, <2>1
  <1>5. ~(q >= d + 1)
    <2> SUFFICES ASSUME q >= d + 1 PROVE FALSE
      OBVIOUS
    <2>1. q * B >= (d + 1) * B
      BY <1>2
    <2> QED
      BY <1>2, <1>3, <2>1
  <1>6. d = q
    BY <1>2, <1>4, <1>5
  <1> QED
    BY <1>6 DEF d

-----------------------------------------------------------------------------
(* The reader.                                                             *)

\* A use of the reader skips records when it reads frames only, or seeks.  A
\* skip then has to end behind the buffer: it moves the file even when it
\* ends in it (README, section 4).
SkipsPastBuffer == \A u \in Uses : u.program = "metadata" \/ u.seeks => u.buffer <= DataCells + 1

\* The reader at offset o, with the k cells that follow in its buffer.
Reader(o, k) == [pos |-> o + k, buf |-> Cells(o, k), offset |-> o]

\* What the reader has buffered is the part of the file from its offset to
\* the file's position.
Good(in) ==
    LET o == in.offset
        k == Len(in.buf) IN
    /\ in = Reader(o, k)
    /\ o \in Nat /\ k \in Nat
    /\ k > 0 => o + k <= size
    /\ k < BufferSize

Live == result \in {"none", "batch", "skip"}

\* The reader is behind the frame of the current batch while its records are
\* left to read, and behind the batch otherwise.
PlaceInv ==
    /\ Good(input)
    /\ nextByteOffset = FrameAt(batch.no + 1)
    /\ Live =>
        /\ input.offset <= size
        /\ IF batch.n > 0 THEN batch.no > 0 /\ input.offset = DataAt(batch.no)
           ELSE input.offset = nextByteOffset

\* The batches returned end with the current one; until there is one, the
\* batches come before the record that is sought.
OrderInv ==
    LET no == batch.no
        k == Len(returned) IN
    /\ returned \in Seq(Nat)
    /\ k = 0 => nextRecordOffset = seekTo /\ NextOffset(no) <= seekTo
    /\ k > 0 =>
        /\ nextRecordOffset = NextOffset(no) /\ seekTo <= NextOffset(no)
        /\ k <= no /\ returned = Cells(no - k + 1, k)
        /\ FirstOffset(no - k + 1) <= seekTo

\* How many records of the log before record k are to be delivered.
Over(k) == IF k <= seekTo THEN 0 ELSE k - seekTo

\* What was delivered, by each program.
BatchesInv ==
    program = "batches" =>
        /\ Live /\ batch.no > 0 /\ batch.index = 0 => batch.n > 0
        /\ batch.n > 0 /\ batch.index > 0 => size <= DataAt(batch.no)
        /\ seekTo = 0 =>
            /\ delivered = Cells(0, Len(delivered))
            /\ Live => Len(delivered) = IF batch.no = 0 THEN 0
                                        ELSE IF batch.n > 0 THEN FirstOffset(batch.no)
                                        ELSE NextOffset(batch.no)

RecordsInv ==
    /\ holding => program = "records" /\ result \notin {"none", "skip"} /\ batch.no > 0
    /\ program = "records" =>
        /\ delivered = Cells(seekTo, Len(delivered))
        /\ batch.n > 0 => batch.index = 0
        /\ holding /\ Live =>
            /\ offset = FirstOffset(batch.no) + batch.index
            /\ Len(delivered) = Over(offset)
        /\ ~holding /\ Live =>
            \/ /\ batch.n > 0 /\ size <= DataAt(batch.no)
               /\ Len(delivered) = Over(FirstOffset(batch.no))
            \/ /\ batch.n > 0 => NextOffset(batch.no) <= seekTo
               /\ Len(delivered) = Over(NextOffset(batch.no))

IndexInv ==
    /\ batch.no = 0 => batch.index = 0
    /\ batch.no > 0 => batch.index <= BatchSizes[batch.no]
    /\ result = "skip" => NextOffset(batch.no) < seekTo
    /\ ~use.seeks => seekTo = 0
    /\ program = "metadata" => delivered = <<>>
    /\ delivered \in Seq(Nat)

IInv == TypeOK /\ PlaceInv /\ OrderInv /\ BatchesInv /\ RecordsInv /\ IndexInv /\ NeverGarbage /\ CompleteAtEOF

-----------------------------------------------------------------------------
(* Sizes and offsets.                                                      *)

\* The sizes are natural numbers, none of them 0.
LEMMA Sizes ==
    /\ NumBatches \in Nat /\ FrameCells \in Nat \ {0} /\ DataCells \in Nat \ {0}
    /\ \A b \in 1 .. NumBatches : BatchSizes[b] \in Nat \ {0}
  BY ConstantsAssumption DEF NumBatches

\* The frames are one after the other; one that is whole in the file is that
\* of a batch.
LEMMA Frames ==
    /\ FrameAt(1) = 0 /\ FullSize = FrameAt(NumBatches + 1)
    /\ \A b \in Nat : /\ FrameAt(b + 1) \in Nat
                      /\ FrameAt((b + 1) + 1) = (FrameAt(b + 1) + FrameCells) + DataCells
    /\ \A b \in Nat, c \in Nat : FrameAt(b + 1) = FrameAt(c + 1) => b = c
    /\ \A b \in Nat : FrameAt(b + 1) < FullSize => b + 1 <= NumBatches
    /\ \A b \in Nat : b <= NumBatches => FrameAt(b + 1) <= FullSize
  <1>0. NumBatches \in Nat /\ FrameCells \in Nat \ {0} /\ DataCells \in Nat \ {0} /\ BatchCells \in Nat \ {0}
    BY Sizes DEF BatchCells
  <1>1. \A b \in Nat : FrameAt(b + 1) = b * BatchCells
    <2>1. \A b \in Nat : (b + 1) - 1 = b
      OBVIOUS
    <2> QED
      BY <2>1 DEF FrameAt
  <1>2. \A b \in Nat : b * BatchCells \in Nat /\ (b + 1) * BatchCells = b * BatchCells + BatchCells
    BY <1>0
  <1>3. \A b \in Nat, c \in Nat : b < c => b * BatchCells < c * BatchCells
    <2> SUFFICES ASSUME NEW b \in Nat, NEW c \in Nat, b < c
                 PROVE  b * BatchCells < c * BatchCells
      OBVIOUS
    <2>1. (b + 1) * BatchCells <= c * BatchCells
      BY <1>0
    <2> QED
      BY <1>0, <1>2, <2>1
  <1>4. FrameAt(1) = 0 /\ FullSize = FrameAt(NumBatches + 1)
    BY <1>0, <1>1 DEF FullSize, FrameAt
  <1>5. \A b \in Nat : FrameAt((b + 1) + 1) = (FrameAt(b + 1) + FrameCells) + DataCells
    <2> SUFFICES ASSUME NEW b \in Nat
                 PROVE  FrameAt((b + 1) + 1) = (FrameAt(b + 1) + FrameCells) + DataCells
      OBVIOUS
    <2>1. FrameAt((b + 1) + 1) = b * BatchCells + BatchCells
      BY <1>1, <1>2
    <2> QED
      BY <1>0, <1>1, <1>2, <2>1 DEF BatchCells
  <1>6. \A b \in Nat, c \in Nat : FrameAt(b + 1) = FrameAt(c + 1) => b = c
    <2> SUFFICES ASSUME NEW b \in Nat, NEW c \in Nat, FrameAt(b + 1) = FrameAt(c + 1)
                 PROVE  b = c
      OBVIOUS
    <2>1. b * BatchCells = c * BatchCells /\ b * BatchCells \in Nat /\ c * BatchCells \in Nat
      BY <1>1, <1>2
    <2>2. ~(b < c) /\ ~(c < b)
      <3>1. b < c => b * BatchCells < c * BatchCells
        BY <1>3
      <3>2. c < b => c * BatchCells < b * BatchCells
        BY <1>3
      <3> QED
        BY <2>1, <3>1, <3>2
    <2> QED
      BY <2>2
  <1>7. \A b \in Nat : FrameAt(b + 1) < FullSize => b + 1 <= NumBatches
    BY <1>0, <1>1, <1>2, <1>3, <1>4
  <1>8. \A b \in Nat : b <= NumBatches => FrameAt(b + 1) <= FullSize
    BY <1>0, <1>1, <1>2, <1>3, <1>4
  <1> QED
    BY <1>1, <1>2, <1>4, <1>5, <1>6, <1>7, <1>8

\* A file that ends in batch b + 1, its last cell excluded, has b whole ones.
LEMMA WholeBatches ==
    ASSUME NEW b \in Nat, NEW n \in Nat, FrameAt(b + 1) <= n, n < (FrameAt(b + 1) + FrameCells) + DataCells
    PROVE  n \div BatchCells = b
  <1>1. BatchCells \in Nat \ {0} /\ FrameCells + DataCells = BatchCells
    BY Sizes DEF BatchCells
  <1>2. FrameAt(b + 1) = b * BatchCells /\ b * BatchCells \in Nat
    <2>1. (b + 1) - 1 = b
      OBVIOUS
    <2> QED
      BY <1>1, <2>1 DEF FrameAt
  <1> DEFINE r == n - b * BatchCells
  <1>3. r \in 0 .. (BatchCells - 1) /\ n = b * BatchCells + r
    BY <1>1, <1>2, Sizes
  <1> HIDE DEF r
  <1> QED
    BY <1>1, <1>3, Division

\* The recursion of recordsUpTo, up to n batches.
Sums(h, n) == h = [b \in 0 .. n |-> IF b = 0 THEN 0 ELSE h[b - 1] + BatchSizes[b]]

\* What the recursion says of one batch.
LEMMA SumsAt ==
    ASSUME NEW n, NEW h, Sums(h, n), NEW b \in 0 .. n
    PROVE  h[b] = IF b = 0 THEN 0 ELSE h[b - 1] + BatchSizes[b]
  <1> DEFINE e == [c \in 0 .. n |-> IF c = 0 THEN 0 ELSE h[c - 1] + BatchSizes[c]]
  <1>1. h = e
    BY DEF Sums
  <1>2. e[b] = IF b = 0 THEN 0 ELSE h[b - 1] + BatchSizes[b]
    OBVIOUS
  <1> HIDE DEF e
  <1> QED
    BY <1>1, <1>2

\* A function with this recursion exists, by induction on the number of batches.
LEMMA SumsExist ==
    ASSUME NEW n \in Nat
    PROVE  \E h : Sums(h, n)
  <1> DEFINE S == {m \in Nat : \E h : Sums(h, m)}
  <1>1. 0 \in S
    <2>1. Sums([b \in 0 .. 0 |-> 0], 0)
      BY DEF Sums
    <2> QED
      BY <2>1
  <1>2. ASSUME NEW m \in Nat, m \in S
        PROVE  m + 1 \in S
    <2>1. PICK h : Sums(h, m)
      BY <1>2
    <2> DEFINE g == [b \in 0 .. (m + 1) |-> IF b = m + 1 THEN h[m] + BatchSizes[b] ELSE h[b]]
    <2>2. ASSUME NEW b \in 0 .. (m + 1)
          PROVE  g[b] = IF b = 0 THEN 0 ELSE g[b - 1] + BatchSizes[b]
      <3>1. CASE b = m + 1
        <4>1. g[b - 1] = h[m] /\ g[b] = h[m] + BatchSizes[b] /\ b # 0
          BY <3>1
        <4> HIDE DEF g
        <4> QED
          BY <4>1
      <3>2. CASE b # m + 1
        <4>1. g[b] = h[b] /\ (b # 0 => g[b - 1] = h[b - 1]) /\ b \in 0 .. m
          BY <3>2
        <4>2. h[b] = IF b = 0 THEN 0 ELSE h[b - 1] + BatchSizes[b]
          BY <2>1, <4>1, SumsAt
        <4> HIDE DEF g
        <4> QED
          BY <4>1, <4>2
      <3> QED
        BY <3>1, <3>2
    <2>3. g = [b \in 0 .. (m + 1) |-> g[b]]
      OBVIOUS
    <2> HIDE DEF g
    <2>4. Sums(g, m + 1)
      BY <2>2, <2>3 DEF Sums
    <2> QED
      BY <2>4
  <1> HIDE DEF S
  <1>3. n \in S
    BY <1>1, <1>2, NatSetInduction
  <1> QED
    BY <1>3 DEF S

\* The offsets of the batches increase.
LEMMA Offsets ==
    /\ NextOffset(0) = 0
    /\ \A b \in 1 .. NumBatches : /\ FirstOffset(b) = NextOffset(b - 1)
                                  /\ NextOffset(b) = FirstOffset(b) + BatchSizes[b]
    /\ \A b \in 0 .. NumBatches : NextOffset(b) \in Nat
    /\ \A b \in 0 .. NumBatches : NextOffset(b) <= NextOffset(NumBatches)
  <1>0. NumBatches \in Nat
    BY Sizes
  <1>1. Sums(recordsUpTo, NumBatches)
    <2> DEFINE c == CHOOSE h : h = [b \in 0 .. NumBatches |-> IF b = 0 THEN 0 ELSE h[b - 1] + BatchSizes[b]]
    <2>1. \E h : h = [b \in 0 .. NumBatches |-> IF b = 0 THEN 0 ELSE h[b - 1] + BatchSizes[b]]
      BY <1>0, SumsExist DEF Sums
    <2>2. c = [b \in 0 .. NumBatches |-> IF b = 0 THEN 0 ELSE c[b - 1] + BatchSizes[b]]
      BY <2>1
    <2>3. recordsUpTo = c
      BY DEF recordsUpTo
    <2> HIDE DEF c
    <2> QED
      BY <2>2, <2>3 DEF Sums
  <1>2. \A b \in 0 .. NumBatches : NextOffset(b) = IF b = 0 THEN 0 ELSE NextOffset(b - 1) + BatchSizes[b]
    BY <1>1, SumsAt DEF NextOffset
  <1>3. NextOffset(0) = 0
    BY <1>0, <1>2
  <1>4. \A b \in 1 .. NumBatches : NextOffset(b) = NextOffset(b - 1) + BatchSizes[b]
    BY <1>2
  <1> DEFINE S == {m \in Nat : m <= NumBatches => NextOffset(m) \in Nat}
  <1>5. 0 \in S
    BY <1>3
  <1>6. ASSUME NEW m \in Nat, m \in S PROVE m + 1 \in S
    <2> SUFFICES ASSUME m + 1 <= NumBatches PROVE NextOffset(m + 1) \in Nat
      OBVIOUS
    <2>1. m + 1 \in 1 .. NumBatches /\ (m + 1) - 1 = m /\ NextOffset(m) \in Nat
      BY <1>0, <1>6
    <2>2. NextOffset(m + 1) = NextOffset(m) + BatchSizes[m + 1]
      BY <1>4, <2>1
    <2> QED
      BY <2>1, <2>2, Sizes
  <1> DEFINE T == {m \in Nat : m <= NumBatches => NextOffset(NumBatches - m) <= NextOffset(NumBatches)}
  <1>7. \A b \in 0 .. NumBatches : NextOffset(b) \in Nat
    <2> HIDE DEF S
    <2>1. Nat \subseteq S
      BY <1>5, <1>6, NatSetInduction
    <2> QED
      BY <2>1, <1>0 DEF S
  <1> HIDE DEF S
  <1>8. 0 \in T
    <2>1. NumBatches - 0 = NumBatches /\ NumBatches \in 0 .. NumBatches
      BY <1>0
    <2> QED
      BY <1>7, <2>1
  <1>9. ASSUME NEW m \in Nat, m \in T PROVE m + 1 \in T
    <2> SUFFICES ASSUME m + 1 <= NumBatches
                 PROVE  NextOffset(NumBatches - (m + 1)) <= NextOffset(NumBatches)
      OBVIOUS
    <2> DEFINE c == NumBatches - m
    <2>1. c \in 1 .. NumBatches /\ NumBatches - (m + 1) = c - 1 /\ c - 1 \in 0 .. NumBatches
      BY <1>0
    <2>2. NextOffset(c) <= NextOffset(NumBatches)
      <3>1. m <= NumBatches
        BY <1>0
      <3> QED
        BY <1>9, <3>1
    <2> HIDE DEF c
    <2>3. NextOffset(c) = NextOffset(c - 1) + BatchSizes[c]
      BY <1>4, <2>1
    <2>4. NextOffset(c) \in Nat /\ NextOffset(c - 1) \in Nat /\ NextOffset(NumBatches) \in Nat /\ BatchSizes[c] \in Nat
      BY <1>0, <1>7, <2>1, Sizes
    <2>5. NextOffset(c - 1) <= NextOffset(NumBatches)
      BY <2>2, <2>3, <2>4
    <2> QED
      BY <2>1, <2>5
  <1>10. \A b \in 0 .. NumBatches : NextOffset(b) <= NextOffset(NumBatches)
    <2> SUFFICES ASSUME NEW b \in 0 .. NumBatches PROVE NextOffset(b) <= NextOffset(NumBatches)
      OBVIOUS
    <2> HIDE DEF T
    <2>1. Nat \subseteq T
      BY <1>8, <1>9, NatSetInduction
    <2>2. NumBatches - b \in Nat /\ NumBatches - (NumBatches - b) = b /\ NumBatches - b <= NumBatches
      BY <1>0
    <2> QED
      BY <2>1, <2>2 DEF T
  <1> QED
    BY <1>3, <1>4, <1>7, <1>10 DEF FirstOffset

-----------------------------------------------------------------------------
(* Cells.                                                                  *)

\* Cells(f, n) counts n cells from f on.
LEMMA CellsAre ==
    ASSUME NEW f \in Nat, NEW n \in Nat
    PROVE  /\ Cells(f, n) \in Seq(Nat) /\ Len(Cells(f, n)) = n
           /\ \A i \in 1 .. n : Cells(f, n)[i] = f + i - 1
           /\ n = 0 <=> Cells(f, n) = <<>>
  <1>1. Cells(f, n) \in [1 .. n -> Nat]
    BY DEF Cells
  <1>2. Cells(f, n) \in Seq(Nat) /\ Len(Cells(f, n)) = n
    BY <1>1
  <1>3. \A i \in 1 .. n : Cells(f, n)[i] = f + i - 1
    BY DEF Cells
  <1>4. n = 0 <=> Cells(f, n) = <<>>
    BY <1>2, EmptySeq
  <1> QED
    BY <1>2, <1>3, <1>4

\* A sequence that counts from f is Cells(f, n).
LEMMA CellsIs ==
    ASSUME NEW f \in Nat, NEW n \in Nat, NEW s \in Seq(Nat), Len(s) = n, \A i \in 1 .. n : s[i] = f + i - 1
    PROVE  s = Cells(f, n)
  <1>1. Cells(f, n) \in Seq(Nat) /\ Len(Cells(f, n)) = n /\ \A i \in 1 .. n : Cells(f, n)[i] = f + i - 1
    BY CellsAre
  <1> QED
    BY <1>1, SeqEqual

\* Cells that follow each other are one run of cells.
LEMMA CellsConcat ==
    ASSUME NEW f \in Nat, NEW m \in Nat, NEW n \in Nat
    PROVE  Cells(f, m) \o Cells(f + m, n) = Cells(f, m + n)
  <1> DEFINE s == Cells(f, m)
             t == Cells(f + m, n)
  <1>0. f + m \in Nat /\ m + n \in Nat
    OBVIOUS
  <1>1. /\ s \in Seq(Nat) /\ Len(s) = m /\ \A i \in 1 .. m : s[i] = f + i - 1
        /\ t \in Seq(Nat) /\ Len(t) = n /\ \A i \in 1 .. n : t[i] = f + m + i - 1
    BY <1>0, CellsAre
  <1> HIDE DEF s, t
  <1>2. s \o t \in Seq(Nat) /\ Len(s \o t) = m + n
    BY <1>1, ConcatProperties
  <1>3. ASSUME NEW i \in 1 .. (m + n) PROVE (s \o t)[i] = f + i - 1
    <2>1. (s \o t)[i] = IF i <= Len(s) THEN s[i] ELSE t[i - Len(s)]
      BY <1>1, ConcatProperties
    <2> QED
      BY <1>1, <2>1
  <1>4. s \o t = Cells(f, m + n)
    BY <1>0, <1>2, <1>3, CellsIs
  <1> QED
    BY <1>4 DEF s, t

\* A part of a run of cells is a run of cells.
LEMMA CellsSubSeq ==
    ASSUME NEW f \in Nat, NEW n \in Nat, NEW i \in 0 .. n, NEW j \in i .. n
    PROVE  SubSeq(Cells(f, n), i + 1, j) = Cells(f + i, j - i)
  <1> DEFINE s == Cells(f, n)
             t == SubSeq(s, i + 1, j)
  <1>0. f + i \in Nat /\ j - i \in Nat /\ i + 1 \in Nat
    OBVIOUS
  <1>1. s \in Seq(Nat) /\ Len(s) = n /\ \A k \in 1 .. n : s[k] = f + k - 1
    BY CellsAre
  <1> HIDE DEF s
  <1>2. t \in Seq(Nat) /\ Len(t) = j - i /\ \A k \in 1 .. (j - i) : t[k] = s[i + k]
    BY <1>0, <1>1
  <1>3. \A k \in 1 .. (j - i) : t[k] = (f + i) + k - 1
    BY <1>1, <1>2
  <1> HIDE DEF t
  <1>4. t = Cells(f + i, j - i)
    BY <1>0, <1>2, <1>3, CellsIs
  <1> QED
    BY <1>4 DEF s, t

\* A run of cells has one beginning and one length.
LEMMA CellsSame ==
    ASSUME NEW f \in Nat, NEW m \in Nat, NEW g \in Nat, NEW n \in Nat, Cells(f, m) = Cells(g, n)
    PROVE  m = n /\ (n > 0 => f = g)
  <1>1. Len(Cells(f, m)) = m /\ Len(Cells(g, n)) = n
    BY CellsAre
  <1>2. m = n
    BY <1>1
  <1>3. n > 0 => Cells(f, m)[1] = f + 1 - 1 /\ Cells(g, n)[1] = g + 1 - 1
    <2>1. (\A i \in 1 .. m : Cells(f, m)[i] = f + i - 1) /\ \A i \in 1 .. n : Cells(g, n)[i] = g + i - 1
      BY CellsAre
    <2>2. n > 0 => 1 \in 1 .. n /\ 1 \in 1 .. m
      BY <1>2
    <2> QED
      BY <2>1, <2>2
  <1> QED
    BY <1>2, <1>3

\* The cell that follows prolongs the run.
LEMMA CellsAppend ==
    ASSUME NEW f \in Nat, NEW n \in Nat
    PROVE  Append(Cells(f, n), f + n) = Cells(f, n + 1)
  <1> DEFINE s == Cells(f, n)
             t == Append(s, f + n)
  <1>0. n + 1 \in Nat /\ f + n \in Nat
    OBVIOUS
  <1>1. s \in Seq(Nat) /\ Len(s) = n /\ \A k \in 1 .. n : s[k] = f + k - 1
    BY CellsAre
  <1> HIDE DEF s
  <1>2. t \in Seq(Nat) /\ Len(t) = n + 1 /\ \A k \in 1 .. (n + 1) : t[k] = f + k - 1
    BY <1>0, <1>1
  <1> HIDE DEF t
  <1>3. t = Cells(f, n + 1)
    BY <1>0, <1>2, CellsIs
  <1> QED
    BY <1>3 DEF s, t

-----------------------------------------------------------------------------
(* bufferedReadSeeker.                                                     *)

\* How many cells of the file there are from k on.
Avail(k) == IF k < size THEN size - k ELSE 0

\* Least is the smaller of two numbers.
LEMMA LeastIs ==
    ASSUME NEW a \in Nat, NEW b \in Nat
    PROVE  Least(a, b) \in Nat /\ Least(a, b) <= a /\ Least(a, b) <= b /\ Least(a, b) \in {a, b}
  BY DEF Least

\* The facts about Cells for all arguments.
LEMMA CellsLen == \A f, n \in Nat : Cells(f, n) \in Seq(Nat) /\ Len(Cells(f, n)) = n
  BY CellsAre

\* What is left of a run of cells after i of them were taken.
LEMMA CellsPart ==
    \A f, n \in Nat : \A i \in 0 .. n : SubSeq(Cells(f, n), i + 1, n) = Cells(f + i, n - i)
  <1> SUFFICES ASSUME NEW f \in Nat, NEW n \in Nat, NEW i \in 0 .. n
               PROVE  SubSeq(Cells(f, n), i + 1, n) = Cells(f + i, n - i)
    OBVIOUS
  <1>1. n \in i .. n
    OBVIOUS
  <1> QED
    BY <1>1, CellsSubSeq

\* CellsConcat for all arguments.
LEMMA CellsConcats == \A f, m, n \in Nat : Cells(f, m) \o Cells(f + m, n) = Cells(f, m + n)
  BY CellsConcat

\* An empty run adds nothing.
LEMMA CellsNone == \A f, n, p \in Nat : Cells(f, n) \o Cells(p, 0) = Cells(f, n)
  <1> SUFFICES ASSUME NEW f \in Nat, NEW n \in Nat, NEW p \in Nat
               PROVE  Cells(f, n) \o Cells(p, 0) = Cells(f, n)
    OBVIOUS
  <1>1. Cells(p, 0) = <<>> /\ Cells(f, n) \in Seq(Nat)
    BY CellsAre
  <1> QED
    BY <1>1, ConcatEmptySeq

\* The fields of a reader.
LEMMA ReaderIs ==
    ASSUME NEW o \in Nat, NEW k \in Nat
    PROVE  /\ Reader(o, k).offset = o /\ Reader(o, k).pos = o + k /\ Reader(o, k).buf = Cells(o, k)
           /\ Len(Reader(o, k).buf) = k
  BY CellsLen DEF Reader

\* A reader whose buffer ends in the file is good.
LEMMA ReaderGood ==
    ASSUME NEW o \in Nat, NEW k \in Nat, k > 0 => o + k <= size, k < BufferSize
    PROVE  Good(Reader(o, k))
  <1>1. Reader(o, k).offset = o /\ Len(Reader(o, k).buf) = k
    BY ReaderIs
  <1> QED
    BY <1>1 DEF Good

\* A read returns the cells of the file from the reader's offset on.
LEMMA ReadCellsIs ==
    ASSUME size \in Nat, NEW o \in Nat, NEW k \in Nat, k > 0 => o + k <= size, NEW n \in Nat
    PROVE  ReadCells(Reader(o, k), n) = Cells(o, Least(n, Avail(o)))
  <1> DEFINE in == Reader(o, k)
             l == Left(in)
             a == Avail(o)
             j == Least(n, a)
  <1>1. in.pos = o + k /\ in.buf = Cells(o, k)
    BY ReaderIs
  <1>2. l \in Nat /\ a \in Nat /\ k + l = a /\ o + k \in Nat
    BY <1>1 DEF Left, Avail
  <1>3. ReadCells(in, n) = SubSeq(Cells(o, k) \o Cells(o + k, l), 1, Least(n, Len(Cells(o, k) \o Cells(o + k, l))))
    BY <1>1 DEF ReadCells
  <1> HIDE DEF in, l, a
  <1>4. Cells(o, k) \o Cells(o + k, l) = Cells(o, a)
    <2>1. Cells(o, k) \o Cells(o + k, l) = Cells(o, k + l)
      BY <1>2, CellsConcat
    <2> QED
      BY <1>2, <2>1
  <1>5. Len(Cells(o, a)) = a
    BY <1>2, CellsLen
  <1>6. j \in 0 .. a /\ j \in Nat /\ 0 \in 0 .. a
    BY <1>2 DEF Least
  <1>7. ReadCells(in, n) = SubSeq(Cells(o, a), 1, j)
    BY <1>3, <1>4, <1>5
  <1> HIDE DEF j
  <1>8. SubSeq(Cells(o, a), 0 + 1, j) = Cells(o + 0, j - 0)
    BY <1>2, <1>6, CellsSubSeq
  <1>9. 0 + 1 = 1 /\ o + 0 = o /\ j - 0 = j
    BY <1>6
  <1>10. ReadCells(in, n) = Cells(o, j)
    BY <1>7, <1>8, <1>9
  <1> QED
    BY <1>10 DEF in, j, a

\* The arithmetic of a refill.
LEMMA Refill ==
    ASSUME NEW o \in Nat, NEW k \in Nat, NEW l \in Nat, NEW n \in Nat, NEW B \in Nat \ {0},
           NEW want \in Nat, NEW fill \in Nat, NEW gone \in Nat, NEW got \in Nat,
           n > k,
           want >= n - k, want >= B, want = n - k \/ want = B,
           fill <= l, fill <= want, fill = l \/ fill = want,
           gone <= n - k, gone <= fill, gone = n - k \/ gone = fill,
           got <= n, got <= k + l, got = n \/ got = k + l
    PROVE  /\ o + got = (o + k) + gone
           /\ (o + k) + fill = (o + got) + (fill - gone)
           /\ fill - gone \in Nat /\ gone \in 0 .. fill /\ fill - gone < B
  OBVIOUS

\* And what is then buffered is again what follows in the file.
LEMMA AfterReadIs ==
    ASSUME use \in Uses, size \in Nat, NEW o \in Nat, NEW k \in Nat, k > 0 => o + k <= size, k < BufferSize,
           NEW n \in Nat \ {0}
    PROVE  /\ Good(AfterRead(Reader(o, k), n))
           /\ AfterRead(Reader(o, k), n).offset = o + Least(n, Avail(o))
  <1> DEFINE in == Reader(o, k)
             l == Left(in)
             a == Avail(o)
             got == Len(ReadCells(in, n))
             rest == n - Len(in.buf)
             want == IF rest >= BufferSize THEN rest ELSE BufferSize
             fill == Least(want, l)
             gone == Least(rest, fill)
  <1>0. BufferSize \in Nat \ {0}
    BY ConstantsAssumption DEF BufferSize
  <1>1. in.pos = o + k /\ in.buf = Cells(o, k) /\ in.offset = o /\ Len(in.buf) = k
    BY ReaderIs
  <1>2. l \in Nat /\ a \in Nat /\ k + l = a /\ o + k \in Nat
    BY <1>1 DEF Left, Avail
  <1>3. got = Least(n, a) /\ got \in Nat /\ got <= n /\ got <= a /\ (got = n \/ got = a)
    <2>1. Least(n, a) \in Nat /\ Least(n, a) <= n /\ Least(n, a) <= a /\ Least(n, a) \in {n, a}
      BY <1>2 DEF Least
    <2>2. ReadCells(in, n) = Cells(o, Least(n, a))
      BY ReadCellsIs
    <2> HIDE DEF a, in
    <2>3. got = Least(n, a)
      BY <2>1, <2>2, CellsLen
    <2> HIDE DEF got
    <2> QED
      BY <2>1, <2>3
  <1>4. rest = n - k
    BY <1>1
  <1>5. CASE rest <= 0
    <2>1. AfterRead(in, n) = [pos |-> in.pos, offset |-> in.offset + n, buf |-> SubSeq(in.buf, n + 1, Len(in.buf))]
      BY <1>5 DEF AfterRead
    <2> HIDE DEF in, rest, l, a, got
    <2>3. n \in 0 .. k /\ k - n \in Nat /\ o + n \in Nat /\ o + k = (o + n) + (k - n)
      BY <1>4, <1>5
    <2>4. SubSeq(Cells(o, k), n + 1, k) = Cells(o + n, k - n)
      BY <2>3, CellsPart
    <2>5. AfterRead(in, n) = [pos |-> o + k, offset |-> o + n, buf |-> Cells(o + n, k - n)]
      BY <1>1, <2>1, <2>4, Zenon
    <2>6. AfterRead(in, n) = Reader(o + n, k - n)
      BY <2>3, <2>5, Zenon DEF Reader
    <2>7. Good(Reader(o + n, k - n)) /\ Reader(o + n, k - n).offset = o + n
      <3> DEFINE p == o + n
                 q == k - n
      <3>1. p \in Nat /\ q \in Nat /\ (q > 0 => p + q <= size) /\ q < BufferSize
        BY <1>0, <2>3
      <3> HIDE DEF p, q
      <3>2. Good(Reader(p, q)) /\ Reader(p, q).offset = p
        BY <3>1, ReaderGood, ReaderIs
      <3> QED
        BY <3>2 DEF p, q
    <2>8. Least(n, a) = n
      BY <1>2, <2>3 DEF Least
    <2> QED
      BY <2>6, <2>7, <2>8, Zenon DEF a, in
  <1>6. CASE ~(rest <= 0)
    <2>1. AfterRead(in, n) = [pos |-> (o + k) + fill, offset |-> o + got,
                              buf |-> SubSeq(Cells(o + k, fill), gone + 1, fill)]
      BY <1>1, <1>6 DEF AfterRead
    <2> HIDE DEF in, l, a, got
    <2>2. rest \in Nat \ {0}
      BY <1>4, <1>6
    <2> HIDE DEF rest
    <2>3. want \in Nat \ {0} /\ want >= rest /\ want >= BufferSize /\ (want = rest \/ want = BufferSize)
      BY <1>0, <2>2
    <2> HIDE DEF want
    <2>4. fill \in Nat /\ fill <= l /\ fill <= want /\ (fill = l \/ fill = want)
      BY <1>2, <2>3 DEF Least
    <2> HIDE DEF fill
    <2>5. gone \in Nat /\ gone <= rest /\ gone <= fill /\ (gone = rest \/ gone = fill)
      BY <2>2, <2>4 DEF Least
    <2> HIDE DEF gone
    <2> DEFINE p == o + got
               q == fill - gone
    <2>6. /\ p = (o + k) + gone /\ (o + k) + fill = p + q
          /\ q \in Nat /\ gone \in 0 .. fill /\ q < BufferSize
      <3>1. n > k /\ rest = n - k /\ a = k + l
        BY <1>2, <1>4, <2>2
      <3> QED
        BY <1>0, <1>2, <1>3, <2>3, <2>4, <2>5, <3>1, Refill
    <2>7. SubSeq(Cells(o + k, fill), gone + 1, fill) = Cells((o + k) + gone, fill - gone)
      BY <1>2, <2>4, <2>6, CellsPart
    <2>8. p \in Nat
      BY <1>3
    <2>9. q > 0 => p + q <= size
      <3>1. l = IF o + k < size THEN size - (o + k) ELSE 0
        BY <1>1 DEF l, Left
      <3> QED
        BY <1>2, <2>4, <2>5, <2>6, <3>1
    <2>10. AfterRead(in, n) = Reader(p, q)
      BY <2>1, <2>6, <2>7, Zenon DEF Reader
    <2>11. p = o + Least(n, a)
      BY <1>3
    <2> HIDE DEF p, q
    <2>12. Good(Reader(p, q)) /\ Reader(p, q).offset = p
      BY <2>6, <2>8, <2>9, ReaderGood, ReaderIs
    <2> QED
      BY <2>10, <2>11, <2>12, Zenon DEF a, in
  <1> QED
    BY <1>5, <1>6

\* A seek to a place that is not in the buffer.
LEMMA SeekInputIs ==
    ASSUME use \in Uses, NEW o \in Nat, NEW k \in Nat, NEW to \in Nat, ~(o <= to /\ to < o + k)
    PROVE  SeekInput(Reader(o, k), to) = Reader(to, 0) /\ Good(Reader(to, 0))
  <1>1. Reader(o, k).offset = o /\ Len(Reader(o, k).buf) = k
    BY ReaderIs
  <1>2. SeekInput(Reader(o, k), to) = [pos |-> to, offset |-> to, buf |-> <<>>]
    BY <1>1 DEF SeekInput
  <1>3. Cells(to, 0) = <<>> /\ to + 0 = to
    BY CellsAre
  <1>4. BufferSize \in Nat \ {0}
    BY ConstantsAssumption DEF BufferSize
  <1>5. Good(Reader(to, 0))
    BY <1>4, ReaderGood
  <1> QED
    BY <1>2, <1>3, <1>5 DEF Reader

-----------------------------------------------------------------------------
(* The steps.                                                              *)

\* The types of the state, and the offsets around the current batch.
LEMMA StateIs ==
    ASSUME IInv
    PROVE  /\ use \in Uses /\ size \in Nat /\ size <= FullSize
           /\ BufferSize \in Nat \ {0} /\ use.seeks \in BOOLEAN
           /\ program \in {"batches", "metadata", "records"}
           /\ batch.no \in Nat /\ batch.no <= NumBatches /\ batch.n \in {0, DataCells} /\ batch.index \in Nat
           /\ holding \in BOOLEAN
           /\ batch = [no |-> batch.no, n |-> batch.n, index |-> batch.index]
           /\ nextByteOffset = FrameAt(batch.no + 1) /\ nextByteOffset \in Nat
           /\ NextOffset(batch.no) \in Nat
           /\ seekTo \in Nat /\ nextRecordOffset \in Nat /\ offset \in Nat
  <1>1. FullSize \in Nat
    BY Sizes, Frames
  <1>2. \A i \in 0 .. NextOffset(NumBatches) : i \in Nat
    BY Sizes, Offsets
  <1>3. use \in Uses /\ BufferSize \in Nat \ {0} /\ use.seeks \in BOOLEAN /\ program \in {"batches", "metadata", "records"}
    BY ConstantsAssumption DEF IInv, TypeOK, BufferSize, program
  <1>4. /\ size \in Nat /\ size <= FullSize /\ nextByteOffset = FrameAt(batch.no + 1) /\ nextByteOffset \in Nat
        /\ holding \in BOOLEAN
    BY <1>1 DEF IInv, TypeOK, PlaceInv
  <1>5. batch \in [no : 0 .. NumBatches, n : {0, DataCells}, index : 0 .. NextOffset(NumBatches)]
    BY DEF IInv, TypeOK
  <1>6. /\ batch.no \in 0 .. NumBatches /\ batch.n \in {0, DataCells} /\ batch.index \in Nat
        /\ batch = [no |-> batch.no, n |-> batch.n, index |-> batch.index]
    BY <1>2, <1>5
  <1>7. NextOffset(batch.no) \in Nat
    BY <1>6, Offsets
  <1>8. seekTo \in Nat /\ nextRecordOffset \in Nat /\ offset \in Nat
    BY <1>2 DEF IInv, TypeOK
  <1> QED
    BY <1>3, <1>4, <1>6, <1>7, <1>8, Sizes

\* The reader is somewhere in the file, with some cells in the buffer.
LEMMA InputIs ==
    ASSUME IInv
    PROVE  \E k \in Nat : /\ input = Reader(input.offset, k) /\ input.offset \in Nat
                          /\ k > 0 => input.offset + k <= size
                          /\ k < BufferSize
  BY DEF IInv, PlaceInv, Good

\* The current batch comes before the next one.
LEMMA CurrentBatch ==
    ASSUME IInv, batch.no > 0
    PROVE  /\ batch.no \in 1 .. NumBatches
           /\ DataAt(batch.no) \in Nat
           /\ nextByteOffset = DataAt(batch.no) + DataCells
           /\ DataAt(batch.no) = FrameAt(batch.no) + FrameCells /\ FrameAt(batch.no) \in Nat
           /\ FirstOffset(batch.no) \in Nat /\ FirstOffset(batch.no) = NextOffset(batch.no - 1)
           /\ BatchSizes[batch.no] \in Nat \ {0}
           /\ NextOffset(batch.no) = FirstOffset(batch.no) + BatchSizes[batch.no]
  <1> DEFINE b == batch.no - 1
             no == batch.no
  <1>1. b \in Nat /\ b + 1 = no /\ no \in 1 .. NumBatches /\ b \in 0 .. NumBatches /\ no + 1 = (b + 1) + 1
    BY StateIs, Sizes
  <1>2. nextByteOffset = FrameAt(no + 1)
    BY StateIs
  <1> HIDE DEF b, no
  <1>3. FrameAt(b + 1) \in Nat /\ FrameAt((b + 1) + 1) = (FrameAt(b + 1) + FrameCells) + DataCells
    BY <1>1, Frames
  <1>4. FrameAt(no) \in Nat /\ DataAt(no) = FrameAt(no) + FrameCells /\ DataAt(no) \in Nat
    BY <1>1, <1>3, Sizes DEF DataAt
  <1>5. nextByteOffset = DataAt(no) + DataCells
    BY <1>1, <1>2, <1>3, <1>4
  <1>6. /\ FirstOffset(no) = NextOffset(no - 1) /\ no - 1 = b /\ NextOffset(b) \in Nat
        /\ NextOffset(no) = FirstOffset(no) + BatchSizes[no] /\ BatchSizes[no] \in Nat \ {0}
    BY <1>1, Offsets, Sizes DEF b
  <1> QED
    BY <1>1, <1>4, <1>5, <1>6 DEF no

\* A program that reads the log from its start and does not read the records
\* of a batch did find that the file ends where they begin.
LEMMA Unread ==
    ASSUME IInv, Live, result # "skip" => DoneWithBatch, seekTo = 0, program # "metadata", batch.n > 0
    PROVE  size = DataAt(batch.no)
  <1>1. batch.no > 0 /\ input.offset = DataAt(batch.no) /\ input.offset <= size
    BY StateIs, Sizes DEF IInv, PlaceInv
  <1>2. NextOffset(batch.no) \in Nat \ {0} /\ DataAt(batch.no) \in Nat
    BY <1>1, CurrentBatch
  <1>3. result # "skip"
    <2>1. result = "skip" => NextOffset(batch.no) < seekTo
      BY DEF IInv, IndexInv
    <2> QED
      BY <1>2, <2>1
  <1>4. CASE program = "batches"
    <2>1. batch.no = 0 \/ batch.index > 0
      BY <1>3, <1>4 DEF DoneWithBatch
    <2>2. batch.n > 0 /\ batch.index > 0 => size <= DataAt(batch.no)
      BY <1>4 DEF IInv, BatchesInv
    <2> QED
      BY <1>1, <1>2, <2>1, <2>2, StateIs
  <1>5. CASE program = "records"
    <2>1. ~holding
      BY <1>3, <1>5 DEF DoneWithBatch
    <2>2. size <= DataAt(batch.no) \/ (batch.n > 0 => NextOffset(batch.no) <= seekTo)
      BY <1>5, <2>1 DEF IInv, RecordsInv
    <2> QED
      BY <1>1, <1>2, <2>2, StateIs
  <1> QED
    BY <1>4, <1>5, StateIs

\* The next frame is read where it begins, whatever was read of the batch.
LEMMA SkipRecordsIs ==
    ASSUME SkipsPastBuffer, IInv, Live, result # "skip" => DoneWithBatch
    PROVE  \E k \in Nat : /\ SkipRecords = Reader(nextByteOffset, k)
                          /\ k > 0 => nextByteOffset + k <= size
                          /\ k < BufferSize
  <1>1. PICK k \in Nat : /\ input = Reader(input.offset, k) /\ input.offset \in Nat
                         /\ k > 0 => input.offset + k <= size
                         /\ k < BufferSize
    BY InputIs
  <1>2. CASE batch.n = 0
    <2>1. ~(batch.n > 0)
      BY <1>2
    <2>2. SkipRecords = input /\ input.offset = nextByteOffset
      BY <2>1 DEF IInv, PlaceInv, SkipRecords
    <2>3. SkipRecords = Reader(nextByteOffset, k) /\ (k > 0 => nextByteOffset + k <= size) /\ k < BufferSize
      BY <1>1, <2>2, Zenon
    <2> QED
      BY <2>3
  <1>3. CASE batch.n # 0
    <2>1. batch.n > 0 /\ batch.no > 0 /\ input.offset = DataAt(batch.no)
      BY <1>3, StateIs, Sizes DEF IInv, PlaceInv
    <2>2. /\ nextByteOffset = DataAt(batch.no) + DataCells /\ DataAt(batch.no) \in Nat
          /\ NextOffset(batch.no) > 0
      BY <2>1, CurrentBatch
    <2>3. k <= DataCells
      <3>1. CASE program = "metadata" \/ use.seeks
        <4>1. BufferSize <= DataCells + 1
          BY <3>1, StateIs DEF SkipsPastBuffer, program, BufferSize
        <4> QED
          BY <1>1, <4>1, StateIs, Sizes
      <3>2. CASE program # "metadata" /\ ~use.seeks
        <4>1. seekTo = 0
          BY <3>2 DEF IInv, IndexInv
        <4>2. size = DataAt(batch.no)
          BY <2>1, <3>2, <4>1, Unread
        <4> QED
          BY <1>1, <2>1, <2>2, <4>2, StateIs, Sizes
      <3> QED
        BY <3>1, <3>2
    <2> DEFINE o == input.offset
               to == nextByteOffset
    <2>4. o \in Nat /\ to \in Nat /\ ~(o <= to /\ to < o + k)
      BY <1>1, <2>1, <2>2, <2>3, StateIs, Sizes
    <2>5. SkipRecords = SeekInput(Reader(o, k), to)
      BY <1>1, <2>1 DEF SkipRecords
    <2> HIDE DEF o, to
    <2>6. SkipRecords = Reader(to, 0)
      BY <2>4, <2>5, SeekInputIs, StateIs
    <2>7. 0 \in Nat /\ 0 < BufferSize
      BY StateIs
    <2> QED
      BY <2>6, <2>7 DEF to
  <1> QED
    BY <1>2, <1>3

\* What is read there is the frame of the next batch, or the file ends.
LEMMA Framed ==
    ASSUME SkipsPastBuffer, IInv, Live, result # "skip" => DoneWithBatch
    PROVE  /\ Good(AfterRead(SkipRecords, FrameCells))
           /\ \A b \in Decoded(ReadCells(SkipRecords, FrameCells)) :
                /\ b = batch.no + 1 /\ b \in 1 .. NumBatches
                /\ AfterRead(SkipRecords, FrameCells).offset = DataAt(b) /\ DataAt(b) <= size
           /\ Decoded(ReadCells(SkipRecords, FrameCells)) = {} =>
                /\ FrameError(ReadCells(SkipRecords, FrameCells)) \in {"EOF", "UnexpectedEOF"}
                /\ size < nextByteOffset + FrameCells
  <1> DEFINE frame == ReadCells(SkipRecords, FrameCells)
             after == AfterRead(SkipRecords, FrameCells)
             o == nextByteOffset
             l == Least(FrameCells, Avail(o))
             no == batch.no
  <1>1. PICK k \in Nat : /\ SkipRecords = Reader(o, k)
                         /\ k > 0 => o + k <= size
                         /\ k < BufferSize
    BY SkipRecordsIs
  <1>2. /\ o \in Nat /\ size \in Nat /\ size <= FullSize /\ use \in Uses /\ no \in Nat /\ no <= NumBatches
        /\ FrameCells \in Nat \ {0} /\ NumBatches \in Nat /\ o = FrameAt(no + 1) /\ FullSize \in Nat
    <2>1. FullSize \in Nat
      BY Sizes, Frames
    <2> QED
      BY <2>1, StateIs, Sizes
  <1>3. frame = Cells(o, l) /\ Good(after) /\ after.offset = o + l
    BY <1>1, <1>2, ReadCellsIs, AfterReadIs
  <1>4. l \in Nat /\ l <= FrameCells /\ (l = FrameCells <=> o + FrameCells <= size)
    BY <1>2 DEF Least, Avail
  <1> HIDE DEF frame, after, l, o, no
  <1>5. ASSUME NEW b \in Decoded(frame)
        PROVE  b = no + 1 /\ b \in 1 .. NumBatches /\ after.offset = DataAt(b) /\ DataAt(b) <= size
    <2>1. b \in 1 .. NumBatches /\ frame = Cells(FrameAt(b), FrameCells)
      BY DEF Decoded
    <2> DEFINE c == b - 1
    <2>2. c \in Nat /\ b = c + 1
      BY <1>2, <2>1
    <2> HIDE DEF c
    <2>3. FrameAt(c + 1) \in Nat
      BY <2>2, Frames
    <2>4. Cells(o, l) = Cells(FrameAt(c + 1), FrameCells)
      BY <1>3, <2>1, <2>2
    <2>5. l = FrameCells /\ o = FrameAt(c + 1)
      BY <1>2, <1>4, <2>3, <2>4, CellsSame
    <2>6. c = no
      BY <1>2, <2>2, <2>5, Frames
    <2>7. DataAt(b) = o + FrameCells
      BY <2>2, <2>5 DEF DataAt
    <2> QED
      BY <1>3, <1>4, <2>1, <2>2, <2>5, <2>6, <2>7
  <1>6. ASSUME Decoded(frame) = {}
        PROVE  FrameError(frame) \in {"EOF", "UnexpectedEOF"} /\ size < o + FrameCells
    <2>1. l # FrameCells
      <3> SUFFICES ASSUME l = FrameCells PROVE FALSE
        OBVIOUS
      <3>1. o < FullSize
        BY <1>2, <1>4
      <3>2. no + 1 <= NumBatches
        BY <1>2, <3>1, Frames
      <3>3. no + 1 \in Decoded(frame)
        BY <1>2, <1>3, <3>2 DEF Decoded
      <3> QED
        BY <1>6, <3>3
    <2>2. Len(frame) < FrameCells
      BY <1>2, <1>3, <1>4, <2>1, CellsLen
    <2> QED
      BY <1>2, <1>4, <2>1, <2>2 DEF FrameError
  <1> QED
    BY <1>3, <1>5, <1>6 DEF frame, after, o, no

\* Nothing is held of the batch before the next frame is read.
LEMMA Released ==
    ASSUME IInv, Live, result # "skip" => DoneWithBatch
    PROVE  ~holding
  <1>1. CASE result = "skip"
    BY <1>1 DEF IInv, RecordsInv
  <1>2. CASE result # "skip"
    <2>1. CASE program = "records"
      BY <1>2, <2>1 DEF DoneWithBatch
    <2>2. CASE program # "records"
      BY <2>2 DEF IInv, RecordsInv
    <2> QED
      BY <2>1, <2>2
  <1> QED
    BY <1>1, <1>2

\* The reader in the next state.
LEMMA GoodNext ==
    ASSUME NEW in, Good(in), use \in Uses, use' = use, size' = size, input' = in
    PROVE  /\ Good(input)'
           /\ (input.pos \in Nat /\ input.offset \in Nat /\ Len(input.buf) <= BufferSize)'
           /\ input'.offset = in.offset
  <1>1. Good(input)'
    BY DEF Good, BufferSize
  <1> DEFINE o == in.offset
             k == Len(in.buf)
  <1>2. in = Reader(o, k) /\ o \in Nat /\ k \in Nat /\ k < BufferSize
    BY DEF Good
  <1> HIDE DEF o, k
  <1>3. in.pos = o + k /\ in.offset = o /\ Len(in.buf) = k
    BY <1>2, ReaderIs
  <1>4. BufferSize' = BufferSize /\ BufferSize \in Nat
    BY ConstantsAssumption DEF BufferSize
  <1> QED
    BY <1>1, <1>2, <1>3, <1>4

\* ReadRecordBatch at the end of the file: all of the log was delivered.
LEMMA FrameFails ==
    ASSUME SkipsPastBuffer, IInv, Live, result # "skip" => DoneWithBatch,
           Decoded(ReadCells(SkipRecords, FrameCells)) = {},
           input' = AfterRead(SkipRecords, FrameCells),
           result' = FrameError(ReadCells(SkipRecords, FrameCells)),
           batch' = [batch EXCEPT !.n = 0],
           UNCHANGED <<nextByteOffset, nextRecordOffset, holding, offset, returned>>,
           UNCHANGED <<use, size, seekTo, delivered>>
    PROVE  IInv'
  <1> DEFINE no == batch.no
  <1>1. /\ Good(AfterRead(SkipRecords, FrameCells)) /\ result' \in {"EOF", "UnexpectedEOF"}
        /\ size < nextByteOffset + FrameCells
    BY Framed
  <1>2. /\ Good(input)'
        /\ (input.pos \in Nat /\ input.offset \in Nat /\ Len(input.buf) <= BufferSize)'
    BY <1>1, GoodNext, StateIs
  <1>3. batch'.no = no /\ batch'.n = 0 /\ batch'.index = batch.index /\ batch' = [no |-> no, n |-> 0, index |-> batch.index]
    BY StateIs
  <1>4. program' = program
    BY DEF program
  <1>5. TypeOK'
    <2>1. batch' \in [no : 0 .. NumBatches, n : {0, DataCells}, index : 0 .. NextOffset(NumBatches)]
      BY <1>3 DEF IInv, TypeOK
    <2> QED
      BY <1>1, <1>2, <2>1 DEF IInv, TypeOK
  <1>6. ~Live'
    BY <1>1 DEF Live
  <1>7. PlaceInv'
    BY <1>2, <1>3, <1>6 DEF IInv, PlaceInv
  <1>8. OrderInv'
    BY <1>3 DEF IInv, OrderInv
  <1>9. BatchesInv'
    <2>1. ~(batch'.n > 0)
      BY <1>3
    <2> QED
      BY <1>3, <1>4, <1>6, <2>1 DEF IInv, BatchesInv
  <1>10. RecordsInv'
    <2>1. ~(batch'.n > 0)
      BY <1>3
    <2> QED
      BY <1>1, <1>3, <1>4, <1>6, <2>1 DEF IInv, RecordsInv
  <1>11. IndexInv'
    BY <1>1, <1>3, <1>4 DEF IInv, IndexInv
  <1>12. NeverGarbage'
    BY <1>1 DEF NeverGarbage
  <1>13. ASSUME program # "metadata", seekTo = 0
         PROVE  Len(delivered) = NextOffset(size \div BatchCells)
    <2>0. program \in {"batches", "records"} /\ NextOffset(0) = 0 /\ NextOffset(no) \in Nat
      BY <1>13, StateIs, Offsets
    <2>1. \A m \in Nat : Over(m) = m
      BY <1>13 DEF Over
    <2>2. CASE batch.n = 0
      <3>1. nextByteOffset <= size
        BY <2>2 DEF IInv, PlaceInv
      <3>2. size \div BatchCells = no
        BY <1>1, <3>1, WholeBatches, StateIs, Sizes
      <3>3. ~(batch.n > 0)
        BY <2>2
      <3>4. CASE program = "batches"
        BY <1>13, <2>0, <3>2, <3>3, <3>4 DEF IInv, BatchesInv
      <3>5. CASE program = "records"
        BY <2>0, <2>1, <3>2, <3>3, <3>5, Released DEF IInv, RecordsInv
      <3> QED
        BY <2>0, <3>4, <3>5
    <2>3. CASE batch.n # 0
      <3>1. batch.n > 0
        BY <2>3, StateIs, Sizes
      <3>2. size = DataAt(no) /\ no > 0
        BY <1>13, <3>1, Unread DEF IInv, PlaceInv
      <3>3. /\ FirstOffset(no) \in Nat /\ FirstOffset(no) = NextOffset(no - 1) /\ NextOffset(no) > 0
            /\ DataAt(no) = FrameAt(no) + FrameCells /\ FrameAt(no) \in Nat
        BY <3>2, CurrentBatch
      <3>4. size \div BatchCells = no - 1
        <4> DEFINE c == no - 1
        <4>1. c \in Nat /\ no = c + 1
          BY <3>2, StateIs
        <4>2. FrameAt(c + 1) <= size /\ size < (FrameAt(c + 1) + FrameCells) + DataCells
          BY <3>2, <3>3, <4>1, Sizes, StateIs
        <4> HIDE DEF c
        <4>3. size \div BatchCells = c
          BY <4>1, <4>2, WholeBatches, StateIs
        <4> QED
          BY <4>3 DEF c
      <3>5. CASE program = "batches"
        BY <1>13, <3>1, <3>2, <3>3, <3>4, <3>5 DEF IInv, BatchesInv
      <3>6. CASE program = "records"
        <4>1. Len(delivered) = Over(FirstOffset(no)) \/ NextOffset(no) <= seekTo
          BY <3>1, <3>6, Released DEF IInv, RecordsInv
        <4> QED
          BY <1>13, <2>0, <2>1, <3>3, <3>4, <4>1
      <3> QED
        BY <2>0, <3>5, <3>6
    <2> QED
      BY <2>2, <2>3
  <1>14. CompleteAtEOF'
    BY <1>4, <1>13 DEF CompleteAtEOF
  <1> QED
    BY <1>5, <1>7, <1>8, <1>9, <1>10, <1>11, <1>12, <1>14 DEF IInv

\* ReadRecordBatch when it reads a frame: it is that of the next batch.
LEMMA FrameRead ==
    ASSUME SkipsPastBuffer, IInv, Live, result # "skip" => DoneWithBatch,
           NEW b \in Decoded(ReadCells(SkipRecords, FrameCells)),
           input' = AfterRead(SkipRecords, FrameCells),
           batch' = [no |-> b, n |-> DataCells, index |-> 0],
           nextByteOffset' = nextByteOffset + BatchCells,
           IF Wanted(b)
           THEN /\ result' = "batch"
                /\ nextRecordOffset' = NextOffset(b)
                /\ returned' = Append(returned, b)
                /\ holding' = (program = "records" /\ NextOffset(b) >= seekTo)
                /\ offset' = IF holding' THEN FirstOffset(b) ELSE offset
           ELSE /\ result' = "skip"
                /\ UNCHANGED <<nextRecordOffset, holding, offset, returned>>,
           UNCHANGED <<use, size, seekTo, delivered>>
    PROVE  IInv'
  <1> DEFINE no == batch.no
             k == Len(returned)
  <1>1. /\ Good(AfterRead(SkipRecords, FrameCells))
        /\ b = no + 1 /\ b \in 1 .. NumBatches /\ b \in Nat \ {0}
        /\ AfterRead(SkipRecords, FrameCells).offset = DataAt(b) /\ DataAt(b) <= size
    BY Framed, Sizes
  <1>2. /\ Good(input)'
        /\ (input.pos \in Nat /\ input.offset \in Nat /\ Len(input.buf) <= BufferSize)'
        /\ input'.offset = DataAt(b)
    BY <1>1, GoodNext, StateIs
  <1>3. /\ batch'.no = b /\ batch'.n = DataCells /\ batch'.index = 0 /\ batch'.n > 0 /\ batch'.no > 0 /\ batch'.no # 0
        /\ ~(batch'.index > 0)
    BY <1>1, Sizes
  <1>4. program' = program
    BY DEF program
  <1>5. ~holding
    BY Released
  <1>6. no \in 0 .. NumBatches /\ no \in Nat /\ b - 1 = no
    BY <1>1, StateIs, Sizes
  <1>7. /\ NextOffset(no) \in Nat /\ NextOffset(b) \in Nat /\ NextOffset(no) < NextOffset(b)
        /\ FirstOffset(b) = NextOffset(no) /\ BatchSizes[b] \in Nat
        /\ NextOffset(NumBatches) \in Nat /\ NextOffset(b) <= NextOffset(NumBatches) /\ NextOffset(no) <= NextOffset(NumBatches)
        /\ NextOffset(0) = 0
    <2>1. b \in 0 .. NumBatches /\ NumBatches \in 0 .. NumBatches
      BY <1>1, Sizes
    <2>2. FirstOffset(b) = NextOffset(b - 1) /\ NextOffset(b) = FirstOffset(b) + BatchSizes[b] /\ BatchSizes[b] \in Nat \ {0}
      BY <1>1, Offsets, Sizes
    <2>3. NextOffset(no) \in Nat /\ NextOffset(b) \in Nat /\ NextOffset(NumBatches) \in Nat
      BY <1>6, <2>1, Offsets
    <2>4. NextOffset(b) <= NextOffset(NumBatches) /\ NextOffset(no) <= NextOffset(NumBatches) /\ NextOffset(0) = 0
      BY <1>6, <2>1, Offsets
    <2> QED
      BY <1>6, <2>2, <2>3, <2>4
  <1>8. /\ nextByteOffset' = FrameAt(b + 1) /\ nextByteOffset' \in 0 .. FullSize
        /\ DataAt(b) = nextByteOffset + FrameCells
    <2>1. /\ FrameAt(no + 1) \in Nat /\ FrameAt((no + 1) + 1) = (FrameAt(no + 1) + FrameCells) + DataCells
          /\ FrameAt(b + 1) \in Nat /\ FrameAt(b + 1) <= FullSize /\ FullSize \in Nat
      <3> HIDE DEF no
      <3>1. FrameAt(no + 1) \in Nat /\ FrameAt((no + 1) + 1) = (FrameAt(no + 1) + FrameCells) + DataCells
        BY <1>6, Frames
      <3>2. b \in Nat /\ b <= NumBatches /\ NumBatches \in Nat
        BY <1>1, Sizes
      <3>3. FrameAt(b + 1) \in Nat /\ FrameAt(b + 1) <= FullSize
        BY <3>2, Frames
      <3>4. FullSize \in Nat
        BY <3>2, Frames
      <3> QED
        BY <3>1, <3>3, <3>4
    <2>2. nextByteOffset = FrameAt(no + 1)
      BY StateIs
    <2>3. DataAt(b) = FrameAt(no + 1) + FrameCells
      BY <1>1 DEF DataAt
    <2> QED
      BY <1>1, <2>1, <2>2, <2>3, Sizes DEF BatchCells
  <1>9. batch.n > 0 => ~(size <= DataAt(no))
    <2> SUFFICES ASSUME batch.n > 0, size <= DataAt(no) PROVE FALSE
      OBVIOUS
    <2>1. no > 0
      BY DEF IInv, PlaceInv
    <2>2. nextByteOffset = DataAt(no) + DataCells /\ DataAt(no) \in Nat
      BY <2>1, CurrentBatch
    <2>3. nextByteOffset + FrameCells <= size /\ nextByteOffset \in Nat /\ size \in Nat
      BY <1>1, <1>8, StateIs
    <2> HIDE DEF no
    <2> QED
      BY <2>2, <2>3, Sizes
  <1>10. /\ returned \in Seq(Nat) /\ k \in Nat
         /\ k = 0 => nextRecordOffset = seekTo /\ NextOffset(no) <= seekTo
         /\ k > 0 => /\ nextRecordOffset = NextOffset(no) /\ seekTo <= NextOffset(no)
                     /\ k <= no /\ returned = Cells(no - k + 1, k) /\ FirstOffset(no - k + 1) <= seekTo
    BY DEF IInv, OrderInv
  <1>11. Wanted(b) => seekTo <= NextOffset(b)
    <2>1. seekTo \in Nat /\ (Wanted(b) => NextOffset(b) >= nextRecordOffset)
      BY StateIs DEF Wanted
    <2> HIDE DEF no, k
    <2> QED
      BY <1>7, <1>10, <2>1
  <1>12. ~Wanted(b) => k = 0 /\ nextRecordOffset = seekTo /\ NextOffset(b) < seekTo
    BY <1>7, <1>10, StateIs DEF Wanted
  <1>13. Live' /\ result' \in {"batch", "skip"} /\ (result' = "skip" <=> ~Wanted(b))
    BY DEF Live
  <1>14. holding' = (Wanted(b) /\ program = "records") /\ holding' \in BOOLEAN
    BY <1>5, <1>7, <1>11, StateIs
  <1>15. offset' = IF holding' THEN FirstOffset(b) ELSE offset
    BY <1>5, <1>14
  <1>16. TypeOK'
    <2>1. batch' \in [no : 0 .. NumBatches, n : {0, DataCells}, index : 0 .. NextOffset(NumBatches)]
      BY <1>1, <1>7
    <2>2. nextRecordOffset' \in 0 .. NextOffset(NumBatches)
      BY <1>7 DEF IInv, TypeOK
    <2>3. offset' \in 0 .. NextOffset(NumBatches)
      BY <1>7, <1>15 DEF IInv, TypeOK
    <2> QED
      BY <1>2, <1>8, <1>13, <1>14, <2>1, <2>2, <2>3 DEF IInv, TypeOK
  <1>17. PlaceInv'
    BY <1>1, <1>2, <1>3, <1>8 DEF PlaceInv
  <1>18. OrderInv'
    <2>1. CASE Wanted(b)
      <3> DEFINE f == b - k
      <3>1. f \in Nat /\ f + k = b /\ k <= no /\ no - k + 1 = f /\ b - (k + 1) + 1 = f
        <4> HIDE DEF no, k
        <4>1. k <= no
          BY <1>6, <1>10
        <4> QED
          BY <1>1, <1>6, <1>10, <4>1
      <3>2. returned = Cells(f, k)
        <4>1. CASE k = 0
          <5>1. returned = <<>>
            BY <1>10, <4>1, EmptySeq
          <5>2. Cells(f, 0) = <<>>
            BY <3>1, CellsAre
          <5> QED
            BY <4>1, <5>1, <5>2
        <4>2. CASE k > 0
          BY <1>10, <3>1, <4>2
        <4> QED
          BY <1>10, <4>1, <4>2
      <3>3. FirstOffset(f) <= seekTo
        <4>1. CASE k = 0
          BY <1>1, <1>7, <1>10, <4>1
        <4>2. CASE k > 0
          BY <1>10, <3>1, <4>2
        <4> QED
          BY <1>10, <4>1, <4>2
      <3> HIDE DEF f
      <3>4. returned' = Cells(f, k + 1)
        <4>1. Append(Cells(f, k), f + k) = Cells(f, k + 1)
          BY <1>10, <3>1, CellsAppend
        <4> QED
          BY <2>1, <3>1, <3>2, <4>1
      <3>5. returned' \in Seq(Nat) /\ Len(returned') = k + 1
        BY <1>10, <3>1, <3>4, CellsLen
      <3>6. nextRecordOffset' = NextOffset(b) /\ seekTo' <= NextOffset(b)
        BY <1>11, <2>1
      <3> HIDE DEF k, no
      <3>7. k + 1 <= b /\ k + 1 # 0
        BY <1>1, <1>10, <3>1, <1>6
      <3> QED
        BY <1>3, <3>1, <3>3, <3>4, <3>5, <3>6, <3>7 DEF OrderInv
    <2>2. CASE ~Wanted(b)
      BY <1>3, <1>7, <1>10, <1>12, <2>2, StateIs DEF OrderInv
    <2> QED
      BY <2>1, <2>2
  <1>19. BatchesInv'
    <2> SUFFICES ASSUME program = "batches", seekTo = 0
                 PROVE  delivered = Cells(0, Len(delivered)) /\ Len(delivered) = FirstOffset(b)
      BY <1>3, <1>4 DEF BatchesInv
    <2>1. batch.n > 0 => size = DataAt(no)
      BY Unread
    <2>2. ~(batch.n > 0)
      BY <1>1, <1>8, <1>9, <2>1, StateIs
    <2> QED
      BY <1>7, <2>2 DEF IInv, BatchesInv
  <1>20. RecordsInv'
    <2>1. holding' => program' = "records" /\ result' \notin {"none", "skip"} /\ batch'.no > 0
      BY <1>3, <1>4, <1>13, <1>14
    <2> SUFFICES ASSUME program = "records"
                 PROVE  /\ delivered = Cells(seekTo, Len(delivered))
                        /\ holding' => offset' = FirstOffset(b) + 0 /\ Len(delivered) = Over(offset')
                        /\ ~holding' => NextOffset(b) <= seekTo /\ Len(delivered) = Over(NextOffset(b))
      BY <1>3, <1>4, <2>1 DEF RecordsInv, Over
    <2>2. delivered = Cells(seekTo, Len(delivered)) /\ Len(delivered) = Over(NextOffset(no))
      BY <1>5, <1>9 DEF IInv, RecordsInv
    <2>3. CASE Wanted(b)
      <3>1. holding' /\ offset' = FirstOffset(b)
        BY <1>14, <1>15, <2>3
      <3>2. FirstOffset(b) + 0 = FirstOffset(b) /\ Over(offset') = Over(NextOffset(no))
        BY <1>7, <3>1
      <3> QED
        BY <2>2, <3>1, <3>2
    <2>4. CASE ~Wanted(b)
      <3>1. NextOffset(b) < seekTo /\ seekTo \in Nat /\ ~holding'
        BY <1>12, <1>14, <2>4, StateIs
      <3> HIDE DEF no
      <3>2. Over(NextOffset(no)) = 0 /\ Over(NextOffset(b)) = 0 /\ NextOffset(b) <= seekTo
        BY <1>7, <3>1 DEF Over
      <3> QED
        BY <2>2, <3>1, <3>2
    <2> QED
      BY <2>3, <2>4
  <1>21. IndexInv'
    BY <1>3, <1>4, <1>7, <1>12, <1>13 DEF IInv, IndexInv
  <1>22. NeverGarbage' /\ CompleteAtEOF'
    BY <1>13 DEF NeverGarbage, CompleteAtEOF
  <1> QED
    BY <1>16, <1>17, <1>18, <1>19, <1>20, <1>21, <1>22 DEF IInv

-----------------------------------------------------------------------------
(* Reading the records of the current batch.                               *)

\* The records read are those of the batch, or the file ends before.
LEMMA RecordsRead ==
    ASSUME IInv, Live, batch.no > 0, readRecords, use' = use, size' = size
    PROVE  /\ Good(input)'
           /\ (input.pos \in Nat /\ input.offset \in Nat /\ Len(input.buf) <= BufferSize)'
           /\ RecordsResult = "batch" => /\ result' = "batch" /\ input'.offset = nextByteOffset
                                         /\ input'.offset <= size
           /\ RecordsResult = "empty" => /\ result' = "batch" /\ batch.n > 0 /\ size <= DataAt(batch.no)
                                         /\ input'.offset = DataAt(batch.no) /\ input'.offset <= size
           /\ RecordsResult \notin {"batch", "empty"} =>
                /\ RecordsResult = "UnexpectedEOF" /\ result' = "UnexpectedEOF" /\ batch.n > 0
                /\ DataAt(batch.no) < size /\ size < DataAt(batch.no) + DataCells
  <1> DEFINE o == DataAt(batch.no)
             l == Least(DataCells, Avail(o))
             cells == ReadCells(input, batch.n)
  <1>1. o \in Nat /\ nextByteOffset = o + DataCells /\ size \in Nat /\ use \in Uses /\ DataCells \in Nat \ {0}
    BY CurrentBatch, StateIs, Sizes
  <1>2. CASE batch.n = 0
    <2>1. ~(batch.n > 0) /\ RecordsResult = "batch"
      BY <1>2 DEF RecordsResult
    <2>2. input' = input /\ result' = "batch"
      BY <2>1 DEF readRecords
    <2>3. Good(input) /\ input.offset = nextByteOffset /\ input.offset <= size
      BY <2>1 DEF IInv, PlaceInv
    <2> QED
      BY <1>1, <2>1, <2>2, <2>3, GoodNext
  <1>3. CASE batch.n # 0
    <2>1. batch.n = DataCells /\ batch.n > 0
      BY <1>1, <1>3, StateIs
    <2>2. input.offset = o /\ input.offset <= size
      BY <2>1 DEF IInv, PlaceInv
    <2>3. PICK k \in Nat : input = Reader(o, k) /\ (k > 0 => o + k <= size) /\ k < BufferSize
      <3>1. PICK k \in Nat : /\ input = Reader(input.offset, k) /\ input.offset \in Nat
                             /\ k > 0 => input.offset + k <= size
                             /\ k < BufferSize
        BY InputIs
      <3>2. input = Reader(o, k) /\ (k > 0 => o + k <= size) /\ k < BufferSize
        BY <2>2, <3>1, Zenon
      <3> QED
        BY <3>2
    <2> HIDE DEF o
    <2>4. cells = Cells(o, l) /\ Good(AfterRead(input, batch.n)) /\ AfterRead(input, batch.n).offset = o + l
      BY <1>1, <2>1, <2>3, ReadCellsIs, AfterReadIs
    <2>5. input' = AfterRead(input, batch.n)
      BY <2>1 DEF readRecords
    <2>6. /\ Good(input)'
          /\ (input.pos \in Nat /\ input.offset \in Nat /\ Len(input.buf) <= BufferSize)'
          /\ input'.offset = o + l
      BY <1>1, <2>4, <2>5, GoodNext
    <2>7. /\ l \in Nat /\ l <= DataCells /\ (l = DataCells => o + DataCells <= size)
          /\ (l = 0 => size <= o) /\ (0 < l /\ l # DataCells => o < size /\ size < o + DataCells)
      BY <1>1 DEF Least, Avail
    <2>8. RecordsResult = IF cells = Cells(o, DataCells) THEN "batch" ELSE IF cells = <<>> THEN "empty"
                          ELSE IF Len(cells) < DataCells THEN "UnexpectedEOF" ELSE "garbage"
      BY <1>3 DEF RecordsResult, o
    <2> HIDE DEF l, cells
    <2>9. /\ Len(cells) = l /\ (cells = <<>> <=> l = 0) /\ (cells = Cells(o, DataCells) <=> l = DataCells)
      <3>1. Len(cells) = l /\ (cells = <<>> <=> l = 0)
        BY <1>1, <2>4, <2>7, CellsAre
      <3>2. Len(Cells(o, DataCells)) = DataCells
        BY <1>1, CellsLen
      <3> QED
        BY <2>4, <3>1, <3>2
    <2>10. CASE l = DataCells
      <3>1. RecordsResult = "batch" /\ result' = "batch"
        BY <2>8, <2>9, <2>10 DEF readRecords
      <3> QED
        BY <1>1, <2>6, <2>7, <2>10, <3>1
    <2>11. CASE l = 0
      <3>1. RecordsResult = "empty" /\ result' = "batch"
        BY <1>1, <2>8, <2>9, <2>11 DEF readRecords
      <3>2. o + l = o
        BY <1>1, <2>11
      <3> QED
        BY <1>1, <2>1, <2>2, <2>6, <2>7, <2>11, <3>1, <3>2 DEF o
    <2>12. CASE 0 < l /\ l # DataCells
      <3>1. RecordsResult = "UnexpectedEOF"
        BY <1>1, <2>7, <2>8, <2>9, <2>12
      <3>2. result' = "UnexpectedEOF"
        BY <3>1 DEF readRecords
      <3> QED
        BY <2>1, <2>6, <2>7, <2>12, <3>1, <3>2 DEF o
    <2> QED
      BY <2>7, <2>10, <2>11, <2>12
  <1> QED
    BY <1>2, <1>3

\* Where that leaves the reader.
LEMMA RecordsPlace ==
    ASSUME IInv, Live, batch.no > 0, readRecords,
           batch'.no = batch.no, batch'.n = IF RecordsResult = "empty" THEN batch.n ELSE 0,
           UNCHANGED <<use, size, nextByteOffset, nextRecordOffset, seekTo, returned>>
    PROVE  /\ PlaceInv' /\ OrderInv' /\ NeverGarbage'
           /\ Live' <=> RecordsResult \in {"batch", "empty"}
           /\ result' \in {"batch", "UnexpectedEOF"}
           /\ RecordsResult \notin {"batch", "empty"} => size \div BatchCells = batch.no - 1
  <1>1. /\ Good(input)'
        /\ RecordsResult = "batch" => /\ result' = "batch" /\ input'.offset = nextByteOffset
                                      /\ input'.offset <= size
        /\ RecordsResult = "empty" => /\ result' = "batch" /\ batch.n > 0 /\ size <= DataAt(batch.no)
                                      /\ input'.offset = DataAt(batch.no) /\ input'.offset <= size
        /\ RecordsResult \notin {"batch", "empty"} =>
             /\ result' = "UnexpectedEOF" /\ DataAt(batch.no) < size /\ size < DataAt(batch.no) + DataCells
    BY RecordsRead
  <1>2. (Live' <=> RecordsResult \in {"batch", "empty"}) /\ result' \in {"batch", "UnexpectedEOF"}
    BY <1>1 DEF Live
  <1>3. nextByteOffset' = FrameAt(batch'.no + 1)
    BY StateIs
  <1>4. Live' => input'.offset <= size'
    BY <1>1, <1>2
  <1>5. Live' => IF batch'.n > 0 THEN batch'.no > 0 /\ input'.offset = DataAt(batch'.no)
                 ELSE input'.offset = nextByteOffset'
    <2>1. CASE RecordsResult = "empty"
      BY <1>1, <2>1
    <2>2. CASE RecordsResult = "batch"
      <3>1. ~(batch'.n > 0)
        BY <2>2
      <3> QED
        BY <1>1, <2>2, <3>1
    <2> QED
      BY <1>2, <2>1, <2>2
  <1>6. PlaceInv'
    BY <1>1, <1>3, <1>4, <1>5 DEF PlaceInv
  <1>7. OrderInv'
    BY DEF IInv, OrderInv
  <1>8. NeverGarbage'
    BY <1>2 DEF NeverGarbage
  <1>9. ASSUME RecordsResult \notin {"batch", "empty"}
        PROVE  size \div BatchCells = batch.no - 1
    <2> DEFINE c == batch.no - 1
               no == batch.no
    <2>1. c \in Nat /\ no = c + 1
      BY StateIs
    <2>2. DataAt(no) = FrameAt(no) + FrameCells /\ FrameAt(no) \in Nat /\ size \in Nat
      BY CurrentBatch, StateIs
    <2>3. DataAt(no) < size /\ size < DataAt(no) + DataCells
      BY <1>1, <1>9
    <2> HIDE DEF c, no
    <2>4. FrameAt(c + 1) <= size /\ size < (FrameAt(c + 1) + FrameCells) + DataCells
      BY <2>1, <2>2, <2>3, Sizes
    <2>5. size \div BatchCells = c
      BY <2>1, <2>2, <2>4, WholeBatches
    <2> QED
      BY <2>5 DEF c
  <1> QED
    BY <1>2, <1>6, <1>7, <1>8, <1>9

\* The number of records of the current batch.
LEMMA BatchRecords ==
    ASSUME IInv, batch.no > 0
    PROVE  \E f \in Nat, sz \in Nat \ {0} :
              /\ FirstOffset(batch.no) = f /\ BatchSizes[batch.no] = sz /\ NextOffset(batch.no) = f + sz
              /\ NextOffset(NumBatches) \in Nat /\ f + sz <= NextOffset(NumBatches)
              /\ batch.index <= sz /\ NextOffset(batch.no - 1) = f
  <1>1. /\ batch.no \in 0 .. NumBatches /\ NumBatches \in 0 .. NumBatches
        /\ FirstOffset(batch.no) \in Nat /\ FirstOffset(batch.no) = NextOffset(batch.no - 1)
        /\ BatchSizes[batch.no] \in Nat \ {0}
        /\ NextOffset(batch.no) = FirstOffset(batch.no) + BatchSizes[batch.no]
    BY CurrentBatch, Sizes
  <1>2. NextOffset(batch.no) <= NextOffset(NumBatches) /\ NextOffset(NumBatches) \in Nat
    BY <1>1, Offsets
  <1>3. batch.index <= BatchSizes[batch.no]
    BY DEF IInv, IndexInv
  <1> QED
    BY <1>1, <1>2, <1>3

\* A program reads the records of a batch.
LEMMA BatchStep ==
    ASSUME IInv, ReadBatch
    PROVE  IInv'
  <1> DEFINE no == batch.no
             d == Len(delivered)
  <1>1. program = "batches" /\ result = "batch" /\ ~DoneWithBatch /\ readRecords /\ Live
    BY DEF ReadBatch, Live
  <1>2. no > 0 /\ batch.index = 0
    BY <1>1, StateIs DEF DoneWithBatch
  <1>3. PICK f \in Nat, sz \in Nat \ {0} :
              /\ FirstOffset(batch.no) = f /\ BatchSizes[batch.no] = sz /\ NextOffset(batch.no) = f + sz
              /\ NextOffset(NumBatches) \in Nat /\ f + sz <= NextOffset(NumBatches)
              /\ batch.index <= sz /\ NextOffset(batch.no - 1) = f
    BY <1>2, BatchRecords
  <1>4. NumLeft = sz
    BY <1>2, <1>3 DEF NumLeft
  <1>5. /\ batch'.no = no /\ batch'.n = (IF RecordsResult = "empty" THEN batch.n ELSE 0) /\ batch'.index = sz
        /\ batch' \in [no : 0 .. NumBatches, n : {0, DataCells}, index : 0 .. NextOffset(NumBatches)]
    <2>1. batch' = [no |-> no, n |-> IF RecordsResult = "empty" THEN batch.n ELSE 0, index |-> sz]
      BY <1>4, StateIs DEF ReadBatch
    <2>2. sz \in 0 .. NextOffset(NumBatches) /\ no \in 0 .. NumBatches /\ batch.n \in {0, DataCells}
      BY <1>3, StateIs, Sizes
    <2> HIDE DEF no
    <2> QED
      BY <2>1, <2>2
  <1>6. UNCHANGED <<use, size, nextByteOffset, nextRecordOffset, holding, offset, seekTo, returned>>
    BY DEF ReadBatch
  <1>7. /\ PlaceInv' /\ OrderInv' /\ NeverGarbage'
        /\ Live' <=> RecordsResult \in {"batch", "empty"}
        /\ result' \in {"batch", "UnexpectedEOF"}
        /\ RecordsResult \notin {"batch", "empty"} => size \div BatchCells = no - 1
    BY <1>1, <1>2, <1>5, <1>6, RecordsPlace
  <1>8. program' = program
    BY <1>6 DEF program
  <1>9. TypeOK'
    <2>1. (input.pos \in Nat /\ input.offset \in Nat /\ Len(input.buf) <= BufferSize)'
      BY <1>1, <1>2, <1>6, RecordsRead
    <2> QED
      BY <1>5, <1>6, <1>7, <2>1 DEF IInv, TypeOK
  <1>10. delivered \in Seq(Nat) /\ d \in Nat
    BY DEF IInv, IndexInv
  <1>11. delivered' = IF RecordsResult = "batch" THEN delivered \o Cells(f, sz) ELSE delivered
    BY <1>3, <1>4 DEF ReadBatch
  <1>12. delivered' \in Seq(Nat)
    <2>1. Cells(f, sz) \in Seq(Nat)
      BY <1>3, CellsLen
    <2> QED
      BY <1>10, <1>11, <2>1, ConcatProperties
  <1>13. seekTo = 0 => delivered = Cells(0, f) /\ d = f
    <2>1. batch.n > 0
      BY <1>1, <1>2 DEF IInv, BatchesInv
    <2>2. seekTo = 0 => delivered = Cells(0, d) /\ d = FirstOffset(no)
      BY <1>1, <1>2, <2>1 DEF IInv, BatchesInv
    <2> QED
      BY <1>3, <2>2
  <1>14. seekTo = 0 => IF RecordsResult = "batch" THEN delivered' = Cells(0, f + sz) /\ Len(delivered') = f + sz
                       ELSE delivered' = Cells(0, f) /\ Len(delivered') = f
    <2>1. Cells(0, f) \o Cells(0 + f, sz) = Cells(0, f + sz) /\ 0 + f = f /\ Len(Cells(0, f + sz)) = f + sz
      <3>1. 0 \in Nat /\ f + sz \in Nat /\ 0 + f = f /\ sz \in Nat
        BY <1>3
      <3>2. Cells(0, f) \o Cells(0 + f, sz) = Cells(0, f + sz)
        BY <3>1, CellsConcat
      <3>3. Len(Cells(0, f + sz)) = f + sz
        BY <3>1, CellsLen
      <3> QED
        BY <3>1, <3>2, <3>3
    <2> QED
      BY <1>11, <1>13, <2>1
  <1>15. BatchesInv'
    <2>1. batch'.index > 0 /\ batch'.index # 0
      BY <1>3, <1>5
    <2>2. batch'.n > 0 => RecordsResult = "empty" /\ size' <= DataAt(batch'.no)
      <3>1. RecordsResult # "empty" => ~(batch'.n > 0)
        BY <1>5
      <3>2. RecordsResult = "empty" => size <= DataAt(no)
        BY <1>1, <1>2, <1>6, RecordsRead
      <3> QED
        BY <1>5, <1>6, <3>1, <3>2
    <2>3. RecordsResult = "empty" => batch'.n > 0
      BY <1>1, <1>2, <1>5, <1>6, RecordsRead
    <2>4. seekTo' = 0 => /\ delivered' = Cells(0, Len(delivered'))
                         /\ Live' => Len(delivered') = IF batch'.no = 0 THEN 0
                                        ELSE IF batch'.n > 0 THEN FirstOffset(batch'.no)
                                        ELSE NextOffset(batch'.no)
      <3> SUFFICES ASSUME seekTo = 0
                   PROVE  /\ delivered' = Cells(0, Len(delivered'))
                          /\ Live' => Len(delivered') = IF batch'.no = 0 THEN 0
                                        ELSE IF batch'.n > 0 THEN FirstOffset(batch'.no)
                                        ELSE NextOffset(batch'.no)
        BY <1>6
      <3>1. batch'.no # 0 /\ FirstOffset(batch'.no) = f /\ NextOffset(batch'.no) = f + sz
        BY <1>2, <1>3, <1>5
      <3>2. CASE RecordsResult = "batch"
        BY <1>14, <2>2, <3>1, <3>2
      <3>3. CASE RecordsResult # "batch"
        BY <1>7, <1>14, <2>3, <3>1, <3>3
      <3> QED
        BY <3>2, <3>3
    <2> QED
      BY <2>1, <2>2, <2>4 DEF BatchesInv
  <1>16. RecordsInv'
    BY <1>1, <1>6, <1>8 DEF IInv, RecordsInv
  <1>17. IndexInv'
    BY <1>1, <1>2, <1>3, <1>5, <1>6, <1>7, <1>8, <1>12 DEF IInv, IndexInv
  <1>18. CompleteAtEOF'
    <2> SUFFICES ASSUME result' \in {"EOF", "UnexpectedEOF"}, seekTo = 0
                 PROVE  Len(delivered') = NextOffset(size \div BatchCells)
      BY <1>6 DEF CompleteAtEOF
    <2>1. RecordsResult \notin {"batch", "empty"}
      BY <1>7 DEF Live
    <2> QED
      BY <1>3, <1>7, <1>14, <2>1
  <1> QED
    BY <1>7, <1>9, <1>15, <1>16, <1>17, <1>18 DEF IInv

\* LogRecordReader.Read, whatever the slice.
LEMMA ReadStep ==
    ASSUME IInv, NEW max \in Nat \ {0}, Read(max)
    PROVE  IInv'
  <1> DEFINE no == batch.no
             n == IF RecordsResult = "batch" THEN Least(max, NumLeft) ELSE 0
             skip == Skipped(n)
  <1>1. program = "records" /\ result = "batch" /\ holding /\ readRecords /\ Live
    BY DEF Read, Live
  <1>2. /\ no > 0 /\ offset = FirstOffset(no) + batch.index /\ (batch.n > 0 => batch.index = 0)
        /\ delivered = Cells(seekTo, Len(delivered)) /\ Len(delivered) = Over(offset)
    BY <1>1 DEF IInv, RecordsInv
  <1>3. PICK f \in Nat, sz \in Nat \ {0} :
              /\ FirstOffset(batch.no) = f /\ BatchSizes[batch.no] = sz /\ NextOffset(batch.no) = f + sz
              /\ NextOffset(NumBatches) \in Nat /\ f + sz <= NextOffset(NumBatches)
              /\ batch.index <= sz /\ NextOffset(batch.no - 1) = f
    BY <1>2, BatchRecords
  <1>4. PICK i \in Nat : batch.index = i /\ i <= sz /\ offset = f + i
    BY <1>2, <1>3, StateIs
  <1>5. PICK m \in Nat : m = n /\ i + m <= sz /\ (RecordsResult = "batch" => m = max \/ i + m = sz)
                         /\ (RecordsResult # "batch" => m = 0)
    <2>1. NumLeft = sz - i /\ sz - i \in Nat
      BY <1>3, <1>4 DEF NumLeft
    <2>2. Least(max, sz - i) \in Nat /\ Least(max, sz - i) <= sz - i /\ Least(max, sz - i) \in {max, sz - i}
      BY <2>1, LeastIs
    <2>3. /\ n \in Nat /\ i + n <= sz /\ (RecordsResult = "batch" => n = max \/ i + n = sz)
          /\ (RecordsResult # "batch" => n = 0)
      BY <2>1, <2>2
    <2> QED
      BY <2>3
  <1>6. /\ batch' = [batch EXCEPT !.n = IF RecordsResult = "empty" THEN @ ELSE 0, !.index = @ + m]
        /\ offset' = offset + m
        /\ delivered' = delivered \o Cells(FirstOffset(no) + batch.index + Skipped(m), m - Skipped(m))
        /\ holding' = (m - Skipped(m) > 0 \/ m = max \/ RecordsResult \notin {"batch", "empty"})
        /\ UNCHANGED <<use, size, nextByteOffset, nextRecordOffset, seekTo, returned>>
    <2> HIDE DEF n
    <2>1. m = n
      BY <1>5
    <2>2. /\ batch' = [batch EXCEPT !.n = IF RecordsResult = "empty" THEN @ ELSE 0, !.index = @ + n]
          /\ offset' = offset + n
          /\ delivered' = delivered \o Cells(FirstOffset(no) + batch.index + Skipped(n), n - Skipped(n))
          /\ holding' = (n - Skipped(n) > 0 \/ n = max \/ RecordsResult \notin {"batch", "empty"})
          /\ UNCHANGED <<use, size, nextByteOffset, nextRecordOffset, seekTo, returned>>
      BY DEF Read, n
    <2> QED
      BY <2>1, <2>2
  <1> HIDE DEF n, skip
  <1>7. /\ batch'.no = no /\ batch'.n = (IF RecordsResult = "empty" THEN batch.n ELSE 0) /\ batch'.index = i + m
        /\ batch' \in [no : 0 .. NumBatches, n : {0, DataCells}, index : 0 .. NextOffset(NumBatches)]
    <2>1. batch' = [no |-> no, n |-> IF RecordsResult = "empty" THEN batch.n ELSE 0, index |-> i + m]
      BY <1>4, <1>6, StateIs
    <2>2. i + m \in 0 .. NextOffset(NumBatches) /\ no \in 0 .. NumBatches /\ batch.n \in {0, DataCells}
      BY <1>3, <1>5, StateIs, Sizes
    <2> HIDE DEF no
    <2> QED
      BY <2>1, <2>2
  <1>8. /\ PlaceInv' /\ OrderInv' /\ NeverGarbage'
        /\ Live' <=> RecordsResult \in {"batch", "empty"}
        /\ result' \in {"batch", "UnexpectedEOF"}
        /\ RecordsResult \notin {"batch", "empty"} => size \div BatchCells = no - 1
    BY <1>1, <1>2, <1>6, <1>7, RecordsPlace
  <1>9. program' = program
    BY <1>6 DEF program
  <1>10. TypeOK'
    <2>1. (input.pos \in Nat /\ input.offset \in Nat /\ Len(input.buf) <= BufferSize)'
      BY <1>1, <1>2, <1>6, RecordsRead
    <2>2. offset' \in 0 .. NextOffset(NumBatches) /\ holding' \in BOOLEAN
      BY <1>3, <1>4, <1>5, <1>6
    <2> QED
      BY <1>6, <1>7, <1>8, <2>1, <2>2 DEF IInv, TypeOK
  <1>11. PICK t \in Nat : t = seekTo
    BY StateIs
  <1>12. PICK s \in Nat : s = Skipped(m) /\ s = IF offset < t THEN Least(t - offset, m) ELSE 0
    BY <1>11, StateIs DEF Skipped, Least
  <1>13. PICK e \in Nat : e = (IF offset + m <= t THEN 0 ELSE (offset + m) - t) /\ e = Over(offset + m)
    BY <1>11, StateIs DEF Over
  <1>14. m - s \in Nat /\ delivered' = Cells(t, e) /\ Len(delivered') = e /\ delivered' \in Seq(Nat)
    <2>1. PICK d \in Nat : d = (IF offset <= t THEN 0 ELSE offset - t) /\ d = Over(offset)
      BY <1>11, StateIs DEF Over
    <2>2. delivered = Cells(t, d)
      BY <1>2, <1>11, <2>1
    <2>3. FirstOffset(no) + batch.index + Skipped(m) = offset + s
      BY <1>3, <1>4, <1>12
    <2>4. delivered' = Cells(t, d) \o Cells(offset + s, m - s)
      BY <1>6, <1>12, <2>2, <2>3
    <2>5. m - s \in Nat /\ Cells(t, d) \o Cells(offset + s, m - s) = Cells(t, e)
      <3>1. PICK o \in Nat : o = offset
        BY StateIs
      <3>2. (o < t => s = Least(t - o, m)) /\ (o >= t => s = 0)
        BY <1>12, <3>1
      <3>3. (o <= t => d = 0) /\ (o > t => d = o - t)
        BY <2>1, <3>1
      <3>4. (o + m <= t => e = 0) /\ (o + m > t => e = (o + m) - t)
        BY <1>13, <3>1
      <3>5. /\ m - s \in Nat /\ o + s \in Nat
            /\ m - s = 0 => e = d
            /\ m - s # 0 => o + s = t + d /\ e = d + (m - s)
        BY <3>2, <3>3, <3>4 DEF Least
      <3>6. PICK p \in Nat, r \in Nat : p = o + s /\ r = m - s
        BY <3>5
      <3>7. (r = 0 => e = d) /\ (r # 0 => p = t + d /\ e = d + r)
        BY <3>5, <3>6
      <3>8. Cells(t, d) \o Cells(p, r) = Cells(t, e)
        <4>1. CASE r = 0
          <5>1. Cells(t, d) \o Cells(p, 0) = Cells(t, d)
            BY CellsNone, Zenon
          <5> QED
            BY <3>7, <4>1, <5>1, Zenon
        <4>2. CASE r # 0
          <5>1. Cells(t, d) \o Cells(t + d, r) = Cells(t, d + r)
            <6>1. t \in Nat /\ d \in Nat /\ r \in Nat
              OBVIOUS
            <6>2. \A k, j \in Nat : Cells(t, k) \o Cells(t + k, j) = Cells(t, k + j)
              BY <6>1, CellsConcats, Zenon
            <6>3. \A j \in Nat : Cells(t, d) \o Cells(t + d, j) = Cells(t, d + j)
              BY <6>1, <6>2, Zenon
            <6> QED
              BY <6>1, <6>3, Zenon
          <5> QED
            BY <3>7, <4>2, <5>1, Zenon
        <4> QED
          BY <4>1, <4>2
      <3>9. Cells(t, d) \o Cells(o + s, m - s) = Cells(t, e)
        BY <3>6, <3>8
      <3> QED
        BY <3>1, <3>5, <3>9
    <2>6. Len(Cells(t, e)) = e /\ Cells(t, e) \in Seq(Nat)
      BY CellsLen
    <2> QED
      BY <2>4, <2>5, <2>6
  <1>15. BatchesInv'
    BY <1>1, <1>9 DEF BatchesInv
  <1>16. batch'.n > 0 => RecordsResult = "empty" /\ i + m = 0
    <2>1. RecordsResult # "empty" => ~(batch'.n > 0)
      BY <1>7
    <2> QED
      BY <1>2, <1>4, <1>5, <1>7, <2>1
  <1>17. RecordsInv'
    <2>1. holding' => program' = "records" /\ result' \notin {"none", "skip"} /\ batch'.no > 0
      BY <1>1, <1>2, <1>7, <1>8, <1>9
    <2>2. delivered' = Cells(seekTo', Len(delivered')) /\ (batch'.n > 0 => batch'.index = 0)
      BY <1>6, <1>7, <1>11, <1>14, <1>16
    <2>3. offset' = FirstOffset(batch'.no) + batch'.index /\ Len(delivered') = Over(offset')
      <3>1. FirstOffset(batch'.no) = f
        BY <1>3, <1>7
      <3>2. offset' = f + (i + m)
        BY <1>4, <1>6
      <3>3. Len(delivered') = Over(offset')
        BY <1>6, <1>13, <1>14
      <3> QED
        BY <1>7, <3>1, <3>2, <3>3
    <2>4. ASSUME ~holding', Live'
          PROVE  \/ /\ batch'.n > 0 /\ size <= DataAt(batch'.no)
                    /\ Len(delivered') = Over(FirstOffset(batch'.no))
                 \/ /\ batch'.n > 0 => NextOffset(batch'.no) <= seekTo
                    /\ Len(delivered') = Over(NextOffset(batch'.no))
      <3>1. m # max /\ RecordsResult \in {"batch", "empty"}
        BY <1>6, <2>4
      <3>2. CASE RecordsResult = "empty"
        <4>1. batch.n > 0 /\ size <= DataAt(no)
          BY <1>1, <1>2, <1>6, <3>2, RecordsRead
        <4>2. batch'.n > 0
          BY <1>7, <3>2, <4>1
        <4>3. offset' = FirstOffset(batch'.no)
          BY <1>3, <1>4, <1>6, <1>7, <1>16, <4>2
        <4> QED
          BY <1>7, <2>3, <4>1, <4>2, <4>3
      <3>3. CASE RecordsResult = "batch"
        <4>1. i + m = sz
          BY <1>5, <3>1, <3>3
        <4>2. offset' = NextOffset(batch'.no)
          BY <1>3, <1>4, <1>6, <1>7, <4>1
        <4>3. ~(batch'.n > 0)
          BY <1>16, <3>3
        <4> QED
          BY <2>3, <4>2, <4>3
      <3> QED
        BY <3>1, <3>2, <3>3
    <2> QED
      BY <1>6, <2>1, <2>2, <2>3, <2>4 DEF RecordsInv, Over
  <1>18. IndexInv'
    <2>1. batch'.no # 0 /\ BatchSizes[batch'.no] = sz /\ batch'.index <= BatchSizes[batch'.no]
      BY <1>2, <1>3, <1>5, <1>7
    <2>2. result' # "skip" /\ program' # "metadata" /\ delivered' \in Seq(Nat)
      BY <1>1, <1>8, <1>9, <1>14
    <2> QED
      BY <1>6, <2>1, <2>2 DEF IInv, IndexInv
  <1>19. CompleteAtEOF'
    <2> SUFFICES ASSUME result' \in {"EOF", "UnexpectedEOF"}, seekTo = 0
                 PROVE  Len(delivered') = NextOffset(size \div BatchCells)
      BY <1>6 DEF CompleteAtEOF
    <2>1. RecordsResult \notin {"batch", "empty"}
      BY <1>8 DEF Live
    <2>2. batch.n > 0
      BY <1>1, <1>2, <1>6, <2>1, RecordsRead
    <2>3. i = 0 /\ m = 0 /\ offset + m = f /\ t = 0
      BY <1>2, <1>4, <1>5, <1>11, <2>1, <2>2
    <2>4. e = f
      BY <1>13, <2>3
    <2> QED
      BY <1>3, <1>8, <1>14, <2>1, <2>4
  <1> QED
    BY <1>8, <1>10, <1>15, <1>17, <1>18, <1>19 DEF IInv

-----------------------------------------------------------------------------
(* Seek.                                                                   *)

\* A Seek that panics changes nothing but the result.
LEMMA PanicStep ==
    ASSUME IInv, Panic
    PROVE  IInv'
  <1>1. /\ result' = "panic"
        /\ UNCHANGED <<use, size, input, nextByteOffset, nextRecordOffset, batch, holding,
                       offset, seekTo, returned, delivered>>
    BY DEF Panic
  <1>2. program' = program /\ BufferSize' = BufferSize
    BY <1>1 DEF program, BufferSize
  <1>3. ~Live'
    BY <1>1 DEF Live
  <1>4. TypeOK'
    BY <1>1, <1>2 DEF IInv, TypeOK
  <1>5. PlaceInv'
    BY <1>1, <1>2, <1>3 DEF IInv, PlaceInv, Good
  <1>6. OrderInv'
    BY <1>1 DEF IInv, OrderInv
  <1>7. BatchesInv'
    BY <1>1, <1>2, <1>3 DEF IInv, BatchesInv
  <1>8. RecordsInv'
    BY <1>1, <1>2, <1>3 DEF IInv, RecordsInv
  <1>9. IndexInv'
    BY <1>1, <1>2 DEF IInv, IndexInv
  <1>10. NeverGarbage' /\ CompleteAtEOF'
    BY <1>1 DEF NeverGarbage, CompleteAtEOF
  <1> QED
    BY <1>4, <1>5, <1>6, <1>7, <1>8, <1>9, <1>10 DEF IInv

\* A seek, of LogReader or of LogRecordReader, before the end of the current
\* batch or behind it.
LEMMA SeekReaderStep ==
    ASSUME IInv, Live, use.seeks, batch.no # 0, NEW to \in 0 .. NextOffset(NumBatches), SeekReader(to),
           UNCHANGED <<use, size>>, holding' = FALSE, offset' \in 0 .. NextOffset(NumBatches)
    PROVE  IInv'
  <1>0. to \in Nat /\ NextOffset(0) = 0 /\ 0 <= to
    BY Offsets, Sizes
  <1>1. /\ nextRecordOffset' = to /\ seekTo' = to /\ result' = "none" /\ returned' = <<>> /\ delivered' = <<>>
        /\ IF to < NextOffset(batch.no)
           THEN input' = SeekInput(input, 0) /\ batch' = noBatch /\ nextByteOffset' = 0
           ELSE UNCHANGED <<input, batch, nextByteOffset>>
    BY DEF SeekReader
  <1>2. program' = program /\ BufferSize' = BufferSize /\ Live'
    BY <1>1 DEF program, BufferSize, Live
  <1>3. delivered' = Cells(to, 0) /\ Len(delivered') = 0 /\ Len(returned') = 0
    BY <1>0, <1>1, CellsAre
  <1>4. Over(0)' = 0
    BY <1>0, <1>1 DEF Over
  <1>5. batch.no > 0
    BY StateIs
  <1>6. CASE to < NextOffset(batch.no)
    <2>1. batch'.no = 0 /\ batch'.n = 0 /\ batch'.index = 0 /\ batch' = [no |-> 0, n |-> 0, index |-> 0]
      BY <1>1, <1>6 DEF noBatch
    <2>2. input' = Reader(0, 0) /\ Good(Reader(0, 0))
      <3>1. PICK o \in Nat, k \in Nat : input = Reader(o, k) /\ o = input.offset
        BY InputIs
      <3>2. o > 0
        <4>1. DataAt(batch.no) > 0 /\ nextByteOffset > 0 /\ (input.offset = DataAt(batch.no) \/ input.offset = nextByteOffset)
          BY <1>5, CurrentBatch, Sizes DEF IInv, PlaceInv
        <4> QED
          BY <3>1, <4>1
      <3>3. ~(o <= 0 /\ 0 < o + k)
        BY <3>2
      <3>4. SeekInput(Reader(o, k), 0) = Reader(0, 0) /\ Good(Reader(0, 0))
        BY <3>3, SeekInputIs, StateIs
      <3> QED
        BY <1>1, <1>6, <3>1, <3>4
    <2>3. /\ Good(input)'
          /\ (input.pos \in Nat /\ input.offset \in Nat /\ Len(input.buf) <= BufferSize)'
          /\ input'.offset = 0
      BY <2>2, GoodNext, StateIs, ReaderIs
    <2>4. ~(batch'.n > 0) /\ ~(batch'.no > 0)
      BY <2>1
    <2>5. nextByteOffset' = 0 /\ FrameAt(0 + 1) = 0 /\ 0 <= size /\ 0 \in 0 .. FullSize
      <3>1. FullSize \in Nat
        BY Frames, Sizes
      <3> QED
        BY <1>1, <1>6, <3>1, Frames, StateIs
    <2>6. TypeOK'
      <3>1. 0 \in 0 .. NumBatches /\ 0 \in 0 .. NextOffset(NumBatches)
        BY <1>0, Sizes, Offsets
      <3>2. batch' \in [no : 0 .. NumBatches, n : {0, DataCells}, index : 0 .. NextOffset(NumBatches)]
        BY <2>1, <3>1
      <3> QED
        BY <1>1, <2>3, <2>5, <3>2 DEF IInv, TypeOK
    <2>7. PlaceInv'
      BY <2>1, <2>3, <2>4, <2>5 DEF PlaceInv
    <2>8. OrderInv'
      BY <1>0, <1>1, <1>3, <2>1 DEF OrderInv
    <2>9. BatchesInv'
      BY <1>1, <1>3, <2>1, <2>4 DEF BatchesInv
    <2>10. RecordsInv'
      BY <1>0, <1>1, <1>3, <1>4, <2>1, <2>4 DEF RecordsInv
    <2>11. IndexInv'
      BY <1>0, <1>1, <2>1, <2>4 DEF IndexInv
    <2>12. NeverGarbage' /\ CompleteAtEOF'
      BY <1>1 DEF NeverGarbage, CompleteAtEOF
    <2> QED
      BY <2>6, <2>7, <2>8, <2>9, <2>10, <2>11, <2>12 DEF IInv
  <1>7. CASE ~(to < NextOffset(batch.no))
    <2>1. UNCHANGED <<input, batch, nextByteOffset>>
      BY <1>1, <1>7
    <2>2. NextOffset(batch.no) <= to /\ to # 0 /\ NextOffset(batch.no) \in Nat
      BY <1>0, <1>5, <1>7, CurrentBatch
    <2>3. TypeOK'
      BY <1>1, <1>2, <2>1 DEF IInv, TypeOK
    <2>4. PlaceInv'
      BY <1>2, <2>1 DEF IInv, PlaceInv, Good
    <2>5. OrderInv'
      BY <1>1, <1>3, <2>1, <2>2 DEF OrderInv
    <2>6. BatchesInv'
      BY <1>1, <1>2, <2>1, <2>2 DEF IInv, BatchesInv
    <2>7. Over(NextOffset(batch.no))' = 0
      BY <1>1, <2>1, <2>2 DEF Over
    <2>8. RecordsInv'
      BY <1>1, <1>2, <1>3, <2>1, <2>2, <2>7 DEF IInv, RecordsInv
    <2>9. IndexInv'
      BY <1>1, <1>2, <2>1 DEF IInv, IndexInv
    <2>10. NeverGarbage' /\ CompleteAtEOF'
      BY <1>1 DEF NeverGarbage, CompleteAtEOF
    <2> QED
      BY <2>3, <2>4, <2>5, <2>6, <2>8, <2>9, <2>10 DEF IInv
  <1> QED
    BY <1>6, <1>7

\* Seek, in each of its cases.
LEMMA SeekStep ==
    ASSUME IInv, NEW to \in 0 .. NextOffset(NumBatches), Seek(to)
    PROVE  IInv'
  <1>1. use.seeks /\ Live
    BY DEF Seek, Live
  <1>2. CASE Panic
    BY <1>2, PanicStep
  <1>3. CASE batch.no # 0 /\ program # "records" /\ SeekReader(to) /\ UNCHANGED <<use, size, holding, offset>>
    <2>1. holding' = FALSE
      BY <1>3, StateIs DEF IInv, RecordsInv
    <2>2. offset' \in 0 .. NextOffset(NumBatches)
      BY <1>3 DEF IInv, TypeOK
    <2> QED
      BY <1>1, <1>3, <2>1, <2>2, SeekReaderStep
  <1>4. CASE /\ batch.no # 0 /\ SeekReader(to) /\ holding' = FALSE /\ UNCHANGED <<use, size>>
             /\ offset' = IF to < offset THEN 0 ELSE IF holding THEN NextOffset(batch.no) ELSE offset
    <2>1. batch.no > 0 /\ offset \in 0 .. NextOffset(NumBatches) /\ NextOffset(NumBatches) \in Nat
      <3>1. NumBatches \in 0 .. NumBatches
        BY Sizes
      <3> QED
        BY <1>4, <3>1, StateIs, Offsets DEF IInv, TypeOK
    <2>2. NextOffset(batch.no) \in 0 .. NextOffset(NumBatches)
      BY <2>1, BatchRecords
    <2>3. offset' \in 0 .. NextOffset(NumBatches)
      BY <1>4, <2>1, <2>2
    <2> QED
      BY <1>1, <1>4, <2>3, SeekReaderStep
  <1> QED
    BY <1>2, <1>3, <1>4 DEF Seek

-----------------------------------------------------------------------------
\* The reader before the first call.
LEMMA InitStep ==
    ASSUME Init
    PROVE  IInv
  <1>1. /\ use \in Uses /\ size \in 0 .. FullSize
        /\ input = [pos |-> 0, buf |-> <<>>, offset |-> 0]
        /\ nextByteOffset = 0 /\ nextRecordOffset = 0 /\ batch = noBatch /\ result = "none"
        /\ holding = FALSE /\ offset = 0 /\ seekTo = 0 /\ returned = <<>> /\ delivered = <<>>
    BY DEF Init
  <1>2. Cells(0, 0) = <<>> /\ FullSize \in Nat /\ FrameAt(0 + 1) = 0 /\ NextOffset(0) = 0
    BY CellsAre, Frames, Sizes, Offsets
  <1>3. BufferSize \in Nat \ {0}
    BY <1>1, ConstantsAssumption DEF BufferSize
  <1>4. input = Reader(0, 0) /\ Good(Reader(0, 0))
    BY <1>1, <1>2, <1>3, ReaderGood DEF Reader
  <1>5. input.pos = 0 /\ input.offset = 0 /\ input.buf = <<>> /\ Len(input.buf) = 0 /\ Len(delivered) = 0 /\ Len(returned) = 0
    BY <1>1
  <1>6. batch.no = 0 /\ batch.n = 0 /\ batch.index = 0 /\ ~(batch.n > 0) /\ ~(batch.no > 0)
    BY <1>1 DEF noBatch
  <1>7. NextOffset(NumBatches) \in Nat /\ NumBatches \in Nat
    BY Sizes, Offsets
  <1>8. TypeOK
    <2>1. batch \in [no : 0 .. NumBatches, n : {0, DataCells}, index : 0 .. NextOffset(NumBatches)]
      BY <1>1, <1>7 DEF noBatch
    <2>2. 0 \in 0 .. FullSize /\ 0 \in 0 .. NextOffset(NumBatches) /\ 0 <= BufferSize
      BY <1>2, <1>3, <1>7
    <2> QED
      BY <1>1, <1>5, <2>1, <2>2 DEF TypeOK
  <1>9. PlaceInv
    BY <1>1, <1>2, <1>4, <1>5, <1>6 DEF PlaceInv
  <1>10. OrderInv
    BY <1>1, <1>2, <1>5, <1>6 DEF OrderInv
  <1>11. BatchesInv
    BY <1>1, <1>2, <1>5, <1>6 DEF BatchesInv
  <1>12. RecordsInv
    BY <1>1, <1>2, <1>5, <1>6 DEF RecordsInv, Over
  <1>13. IndexInv
    BY <1>1, <1>6 DEF IndexInv
  <1>14. NeverGarbage /\ CompleteAtEOF
    BY <1>1 DEF NeverGarbage, CompleteAtEOF
  <1> QED
    BY <1>8, <1>9, <1>10, <1>11, <1>12, <1>13, <1>14 DEF IInv

\* Every step keeps the invariant.
LEMMA NextStep ==
    ASSUME SkipsPastBuffer, IInv, [Next]_vars
    PROVE  IInv'
  <1>1. CASE ReadRecordBatch
    <2>1. Live /\ (result # "skip" => DoneWithBatch)
      BY <1>1 DEF ReadRecordBatch, Live
    <2> DEFINE frame == ReadCells(SkipRecords, FrameCells)
    <2>2. CASE /\ Decoded(frame) = {}
               /\ result' = FrameError(frame)
               /\ batch' = [batch EXCEPT !.n = 0]
               /\ UNCHANGED <<nextByteOffset, nextRecordOffset, holding, offset, returned>>
      BY <1>1, <2>1, <2>2, FrameFails DEF ReadRecordBatch
    <2>3. CASE \E b \in Decoded(frame) :
                /\ batch' = [no |-> b, n |-> DataCells, index |-> 0]
                /\ nextByteOffset' = nextByteOffset + BatchCells
                /\ IF Wanted(b)
                   THEN /\ result' = "batch"
                        /\ nextRecordOffset' = NextOffset(b)
                        /\ returned' = Append(returned, b)
                        /\ holding' = (program = "records" /\ NextOffset(b) >= seekTo)
                        /\ offset' = IF holding' THEN FirstOffset(b) ELSE offset
                   ELSE /\ result' = "skip"
                        /\ UNCHANGED <<nextRecordOffset, holding, offset, returned>>
      <3>1. PICK b \in Decoded(frame) :
                /\ batch' = [no |-> b, n |-> DataCells, index |-> 0]
                /\ nextByteOffset' = nextByteOffset + BatchCells
                /\ IF Wanted(b)
                   THEN /\ result' = "batch"
                        /\ nextRecordOffset' = NextOffset(b)
                        /\ returned' = Append(returned, b)
                        /\ holding' = (program = "records" /\ NextOffset(b) >= seekTo)
                        /\ offset' = IF holding' THEN FirstOffset(b) ELSE offset
                   ELSE /\ result' = "skip"
                        /\ UNCHANGED <<nextRecordOffset, holding, offset, returned>>
        BY <2>3
      <3>2. input' = AfterRead(SkipRecords, FrameCells) /\ UNCHANGED <<use, size, seekTo, delivered>>
        BY <1>1 DEF ReadRecordBatch
      <3> QED
        BY <2>1, <3>1, <3>2, FrameRead
    <2> QED
      BY <1>1, <2>2, <2>3 DEF ReadRecordBatch
  <1>2. CASE ReadBatch
    BY <1>2, BatchStep
  <1>3. ASSUME NEW max \in 1 .. 2, Read(max)
        PROVE  IInv'
    BY <1>3, ReadStep
  <1>4. ASSUME NEW to \in 0 .. NextOffset(NumBatches), Seek(to)
        PROVE  IInv'
    BY <1>4, SeekStep
  <1>5. CASE UNCHANGED vars
    <2>1. UNCHANGED <<use, size, input, nextByteOffset, nextRecordOffset, batch, result,
                      holding, offset, seekTo, returned, delivered>>
      BY <1>5 DEF vars
    <2> QED
      BY <2>1 DEF IInv, TypeOK, PlaceInv, Good, OrderInv, BatchesInv, RecordsInv, IndexInv, NeverGarbage,
                  CompleteAtEOF, Live, Over, program, BufferSize
  <1> QED
    BY <1>1, <1>2, <1>3, <1>4, <1>5 DEF Next

\* The invariant holds in every reachable state.
LEMMA Invariance == SkipsPastBuffer => (Spec => []IInv)
  <1> SUFFICES ASSUME SkipsPastBuffer PROVE Spec => []IInv
    OBVIOUS
  <1>1. Init => IInv
    BY InitStep
  <1>2. IInv /\ [Next]_vars => IInv'
    BY NextStep
  <1> QED
    BY <1>1, <1>2, PTL DEF Spec

\* What a program reads is the log (LogIntact), for logs, batches, frames and
\* files of any size, whatever the program and its seeks: the batches and
\* records come in order and each once, from the one that is sought on, no
\* cell is decoded as what it is not, and at the end of a file that was cut
\* anywhere all that is complete was delivered.  A buffer that is larger
\* than the records of a batch is excluded where records are skipped.
THEOREM LogIntactHolds == SkipsPastBuffer => (Spec => []LogIntact)
  <1>1. IInv => LogIntact
    <2> SUFFICES ASSUME IInv PROVE LogIntact
      OBVIOUS
    <2>1. BatchesInOrder
      <3> SUFFICES ASSUME returned # <<>>
                   PROVE  returned = Cells(Head(returned), Len(returned)) /\ FirstOffset(Head(returned)) <= seekTo
        BY DEF BatchesInOrder
      <3>1. PICK k \in Nat : k = Len(returned) /\ k > 0
        BY EmptySeq DEF IInv, OrderInv
      <3>2. PICK f \in Nat : f = batch.no - k + 1
        BY <3>1, StateIs DEF IInv, OrderInv
      <3>3. returned = Cells(f, k) /\ FirstOffset(f) <= seekTo
        BY <3>1, <3>2 DEF IInv, OrderInv
      <3>4. Head(returned) = f
        <4>1. /\ Cells(f, k) \in Seq(Nat) /\ Len(Cells(f, k)) = k
              /\ \A i \in 1 .. k : Cells(f, k)[i] = f + i - 1
          BY CellsAre
        <4>2. Cells(f, k)[1] = f
          BY <3>1, <4>1
        <4> QED
          BY <3>1, <3>3, <4>1, <4>2
      <3> QED
        BY <3>1, <3>3, <3>4
    <2>2. RecordsInOrder
      <3>1. CASE program = "records"
        BY <3>1 DEF IInv, RecordsInv, RecordsInOrder
      <3>2. CASE program = "batches"
        BY <3>2 DEF IInv, BatchesInv, RecordsInOrder
      <3>3. CASE program = "metadata"
        <4>1. delivered = <<>> /\ Len(delivered) = 0 /\ Cells(seekTo, 0) = <<>>
          BY <3>3, StateIs, CellsAre DEF IInv, IndexInv
        <4> QED
          BY <4>1 DEF RecordsInOrder
      <3> QED
        BY <3>1, <3>2, <3>3, StateIs
    <2> QED
      BY <2>1, <2>2 DEF LogIntact, IInv
  <1> QED
    BY <1>1, Invariance, PTL
=============================================================================
