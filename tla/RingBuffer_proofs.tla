-------------------------- MODULE RingBuffer_proofs --------------------------
(***************************************************************************)
(* Proofs about RingBuffer, for buffers, chunks and reads of any size.     *)
(***************************************************************************)
EXTENDS RingBuffer, SequenceTheorems, TLAPS

-----------------------------------------------------------------------------
(* Lemmas about the indices                                                *)

\* Of a number below twice the size the remainder is found by subtraction.
LEMMA Remainder ==
  ASSUME NEW s \in Nat \ {0}, NEW a \in 0..(2 * s - 1)
  PROVE  a % s = IF a < s THEN a ELSE a - s
<1>1. a = s * (a \div s) + (a % s) /\ a % s \in 0..(s - 1) /\ a \div s \in Nat
  OBVIOUS
<1>2. CASE a < s
  BY <1>2
<1>3. CASE a >= s
  <2> DEFINE q == a \div s
  <2> HIDE DEF q
  <2>1. q \in Nat /\ a = s * q + (a % s)
    BY <1>1 DEF q
  <2>2. CASE q = 0
    BY <2>1, <2>2, <1>1, <1>3
  <2>3. CASE q >= 2
    <3>1. s * q >= s * 2
      BY <2>1, <2>3
    <3> QED BY <3>1, <2>1, <1>1
  <2>4. CASE q = 1
    BY <2>1, <2>4, <1>3
  <2> QED BY <2>1, <2>2, <2>3, <2>4
<1> QED BY <1>2, <1>3

\* After advances an index around the buffer.
LEMMA Advance ==
  ASSUME NEW p \in Cell, NEW n \in 0..Size
  PROVE  /\ After(p, n) = IF p + n < Size THEN p + n ELSE p + n - Size
         /\ After(p, n) \in Cell
<1>1. Size \in Nat \ {0} /\ p \in 0..(Size - 1)
  BY SizesAssumption DEF Size, FillByte, Cell
<1>2. p + n \in 0..(2 * Size - 1)
  BY <1>1
<1> DEFINE a == p + n
           s == Size
<1> HIDE DEF a, s
<1>3. a % s = IF a < s THEN a ELSE a - s
  <2>1. s \in Nat \ {0} /\ a \in 0..(2 * s - 1)
    BY <1>1, <1>2 DEF a, s
  <2> QED BY <2>1, Remainder
<1>4. After(p, n) = IF p + n < Size THEN p + n ELSE p + n - Size
  BY <1>1, <1>2, <1>3 DEF After, a, s
<1> QED BY <1>1, <1>4 DEF Cell

\* The number of unread bytes is the way from tail to head.
LEMMA Distance ==
  ASSUME NEW h \in Cell, NEW t \in Cell
  PROVE  /\ DataSize(h, t) = IF h >= t THEN h - t ELSE h + Size - t
         /\ DataSize(h, t) \in 0..Capacity
<1>1. Size \in Nat \ {0} /\ h \in 0..(Size - 1) /\ t \in 0..(Size - 1)
      /\ Size = Capacity + 1 /\ Capacity \in Nat
  BY SizesAssumption DEF Size, FillByte, Cell
<1>2. h + Size - t \in 0..(2 * Size - 1)
  BY <1>1
<1> DEFINE a == h + Size - t
           s == Size
<1> HIDE DEF a, s
<1>4. a % s = IF a < s THEN a ELSE a - s
  <2>1. s \in Nat \ {0} /\ a \in 0..(2 * s - 1)
    BY <1>1, <1>2 DEF a, s
  <2> QED BY <2>1, Remainder
<1>3. DataSize(h, t) = IF h + Size - t < Size THEN h + Size - t
                       ELSE h + Size - t - Size
  BY <1>1, <1>2, <1>4 DEF DataSize, a, s
<1> QED BY <1>1, <1>3

\* Whichever way the bytes are split over two copies, byte i goes i cells on.
LEMMA Copied ==
  ASSUME NEW p \in Cell, NEW n \in 0..Capacity, NEW i \in 0..(n - 1)
  PROVE  CellOf(p, n, i) = After(p, i)
<1>1. Size = Capacity + 1 /\ Capacity \in Nat /\ p \in 0..(Size - 1)
  BY SizesAssumption DEF Size, FillByte, Cell
<1>2. n \in 0..Size /\ i \in 0..Size
  BY <1>1
<1> QED BY <1>1, <1>2, Advance DEF CellOf

\* Cells at different distances from an index are different.
LEMMA Distinct ==
  ASSUME NEW p \in Cell, NEW i \in 0..Capacity, NEW j \in 0..Capacity, i # j
  PROVE  After(p, i) # After(p, j)
<1>1. Size = Capacity + 1 /\ Capacity \in Nat /\ p \in 0..(Size - 1)
  BY SizesAssumption DEF Size, FillByte, Cell
<1> QED BY <1>1, Advance

\* The cells from head on are those that follow the unread bytes, and stay so
\* when either index moves.
LEMMA Follow ==
  ASSUME NEW h \in Cell, NEW t \in Cell, NEW n \in Nat,
         DataSize(h, t) + n <= Capacity
  PROVE  /\ \A i \in 0..n : After(h, i) = After(t, DataSize(h, t) + i)
         /\ DataSize(After(h, n), t) = DataSize(h, t) + n
<1>1. Size = Capacity + 1 /\ Capacity \in Nat /\ h \in 0..(Size - 1)
      /\ t \in 0..(Size - 1)
  BY SizesAssumption DEF Size, FillByte, Cell
<1>2. DataSize(h, t) = IF h >= t THEN h - t ELSE h + Size - t
  BY Distance
<1>3. ASSUME NEW i \in 0..n PROVE After(h, i) = After(t, DataSize(h, t) + i)
  <2>1. i \in 0..Size /\ DataSize(h, t) + i \in 0..Size
    BY <1>1, <1>2
  <2>2. After(h, i) = IF h + i < Size THEN h + i ELSE h + i - Size
    BY <2>1, Advance
  <2>3. After(t, DataSize(h, t) + i) =
          IF t + (DataSize(h, t) + i) < Size THEN t + (DataSize(h, t) + i)
          ELSE t + (DataSize(h, t) + i) - Size
    BY <2>1, Advance
  <2> QED BY <2>1, <1>1, <1>2, <2>2, <2>3
<1>4. n \in 0..Size
  BY <1>1, <1>2
<1>5. After(h, n) \in Cell
      /\ After(h, n) = IF h + n < Size THEN h + n ELSE h + n - Size
  BY <1>4, Advance
<1>6. DataSize(After(h, n), t) = IF After(h, n) >= t THEN After(h, n) - t
                                 ELSE After(h, n) + Size - t
  BY <1>5, Distance
<1>7. DataSize(After(h, n), t) = DataSize(h, t) + n
  BY <1>1, <1>2, <1>4, <1>5, <1>6
<1> QED BY <1>3, <1>7

LEMMA Consumed ==
  ASSUME NEW h \in Cell, NEW t \in Cell, NEW n \in 0..DataSize(h, t)
  PROVE  /\ After(t, n) \in Cell
         /\ DataSize(h, After(t, n)) = DataSize(h, t) - n
         /\ \A i \in 0..(DataSize(h, t) - n) :
              After(After(t, n), i) = After(t, n + i)
<1>1. Size = Capacity + 1 /\ Capacity \in Nat /\ h \in 0..(Size - 1)
      /\ t \in 0..(Size - 1)
  BY SizesAssumption DEF Size, FillByte, Cell
<1>2. DataSize(h, t) = (IF h >= t THEN h - t ELSE h + Size - t)
      /\ DataSize(h, t) \in 0..Capacity
  BY Distance
<1>3. n \in 0..Size
  BY <1>1, <1>2
<1>4. After(t, n) \in Cell
      /\ After(t, n) = IF t + n < Size THEN t + n ELSE t + n - Size
  BY <1>3, Advance
<1>5. DataSize(h, After(t, n)) = IF h >= After(t, n) THEN h - After(t, n)
                                 ELSE h + Size - After(t, n)
  BY <1>4, Distance
<1>6. DataSize(h, After(t, n)) = DataSize(h, t) - n
  BY <1>1, <1>2, <1>3, <1>4, <1>5
<1>7. ASSUME NEW i \in 0..(DataSize(h, t) - n)
      PROVE  After(After(t, n), i) = After(t, n + i)
  <2>1. i \in 0..Size /\ n + i \in 0..Size
    BY <1>1, <1>2
  <2>2. After(After(t, n), i) = IF After(t, n) + i < Size THEN After(t, n) + i
                                ELSE After(t, n) + i - Size
    BY <1>4, <2>1, Advance
  <2>3. After(t, n + i) = IF t + (n + i) < Size THEN t + (n + i)
                          ELSE t + (n + i) - Size
    BY <2>1, Advance
  <2> QED BY <1>1, <1>2, <1>3, <1>4, <2>1, <2>2, <2>3
<1> QED BY <1>4, <1>6, <1>7

-----------------------------------------------------------------------------
(* The inductive invariant                                                 *)

LEMMA Sizes == /\ Size = Capacity + 1 /\ Capacity \in Nat \ {0}
               /\ Cell = 0..Capacity /\ MaxRead \in Nat \ {0}
BY SizesAssumption DEF Size, FillByte, Cell

LEMMA InvInit == Init => IInv
<1> SUFFICES ASSUME Init PROVE IInv
  OBVIOUS
<1>1. TypeOK
  BY Sizes DEF Init, TypeOK, Job, Places
<1>2. DataSize(head, tail) = 0
  BY Sizes, Distance DEF Init
<1> QED BY <1>1, <1>2, Sizes DEF Init, IInv, RoomInv, CopyInv

\* While the writer copies, its cells follow the unread ones.
LEMMA WriterCells ==
  ASSUME IInv, writer.at = "copy", NEW i \in 0..(writer.n - 1)
  PROVE  /\ CellOf(head, writer.n, i) = After(head, i)
         /\ CellOf(head, writer.n, i) = After(tail, DataSize(head, tail) + i)
         /\ CellOf(head, writer.n, i) \in Cell
         /\ \A j \in 0..(DataSize(head, tail) - 1) :
              CellOf(head, writer.n, i) # After(tail, j)
<1> DEFINE D == DataSize(head, tail)
<1>1. head \in Cell /\ tail \in Cell /\ writer.n \in Nat
      /\ D + writer.n < Capacity
  BY DEF IInv, TypeOK, RoomInv, Job
<1>2. D \in 0..Capacity
  BY <1>1, Distance
<1>3. writer.n \in 0..Capacity /\ i \in 0..writer.n /\ D + i \in 0..Capacity
      /\ i \in 0..Size /\ D + writer.n <= Capacity
  BY <1>1, <1>2, Sizes
<1>4. CellOf(head, writer.n, i) = After(head, i)
  BY <1>1, <1>3, Copied
<1>5. After(head, i) = After(tail, D + i) /\ After(head, i) \in Cell
  BY <1>1, <1>3, Follow, Advance
<1>6. ASSUME NEW j \in 0..(D - 1) PROVE After(tail, D + i) # After(tail, j)
  <2>1. j \in 0..Capacity /\ D + i # j
    BY <1>1, <1>2, <1>3, Sizes
  <2> QED BY <2>1, <1>1, <1>3, Distinct
<1> QED BY <1>4, <1>5, <1>6

\* While the reader copies, its cells are the first unread ones.
LEMMA ReaderCells ==
  ASSUME IInv, reader.at = "copy", NEW i \in 0..(reader.n - 1)
  PROVE  /\ CellOf(tail, reader.n, i) = After(tail, i)
         /\ CellOf(tail, reader.n, i) \in Cell
         /\ i \in 0..(DataSize(head, tail) - 1)
         /\ i + 1 \in 1..MaxRead
<1>1. head \in Cell /\ tail \in Cell /\ reader.n \in Nat
      /\ reader.n <= DataSize(head, tail) /\ reader.n \in 1..MaxRead
  BY DEF IInv, TypeOK, RoomInv, Job
<1>2. DataSize(head, tail) \in 0..Capacity
  BY <1>1, Distance
<1>3. reader.n \in 0..Capacity /\ i \in 0..Size
      /\ i \in 0..(DataSize(head, tail) - 1) /\ i + 1 \in 1..MaxRead
  BY <1>1, <1>2, Sizes
<1> QED BY <1>1, <1>3, Copied, Advance

\* The writer's steps before it copies.
LEMMA WriterPrepares ==
  ASSUME IInv, (\E n \in 1..MaxChunk : Recv(n)) \/ LookForRoom \/ CheckWrite
  PROVE  IInv'
<1> USE DEF IInv
<1>0. /\ UNCHANGED <<head, tail, buf, reader, out, fed>>
      /\ TypeOK /\ RoomInv /\ CopyInv
      /\ DataSize(head, tail) \in 0..Capacity
  BY Distance DEF Recv, LookForRoom, CheckWrite, TypeOK
<1>1. /\ writer' \in Job /\ arrived' \in Nat
      /\ writer'.at # "idle" => writer'.n \in 1..MaxChunk
      /\ writer'.at \in {"check", "copy"} =>
           DataSize(head, tail) + writer'.n < Capacity
      /\ writer'.todo \subseteq 0..(writer'.n - 1)
      /\ writer'.at = "copy" => writer'.todo = 0..(writer'.n - 1)
      /\ writer'.at # "copy" => writer'.todo = {}
  <2>1. ASSUME NEW n \in 1..MaxChunk, Recv(n)
        PROVE  /\ writer' = [at |-> "look", n |-> n, todo |-> {}]
               /\ arrived' = arrived
    BY <2>1 DEF Recv
  <2>2. CASE \E n \in 1..MaxChunk : Recv(n)
    BY <2>1, <2>2, SizesAssumption, <1>0 DEF TypeOK, Job, Places
  <2>3. CASE LookForRoom
    <3>1. writer.n \in 1..MaxChunk /\ writer.todo = {} /\ writer.n \in Nat
          /\ arrived \in Nat /\ writer \in Job
      BY <2>3, <1>0 DEF LookForRoom, RoomInv, CopyInv, TypeOK, Job
    <3>2. CASE HasRoom(writer.n)
      <4>1. writer' = [writer EXCEPT !.at = "check"] /\ arrived' = arrived
        BY <2>3, <3>2 DEF LookForRoom
      <4>2. DataSize(head, tail) + writer.n < Capacity
        BY <3>2, <3>1, <1>0, Sizes DEF HasRoom, FreeSize, FillByte
      <4> QED BY <4>1, <4>2, <3>1 DEF Job, Places
    <3>3. CASE ~HasRoom(writer.n)
      <4>1. writer' = [writer EXCEPT !.at = "idle"] /\ arrived' = arrived + writer.n
        BY <2>3, <3>3 DEF LookForRoom
      <4> QED BY <4>1, <3>1 DEF Job, Places
    <3> QED BY <3>2, <3>3
  <2>4. CASE CheckWrite
    <3>1. writer.n \in 1..MaxChunk /\ writer.todo = {} /\ writer.n \in Nat
          /\ arrived \in Nat /\ writer \in Job
          /\ DataSize(head, tail) + writer.n < Capacity
      BY <2>4, <1>0 DEF CheckWrite, RoomInv, CopyInv, TypeOK, Job
    <3>2. CASE WriteOverflow
      <4>1. writer' = [writer EXCEPT !.at = "idle"] /\ arrived' = arrived + writer.n
        BY <2>4, <3>2 DEF CheckWrite
      <4> QED BY <4>1, <3>1 DEF Job, Places
    <3>3. CASE ~WriteOverflow
      <4>1. writer' = [writer EXCEPT !.at = "copy", !.todo = 0..(writer.n - 1)]
            /\ arrived' = arrived
        BY <2>4, <3>3 DEF CheckWrite
      <4>2. 0..(writer.n - 1) \in SUBSET Nat
        BY <3>1
      <4> QED BY <4>1, <4>2, <3>1 DEF Job, Places
    <3> QED BY <3>2, <3>3
  <2> QED BY <2>2, <2>3, <2>4
<1>2. TypeOK'
  BY <1>0, <1>1 DEF TypeOK
<1>3. RoomInv'
  BY <1>0, <1>1 DEF RoomInv
<1>4. CopyInv'
  BY <1>0, <1>1 DEF CopyInv
<1> QED BY <1>2, <1>3, <1>4

\* A byte is written behind the unread ones and beside those already written.
LEMMA WriterCopies ==
  ASSUME IInv, WriteByte
  PROVE  IInv' /\ \A j \in 0..(DataSize(head, tail) - 1) :
                    buf'[After(tail, j)] = buf[After(tail, j)]
<1> USE DEF IInv
<1>0. /\ UNCHANGED <<head, tail, reader, out, arrived, fed>>
      /\ TypeOK /\ RoomInv /\ CopyInv
      /\ DataSize(head, tail) \in 0..Capacity /\ writer.at = "copy"
      /\ writer \in Job /\ writer.n \in Nat /\ arrived \in Nat
      /\ head \in Cell /\ tail \in Cell /\ buf \in [Cell -> Nat]
  BY Distance DEF WriteByte, TypeOK, Job
<1>1. PICK i \in writer.todo :
        /\ buf' = [buf EXCEPT ![CellOf(head, writer.n, i)] = arrived + i + 1]
        /\ writer' = [writer EXCEPT !.todo = @ \ {i}]
  BY DEF WriteByte
<1>2. i \in 0..(writer.n - 1) /\ i \in Nat
  BY <1>0, <1>1 DEF CopyInv
<1> DEFINE c == CellOf(head, writer.n, i)
<1>3. c \in Cell /\ c = After(head, i)
      /\ \A j \in 0..(DataSize(head, tail) - 1) : c # After(tail, j)
  BY <1>0, <1>2, WriterCells
<1>4. /\ writer'.at = "copy" /\ writer'.n = writer.n
      /\ writer'.todo = writer.todo \ {i} /\ writer' \in Job
  BY <1>0, <1>1 DEF Job
<1> HIDE DEF c
<1>5. buf' = [buf EXCEPT ![c] = arrived + i + 1] /\ arrived + i + 1 \in Nat
  BY <1>0, <1>1, <1>2 DEF c
<1>6. TypeOK'
  <2>1. buf' \in [Cell -> Nat]
    BY <1>0, <1>5
  <2> QED BY <2>1, <1>0, <1>4 DEF TypeOK
<1>7. RoomInv'
  BY <1>0, <1>4 DEF RoomInv
<1>8. \A j \in 0..(DataSize(head, tail) - 1) :
        buf'[After(tail, j)] = buf[After(tail, j)]
  <2> SUFFICES ASSUME NEW j \in 0..(DataSize(head, tail) - 1)
               PROVE  buf'[After(tail, j)] = buf[After(tail, j)]
    OBVIOUS
  <2>1. j \in 0..Size
    BY <1>0, Sizes
  <2>2. After(tail, j) \in Cell /\ After(tail, j) # c
    BY <1>0, <1>3, <2>1, Advance
  <2> QED BY <2>2, <1>5, <1>0
<1>9. CopyInv'
  <2>1. ASSUME NEW k \in 0..(writer.n - 1) \ (writer.todo \ {i})
        PROVE  buf'[CellOf(head, writer.n, k)] = arrived + k + 1
    <3>1. CASE k = i
      BY <3>1, <1>0, <1>3, <1>5 DEF c
    <3>2. CASE k # i
      <4>1. CellOf(head, writer.n, k) = After(head, k)
            /\ CellOf(head, writer.n, k) \in Cell
        BY <1>0, WriterCells
      <4>2. writer.n < Capacity
        BY <1>0, Sizes DEF RoomInv
      <4>3. k \in 0..Capacity /\ i \in 0..Capacity
        BY <1>0, <1>2, <4>2, Sizes
      <4>4. CellOf(head, writer.n, k) # c
        BY <4>1, <4>3, <3>2, <1>0, <1>3, Distinct
      <4>5. buf[CellOf(head, writer.n, k)] = arrived + k + 1
        BY <3>2, <1>0 DEF CopyInv
      <4> QED BY <4>1, <4>4, <4>5, <1>0, <1>5
    <3> QED BY <3>1, <3>2
  <2>2. ASSUME reader.at = "copy", NEW k \in 0..(reader.n - 1) \ reader.todo
        PROVE  out[k + 1] = buf'[CellOf(tail, reader.n, k)]
    <3>1. CellOf(tail, reader.n, k) = After(tail, k)
          /\ k \in 0..(DataSize(head, tail) - 1)
      BY <2>2, ReaderCells
    <3>2. out[k + 1] = buf[CellOf(tail, reader.n, k)]
      BY <2>2, <1>0 DEF CopyInv
    <3> QED BY <3>1, <3>2, <1>8
  <2> QED BY <1>0, <1>4, <2>1, <2>2 DEF CopyInv
<1> QED BY <1>6, <1>7, <1>8, <1>9

\* Moving head makes the chunk part of the unread bytes.
LEMMA WriterPublishes ==
  ASSUME IInv, MoveHead
  PROVE  /\ IInv'
         /\ DataSize(head', tail) = DataSize(head, tail) + writer.n
<1> USE DEF IInv
<1>0. /\ UNCHANGED <<tail, buf, reader, out, fed>>
      /\ TypeOK /\ RoomInv /\ CopyInv
      /\ DataSize(head, tail) \in 0..Capacity /\ writer.at = "copy"
      /\ writer \in Job /\ writer.n \in Nat /\ arrived \in Nat
      /\ head \in Cell /\ tail \in Cell /\ writer.todo = {}
      /\ head' = After(head, writer.n) /\ arrived' = arrived + writer.n
      /\ writer' = [writer EXCEPT !.at = "idle"]
  BY Distance DEF MoveHead, TypeOK, Job
<1>1. DataSize(head, tail) + writer.n < Capacity
  BY <1>0 DEF RoomInv
<1>2. writer.n \in 0..Size /\ DataSize(head, tail) + writer.n <= Capacity
  BY <1>0, <1>1, Sizes
<1>3. head' \in Cell
      /\ DataSize(head', tail) = DataSize(head, tail) + writer.n
  BY <1>0, <1>2, Advance, Follow
<1>4. writer' \in Job /\ writer'.at = "idle" /\ writer'.todo = {}
  BY <1>0 DEF Job, Places
<1>5. TypeOK'
  BY <1>0, <1>3, <1>4 DEF TypeOK
<1>6. RoomInv'
  <2>1. reader.at # "idle" => reader.n <= DataSize(head', tail)
    <3>1. reader.n \in Nat
      BY <1>0 DEF TypeOK, Job
    <3> QED BY <3>1, <1>0, <1>3 DEF RoomInv
  <2> QED BY <2>1, <1>0, <1>1, <1>3, <1>4 DEF RoomInv
<1>7. CopyInv'
  BY <1>0, <1>4 DEF CopyInv
<1> QED BY <1>3, <1>5, <1>6, <1>7

\* The reader's steps before it copies; the failure of CheckRead never happens.
LEMMA ReaderPrepares ==
  ASSUME IInv, LookForData \/ CheckRead
  PROVE  IInv' /\ UNCHANGED fed
<1> USE DEF IInv
<1>0. /\ UNCHANGED <<head, tail, buf, writer, out, arrived>>
      /\ TypeOK /\ RoomInv /\ CopyInv
      /\ DataSize(head, tail) \in 0..Capacity
      /\ reader \in Job /\ reader.n \in Nat
  BY Distance DEF LookForData, CheckRead, TypeOK, Job
<1>1. /\ reader' \in Job /\ UNCHANGED fed
      /\ reader'.at # "idle" /\ reader'.at # "look"
      /\ reader'.n \in 1..MaxRead /\ reader'.n <= DataSize(head, tail)
      /\ reader'.at = "copy" => reader'.todo = 0..(reader'.n - 1)
      /\ reader'.at # "copy" => reader'.todo = {}
  <2>1. CASE LookForData
    <3> DEFINE m == AtMostRead(DataSize(head, tail))
    <3>1. m \in 1..MaxRead /\ m <= DataSize(head, tail) /\ m \in Nat
      BY <2>1, <1>0, Sizes DEF LookForData, NothingThere, AtMostRead
    <3> HIDE DEF m
    <3>2. reader' = [at |-> "check", n |-> m, todo |-> {}] /\ fed' = fed
      BY <2>1 DEF LookForData, m
    <3> QED BY <3>1, <3>2 DEF Job, Places
  <2>2. CASE CheckRead
    <3>1. reader.at = "check" /\ reader.n \in 1..MaxRead
          /\ reader.n <= DataSize(head, tail)
      BY <2>2, <1>0 DEF CheckRead, RoomInv
    <3>2. ~ReadOverflow
      BY <3>1, <1>0 DEF ReadOverflow
    <3>3. reader' = [reader EXCEPT !.at = "copy", !.todo = 0..(reader.n - 1)]
          /\ fed' = fed
      BY <2>2, <3>2 DEF CheckRead
    <3>4. 0..(reader.n - 1) \in SUBSET Nat
      BY <1>0
    <3> QED BY <3>1, <3>3, <3>4, <1>0 DEF Job, Places
  <2> QED BY <2>1, <2>2
<1>2. reader'.todo \subseteq 0..(reader'.n - 1)
  BY <1>1
<1>3. TypeOK'
  BY <1>0, <1>1 DEF TypeOK
<1>4. RoomInv'
  BY <1>0, <1>1 DEF RoomInv
<1>5. CopyInv'
  BY <1>0, <1>1, <1>2 DEF CopyInv
<1> QED BY <1>1, <1>3, <1>4, <1>5

LEMMA ReaderCopies ==
  ASSUME IInv, ReadByte
  PROVE  IInv'
<1> USE DEF IInv
<1>0. /\ UNCHANGED <<head, tail, buf, writer, arrived, fed>>
      /\ TypeOK /\ RoomInv /\ CopyInv /\ reader.at = "copy"
      /\ reader \in Job /\ reader.n \in Nat
      /\ buf \in [Cell -> Nat] /\ out \in [1..MaxRead -> Nat]
  BY DEF ReadByte, TypeOK, Job
<1>1. PICK i \in reader.todo :
        /\ out' = [out EXCEPT ![i + 1] = buf[CellOf(tail, reader.n, i)]]
        /\ reader' = [reader EXCEPT !.todo = @ \ {i}]
  BY DEF ReadByte
<1>2. i \in 0..(reader.n - 1)
  BY <1>0, <1>1 DEF CopyInv
<1>3. CellOf(tail, reader.n, i) \in Cell /\ i + 1 \in 1..MaxRead
  BY <1>0, <1>2, ReaderCells
<1>4. /\ reader'.at = "copy" /\ reader'.n = reader.n
      /\ reader'.todo = reader.todo \ {i} /\ reader' \in Job
  BY <1>0, <1>1 DEF Job
<1>5. TypeOK'
  <2>1. out' \in [1..MaxRead -> Nat]
    BY <1>0, <1>1, <1>3
  <2> QED BY <2>1, <1>0, <1>4 DEF TypeOK
<1>6. RoomInv'
  BY <1>0, <1>4 DEF RoomInv
<1>7. ASSUME NEW k \in 0..(reader.n - 1) \ (reader.todo \ {i})
      PROVE  out'[k + 1] = buf[CellOf(tail, reader.n, k)]
  <2>1. k + 1 \in 1..MaxRead
    BY <1>0, ReaderCells
  <2>2. CASE k = i
    BY <2>2, <1>0, <1>1, <1>3
  <2>3. CASE k # i
    <3>1. out[k + 1] = buf[CellOf(tail, reader.n, k)]
      BY <2>3, <1>0 DEF CopyInv
    <3>2. k + 1 # i + 1
      BY <2>3, <1>2
    <3> QED BY <3>1, <3>2, <2>1, <1>0, <1>1
  <2> QED BY <2>2, <2>3
<1>8. CopyInv'
  BY <1>0, <1>4, <1>7 DEF CopyInv
<1> QED BY <1>5, <1>6, <1>8

\* Moving tail takes the bytes read from the unread ones.
LEMMA ReaderReleases ==
  ASSUME IInv, MoveTail
  PROVE  /\ IInv'
         /\ DataSize(head, tail') = DataSize(head, tail) - reader.n
         /\ reader.n \in 1..DataSize(head, tail)
         /\ \A i \in 0..(DataSize(head, tail) - reader.n) :
              After(tail', i) = After(tail, reader.n + i)
         /\ SubSeq(out, 1, reader.n) =
              [i \in 1..reader.n |-> buf[After(tail, i - 1)]]
<1> USE DEF IInv
<1>0. /\ UNCHANGED <<head, buf, writer, out, arrived>>
      /\ TypeOK /\ RoomInv /\ CopyInv
      /\ DataSize(head, tail) \in 0..Capacity /\ reader.at = "copy"
      /\ reader \in Job /\ reader.n \in Nat
      /\ head \in Cell /\ tail \in Cell /\ reader.todo = {}
      /\ out \in [1..MaxRead -> Nat] /\ fed \in Seq(Nat)
      /\ tail' = After(tail, reader.n) /\ Feed
      /\ reader' = [reader EXCEPT !.at = "idle"]
  BY Distance DEF MoveTail, TypeOK, Job
<1>1. reader.n \in 1..DataSize(head, tail) /\ reader.n \in 1..MaxRead
      /\ reader.n \in 0..DataSize(head, tail)
  BY <1>0 DEF RoomInv
<1>2. /\ tail' \in Cell
      /\ DataSize(head, tail') = DataSize(head, tail) - reader.n
      /\ \A i \in 0..(DataSize(head, tail) - reader.n) :
           After(tail', i) = After(tail, reader.n + i)
  BY <1>0, <1>1, Consumed
<1>3. SubSeq(out, 1, reader.n) = [i \in 1..reader.n |-> buf[After(tail, i - 1)]]
  <2>1. out \in Seq(Nat) /\ Len(out) = MaxRead
    BY <1>0, Sizes
  <2>2. SubSeq(out, 1, reader.n) = [i \in 1..reader.n |-> out[i]]
    BY <2>1, <1>1, Sizes
  <2>3. ASSUME NEW i \in 1..reader.n PROVE out[i] = buf[After(tail, i - 1)]
    <3>1. i - 1 \in 0..(reader.n - 1) /\ (i - 1) + 1 = i
      BY <1>0
    <3>2. CellOf(tail, reader.n, i - 1) = After(tail, i - 1)
      BY <1>0, <3>1, ReaderCells
    <3>3. out[(i - 1) + 1] = buf[CellOf(tail, reader.n, i - 1)]
      BY <1>0, <3>1 DEF CopyInv
    <3> QED BY <3>1, <3>2, <3>3
  <2> QED BY <2>2, <2>3
<1>4. reader' \in Job /\ reader'.at = "idle" /\ reader'.todo = {}
  BY <1>0 DEF Job, Places
<1>5. fed' \in Seq(Nat)
  <2>1. SubSeq(out, 1, reader.n) \in Seq(Nat)
    <3>1. out \in Seq(Nat) /\ Len(out) = MaxRead
      BY <1>0, Sizes
    <3>2. SubSeq(out, 1, reader.n) = [i \in 1..reader.n |-> out[i]]
      BY <3>1, <1>1, Sizes
    <3>3. \A i \in 1..reader.n : out[i] \in Nat
      BY <1>0, <1>1, Sizes
    <3> QED BY <3>2, <3>3, <1>0
  <2> QED BY <2>1, <1>0 DEF Feed
<1>6. TypeOK'
  BY <1>0, <1>2, <1>4, <1>5 DEF TypeOK
<1>7. RoomInv'
  <2>1. DataSize(head, tail') < Capacity
    BY <1>0, <1>1, <1>2, Sizes DEF RoomInv
  <2>2. writer.at \in {"check", "copy"} =>
          DataSize(head, tail') + writer.n < Capacity
    <3>1. writer.n \in Nat
      BY <1>0 DEF TypeOK, Job
    <3> QED BY <3>1, <1>0, <1>1, <1>2, Sizes DEF RoomInv
  <2> QED BY <2>1, <2>2, <1>0, <1>4 DEF RoomInv
<1>8. CopyInv'
  BY <1>0, <1>4 DEF CopyInv
<1> QED BY <1>1, <1>2, <1>3, <1>6, <1>7, <1>8

LEMMA InvStep == IInv /\ [Next]_vars => IInv'
<1>1. ASSUME IInv, UNCHANGED vars PROVE IInv'
  BY <1>1 DEF vars, IInv, TypeOK, RoomInv, CopyInv
<1> QED BY <1>1, WriterPrepares, WriterCopies, WriterPublishes, ReaderPrepares,
           ReaderCopies, ReaderReleases DEF Next, WriterStep, ReaderStep, Finished

-----------------------------------------------------------------------------
(* Theorems                                                                *)

\* What each thread has seen of the other's index errs on the safe side, and
\* the bytes copied so far are where they belong: the inductive invariant.
THEOREM Invariant == Spec => []IInv
BY InvInit, InvStep, PTL DEF Spec

\* The copies stay inside the buffer and the writer's cells hold nothing that
\* is still to be read, for buffers, chunks and reads of any size.
THEOREM NoRace == Spec => []NoOverlap
<1>1. IInv => NoOverlap
  <2> SUFFICES ASSUME IInv PROVE NoOverlap
    OBVIOUS
  <2>1. /\ writer.todo \subseteq 0..(writer.n - 1)
        /\ writer.at # "copy" => writer.todo = {}
        /\ reader.todo \subseteq 0..(reader.n - 1)
        /\ reader.at # "copy" => reader.todo = {}
    BY DEF IInv, CopyInv
  <2> QED BY <2>1, WriterCells, ReaderCells DEF NoOverlap
<1> QED BY <1>1, Invariant, PTL

\* Neither RingBufferWrite nor RingBufferRead ever fails, so that the tasks may
\* ignore their results.
THEOREM NeverRefused == Spec => []ResultsMayBeIgnored
<1>1. IInv => ResultsMayBeIgnored
  <2> SUFFICES ASSUME IInv PROVE ResultsMayBeIgnored
    OBVIOUS
  <2>1. DataSize(head, tail) \in 0..Capacity /\ writer.n \in Nat /\ reader.n \in Nat
    BY Distance DEF IInv, TypeOK, Job
  <2>2. /\ writer.at = "check" => DataSize(head, tail) + writer.n < Capacity
        /\ reader.at = "check" => reader.n <= DataSize(head, tail)
    BY DEF IInv, RoomInv
  <2> QED BY <2>1, <2>2, Sizes
          DEF ResultsMayBeIgnored, WriteOverflow, ReadOverflow, FreeSize, FillByte
<1> QED BY <1>1, Invariant, PTL

-----------------------------------------------------------------------------
(* Refinement                                                              *)

\* The unread bytes are as many as the indices say.
LEMMA UnreadBytes ==
  ASSUME IInv
  PROVE  /\ Unread \in Seq(Nat) /\ Len(Unread) = DataSize(head, tail)
         /\ DataSize(head, tail) \in 0..Capacity
<1>1. head \in Cell /\ tail \in Cell /\ buf \in [Cell -> Nat]
      /\ DataSize(head, tail) \in 0..Capacity
  BY Distance DEF IInv, TypeOK
<1>2. ASSUME NEW i \in 1..DataSize(head, tail)
      PROVE  buf[After(tail, i - 1)] \in Nat
  <2>1. i - 1 \in 0..Size
    BY <1>1, Sizes
  <2> QED BY <2>1, <1>1, Advance
<1> QED BY <1>1, <1>2 DEF Unread

LEMMA KeepStep ==
  ASSUME IInv, MoveHead
  PROVE  Pipe!Keep(writer.n) /\ writer.n \in 1..MaxChunk
<1> DEFINE D == DataSize(head, tail)
           n == writer.n
<1>0. /\ UNCHANGED <<tail, buf, fed>> /\ writer.at = "copy" /\ writer.todo = {}
      /\ n \in Nat /\ n \in 1..MaxChunk /\ head \in Cell /\ tail \in Cell
      /\ arrived' = arrived + n /\ D + n < Capacity
  BY DEF IInv, TypeOK, RoomInv, Job, MoveHead
<1>1. Len(Unread) = D /\ D \in 0..Capacity /\ DataSize(head', tail) = D + n
      /\ Unread \in Seq(Nat)
  BY UnreadBytes, WriterPublishes
<1>2. Unread' = [i \in 1..(D + n) |-> buf[After(tail, i - 1)]]
  BY <1>0, <1>1 DEF Unread
<1>3. ASSUME NEW i \in 1..n PROVE buf[After(tail, D + i - 1)] = arrived + i
  <2>1. i - 1 \in 0..(n - 1) /\ (i - 1) + 1 = i
    BY <1>0
  <2>2. CellOf(head, n, i - 1) = After(tail, D + (i - 1))
    BY <1>0, <2>1, WriterCells
  <2>3. buf[CellOf(head, n, i - 1)] = arrived + (i - 1) + 1
    BY <1>0, <2>1 DEF IInv, CopyInv
  <2>4. D + (i - 1) = D + i - 1 /\ arrived + (i - 1) + 1 = arrived + i
    BY <1>1, <2>1 DEF IInv, TypeOK
  <2> QED BY <2>2, <2>3, <2>4
<1> DEFINE new == [i \in 1..n |-> arrived + i]
<1>4. Unread' = Unread \o new
  <2>1. new \in Seq(Nat) /\ Len(new) = n
    <3>1. arrived \in Nat
      BY DEF IInv, TypeOK
    <3>2. \A i \in 1..n : arrived + i \in Nat
      BY <3>1, <1>0
    <3> HIDE DEF n
    <3> QED BY <3>2, <1>0
  <2>2. /\ Unread \o new \in Seq(Nat) /\ Len(Unread \o new) = D + n
        /\ \A i \in 1..(D + n) :
             (Unread \o new)[i] = IF i <= D THEN Unread[i] ELSE new[i - D]
    <3> HIDE DEF new, D, n
    <3> QED BY <2>1, <1>1, ConcatProperties
  <2>3. ASSUME NEW i \in 1..(D + n)
        PROVE  buf[After(tail, i - 1)] = IF i <= D THEN Unread[i] ELSE new[i - D]
    <3>1. CASE i <= D
      BY <3>1, <1>1 DEF Unread
    <3>2. CASE ~(i <= D)
      <4>1. i - D \in 1..n /\ D + (i - D) - 1 = i - 1
        BY <3>2, <1>0, <1>1
      <4>2. buf[After(tail, D + (i - D) - 1)] = arrived + (i - D)
        BY <4>1, <1>3
      <4> QED BY <3>2, <4>1, <4>2
    <3> QED BY <3>1, <3>2
  <2>4. D + n \in Nat
    BY <1>0, <1>1, Sizes
  <2> HIDE DEF new, D, n
  <2>5. Unread \o new = [i \in 1..(D + n) |-> (Unread \o new)[i]]
    <3> DEFINE u == Unread \o new
    <3>1. u \in Seq(Nat) /\ Len(u) = D + n
      BY <2>2
    <3> HIDE DEF u
    <3>2. u = [i \in 1..(D + n) |-> u[i]]
      BY <3>1, <2>4
    <3> QED BY <3>2 DEF u
  <2> QED BY <1>2, <2>2, <2>3, <2>5
<1> QED BY <1>0, <1>1, <1>4 DEF Pipe!Keep

LEMMA FeedStep ==
  ASSUME IInv, MoveTail
  PROVE  Pipe!Feed(reader.n) /\ reader.n \in 1..Capacity
<1> DEFINE D == DataSize(head, tail)
           n == reader.n
<1>0. UNCHANGED <<head, buf, arrived>> /\ fed' = fed \o SubSeq(out, 1, n)
  BY DEF MoveTail, Feed
<1>1. Len(Unread) = D /\ D \in 0..Capacity /\ Unread \in Seq(Nat)
  BY UnreadBytes
<1>2. /\ DataSize(head, tail') = D - n /\ n \in 1..D
      /\ \A i \in 0..(D - n) : After(tail', i) = After(tail, n + i)
      /\ SubSeq(out, 1, n) = [i \in 1..n |-> buf[After(tail, i - 1)]]
  BY ReaderReleases
<1>3. SubSeq(out, 1, n) = SubSeq(Unread, 1, n)
  <2>1. SubSeq(Unread, 1, n) = [i \in 1..n |-> Unread[i]]
    <3> HIDE DEF n, D
    <3> QED BY <1>1, <1>2
  <2>2. \A i \in 1..n : Unread[i] = buf[After(tail, i - 1)]
    BY <1>1, <1>2 DEF Unread
  <2> QED BY <2>1, <2>2, <1>2
<1>4. Unread' = SubSeq(Unread, n + 1, Len(Unread))
  <2>1. Unread' = [i \in 1..(D - n) |-> buf[After(tail', i - 1)]]
    BY <1>0, <1>2 DEF Unread
  <2>2. SubSeq(Unread, n + 1, Len(Unread)) = [i \in 1..(D - n) |-> Unread[n + i]]
    <3> HIDE DEF n, D
    <3> QED BY <1>1, <1>2
  <2>3. ASSUME NEW i \in 1..(D - n)
        PROVE  buf[After(tail', i - 1)] = Unread[n + i]
    <3>1. i - 1 \in 0..(D - n) /\ n + i \in 1..D /\ n + (i - 1) = n + i - 1
          /\ n \in Nat /\ i \in Nat
      BY <1>1, <1>2
    <3>2. After(tail', i - 1) = After(tail, n + (i - 1))
      BY <3>1, <1>2
    <3>3. \A j \in 1..D : Unread[j] = buf[After(tail, j - 1)]
      BY DEF Unread
    <3>4. Unread[n + i] = buf[After(tail, n + i - 1)]
      BY <3>1, <3>3
    <3> QED BY <3>1, <3>2, <3>4
  <2> QED BY <2>1, <2>2, <2>3
<1>5. n \in 1..Capacity /\ n <= Len(Unread)
  <2> HIDE DEF D, n
  <2> QED BY <1>1, <1>2, Sizes
<1> QED BY <1>0, <1>3, <1>4, <1>5 DEF Pipe!Feed

\* The other steps leave the unread bytes alone; one of them drops a chunk.
LEMMA QuietSteps ==
  ASSUME IInv, \/ \E n \in 1..MaxChunk : Recv(n)
               \/ LookForRoom \/ CheckWrite \/ WriteByte
               \/ LookForData \/ CheckRead \/ ReadByte
  PROVE  \/ \E n \in 1..MaxChunk : Pipe!Drop(n)
         \/ UNCHANGED Pipe!vars
<1>0. UNCHANGED <<head, tail, fed>>
  <2>1. CASE LookForData \/ CheckRead
    BY <2>1, ReaderPrepares DEF LookForData, CheckRead
  <2> QED BY <2>1 DEF Recv, LookForRoom, CheckWrite, WriteByte, ReadByte
<1>1. Unread' = Unread
  <2>1. \A j \in 0..(DataSize(head, tail) - 1) :
          buf'[After(tail, j)] = buf[After(tail, j)]
    <3>1. CASE WriteByte
      BY <3>1, WriterCopies
    <3> QED BY <3>1 DEF Recv, LookForRoom, CheckWrite, LookForData, CheckRead, ReadByte
  <2>2. DataSize(head, tail) \in Nat
    BY UnreadBytes
  <2>3. ASSUME NEW i \in 1..DataSize(head, tail)
        PROVE  buf'[After(tail, i - 1)] = buf[After(tail, i - 1)]
    <3>1. i - 1 \in 0..(DataSize(head, tail) - 1)
      BY <2>2
    <3> QED BY <3>1, <2>1
  <2> QED BY <1>0, <2>3 DEF Unread
<1>2. CASE LookForRoom /\ ~HasRoom(writer.n)
  <2>1. writer.n \in 1..MaxChunk /\ arrived' = arrived + writer.n
    BY <1>2 DEF LookForRoom, IInv, RoomInv
  <2>2. DataSize(head, tail) + writer.n >= Capacity
    <3>1. DataSize(head, tail) \in Nat /\ writer.n \in Nat
      BY UnreadBytes DEF IInv, TypeOK, Job
    <3> QED BY <1>2, <3>1, Sizes DEF HasRoom, FreeSize, FillByte
  <2>3. Pipe!Drop(writer.n)
    BY <2>1, <2>2, <1>0, <1>1, UnreadBytes DEF Pipe!Drop
  <2> QED BY <2>1, <2>3
<1>3. CASE ~(LookForRoom /\ ~HasRoom(writer.n))
  <2>1. arrived' = arrived
    <3>1. CASE CheckWrite
      <4>1. ~WriteOverflow
        <5>1. DataSize(head, tail) \in Nat /\ writer.n \in Nat
              /\ DataSize(head, tail) + writer.n < Capacity
          BY <3>1, UnreadBytes DEF CheckWrite, IInv, TypeOK, RoomInv, Job
        <5> QED BY <5>1, Sizes DEF WriteOverflow, FreeSize, FillByte
      <4> QED BY <3>1, <4>1 DEF CheckWrite
    <3> QED BY <1>3, <3>1 DEF Recv, LookForRoom, WriteByte, LookForData,
                              CheckRead, ReadByte
  <2> QED BY <2>1, <1>0, <1>1 DEF Pipe!vars
<1> QED BY <1>2, <1>3

\* RingBuffer implements BytePipe: whatever the interleaving, bytes reach the
\* frame assembler once and in order, and whole chunks are dropped only when
\* they would fill the buffer.
THEOREM Refinement == Spec => PipeSpec
<1>1. Init => Pipe!Init
  <2> SUFFICES ASSUME Init PROVE Pipe!Init
    OBVIOUS
  <2>1. DataSize(head, tail) = 0
    BY Sizes, Distance DEF Init
  <2>2. Unread = <<>>
    BY <2>1 DEF Unread
  <2> QED BY <2>2 DEF Init, Pipe!Init
<1>2. IInv /\ [Next]_vars => [Pipe!Next]_(Pipe!vars)
  <2>1. ASSUME UNCHANGED vars PROVE UNCHANGED Pipe!vars
    BY <2>1 DEF vars, Pipe!vars, Unread
  <2> QED BY <2>1, KeepStep, FeedStep, QuietSteps
          DEF Next, WriterStep, ReaderStep, Finished, Pipe!Next
<1> QED BY <1>1, <1>2, Invariant, PTL DEF Spec, PipeSpec, Pipe!Spec
=============================================================================
