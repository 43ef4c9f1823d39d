-------------------------- MODULE FrameParser_proofs --------------------------
(***************************************************************************)
(* Proofs about FrameParser, for any layout, limits and messages.          *)
(***************************************************************************)
EXTENDS FrameParser, FrameCodec_proofs

USE DEF Byte, U16, LenIdx, Header

\* What the assumptions say of the sizes.
LEMMA Sizing ==
  /\ Base \in Nat /\ Base > 1
  /\ Width \in Nat /\ Sync \in Seq(Byte) /\ Len(Sync) \in Nat /\ Len(Sync) > 0
  /\ MaxSize \in Nat /\ Header < MaxSize /\ 2 * MaxSize + Header <= Width
  /\ GcSize \in Nat /\ Header <= GcSize /\ GcSize < MaxSize
BY Layout, LimitsAssumption

\* The parts of IInv that speak of the assembler.
ParserInv ==
  /\ data \in Seq(Byte) /\ length \in 0..(Width - 1) /\ crc \in 0..(Width - 1)
  /\ capacity \in Nat /\ heap \in Nat
  /\ BlockInv /\ LengthInv /\ InBlock
  /\ heap < 2 * MaxSize + Header

EventOK == event \in Event

\* What is no answer and no packet is an event too.
LEMMA QuietEvent == Nothing \in Event
<1>1. 0 \in Byte
  BY Layout
<1> HIDE DEF Byte, U16
<1> QED
  BY <1>1, Answers

\* The size after _protocol_buffer_alloc holds one byte more.
LEMMA RoomForOne ==
  ASSUME ParserInv, ~ Overflow(capacity)
  PROVE  /\ NewSize \in Nat /\ NewSize >= Header /\ NewSize > Len(data)
         /\ NewSize < 2 * MaxSize + Header
         /\ Len(data) < Header => NewSize = capacity
<1>1. /\ capacity \in Nat /\ heap \in {0, capacity} /\ capacity >= Header
      /\ heap = 0 => data = <<>>
      /\ Len(data) \in Nat /\ Len(data) <= heap
      /\ capacity < MaxSize
  BY Sizing DEF ParserInv, BlockInv, InBlock, Overflow
<1>2. Header \in Nat /\ Header > 4
  BY Sizing
<1>3. CASE heap # 0 /\ Full
  <2>1. NewSize = (2 * capacity + Header) % Width
    BY <1>3 DEF NewSize
  <2>2. 2 * capacity + Header \in 0..(Width - 1) /\ Width \in Nat
    BY <1>1, Sizing
  <2>3. NewSize = 2 * capacity + Header
    BY <2>1, <2>2
  <2>4. capacity = Len(data)
    BY <1>1, <1>3 DEF Full
  <2> QED
    BY <1>1, <1>2, <2>3, <2>4, Sizing
<1>4. CASE ~ (heap # 0 /\ Full)
  <2>1. NewSize = capacity
    BY <1>4 DEF NewSize
  <2>2. Len(data) < capacity
    BY <1>1, <1>2, <1>4 DEF Full
  <2> QED
    BY <1>1, <1>2, <2>1, <2>2, Sizing
<1> QED
  BY <1>3, <1>4

-----------------------------------------------------------------------------
(* The assembler's invariant                                               *)

\* _try_garbage_collection_protocol_buffer leaves a small block or none.
LEMMA CollectKeeps ==
  ASSUME NEW n \in Nat, n >= Header, n < 2 * MaxSize + Header, Reset, Collect(n)
  PROVE  ParserInv'
<1>1. Header \in Nat /\ 0 < Header /\ Width \in Nat /\ Width > 0 /\ GcSize \in Nat
      /\ Header <= GcSize /\ MaxSize \in Nat /\ LenIdx \in Nat /\ 0 < LenIdx
  BY Sizing
<1>2. data' = <<>> /\ length' = 0 /\ crc' = 0
  BY DEF Reset
<1>3. Len(data') = 0 /\ data' \in Seq(Byte)
  BY <1>2
<1>4. /\ heap' \in {0, capacity'} /\ capacity' \in Nat /\ heap' \in Nat
      /\ capacity' >= Header /\ capacity' <= GcSize /\ heap' < 2 * MaxSize + Header
  BY <1>1 DEF Collect, Collected
<1> HIDE DEF LenIdx, Header
<1>5. LengthInv'
  <2>1. Len(data') <= LenIdx /\ ~ Len(data') >= Header
        /\ Len(data') # LenIdx + 1 /\ Len(data') # LenIdx + 3
    BY <1>1, <1>3
  <2> QED
    BY <1>2, <2>1 DEF LengthInv
<1>6. BlockInv' /\ InBlock'
  BY <1>1, <1>2, <1>3, <1>4 DEF BlockInv, InBlock
<1> QED
  BY <1>1, <1>2, <1>3, <1>4, <1>5, <1>6 DEF ParserInv

\* buffer[index++] = c keeps the invariant when the new length and CRC are those
\* of the new index.
LEMMA StoreKeeps ==
  ASSUME ParserInv, ~ Overflow(capacity), NEW c \in Byte,
         NEW len \in 0..(Width - 1), NEW code \in 0..(Width - 1),
         Len(data) + 1 <= LenIdx => len = 0,
         Len(data) = LenIdx => \E b \in Byte : len = b * Base,
         Len(data) <= LenIdx + 1 => code = 0,
         Len(data) = LenIdx + 2 => \E b \in Byte : code = b * Base,
         Store(c, len, code)
  PROVE  ParserInv' /\ EventOK'
<1> DEFINE frame == Append(data, c)
<1>1. /\ NewSize \in Nat /\ NewSize >= Header /\ NewSize > Len(data)
      /\ NewSize < 2 * MaxSize + Header
      /\ Len(data) < Header => NewSize = capacity
  BY RoomForOne
<1>2. /\ data \in Seq(Byte) /\ Len(data) \in Nat
      /\ frame \in Seq(Byte) /\ Len(frame) = Len(data) + 1
      /\ \A i \in 1..Len(data) : frame[i] = data[i]
  BY DEF ParserInv
<1>3. Len(data) <= Header => capacity <= GcSize
  BY DEF ParserInv, BlockInv
<1>4. Header \in Nat /\ Header > Len(Sync) + 1 /\ Len(Sync) \in Nat /\ Header = LenIdx + 4
      /\ LenIdx \in Nat /\ GcSize \in Nat
  BY Sizing
<1>5. CASE Len(frame) >= Header /\ len = 0
  <2>1. event' = Processed(frame) /\ Reset /\ Collect(NewSize)
    BY <1>5 DEF Store
  <2>3. EventOK'
    <3> HIDE DEF frame, Byte
    <3> QED
      BY <1>2, <1>5, <2>1, ProcessedType DEF EventOK
  <2>4. ParserInv'
    BY <1>1, <2>1, CollectKeeps
  <2> QED
    BY <2>3, <2>4
<1>6. CASE ~ (Len(frame) >= Header /\ len = 0)
  <2>1. /\ event' = Nothing
        /\ data' = frame /\ length' = len /\ crc' = code
        /\ heap' = NewSize /\ capacity' = NewSize
    BY <1>6 DEF Store, Allocate
  <2>2. EventOK'
    BY <2>1, QuietEvent DEF EventOK
  <2> HIDE DEF frame, LenIdx, Header
  <2>3. LengthInv'
    <3>1. Len(data') = Len(data) + 1
      BY <1>2, <2>1
    <3>2. Len(data') >= Header => length' > 0
      BY <1>2, <1>6, <2>1
    <3>3. Len(data') <= LenIdx => length' = 0
      BY <3>1, <2>1
    <3>4. Len(data') = LenIdx + 1 => \E b \in Byte : length' = b * Base
      <4>1. Len(data') = LenIdx + 1 => Len(data) = LenIdx
        BY <3>1, <1>2, <1>4
      <4> QED
        BY <4>1, <2>1
    <3>5. Len(data') <= LenIdx + 2 => crc' = 0
      BY <3>1, <2>1, <1>2, <1>4
    <3>6. Len(data') = LenIdx + 3 => \E b \in Byte : crc' = b * Base
      <4>1. Len(data') = LenIdx + 3 => Len(data) = LenIdx + 2
        BY <3>1, <1>2, <1>4
      <4> QED
        BY <4>1, <2>1
    <3> QED
      BY <3>2, <3>3, <3>4, <3>5, <3>6 DEF LengthInv
  <2>4. BlockInv'
    <3>1. Len(data') <= Header => Len(data) < Header
      BY <1>2, <1>4, <2>1
    <3>2. Len(data') <= Header => capacity' <= GcSize
      BY <3>1, <1>1, <1>3, <1>2, <1>4, <2>1
    <3>3. heap' # 0
      BY <1>1, <1>4, <2>1
    <3> QED
      BY <1>1, <2>1, <3>2, <3>3 DEF BlockInv
  <2>5. InBlock'
    BY <1>1, <1>2, <2>1 DEF InBlock
  <2> QED
    BY <1>1, <1>2, <2>1, <2>2, <2>3, <2>4, <2>5 DEF ParserInv
<1> QED
  BY <1>5, <1>6

\* Every branch of the assembler keeps its invariant.
LEMMA ParseKeeps ==
  ASSUME ParserInv, NEW c \in Byte, Parse(c)
  PROVE  ParserInv' /\ EventOK'
<1>1. /\ data \in Seq(Byte) /\ Len(data) \in Nat
      /\ length \in 0..(Width - 1) /\ crc \in 0..(Width - 1)
      /\ capacity \in Nat /\ capacity >= Header /\ capacity < 2 * MaxSize + Header
      /\ heap \in {0, capacity} /\ Len(data) <= heap
  <2>1. capacity < 2 * MaxSize + Header
    BY Sizing DEF ParserInv, BlockInv
  <2> QED
    BY <2>1 DEF ParserInv, BlockInv, InBlock
<1>2. /\ Header \in Nat /\ Width \in Nat /\ Width > 0 /\ Header = LenIdx + 4
      /\ LenIdx \in Nat /\ Len(Sync) \in Nat /\ Len(Sync) < LenIdx /\ MaxSize \in Nat
      /\ GcSize \in Nat /\ GcSize < MaxSize
  BY Sizing
<1>3. Nothing \in Event
  BY QuietEvent
<1>4. LengthInv /\ BlockInv /\ InBlock
  BY DEF ParserInv
<1>6. CASE Overflow(capacity)
  <2>1. Drop
    BY <1>6 DEF Parse
  <2>2. EventOK'
    BY <2>1, <1>3 DEF Drop, EventOK
  <2>3. CASE MoreToDrop
    <3>1. length > 1 /\ length' = length - 1 /\ UNCHANGED <<data, crc, capacity, heap>>
      BY <2>1, <2>3 DEF Drop, MoreToDrop
    <3>2. Len(data) > Header
      BY <1>1, <1>2, <1>4, <1>6 DEF BlockInv, Overflow
    <3> HIDE DEF LenIdx, Header, Byte
    <3>3. LengthInv'
      <4>1. Len(data') = Len(data) /\ length' > 0
        BY <3>1, <1>1
      <4> QED
        BY <4>1, <3>2, <1>1, <1>2 DEF LengthInv
    <3>4. BlockInv' /\ InBlock' /\ length' \in 0..(Width - 1)
      BY <3>1, <1>1, <1>2, <1>4 DEF BlockInv, InBlock
    <3> QED
      BY <2>2, <3>1, <3>3, <3>4 DEF ParserInv
  <2>4. CASE ~ MoreToDrop
    <3>1. Reset /\ Collect(capacity)
      BY <2>1, <2>4 DEF Drop
    <3> QED
      BY <2>2, <3>1, <1>1, CollectKeeps
  <2> QED
    BY <2>3, <2>4
<1>7. CASE ~ Overflow(capacity)
  <2>1. SyncByte(c) \/ FieldByte(c) \/ LengthByte(c) \/ CrcByte(c) \/ PayloadByte(c)
    BY <1>7 DEF Parse
  <2>2. ASSUME Len(data) < Header, Reset, Allocate
        PROVE  ParserInv'
    <3>1. NewSize = capacity
      BY <1>7, <2>2, RoomForOne
    <3>2. data' = <<>> /\ length' = 0 /\ crc' = 0 /\ heap' = capacity /\ capacity' = capacity
      BY <2>2, <3>1 DEF Reset, Allocate
    <3>3. data' \in Seq(Byte) /\ Len(data') = 0
      BY <3>2
    <3>4. capacity <= GcSize
      BY <1>1, <1>2, <1>4, <2>2 DEF BlockInv
    <3> HIDE DEF LenIdx, Header
    <3>5. LengthInv'
      <4>1. Len(data') <= LenIdx /\ ~ Len(data') >= Header
            /\ Len(data') # LenIdx + 1 /\ Len(data') # LenIdx + 3
        BY <1>2, <3>3
      <4> QED
        BY <3>2, <4>1 DEF LengthInv
    <3>6. BlockInv' /\ InBlock'
      BY <1>1, <1>2, <3>2, <3>3, <3>4 DEF BlockInv, InBlock
    <3> QED
      BY <1>1, <1>2, <3>2, <3>3, <3>5, <3>6 DEF ParserInv
  <2>3. CASE SyncByte(c)
    <3>1. CASE SyncFits(c)
      <4>1. /\ Len(data) < Len(Sync) /\ Allocate /\ event' = Nothing
            /\ data' = Append(data, c) /\ length' = length /\ crc' = crc
        BY <2>3, <3>1 DEF SyncByte
      <4>2. length = 0 /\ crc = 0
        BY <4>1, <1>1, <1>2, <1>4 DEF LengthInv
      <4>3. Store(c, 0, 0)
        <5>1. ~ Len(Append(data, c)) >= Header
          BY <4>1, <1>1, <1>2
        <5> QED
          BY <4>1, <4>2, <5>1 DEF Store
      <4>4. 0 \in 0..(Width - 1) /\ Len(data) < LenIdx
        BY <4>1, <1>1, <1>2
      <4> HIDE DEF LenIdx, Header, Byte
      <4> QED
        BY <4>3, <4>4, <1>1, <1>2, <1>7, StoreKeeps
    <3>2. CASE ~ SyncFits(c)
      <4>1. Len(data) < Len(Sync) /\ Allocate /\ event' = Nothing /\ Reset
        BY <2>3, <3>2 DEF SyncByte
      <4>2. ParserInv'
        BY <4>1, <1>1, <1>2, <2>2
      <4> QED
        BY <4>1, <4>2, <1>3 DEF EventOK
    <3> QED
      BY <3>1, <3>2
  <2>4. CASE FieldByte(c)
    <3>1. Len(data) >= Len(Sync) /\ Len(data) <= LenIdx - 1 /\ Store(c, length, crc)
      BY <2>4, <1>1, <1>2 DEF FieldByte
    <3>2. length = 0 /\ crc = 0
      BY <3>1, <1>1, <1>2, <1>4 DEF LengthInv
    <3> HIDE DEF LenIdx, Header, Byte
    <3> QED
      BY <3>1, <3>2, <1>1, <1>2, <1>7, StoreKeeps
  <2>5. CASE LengthByte(c)
    <3>1. CASE Len(data) = LenIdx /\ Store(c, c * Base, crc)
      <4>1. c * Base \in 0..(Width - 1)
        BY TwoBytes
      <4>2. crc = 0
        BY <3>1, <1>2, <1>4 DEF LengthInv
      <4> HIDE DEF LenIdx, Header, Byte
      <4> QED
        BY <3>1, <4>1, <4>2, <1>1, <1>2, <1>7, StoreKeeps
    <3>2. CASE Len(data) = LenIdx + 1 /\ Store(c, length + c, crc)
      <4>1. PICK b \in Byte : length = b * Base
        BY <3>2, <1>4 DEF LengthInv
      <4>2. length + c \in 0..(Width - 1)
        BY <4>1, TwoBytes
      <4>3. crc = 0
        BY <3>2, <1>2, <1>4 DEF LengthInv
      <4> HIDE DEF LenIdx, Header, Byte
      <4> QED
        BY <3>2, <4>2, <4>3, <1>1, <1>2, <1>7, StoreKeeps
    <3>3. CASE Len(data) = LenIdx + 2 /\ Store(c, length, c * Base)
      <4>1. c * Base \in 0..(Width - 1)
        BY TwoBytes
      <4> HIDE DEF LenIdx, Header, Byte
      <4> QED
        BY <3>3, <4>1, <1>1, <1>2, <1>7, StoreKeeps
    <3> QED
      BY <2>5, <3>1, <3>2, <3>3 DEF LengthByte
  <2>6. CASE CrcByte(c)
    <3>1. Len(data) = LenIdx + 3
      BY <2>6 DEF CrcByte
    <3>2. CASE LenCrcValid(crc + c)
      <4>1. Store(c, length, crc + c)
        BY <2>6, <3>2 DEF CrcByte
      <4>2. PICK b \in Byte : crc = b * Base
        BY <3>1, <1>4 DEF LengthInv
      <4>3. crc + c \in 0..(Width - 1)
        BY <4>2, TwoBytes
      <4> HIDE DEF LenIdx, Header, Byte
      <4> QED
        BY <3>1, <4>1, <4>3, <1>1, <1>2, <1>7, StoreKeeps
    <3>3. CASE ~ LenCrcValid(crc + c)
      <4>1. event' = Answer("junk", data[SeqIdx]) /\ Reset /\ Allocate
        BY <2>6, <3>3 DEF CrcByte
      <4>2. event' \in Event
        <5>1. SeqIdx \in 1..Len(data)
          BY <3>1, <1>1, <1>2 DEF SeqIdx
        <5> HIDE DEF Byte
        <5>2. data[SeqIdx] \in Byte
          BY <1>1, <5>1
        <5> QED
          BY <4>1, <5>2, Answers
      <4>3. ParserInv'
        BY <3>1, <4>1, <1>1, <1>2, <2>2
      <4> QED
        BY <4>1, <4>2, <4>3 DEF EventOK
    <3> QED
      BY <3>2, <3>3
  <2>7. CASE PayloadByte(c)
    <3>1. Len(data) >= Header /\ length > 0 /\ Store(c, length - 1, crc)
      BY <2>7 DEF PayloadByte
    <3>2. length - 1 \in 0..(Width - 1)
      BY <3>1, <1>1, <1>2
    <3>3. ~ Len(data) + 1 <= LenIdx /\ Len(data) # LenIdx /\ ~ Len(data) <= LenIdx + 1
          /\ Len(data) # LenIdx + 2
      BY <3>1, <1>1, <1>2
    <3> HIDE DEF LenIdx, Header, Byte
    <3> QED
      BY <3>1, <3>2, <3>3, <1>1, <1>7, StoreKeeps
  <2> QED
    BY <2>1, <2>3, <2>4, <2>5, <2>6, <2>7
<1> QED
  BY <1>6, <1>7

-----------------------------------------------------------------------------
(* What the peer sends                                                     *)

\* Where a frame has its sync bytes, its length and the CRC of the length, and what
\* is made of it.
LEMMA FrameShape ==
  ASSUME NEW m \in Messages
  PROVE  LET f == FrameOf(m)
             n == Len(m.payload)
         IN  /\ n \in Nat /\ Header + n < Width
             /\ n \in 0..(Width - 1) /\ LenCrc(n) \in 0..(Width - 1)
             /\ f \in Seq(Byte) /\ Len(f) = Header + n
             /\ \A i \in 1..Len(Sync) : f[i] = Sync[i]
             /\ f[LenIdx + 1] = n \div Base /\ f[LenIdx + 2] = n % Base
             /\ f[LenIdx + 3] = LenCrc(n) \div Base /\ f[LenIdx + 4] = LenCrc(n) % Base
             /\ Processed(f) = Meaning(m)
<1> DEFINE f == FrameOf(m)
           n == Len(m.payload)
<1>1. m \in Message /\ Header + n < Width
  BY MessagesAssumption DEF Sendable
<1>2. n \in Nat /\ n \in U16
  <2>1. Header \in Nat /\ Width \in Nat /\ n \in Nat
    BY <1>1, Sizing DEF Message
  <2> HIDE DEF n, Header
  <2> QED
    BY <1>1, <2>1
<1>3. LenCrc(n) \in U16 /\ Checksum(m) \in U16
  BY <1>2, CrcAssumption
<1>4. /\ f \in Seq(Byte) /\ Len(f) = Header + n
      /\ \A i \in 1..Len(Sync) : f[i] = Sync[i]
      /\ f[Len(Sync) + 7] = n \div Base /\ f[Len(Sync) + 8] = n % Base
      /\ f[Len(Sync) + 9] = LenCrc(n) \div Base /\ f[Len(Sync) + 10] = LenCrc(n) % Base
  BY <1>1, <1>2, <1>3, Shape DEF FrameOf
<1>5. /\ LenIdx + 1 = Len(Sync) + 7 /\ LenIdx + 2 = Len(Sync) + 8
      /\ LenIdx + 3 = Len(Sync) + 9 /\ LenIdx + 4 = Len(Sync) + 10
  BY Sizing
<1> HIDE DEF f, n, Header, LenIdx
<1>6. Processed(f) = Meaning(m)
  BY <1>3, MessagesAssumption, RoundTrip DEF f, n
<1> QED
  BY <1>1, <1>2, <1>3, <1>4, <1>5, <1>6 DEF f, n

\* What is sent means something.
LEMMA Meant == \A m \in Messages : Meaning(m) # Nothing
<1> SUFFICES ASSUME NEW m \in Messages PROVE Meaning(m).kind # Nothing.kind
  OBVIOUS
<1> QED
  BY DEF Meaning, Nothing, Answer, Packet

-----------------------------------------------------------------------------
(* The inductive invariant                                                 *)

LineOK ==
  /\ now \in Messages /\ todo \in Seq(Byte)
  /\ hurt \in BOOLEAN /\ missing \in 0..3 /\ unlucky \in BOOLEAN /\ slipped \in BOOLEAN

Ind == ParserInv /\ EventOK /\ LineOK

LEMMA IndIsIInv == Ind => IInv /\ HeapBound
<1> SUFFICES ASSUME Ind PROVE IInv /\ HeapBound
  OBVIOUS
<1>1. TypeOK
  BY DEF Ind, ParserInv, EventOK, LineOK, TypeOK
<1>2. IInv
  BY <1>1 DEF Ind, ParserInv, IInv
<1>3. data = <<>> => heap <= GcSize
  <2>1. data = <<>> => Len(data) <= Header
    BY Sizing
  <2>2. data = <<>> => capacity <= GcSize
    BY <2>1 DEF Ind, ParserInv, BlockInv
  <2> QED
    BY <2>2, Sizing DEF Ind, ParserInv, BlockInv
<1> QED
  BY <1>2, <1>3 DEF Ind, ParserInv, HeapBound

LEMMA IndInit == Init => Ind
<1> SUFFICES ASSUME Init PROVE Ind
  OBVIOUS
<1>1. /\ Header \in Nat /\ 0 < Header /\ Width \in Nat /\ Width > 0 /\ LenIdx \in Nat
      /\ 0 < LenIdx /\ GcSize \in Nat /\ Header <= GcSize /\ MaxSize \in Nat /\ 0 \in Byte
  BY Sizing
<1>2. /\ data = <<>> /\ length = 0 /\ crc = 0 /\ capacity = Header /\ heap = 0
      /\ event = Nothing
  BY DEF Init
<1>3. Len(data) = 0 /\ data \in Seq(Byte)
  BY <1>2
<1>4. EventOK
  BY <1>2, QuietEvent DEF EventOK
<1>5. LineOK
  <2>1. now \in Messages /\ todo \in Seq(Byte) /\ missing \in 0..3
    BY DEF Init
  <2>2. hurt \in BOOLEAN /\ unlucky \in BOOLEAN /\ slipped \in BOOLEAN
    BY DEF Init
  <2> QED
    BY <2>1, <2>2 DEF LineOK
<1> HIDE DEF LenIdx, Header
<1>6. LengthInv
  BY <1>1, <1>2, <1>3 DEF LengthInv
<1>7. BlockInv /\ InBlock
  BY <1>1, <1>2, <1>3 DEF BlockInv, InBlock
<1> QED
  BY <1>1, <1>2, <1>3, <1>4, <1>5, <1>6, <1>7 DEF Ind, ParserInv

\* The history keeps its type.
LEMMA AccountKeeps ==
  ASSUME LineOK, NEW damage \in BOOLEAN, NEW slip \in BOOLEAN, Account(damage, slip)
  PROVE  /\ hurt' \in BOOLEAN /\ missing' \in 0..3 /\ unlucky' \in BOOLEAN
         /\ slipped' \in BOOLEAN
<1>1. CASE Understands
  <2>1. hurt' = FALSE /\ missing' = 0 /\ unlucky' = FALSE /\ slipped' = FALSE
    BY <1>1 DEF Account
  <2>2. missing' \in 0..3
    BY <2>1
  <2>3. hurt' \in BOOLEAN /\ unlucky' \in BOOLEAN /\ slipped' \in BOOLEAN
    BY <2>1
  <2> QED
    BY <2>2, <2>3
<1>2. CASE ~ Understands
  <2>1. /\ hurt' = (hurt \/ damage)
        /\ missing' = IF FrameEnds /\ Fits(now) /\ missing < 3 THEN missing + 1 ELSE missing
        /\ unlucky' = (unlucky \/ Misled \/ (hurt' /\ FrameEnds /\ FalseStart(now)))
        /\ slipped' = (slipped \/ slip)
    BY <1>2 DEF Account
  <2>2. missing' \in 0..3
    BY <2>1 DEF LineOK
  <2>3. hurt' \in BOOLEAN /\ slipped' \in BOOLEAN
    BY <2>1
  <2>4. unlucky' \in BOOLEAN
    BY <2>1
  <2> QED
    BY <2>2, <2>3, <2>4
<1> QED
  BY <1>1, <1>2

LEMMA IndNext == Ind /\ [Next]_vars => Ind'
<1> SUFFICES ASSUME Ind, [Next]_vars PROVE Ind'
  OBVIOUS
<1>1. ParserInv /\ EventOK /\ LineOK
  BY DEF Ind
<1>2. Nothing \in Event
  BY QuietEvent
<1>3. ASSUME UNCHANGED parser PROVE ParserInv'
  BY <1>1, <1>3 DEF parser, ParserInv, BlockInv, LengthInv, InBlock
<1>4. todo # <<>> => Head(todo) \in Byte /\ Tail(todo) \in Seq(Byte)
  <2> HIDE DEF Byte
  <2> QED
    BY <1>1 DEF LineOK
<1>5. ASSUME NEW m \in Messages, Send(m) PROVE Ind'
  <2>1. /\ now' = m /\ todo' = FrameOf(m) /\ event' = Nothing
        /\ UNCHANGED parser /\ UNCHANGED history
    BY <1>5 DEF Send
  <2>2. FrameOf(m) \in Seq(Byte)
    BY FrameShape
  <2>3. LineOK'
    BY <1>1, <2>1, <2>2 DEF LineOK, history
  <2> QED
    BY <1>2, <1>3, <2>1, <2>3 DEF Ind, EventOK
<1>6. CASE Arrive
  <2>1. todo # <<>> /\ Parse(Head(todo)) /\ todo' = Tail(todo) /\ now' = now /\ Account(FALSE, FALSE)
    BY <1>6 DEF Arrive
  <2>2. ParserInv' /\ EventOK'
    BY <1>1, <1>4, <2>1, ParseKeeps
  <2>3. LineOK'
    BY <1>1, <1>4, <2>1, AccountKeeps DEF LineOK
  <2> QED
    BY <2>2, <2>3 DEF Ind
<1>7. CASE Garble
  <2>1. PICK c \in Byte : Parse(c)
    BY <1>7 DEF Garble
  <2>2. todo # <<>> /\ todo' = Tail(todo) /\ now' = now /\ Account(TRUE, FALSE)
    BY <1>7 DEF Garble
  <2>3. ParserInv' /\ EventOK'
    BY <1>1, <2>1, ParseKeeps
  <2>4. LineOK'
    BY <1>1, <1>4, <2>2, AccountKeeps DEF LineOK
  <2> QED
    BY <2>3, <2>4 DEF Ind
<1>8. CASE LoseByte
  <2>1. /\ todo # <<>> /\ todo' = Tail(todo) /\ now' = now /\ Account(TRUE, TRUE)
        /\ event' = Nothing /\ UNCHANGED parser
    BY <1>8 DEF LoseByte
  <2>2. LineOK'
    BY <1>1, <1>4, <2>1, AccountKeeps DEF LineOK
  <2> QED
    BY <1>2, <1>3, <2>1, <2>2 DEF Ind, EventOK
<1>9. CASE Noise
  <2>1. PICK c \in Byte : Parse(c)
    BY <1>9 DEF Noise
  <2>2. now' = now /\ todo' = todo /\ Account(TRUE, TRUE)
    BY <1>9 DEF Noise, line
  <2>3. ParserInv' /\ EventOK'
    BY <1>1, <2>1, ParseKeeps
  <2>4. LineOK'
    BY <1>1, <2>2, AccountKeeps DEF LineOK
  <2> QED
    BY <2>3, <2>4 DEF Ind
<1>10. CASE UNCHANGED vars
  <2>1. UNCHANGED parser /\ event' = event /\ now' = now /\ todo' = todo /\ UNCHANGED history
    BY <1>10 DEF vars, line
  <2>2. EventOK' /\ LineOK'
    BY <1>1, <2>1 DEF EventOK, LineOK, history
  <2> QED
    BY <1>3, <2>1, <2>2 DEF Ind
<1> QED
  BY <1>5, <1>6, <1>7, <1>8, <1>9, <1>10 DEF Next

\* Every byte lands in the block allocated for it, whatever the line brings
\* (_protocol_buffer_generate_byte_by_byte).
THEOREM Invariant == Spec => []IInv
<1>1. Init => Ind
  BY IndInit
<1>2. Ind /\ [Next]_vars => Ind'
  BY IndNext
<1>3. Ind => IInv
  BY IndIsIInv
<1> QED
  BY <1>1, <1>2, <1>3, PTL DEF Spec

\* The block exceeds the limit by one growth at most, and no large block is kept
\* between frames (_try_garbage_collection_protocol_buffer).
THEOREM BoundedHeap == Spec => []HeapBound
<1>1. Init => Ind
  BY IndInit
<1>2. Ind /\ [Next]_vars => Ind'
  BY IndNext
<1>3. Ind => HeapBound
  BY IndIsIInv
<1> QED
  BY <1>1, <1>2, <1>3, PTL DEF Spec

-----------------------------------------------------------------------------
(* An undamaged line                                                       *)

\* Where the assembler is in the frame on the line: between frames, storing it,
\* or counting what is left of it.
SamePlace ==
  LET n == Len(now.payload) IN
  /\ todo = <<>> => data = <<>>
  /\ todo # <<>> /\ ~ Overflow(capacity) => data \o todo = FrameOf(now)
  /\ Len(data) >= Header => length = Len(todo)
  /\ Len(data) = LenIdx + 1 => length = (n \div Base) * Base
  /\ Len(data) \in {LenIdx + 2, LenIdx + 3} => length = n
  /\ Len(data) = LenIdx + 3 => crc = (LenCrc(n) \div Base) * Base

AtTheSamePlace == SamePlace /\ event \in {Nothing, Meaning(now)}

FollowInv == ~ hurt => AtTheSamePlace

\* The next byte of a frame of which data has come.
LEMMA NextOfFrame ==
  ASSUME NEW S, NEW d \in Seq(S), NEW t \in Seq(S), t # <<>>
  PROVE  /\ Head(t) = (d \o t)[Len(d) + 1]
         /\ Append(d, Head(t)) \o Tail(t) = d \o t
         /\ Len(d \o t) = Len(d) + Len(t)
         /\ Len(t) \in Nat /\ Len(t) > 0 /\ Len(Tail(t)) = Len(t) - 1
         /\ Tail(t) = <<>> => Append(d, Head(t)) = d \o t
         /\ Tail(t) = <<>> <=> Len(t) = 1
<1>1. Len(d) \in Nat /\ Len(t) \in Nat /\ Len(t) > 0
  OBVIOUS
<1>2. Head(t) = t[1] /\ Head(t) \in S
  BY <1>1
<1>3. Tail(t) \in Seq(S) /\ Len(Tail(t)) = Len(t) - 1
      /\ \A i \in 1..(Len(t) - 1) : Tail(t)[i] = t[i + 1]
  BY <1>1
<1>4. /\ d \o t \in Seq(S) /\ Len(d \o t) = Len(d) + Len(t)
      /\ \A i \in 1..Len(d) : (d \o t)[i] = d[i]
      /\ \A i \in 1..Len(t) : (d \o t)[Len(d) + i] = t[i]
  BY Concat
<1>5. Head(t) = (d \o t)[Len(d) + 1]
  BY <1>1, <1>2, <1>4
<1> DEFINE a == Append(d, Head(t))
           u == Tail(t)
<1>6. /\ a \in Seq(S) /\ Len(a) = Len(d) + 1
      /\ \A i \in 1..Len(d) : a[i] = d[i]
      /\ a[Len(d) + 1] = t[1]
  BY <1>1, <1>2
<1>7. a \o u = d \o t
  <2> HIDE DEF a
  <2>1. u \in Seq(S) /\ Len(u) = Len(t) - 1
        /\ \A i \in 1..(Len(t) - 1) : u[i] = t[i + 1]
    BY <1>3
  <2> HIDE DEF u
  <2>2. /\ a \o u \in Seq(S) /\ Len(a \o u) = Len(a) + Len(u)
        /\ \A i \in 1..Len(a) : (a \o u)[i] = a[i]
        /\ \A i \in 1..Len(u) : (a \o u)[Len(a) + i] = u[i]
    <3>1. a \in Seq(S) /\ u \in Seq(S)
      BY <1>6, <2>1
    <3> QED
      BY ONLY <3>1, Concat
  <2>3. Len(a \o u) = Len(d \o t)
    BY <1>1, <1>4, <1>6, <2>1, <2>2
  <2>4. ASSUME NEW i \in 1..Len(d \o t) PROVE (a \o u)[i] = (d \o t)[i]
    <3>1. CASE i <= Len(d)
      BY <1>1, <1>4, <1>6, <2>2, <3>1
    <3>2. CASE i = Len(d) + 1
      <4>1. (a \o u)[i] = a[i] /\ a[i] = t[1]
        BY <1>1, <1>6, <2>2, <3>2
      <4>2. (d \o t)[i] = t[1]
        BY <1>1, <1>4, <3>2
      <4> QED
        BY <4>1, <4>2
    <3>3. CASE i > Len(d) + 1
      <4> DEFINE j == i - Len(d) - 1
      <4>1. j \in 1..Len(u) /\ i = Len(a) + j /\ j + 1 \in 1..Len(t) /\ i = Len(d) + (j + 1)
        BY <1>1, <1>4, <1>6, <2>1, <3>3
      <4> HIDE DEF j
      <4>2. (a \o u)[i] = u[j]
        BY <2>2, <4>1
      <4>3. (d \o t)[i] = t[j + 1]
        BY <1>4, <4>1
      <4>4. u[j] = t[j + 1]
        BY <1>1, <2>1, <4>1
      <4> QED
        BY <4>2, <4>3, <4>4
    <3>4. i \in Nat
      BY <1>1, <1>4
    <3>5. i <= Len(d) \/ i = Len(d) + 1 \/ i > Len(d) + 1
      BY <1>1, <3>4
    <3> QED
      BY <3>1, <3>2, <3>3, <3>5
  <2> QED
    BY <1>4, <2>2, <2>3, <2>4
<1>8. u = <<>> <=> Len(t) = 1
  BY <1>1, <1>3
<1>9. u = <<>> => a = d \o t
  <2>1. u = <<>> => a \o u = a
    <3>1. a \in Seq(S)
      BY <1>6
    <3>2. a \o <<>> = a
      <4> HIDE DEF a
      <4> QED
        BY ONLY <3>1
    <3> QED
      BY <3>2
  <2> QED
    BY <1>7, <2>1
<1> QED
  BY <1>1, <1>3, <1>4, <1>5, <1>7, <1>8, <1>9

\* Between frames nothing is claimed of the frame on the line.
LEMMA AtRest ==
  ASSUME data' = <<>>, todo' = <<>>, event' \in {Nothing, Meaning(now')}
  PROVE  AtTheSamePlace'
<1>1. Len(data') = 0
  OBVIOUS
<1>2. LenIdx \in Nat /\ LenIdx > 0
  BY Sizing
<1> HIDE DEF LenIdx, Header
<1>3. Len(data') # LenIdx + 1 /\ Len(data') \notin {LenIdx + 2, LenIdx + 3}
      /\ Len(data') # LenIdx + 3 /\ ~ Len(data') >= Header
  BY <1>1, <1>2 DEF Header
<1> QED
  BY <1>3 DEF AtTheSamePlace, SamePlace

\* Storing the next byte of the frame.
LEMMA StoreFollows ==
  ASSUME ParserInv, LineOK, todo # <<>>, data \o todo = FrameOf(now),
         todo' = Tail(todo), now' = now,
         NEW len \in 0..(Width - 1), NEW code \in 0..(Width - 1),
         Len(data) + 1 >= Header => len = Len(todo) - 1,
         Len(data) = LenIdx => len = (Len(now.payload) \div Base) * Base,
         Len(data) \in {LenIdx + 1, LenIdx + 2} => len = Len(now.payload),
         Len(data) = LenIdx + 2 => code = (LenCrc(Len(now.payload)) \div Base) * Base,
         Store(Head(todo), len, code)
  PROVE  AtTheSamePlace' /\ (todo' = <<>> => event' = Meaning(now))
<1> DEFINE f == FrameOf(now)
           n == Len(now.payload)
           c == Head(todo)
           frame == Append(data, c)
<1>1. /\ data \in Seq(Byte) /\ todo \in Seq(Byte) /\ now \in Messages
      /\ Len(data) \in Nat
  BY DEF ParserInv, LineOK
<1>2. Header \in Nat /\ LenIdx \in Nat /\ Header = LenIdx + 4
  BY Sizing
<1>3. n \in Nat /\ Len(f) = Header + n
  BY <1>1, FrameShape
<1>4. /\ frame \o todo' = f
      /\ Len(f) = Len(data) + Len(todo)
      /\ Len(todo) \in Nat /\ Len(todo) > 0 /\ Len(todo') = Len(todo) - 1
      /\ todo' = <<>> => frame = f
      /\ todo' = <<>> <=> Len(todo) = 1
  <2> HIDE DEF Byte
  <2> QED
    BY <1>1, NextOfFrame
<1>5. Len(frame) = Len(data) + 1
  BY <1>1
<1>6. CASE Len(frame) >= Header /\ len = 0
  <2>1. event' = Processed(frame) /\ data' = <<>>
    BY <1>6 DEF Store, Reset
  <2>2. Len(todo) = 1
    <3> HIDE DEF frame
    <3> QED
      BY <1>4, <1>5, <1>6
  <2>3. todo' = <<>> /\ frame = f
    BY <1>4, <2>2
  <2>4. event' = Meaning(now')
    BY <1>1, <2>1, <2>3, FrameShape
  <2> QED
    BY <2>1, <2>3, <2>4, AtRest
<1>7. CASE ~ (Len(frame) >= Header /\ len = 0)
  <2>1. event' = Nothing /\ data' = frame /\ length' = len /\ crc' = code
    BY <1>7 DEF Store
  <2>2. todo' # <<>>
    <3>1. ASSUME todo' = <<>> PROVE FALSE
      <4>1. Len(todo) = 1 /\ Len(data) + 1 = Header + n
        BY <1>1, <1>3, <1>4, <3>1
      <4> HIDE DEF f, n, c, frame, Header
      <4>2. Len(data) + 1 >= Header
        BY <1>2, <1>3, <4>1
      <4>3. len = 0
        BY <4>1, <4>2
      <4> QED
        BY <1>5, <1>7, <4>2, <4>3
    <3> QED
      BY <3>1
  <2>3. Len(data') = Len(data) + 1 /\ now' = now
    BY <1>5, <2>1
  <2>4. event' \in {Nothing, Meaning(now')}
    BY <2>1
  <2>5. data' \o todo' = FrameOf(now')
    BY <1>4, <2>1
  <2> HIDE DEF LenIdx, Header, frame
  <2>6. Len(data') >= Header => length' = Len(todo')
    BY <1>4, <2>1, <2>3
  <2>7. Len(data') = LenIdx + 1 => length' = (Len(now'.payload) \div Base) * Base
    <3>1. Len(data') = LenIdx + 1 => Len(data) = LenIdx
      BY <1>1, <1>2, <2>3
    <3> QED
      BY <2>1, <3>1
  <2>8. Len(data') \in {LenIdx + 2, LenIdx + 3} => length' = Len(now'.payload)
    <3>1. Len(data') \in {LenIdx + 2, LenIdx + 3} => Len(data) \in {LenIdx + 1, LenIdx + 2}
      BY <1>1, <1>2, <2>3
    <3> QED
      BY <2>1, <3>1
  <2>9. Len(data') = LenIdx + 3 => crc' = (LenCrc(Len(now'.payload)) \div Base) * Base
    <3>1. Len(data') = LenIdx + 3 => Len(data) = LenIdx + 2
      BY <1>1, <1>2, <2>3
    <3> QED
      BY <2>1, <3>1
  <2> QED
    BY <2>2, <2>4, <2>5, <2>6, <2>7, <2>8, <2>9 DEF AtTheSamePlace, SamePlace
<1> QED
  BY <1>6, <1>7

\* Every branch follows an intact frame.
LEMMA ParseFollows ==
  ASSUME Ind, SamePlace, todo # <<>>, Parse(Head(todo)),
         todo' = Tail(todo), now' = now
  PROVE  /\ AtTheSamePlace'
         /\ todo' = <<>> /\ ~ Overflow(capacity) => event' = Meaning(now)
<1> DEFINE f == FrameOf(now)
           n == Len(now.payload)
           c == Head(todo)
<1>1. /\ ParserInv /\ LineOK /\ BlockInv /\ LengthInv
      /\ data \in Seq(Byte) /\ todo \in Seq(Byte) /\ now \in Messages
      /\ Len(data) \in Nat
      /\ length \in 0..(Width - 1) /\ crc \in 0..(Width - 1)
  BY DEF Ind, ParserInv, LineOK
<1>2. /\ Header \in Nat /\ LenIdx \in Nat /\ Header = LenIdx + 4 /\ Len(Sync) \in Nat
      /\ Len(Sync) < LenIdx /\ Width \in Nat /\ Width > 0
      /\ MaxSize \in Nat /\ GcSize \in Nat /\ GcSize < MaxSize
  BY Sizing
<1>3. /\ ~ Overflow(capacity) => data \o todo = f
      /\ Len(data) >= Header => length = Len(todo)
      /\ Len(data) = LenIdx + 1 => length = (n \div Base) * Base
      /\ Len(data) \in {LenIdx + 2, LenIdx + 3} => length = n
      /\ Len(data) = LenIdx + 3 => crc = (LenCrc(n) \div Base) * Base
  BY DEF SamePlace
<1>4. /\ Len(todo) \in Nat /\ Len(todo) > 0 /\ Len(todo') = Len(todo) - 1
      /\ todo' = <<>> <=> Len(todo) = 1
  <2> HIDE DEF Byte
  <2> QED
    BY <1>1, NextOfFrame
<1>5. CASE Overflow(capacity)
  <2>1. Drop
    BY <1>5 DEF Parse
  <2>2. capacity \in Nat /\ capacity >= MaxSize
    BY <1>1, <1>5 DEF ParserInv, Overflow
  <2>3. Len(data) > Header
    BY <1>1, <1>2, <2>2 DEF BlockInv
  <2>4. length = Len(todo)
    BY <1>1, <1>2, <1>3, <2>3
  <2>5. CASE MoreToDrop
    <3>1. /\ length > 1 /\ length' = length - 1 /\ data' = data /\ capacity' = capacity
          /\ event' = Nothing
      BY <2>1, <2>5 DEF Drop, MoreToDrop
    <3>2. todo' # <<>> /\ length' = Len(todo')
      BY <1>4, <2>4, <3>1
    <3>3. Overflow(capacity') /\ event' \in {Nothing, Meaning(now')}
      BY <1>5, <3>1
    <3> HIDE DEF LenIdx, Header
    <3>4. /\ Len(data') # LenIdx + 1 /\ Len(data') \notin {LenIdx + 2, LenIdx + 3}
          /\ Len(data') # LenIdx + 3
      BY <1>1, <1>2, <2>3, <3>1
    <3> QED
      BY <1>5, <3>2, <3>3, <3>4 DEF AtTheSamePlace, SamePlace
  <2>6. CASE ~ MoreToDrop
    <3>1. data' = <<>> /\ event' = Nothing
      BY <2>1, <2>6 DEF Drop, Reset
    <3>2. todo' = <<>>
      BY <1>1, <1>4, <2>4, <2>6 DEF MoreToDrop
    <3> QED
      BY <1>5, <3>1, <3>2, AtRest
  <2> QED
    BY <2>5, <2>6
<1>6. CASE ~ Overflow(capacity)
  <2>1. SyncByte(c) \/ FieldByte(c) \/ LengthByte(c) \/ CrcByte(c) \/ PayloadByte(c)
    BY <1>6 DEF Parse
  <2>2. data \o todo = f
    BY <1>3, <1>6
  <2>3. /\ c = f[Len(data) + 1]
        /\ Len(f) = Len(data) + Len(todo)
    <3> HIDE DEF Byte, f
    <3> QED
      BY <1>1, <2>2, NextOfFrame
  <2>4. /\ n \in Nat /\ n \in 0..(Width - 1) /\ LenCrc(n) \in 0..(Width - 1)
        /\ Len(f) = Header + n
        /\ \A i \in 1..Len(Sync) : f[i] = Sync[i]
        /\ f[LenIdx + 1] = n \div Base /\ f[LenIdx + 2] = n % Base
        /\ f[LenIdx + 3] = LenCrc(n) \div Base /\ f[LenIdx + 4] = LenCrc(n) % Base
    BY <1>1, FrameShape
  <2>5. c \in Byte
    <3> HIDE DEF Byte
    <3> QED
      BY <1>1
  <2>6. Len(todo) - 1 = n - (Len(data) + 1 - Header)
    <3>1. n \in Nat /\ Len(f) = Header + n
      BY <2>4
    <3>2. Len(f) = Len(data) + Len(todo) /\ Len(data) \in Nat /\ Len(todo) \in Nat /\ Header \in Nat
      BY <1>1, <1>2, <1>4, <2>3
    <3> HIDE DEF f, n, Header
    <3> QED
      BY ONLY <3>1, <3>2
  <2> HIDE DEF f, n, c
  <2>7. CASE SyncByte(c)
    <3>1. Len(data) < Len(Sync)
      BY <2>7 DEF SyncByte
    <3>2. c = Sync[Len(data) + 1]
      <4>1. Len(data) + 1 \in 1..Len(Sync)
        BY <1>1, <1>2, <3>1
      <4>2. \A i \in 1..Len(Sync) : f[i] = Sync[i]
        BY <2>4
      <4> QED
        BY <2>3, <4>1, <4>2
    <3>3. /\ event' = Nothing /\ data' = Append(data, c)
          /\ length' = length /\ crc' = crc
      BY <2>7, <3>2 DEF SyncByte, SyncFits
    <3>4. length = 0 /\ crc = 0
      BY <3>1, <1>1, <1>2 DEF LengthInv
    <3>5. Len(data) + 1 < Header
      BY <3>1, <1>1, <1>2
    <3>6. Store(c, 0, 0)
      <4>1. ~ Len(Append(data, c)) >= Header
        BY <3>5, <1>1, <1>2
      <4>2. Allocate
        BY <2>7 DEF SyncByte
      <4> QED
        BY <3>3, <3>4, <4>1, <4>2 DEF Store
    <3>7. /\ 0 \in 0..(Width - 1) /\ ~ Len(data) + 1 >= Header /\ Len(data) # LenIdx
          /\ Len(data) \notin {LenIdx + 1, LenIdx + 2} /\ Len(data) # LenIdx + 2
      BY <3>1, <1>1, <1>2
    <3> HIDE DEF LenIdx, Header, Byte
    <3> QED
      BY <1>1, <2>2, <3>6, <3>7, StoreFollows DEF c, f
  <2>8. CASE FieldByte(c)
    <3>1. Len(data) <= LenIdx - 1 /\ Store(c, length, crc)
      BY <2>8, <1>1, <1>2 DEF FieldByte
    <3>2. /\ ~ Len(data) + 1 >= Header /\ Len(data) # LenIdx
          /\ Len(data) \notin {LenIdx + 1, LenIdx + 2} /\ Len(data) # LenIdx + 2
      BY <3>1, <1>1, <1>2
    <3> HIDE DEF LenIdx, Header, Byte
    <3> QED
      BY <1>1, <2>2, <3>1, <3>2, StoreFollows DEF c, f
  <2>9. CASE LengthByte(c)
    <3>1. CASE Len(data) = LenIdx /\ Store(c, c * Base, crc)
      <4>1. c = n \div Base
        BY <3>1, <2>3, <2>4
      <4>2. c * Base \in 0..(Width - 1)
        BY <2>5, TwoBytes
      <4>3. /\ ~ Len(data) + 1 >= Header
            /\ Len(data) \notin {LenIdx + 1, LenIdx + 2} /\ Len(data) # LenIdx + 2
        BY <3>1, <1>1, <1>2
      <4>4. c * Base = (n \div Base) * Base
        BY <4>1
      <4> HIDE DEF LenIdx, Header, Byte
      <4> QED
        BY <1>1, <2>2, <3>1, <4>2, <4>3, <4>4, StoreFollows DEF c, f, n
    <3>2. CASE Len(data) = LenIdx + 1 /\ Store(c, length + c, crc)
      <4>1. c = n % Base
        <5>1. Len(data) + 1 = LenIdx + 2
          BY <3>2, <1>2
        <5> QED
          BY <5>1, <2>3, <2>4
      <4>2. length = (n \div Base) * Base
        BY <3>2, <1>3 DEF n
      <4>3. length + c = n
        BY <4>1, <4>2, <2>4, Digits
      <4>4. ~ Len(data) + 1 >= Header /\ Len(data) # LenIdx /\ Len(data) # LenIdx + 2
        BY <3>2, <1>1, <1>2
      <4>5. Store(c, n, crc)
        BY <3>2, <4>3
      <4> HIDE DEF LenIdx, Header, Byte
      <4> QED
        BY <1>1, <2>2, <2>4, <4>4, <4>5, StoreFollows DEF c, f, n
    <3>3. CASE Len(data) = LenIdx + 2 /\ Store(c, length, c * Base)
      <4>1. c = LenCrc(n) \div Base
        <5>1. Len(data) + 1 = LenIdx + 3
          BY <3>3, <1>2
        <5> QED
          BY <5>1, <2>3, <2>4
      <4>2. length = n
        BY <3>3, <1>3 DEF n
      <4>3. c * Base \in 0..(Width - 1) /\ c * Base = (LenCrc(n) \div Base) * Base
        BY <2>5, <4>1, TwoBytes
      <4>4. ~ Len(data) + 1 >= Header /\ Len(data) # LenIdx
        BY <3>3, <1>1, <1>2
      <4> HIDE DEF LenIdx, Header, Byte
      <4> QED
        BY <1>1, <2>2, <3>3, <4>2, <4>3, <4>4, StoreFollows DEF c, f, n
    <3> QED
      BY <2>9, <3>1, <3>2, <3>3 DEF LengthByte
  <2>10. CASE CrcByte(c)
    <3>1. Len(data) = LenIdx + 3
      BY <2>10 DEF CrcByte
    <3>2. c = LenCrc(n) % Base
      <4>1. Len(data) + 1 = LenIdx + 4
        BY <3>1, <1>2
      <4> QED
        BY <4>1, <2>3, <2>4
    <3>3. length = n /\ crc = (LenCrc(n) \div Base) * Base
      BY <3>1, <1>3 DEF n
    <3>4. crc + c = LenCrc(n)
      BY <3>2, <3>3, <2>4, Digits
    <3>5. Store(c, n, LenCrc(n))
      BY <2>10, <3>3, <3>4 DEF CrcByte, LenCrcValid
    <3>6. n = Len(todo) - 1
      <4>1. Len(data) + 1 = Header /\ n \in Nat /\ Len(todo) \in Nat /\ Header \in Nat
        BY <3>1, <1>2, <1>4, <2>4
      <4> HIDE DEF Header
      <4> QED
        BY ONLY <2>6, <4>1
    <3>7. Len(data) # LenIdx /\ Len(data) \notin {LenIdx + 1, LenIdx + 2} /\ Len(data) # LenIdx + 2
      BY <3>1, <1>1, <1>2
    <3> HIDE DEF LenIdx, Header, Byte
    <3> QED
      BY <1>1, <2>2, <2>4, <3>5, <3>6, <3>7, StoreFollows DEF c, f
  <2>11. CASE PayloadByte(c)
    <3>1. Len(data) >= Header /\ length > 0 /\ Store(c, length - 1, crc)
      BY <2>11 DEF PayloadByte
    <3>2. length = Len(todo)
      BY <3>1, <1>3
    <3>3. length - 1 \in 0..(Width - 1) /\ length - 1 = Len(todo) - 1
      BY <1>1, <1>2, <3>1, <3>2
    <3>4. Len(data) # LenIdx /\ Len(data) \notin {LenIdx + 1, LenIdx + 2} /\ Len(data) # LenIdx + 2
      BY <3>1, <1>1, <1>2
    <3> HIDE DEF LenIdx, Header, Byte
    <3> QED
      BY <1>1, <2>2, <3>1, <3>3, <3>4, StoreFollows DEF c, f
  <2> QED
    BY <2>1, <2>7, <2>8, <2>9, <2>10, <2>11
<1> QED
  BY <1>5, <1>6

\* Something is only reported when the assembler is at rest again.
LEMMA EventMeansRest ==
  ASSUME NEW c \in Byte, Parse(c), event' # Nothing
  PROVE  data' = <<>>
<1>3. ASSUME NEW len, NEW code, Store(c, len, code)
      PROVE  data' = <<>>
  BY <1>3 DEF Store, Reset
<1>4. ~ Overflow(capacity)
  BY DEF Parse, Drop
<1>5. ~ SyncByte(c)
  BY DEF SyncByte
<1>6. CrcByte(c) => data' = <<>>
  BY <1>3 DEF CrcByte, Reset
<1> QED
  BY <1>3, <1>4, <1>5, <1>6 DEF Parse, FieldByte, LengthByte, PayloadByte

\* A frame goes out when the one before it has been followed to its end.
LEMMA SendFollows ==
  ASSUME SamePlace, NEW m \in Messages, Send(m)
  PROVE  SamePlace'
<1>1. /\ todo = <<>> /\ now' = m /\ todo' = FrameOf(m) /\ data' = data
  BY DEF Send, parser
<1>2. data = <<>>
  BY <1>1 DEF SamePlace
<1>3. data' \o todo' = FrameOf(now')
  <2>1. FrameOf(m) \in Seq(Byte)
    BY FrameShape
  <2>2. <<>> \o FrameOf(m) = FrameOf(m)
    <3> DEFINE g == FrameOf(m)
    <3> HIDE DEF g, Byte
    <3>1. g \in Seq(Byte)
      BY <2>1 DEF g
    <3>2. <<>> \o g = g
      BY ONLY <3>1
    <3> QED
      BY <3>2 DEF g
  <2> QED
    BY <1>1, <1>2, <2>2
<1>4. todo' # <<>>
  <2>1. Len(FrameOf(m)) = Header + Len(m.payload) /\ Len(m.payload) \in Nat
    BY FrameShape
  <2>2. Header \in Nat /\ Header > 0
    BY Sizing
  <2>3. Len(FrameOf(m)) > 0
    <3> HIDE DEF Header
    <3> QED
      BY <2>1, <2>2
  <2> QED
    BY <1>1, <2>3
<1>5. /\ ~ Len(data') >= Header /\ Len(data') # LenIdx + 1
      /\ Len(data') \notin {LenIdx + 2, LenIdx + 3} /\ Len(data') # LenIdx + 3
  <2>1. Len(data') = 0
    BY <1>1, <1>2
  <2>2. LenIdx \in Nat /\ LenIdx > 0
    BY Sizing
  <2> HIDE DEF LenIdx
  <2> QED
    BY <2>1, <2>2
<1> QED
  BY <1>3, <1>4, <1>5 DEF SamePlace

LEMMA FollowNext == Ind /\ FollowInv /\ [Next]_vars => FollowInv'
<1> SUFFICES ASSUME Ind, FollowInv, [Next]_vars, ~ hurt' PROVE AtTheSamePlace'
  BY DEF FollowInv
<1>1. /\ ParserInv /\ LineOK /\ todo \in Seq(Byte) /\ hurt \in BOOLEAN
  BY DEF Ind, LineOK
<1>2. todo # <<>> => Head(todo) \in Byte
  <2> HIDE DEF Byte
  <2> QED
    BY <1>1
<1>3. ASSUME NEW slip, Account(TRUE, slip)
      PROVE  event' = Meaning(now) /\ event' # Nothing /\ todo' = <<>>
  BY <1>1, <1>3, Meant DEF Account, Understands, LineOK
<1>5. ASSUME NEW m \in Messages, Send(m) PROVE AtTheSamePlace'
  <2>1. event' = Nothing /\ hurt' = hurt
    BY <1>5 DEF Send, history
  <2> QED
    BY <1>5, <2>1, SendFollows DEF FollowInv, AtTheSamePlace
<1>6. CASE Arrive
  <2>1. todo # <<>> /\ Parse(Head(todo)) /\ todo' = Tail(todo) /\ now' = now /\ Account(FALSE, FALSE)
    BY <1>6 DEF Arrive
  <2>2. CASE ~ hurt
    BY <2>1, <2>2, ParseFollows DEF FollowInv, AtTheSamePlace
  <2>3. CASE hurt
    <3>1. event' = Meaning(now') /\ event' # Nothing /\ todo' = <<>>
      BY <1>1, <2>1, <2>3, Meant DEF Account, Understands, LineOK
    <3>2. data' = <<>>
      BY <1>2, <2>1, <3>1, EventMeansRest
    <3> QED
      BY <3>1, <3>2, AtRest
  <2> QED
    BY <1>1, <2>2, <2>3
<1>7. CASE Garble \/ Noise
  <2>1. PICK c \in Byte : Parse(c)
    BY <1>7 DEF Garble, Noise
  <2>2. event' = Meaning(now') /\ event' # Nothing /\ todo' = <<>>
    BY <1>3, <1>7 DEF Garble, Noise, line
  <2>3. data' = <<>>
    BY <2>1, <2>2, EventMeansRest
  <2> QED
    BY <2>2, <2>3, AtRest
<1>8. CASE LoseByte
  BY <1>3, <1>8 DEF LoseByte
<1>9. CASE UNCHANGED vars
  BY <1>9 DEF vars, parser, line, history, FollowInv, AtTheSamePlace, SamePlace
<1> QED
  BY <1>5, <1>6, <1>7, <1>8, <1>9 DEF Next

LEMMA FollowInit == Init => FollowInv
<1> SUFFICES ASSUME Init PROVE AtTheSamePlace
  BY DEF FollowInv
<1>1. data = <<>> /\ todo = <<>> /\ event = Nothing
  BY DEF Init
<1>2. Len(data) = 0 /\ LenIdx \in Nat /\ LenIdx > 0
  BY <1>1, Sizing
<1> HIDE DEF LenIdx
<1>3. /\ ~ Len(data) >= Header /\ Len(data) # LenIdx + 1
      /\ Len(data) \notin {LenIdx + 2, LenIdx + 3} /\ Len(data) # LenIdx + 3
  BY <1>2
<1> QED
  BY <1>1, <1>3 DEF AtTheSamePlace, SamePlace

LEMMA FollowIsInStep == Ind /\ FollowInv => InStep /\ AsMeant
<1> SUFFICES ASSUME Ind, FollowInv, ~ hurt
             PROVE  /\ todo = <<>> => data = <<>> /\ length = 0 /\ ~ Overflow(capacity)
                    /\ ~ Overflow(capacity) => data \o todo \in {<<>>, FrameOf(now)}
                    /\ event \in {Nothing, Meaning(now)}
  BY DEF InStep, AsMeant
<1>1. AtTheSamePlace
  BY DEF FollowInv
<1>2. ASSUME todo = <<>> PROVE data = <<>> /\ length = 0 /\ ~ Overflow(capacity)
  <2>1. data = <<>>
    BY <1>1, <1>2 DEF AtTheSamePlace, SamePlace
  <2>2. Len(data) = 0 /\ LenIdx \in Nat /\ GcSize \in Nat /\ GcSize < MaxSize /\ MaxSize \in Nat
    BY <2>1, Sizing
  <2>3. BlockInv /\ LengthInv /\ capacity \in Nat
    BY DEF Ind, ParserInv
  <2> HIDE DEF LenIdx
  <2>4. capacity <= GcSize
    BY <2>2, <2>3 DEF BlockInv
  <2> QED
    BY <2>1, <2>2, <2>3, <2>4 DEF LengthInv, Overflow
<1>3. ASSUME ~ Overflow(capacity) PROVE data \o todo \in {<<>>, FrameOf(now)}
  <2>1. CASE todo = <<>>
    BY <1>2, <2>1
  <2>2. CASE todo # <<>>
    BY <1>1, <1>3, <2>2 DEF AtTheSamePlace, SamePlace
  <2> QED
    BY <2>1, <2>2
<1> QED
  BY <1>1, <1>2, <1>3 DEF AtTheSamePlace

\* An undamaged line is followed byte by byte, long frames included, and nothing
\* that was sent is rejected, asked for again or taken for anything else.
THEOREM StaysInStep == Spec => [](InStep /\ AsMeant)
<1>1. Init => Ind /\ FollowInv
  BY IndInit, FollowInit
<1>2. Ind /\ FollowInv /\ [Next]_vars => Ind' /\ FollowInv'
  BY IndNext, FollowNext
<1>3. Ind /\ FollowInv => InStep /\ AsMeant
  BY FollowIsInStep
<1> QED
  BY <1>1, <1>2, <1>3, PTL DEF Spec

-----------------------------------------------------------------------------
(* A line that was damaged                                                 *)

HIDE DEF Byte, U16, LenIdx, Header

\* How many bytes of the frame on the line have come.
Gone == Len(FrameOf(now)) - Len(todo)

\* What is to come is the end of the frame on the line.
RestInv ==
  todo # <<>> => /\ Gone >= 0
                 /\ \A i \in 1..Len(todo) : todo[i] = FrameOf(now)[Gone + i]

\* The length and its CRC are what the bytes stored in their places say.
ReadInv ==
  /\ Len(data) = LenIdx + 1 => length = data[LenIdx + 1] * Base
  /\ Len(data) \in {LenIdx + 2, LenIdx + 3} =>
       length = data[LenIdx + 1] * Base + data[LenIdx + 2]
  /\ Len(data) = LenIdx + 3 => crc = data[LenIdx + 3] * Base

\* The sizes the block goes through, those above the limit included.
Grown == {Header * (2^k - 1) : k \in 1..16}

\* In step, and if the rest of the frame is dropped, it is one of those that are.
Followed == SamePlace /\ (Overflow(capacity) => ~ Fits(now))

\* Looking for a sync pattern within a frame: what it has of one is a part of the
\* frame, and not its beginning.
Hunting ==
  /\ todo # <<>> /\ Len(data) < Len(Sync) /\ Len(data) < Gone
  /\ \A j \in 1..Len(data) : FrameOf(now)[Gone - Len(data) + j] = Sync[j]

\* A false start has been seen or may be, and the frame that has it is missed.
Doomed == todo # <<>> /\ FalseStart(now)

\* Counting bytes of a frame: to an end within the one on the line or with the
\* first byte of the next one ...
Ending == Len(data) >= Header /\ (length <= Len(todo) \/ (todo = <<>> /\ length = 1))

\* ... or one byte later than the line.
Counting == Len(data) >= Header /\ length <= Len(todo) + 1

\* One byte short of a header when the frame ends.
Straddling == Len(data) = Header - 1 /\ (todo = <<>> \/ Gone = 0)

\* Within a header, level with the line, one byte ahead of it or one behind.
Askew ==
  \/ /\ todo # <<>> /\ Len(data) \in 1..(Header - 1)
     /\ Len(data) \in (Gone - 1)..(Gone + 1)
  \/ todo = <<>> /\ Len(data) = 1

\* One more frame is missed at most when the assembler is lost between two sync
\* patterns, and none when it is in step again.
Recovering ==
  /\ missing <= 2
  /\ \/ Doomed
     \/ Followed
     \/ missing <= 1 /\ (Hunting \/ Ending \/ Straddling)
     \/ missing = 0 /\ (Askew \/ Counting)

RecoverInv ==
  /\ RestInv /\ ReadInv /\ capacity \in Grown
  /\ ~ hurt => Followed /\ missing = 0
  /\ hurt /\ ~ unlucky => Recovering

LEMMA Places ==
  /\ Header \in Nat /\ LenIdx \in Nat /\ Header = LenIdx + 4
  /\ Len(Sync) \in Nat /\ 0 < Len(Sync) /\ Len(Sync) < LenIdx
  /\ MaxSize \in Nat /\ GcSize \in Nat /\ Header <= GcSize /\ GcSize < MaxSize
BY Sizing DEF LenIdx, Header

LEMMA Parts ==
  ASSUME ParserInv
  PROVE  /\ data \in Seq(Byte) /\ Len(data) \in Nat /\ length \in Nat
         /\ capacity \in Nat /\ capacity >= Header
         /\ Len(data) <= Header => ~ Overflow(capacity)
         /\ Len(data) >= Header => length > 0
         /\ Len(data) = 0 <=> data = <<>>
<1>1. /\ data \in Seq(Byte) /\ Len(data) \in Nat /\ capacity \in Nat
      /\ length \in 0..(Width - 1) /\ Width \in Nat /\ BlockInv /\ LengthInv
  BY Sizing DEF ParserInv
<1>2. length \in Nat /\ (Len(data) = 0 <=> data = <<>>)
  BY <1>1
<1>3. Len(data) <= Header => capacity <= GcSize
  BY <1>1 DEF BlockInv
<1> QED BY <1>1, <1>2, <1>3, Places DEF BlockInv, LengthInv, Overflow

\* The frame on the line and what has come of it.
LEMMA Line ==
  ASSUME LineOK, RestInv, todo # <<>>
  PROVE  LET f == FrameOf(now) IN
         /\ f \in Seq(Byte) /\ Len(f) = Header + Len(now.payload) /\ Len(now.payload) \in Nat
         /\ Len(todo) \in Nat /\ Len(todo) > 0 /\ Gone \in Nat /\ Gone + Len(todo) = Len(f)
         /\ Head(todo) = f[Gone + 1] /\ Head(todo) \in Byte
<1> DEFINE f == FrameOf(now)
<1>1. /\ now \in Messages /\ todo \in Seq(Byte)
      /\ Gone >= 0 /\ \A i \in 1..Len(todo) : todo[i] = f[Gone + i]
  BY DEF LineOK, RestInv
<1>2. f \in Seq(Byte) /\ Len(f) = Header + Len(now.payload) /\ Len(now.payload) \in Nat
  BY <1>1, FrameShape
<1>3. Len(todo) \in Nat /\ Len(todo) > 0 /\ Head(todo) = todo[1] /\ Head(todo) \in Byte
  BY <1>1
<1>4. Len(f) \in Nat
  BY <1>2
<1>5. Gone \in Nat /\ Gone + Len(todo) = Len(f)
  BY <1>1, <1>3, <1>4 DEF Gone
<1>6. Head(todo) = f[Gone + 1]
  BY <1>1, <1>3
<1> QED BY <1>2, <1>3, <1>5, <1>6

\* ... and what is left of it when the line goes on.
LEMMA OneGone ==
  ASSUME LineOK, RestInv, todo # <<>>, todo' = Tail(todo), now' = now
  PROVE  /\ RestInv' /\ Len(todo') = Len(todo) - 1 /\ Len(todo') \in Nat
         /\ todo' = <<>> <=> Len(todo') = 0
         /\ Gone' = Gone + 1
<1> DEFINE f == FrameOf(now)
<1>1. /\ todo \in Seq(Byte) /\ Len(todo) \in Nat /\ Gone \in Nat
      /\ Gone + Len(todo) = Len(f) /\ Len(todo) > 0
      /\ \A i \in 1..Len(todo) : todo[i] = f[Gone + i]
  BY Line DEF LineOK, RestInv
<1>2. /\ todo' \in Seq(Byte) /\ Len(todo') = Len(todo) - 1
      /\ \A i \in 1..(Len(todo) - 1) : todo'[i] = todo[i + 1]
  BY <1>1
<1>3. Len(todo') \in Nat /\ (todo' = <<>> <=> Len(todo') = 0)
  <2>1. todo' \in Seq(Byte)
    BY <1>2
  <2> HIDE DEF f
  <2> QED BY ONLY <2>1
<1>4. Gone' = Gone + 1
  <2>1. Gone' = Len(f) - Len(todo')
    BY DEF Gone
  <2> HIDE DEF f
  <2> QED BY <1>1, <1>2, <2>1
<1>5. ASSUME NEW i \in 1..Len(todo')
      PROVE  todo'[i] = f[Gone' + i]
  <2>1. todo'[i] = todo[i + 1] /\ i + 1 \in 1..Len(todo)
    BY <1>1, <1>2
  <2>2. todo[i + 1] = f[Gone + (i + 1)]
    BY <1>1, <2>1
  <2>3. Gone' + i = Gone + (i + 1)
    BY <1>1, <1>4
  <2> QED BY <2>1, <2>2, <2>3
<1>6. RestInv'
  <2>1. Gone' >= 0
    BY <1>1, <1>4
  <2> QED BY <1>5, <2>1 DEF RestInv
<1> QED BY <1>2, <1>3, <1>4, <1>6

\* What a byte does within a header, ...
LEMMA HeaderByte ==
  ASSUME ParserInv, NEW c \in Byte, Parse(c), Len(data) < Header
  PROVE  \/ data' = <<>>
         \/ /\ data' = Append(data, c) /\ Len(data') = Len(data) + 1
            /\ Len(data') < Header \/ (Len(data) = Header - 1 /\ length' = length)
<1>0. /\ data \in Seq(Byte) /\ Len(data) \in Nat /\ ~ Overflow(capacity)
      /\ Len(Append(data, c)) = Len(data) + 1
  BY Parts, Places
<1>1. ASSUME NEW len, NEW code, Store(c, len, code)
      PROVE  data' = <<>> \/ (data' = Append(data, c) /\ length' = len)
  BY <1>1 DEF Store, Reset
<1>2. SyncByte(c) \/ FieldByte(c) \/ LengthByte(c) \/ CrcByte(c) \/ PayloadByte(c)
  BY <1>0 DEF Parse
<1>3. data' = <<>> \/ data' = Append(data, c)
  BY <1>1, <1>2 DEF SyncByte, FieldByte, LengthByte, CrcByte, PayloadByte, Reset
<1>4. ASSUME Len(data) = Header - 1, data' # <<>>
      PROVE  length' = length
  <2>1. Len(data) = LenIdx + 3
    BY <1>4, Places
  <2>2. CrcByte(c)
    BY <1>2, <2>1, <1>0, Places DEF SyncByte, FieldByte, LengthByte, PayloadByte
  <2> QED BY <1>1, <1>4, <2>2 DEF CrcByte, Reset
<1>5. Len(data) + 1 < Header \/ Len(data) = Header - 1
  BY <1>0, Places
<1> QED BY <1>0, <1>3, <1>4, <1>5

\* ... and behind it.
LEMMA CountByte ==
  ASSUME ParserInv, NEW c \in Byte, Parse(c), Len(data) >= Header
  PROVE  \/ length = 1 /\ data' = <<>>
         \/ length > 1 /\ length' = length - 1 /\ Len(data') >= Header
<1>0. data \in Seq(Byte) /\ Len(data) \in Nat /\ length \in Nat /\ length > 0
  BY Parts
<1>1. CASE Overflow(capacity)
  <2>1. Drop
    BY <1>1 DEF Parse
  <2> QED BY <1>0, <2>1 DEF Drop, MoreToDrop, Reset
<1>2. CASE ~ Overflow(capacity)
  <2>1. PayloadByte(c)
    BY <1>0, <1>2, Places DEF Parse, SyncByte, FieldByte, LengthByte, CrcByte
  <2>2. Store(c, length - 1, crc)
    BY <2>1 DEF PayloadByte
  <2>3. Len(Append(data, c)) = Len(data) + 1
    BY <1>0
  <2>4. CASE length = 1
    BY <1>0, <2>2, <2>3, <2>4, Places DEF Store, Reset
  <2>5. CASE length > 1
    <3>1. data' = Append(data, c) /\ length' = length - 1
      BY <1>0, <2>2, <2>5 DEF Store
    <3> QED BY <1>0, <2>3, <2>5, <3>1, Places
  <2> QED BY <1>0, <2>4, <2>5
<1> QED BY <1>1, <1>2

LEMMA HuntByte ==
  ASSUME ParserInv, NEW c \in Byte, Parse(c), Len(data) < Len(Sync)
  PROVE  data' = IF c = Sync[Len(data) + 1] THEN Append(data, c) ELSE <<>>
<1>0. Len(data) \in Nat /\ ~ Overflow(capacity)
  BY Parts, Places
<1>1. SyncByte(c)
  BY <1>0, Places DEF Parse, FieldByte, LengthByte, CrcByte, PayloadByte
<1> QED BY <1>1 DEF SyncByte, SyncFits, Reset

-----------------------------------------------------------------------------
(* The sizes of the block                                                  *)

Powers == {2, 4, 8, 16, 32, 64, 128, 256, 512, 1024, 2048, 4096, 8192, 16384, 32768, 65536}

LEMMA PowersOfTwo ==
  /\ \A k \in 1..16 : 2^k \in Powers
  /\ \A p \in Powers : \E k \in 1..16 : p = 2^k
<1>1. /\ 2^1 = 2 /\ 2^2 = 4 /\ 2^3 = 8 /\ 2^4 = 16 /\ 2^5 = 32 /\ 2^6 = 64 /\ 2^7 = 128
      /\ 2^8 = 256 /\ 2^9 = 512 /\ 2^10 = 1024 /\ 2^11 = 2048 /\ 2^12 = 4096
      /\ 2^13 = 8192 /\ 2^14 = 16384 /\ 2^15 = 32768 /\ 2^16 = 65536
  OBVIOUS
<1>2. ASSUME NEW k \in 1..16 PROVE 2^k \in Powers
  <2>1. \/ k = 1 \/ k = 2 \/ k = 3 \/ k = 4 \/ k = 5 \/ k = 6 \/ k = 7 \/ k = 8
        \/ k = 9 \/ k = 10 \/ k = 11 \/ k = 12 \/ k = 13 \/ k = 14 \/ k = 15 \/ k = 16
    OBVIOUS
  <2> DEFINE e == 2^k
  <2>2. e \in {2^1, 2^2, 2^3, 2^4, 2^5, 2^6, 2^7, 2^8, 2^9, 2^10, 2^11, 2^12, 2^13, 2^14,
              2^15, 2^16}
    BY ONLY <2>1 DEF e
  <2> HIDE DEF e
  <2>3. e \in Powers
    BY <1>1, <2>2 DEF Powers
  <2> QED BY <2>3 DEF e
<1>3. ASSUME NEW p \in Powers PROVE \E k \in 1..16 : p = 2^k
  <2>1. /\ 1 \in 1..16 /\ 2 \in 1..16 /\ 3 \in 1..16 /\ 4 \in 1..16 /\ 5 \in 1..16
        /\ 6 \in 1..16 /\ 7 \in 1..16 /\ 8 \in 1..16 /\ 9 \in 1..16 /\ 10 \in 1..16
        /\ 11 \in 1..16 /\ 12 \in 1..16 /\ 13 \in 1..16 /\ 14 \in 1..16 /\ 15 \in 1..16
        /\ 16 \in 1..16
    OBVIOUS
  <2> QED BY <1>1, <2>1 DEF Powers
<1> QED BY <1>2, <1>3

\* One power of two up to 2^16 and the next.
LEMMA NextPower ==
  ASSUME NEW p \in Powers
  PROVE  /\ p \in Nat /\ p >= 2
         /\ p < 65536 => 2 * p \in Powers
         /\ \A q \in Powers : q \in Nat /\ (p < q => 2 * p <= q)
BY DEF Powers

LEMMA GrownAre == Grown = {Header * (p - 1) : p \in Powers}
BY PowersOfTwo DEF Grown

LEMMA SizesAre ==
  Sizes = {n \in 1..(MaxSize - 1) : \E p \in Powers : n = Header * (p - 1)}
BY PowersOfTwo DEF Sizes

LEMMA Times ==
  ASSUME NEW a \in Nat, NEW b \in Nat, NEW p \in Nat, b <= p
  PROVE  a * b <= a * p
<1>1. PICK d \in Nat : p = b + d
  <2>1. p - b \in Nat /\ p = b + (p - b)
    OBVIOUS
  <2> QED BY <2>1
<1>2. a * p = a * b + a * d /\ a * d >= 0
  BY <1>1
<1>3. a * b \in Nat /\ a * d \in Nat
  BY <1>1
<1> QED BY <1>2, <1>3

\* A block below the limit grows to the next size, and when that is above the limit
\* it is the largest below.
LEMMA GrowOnce ==
  ASSUME Base <= 256, NEW n \in Grown, n < MaxSize
  PROVE  /\ n \in Nat /\ 2 * n + Header \in Grown
         /\ 2 * n + Header >= MaxSize => Largest = 1 + n
<1>1. PICK p \in Powers : n = Header * (p - 1)
  BY GrownAre
<1>2. /\ p \in Nat /\ p >= 2
      /\ p < 65536 => 2 * p \in Powers
      /\ \A q \in Powers : q \in Nat /\ (p < q => 2 * p <= q)
  BY NextPower
<1>3. Header \in Nat /\ Header >= 1 /\ MaxSize \in Nat
  BY Places
<1>4. n \in Nat /\ n >= 1
  <2>1. Header * 1 <= Header * (p - 1)
    BY <1>2, <1>3, Times
  <2>2. Header * (p - 1) \in Nat
    BY <1>2, <1>3
  <2> QED BY <1>1, <1>3, <2>1, <2>2
<1>5. 2 * n + Header = Header * (2 * p - 1)
  BY <1>1, <1>2, <1>3
<1>6. MaxSize < 65535
  <2>1. Base \in Nat /\ Base <= 256
    BY Layout
  <2>2. Base * Base <= 65536
    <3>1. Base * Base <= Base * 256
      BY <2>1, Times
    <3> QED BY <2>1, <3>1
  <2>3. 2 * MaxSize + Header <= 65536
    <3>1. 2 * MaxSize + Header <= Width /\ Width \in Nat
      BY Sizing DEF LenIdx, Header
    <3> QED BY <2>2, <3>1, <1>3 DEF Width
  <2> QED BY <2>3, <1>3
<1>7. p < 65536
  <2>1. CASE p >= 65536
    <3>1. 1 * 65535 <= Header * 65535 /\ Header * 65535 <= Header * (p - 1)
      BY <1>2, <1>3, <2>1, Times
    <3> QED BY <3>1, <1>1, <1>3, <1>4, <1>6
  <2> QED BY <2>1, <1>2
<1>8. 2 * n + Header \in Grown
  BY <1>2, <1>5, <1>7, GrownAre
<1>9. ASSUME 2 * n + Header >= MaxSize PROVE Largest = 1 + n
  <2>1. n \in Sizes
    BY <1>1, <1>3, <1>4, SizesAre
  <2>2. ASSUME NEW i \in Sizes PROVE i <= n
    <3>1. PICK q \in Powers : i = Header * (q - 1)
      BY SizesAre
    <3>2. i \in Nat /\ i < MaxSize
      BY <1>3, SizesAre
    <3>3. q \in Nat /\ (p < q => 2 * p <= q) /\ q >= 2
      BY <1>2, NextPower
    <3>4. CASE p < q
      <4>1. Header * (2 * p - 1) <= Header * (q - 1)
        BY <1>2, <1>3, <3>3, <3>4, Times
      <4> QED BY <4>1, <3>1, <3>2, <1>3, <1>4, <1>5, <1>9
    <3>5. CASE q <= p
      <4>1. Header * (q - 1) <= Header * (p - 1)
        BY <1>2, <1>3, <3>3, <3>5, Times
      <4> QED BY <4>1, <3>1, <1>1
    <3> QED BY <3>3, <3>4, <3>5, <1>2
  <2> DEFINE most == CHOOSE k \in Sizes : \A i \in Sizes : i <= k
  <2>3. most \in Sizes /\ \A i \in Sizes : i <= most
    BY <2>1, <2>2
  <2> HIDE DEF most
  <2>4. most <= n /\ n <= most /\ most \in Nat
    <3>1. most \in Nat
      BY <2>3, <1>3 DEF Sizes
    <3> QED BY <2>1, <2>2, <2>3, <3>1
  <2> QED BY <2>4, <1>4 DEF Largest, most
<1> QED BY <1>4, <1>8, <1>9

\* What a byte does to the block.
LEMMA Growth ==
  ASSUME Base <= 256, ParserInv, capacity \in Grown, NEW c \in Byte, Parse(c)
  PROVE  /\ capacity' \in Grown
         /\ ~ Overflow(capacity) /\ Overflow(capacity') =>
              Len(data) = capacity /\ Largest = 1 + Len(data)
<1>1. /\ capacity \in Nat /\ capacity >= Header /\ heap \in {0, capacity}
      /\ heap = 0 => data = <<>>
      /\ Len(data) \in Nat /\ Len(data) <= heap
  BY Parts DEF ParserInv, BlockInv, InBlock
<1>2. /\ Header \in Nat /\ Header > 1 /\ MaxSize \in Nat /\ GcSize \in Nat
      /\ GcSize < MaxSize /\ Header < MaxSize
  BY Places
<1>3. Header \in Grown /\ ~ Overflow(Header)
  <2>1. 2 \in Powers /\ Header = Header * (2 - 1)
    BY <1>2 DEF Powers
  <2> QED BY <2>1, <1>2, GrownAre DEF Overflow
<1>4. ASSUME ~ Overflow(capacity)
      PROVE  /\ NewSize \in Grown
             /\ Overflow(NewSize) => Len(data) = capacity /\ Largest = 1 + Len(data)
  <2>1. capacity < MaxSize
    BY <1>1, <1>2, <1>4 DEF Overflow
  <2>2. CASE heap # 0 /\ Full
    <3>1. Len(data) = capacity
      BY <1>1, <2>2 DEF Full
    <3>2. 2 * capacity + Header \in 0..(Width - 1) /\ Width \in Nat
      <4>1. 2 * MaxSize + Header <= Width /\ Width \in Nat
        BY Sizing DEF LenIdx, Header
      <4> QED BY <4>1, <1>1, <1>2, <2>1
    <3>3. NewSize = 2 * capacity + Header
      <4>1. NewSize = (2 * capacity + Header) % Width
        BY <2>2 DEF NewSize
      <4> DEFINE k == 2 * capacity + Header
      <4>2. k \in 0..(Width - 1) /\ NewSize = k % Width
        BY <3>2, <4>1
      <4> HIDE DEF k
      <4>3. NewSize = k
        BY <4>2, <3>2
      <4> QED BY <4>3 DEF k
    <3>4. /\ 2 * capacity + Header \in Grown
          /\ 2 * capacity + Header >= MaxSize => Largest = 1 + capacity
      <4>1. PICK n \in Grown : n = capacity
        OBVIOUS
      <4> QED BY <4>1, <2>1, GrowOnce
    <3> QED BY <3>1, <3>3, <3>4 DEF Overflow
  <2>3. CASE ~ (heap # 0 /\ Full)
    BY <1>4, <2>3 DEF NewSize
  <2> QED BY <2>2, <2>3
<1>5. ASSUME NEW n, Collect(n)
      PROVE  capacity' \in {n, Header}
  <2>1. CASE Collected(n)
    BY <1>5, <2>1 DEF Collect
  <2>2. CASE ~ Collected(n)
    BY <1>5, <2>2 DEF Collect
  <2> QED BY <2>1, <2>2
<1>6. ASSUME NEW len, NEW code, Store(c, len, code)
      PROVE  capacity' \in {NewSize, Header}
  BY <1>5, <1>6 DEF Store, Allocate
<1>7. CASE Overflow(capacity)
  <2>1. Drop
    BY <1>7 DEF Parse
  <2>2. capacity' \in {capacity, Header}
    BY <1>5, <2>1 DEF Drop
  <2> QED BY <1>3, <1>7, <2>2
<1>8. CASE ~ Overflow(capacity)
  <2>1. SyncByte(c) \/ FieldByte(c) \/ LengthByte(c) \/ CrcByte(c) \/ PayloadByte(c)
    BY <1>8 DEF Parse
  <2>2. capacity' \in {NewSize, Header}
    <3>1. Allocate => capacity' \in {NewSize, Header}
      BY DEF Allocate
    <3>2. ASSUME LengthByte(c) PROVE \E len, code : Store(c, len, code)
      BY <3>2 DEF LengthByte
    <3>3. CrcByte(c) => Allocate \/ \E len, code : Store(c, len, code)
      BY DEF CrcByte
    <3>4. SyncByte(c) => Allocate
      BY DEF SyncByte
    <3>5. FieldByte(c) \/ PayloadByte(c) => \E len, code : Store(c, len, code)
      BY DEF FieldByte, PayloadByte
    <3> QED BY <1>6, <2>1, <3>1, <3>2, <3>3, <3>4, <3>5
  <2> QED BY <1>3, <1>4, <1>8, <2>2
<1> QED BY <1>7, <1>8

-----------------------------------------------------------------------------
(* What a byte makes of a damaged line                                     *)

\* The length is known when it has come.
LEMMA ReadKept ==
  ASSUME ParserInv, ReadInv, NEW c \in Byte, Parse(c)
  PROVE  ReadInv'
<1>1. /\ data \in Seq(Byte) /\ Len(data) \in Nat /\ length \in Nat
  BY Parts
<1>2. /\ Header \in Nat /\ LenIdx \in Nat /\ Header = LenIdx + 4 /\ Len(Sync) \in Nat
      /\ Len(Sync) < LenIdx
  BY Places
<1>3. SUFFICES ASSUME data' # <<>>, Len(data') \in {LenIdx + 1, LenIdx + 2, LenIdx + 3}
               PROVE  /\ Len(data') = LenIdx + 1 => length' = data'[LenIdx + 1] * Base
                      /\ Len(data') \in {LenIdx + 2, LenIdx + 3} =>
                           length' = data'[LenIdx + 1] * Base + data'[LenIdx + 2]
                      /\ Len(data') = LenIdx + 3 => crc' = data'[LenIdx + 3] * Base
  <2>1. data' = <<>> => Len(data') \notin {LenIdx + 1, LenIdx + 2, LenIdx + 3}
    <3>1. data' = <<>> => Len(data') = 0
      OBVIOUS
    <3> QED BY <1>2, <3>1
  <2>2. /\ Len(data') # LenIdx + 1 /\ Len(data') \notin {LenIdx + 2, LenIdx + 3}
        /\ Len(data') # LenIdx + 3
        => ReadInv'
    BY DEF ReadInv
  <2> QED BY <2>1, <2>2 DEF ReadInv
<1>4. Len(data) < Header
  BY <1>1, <1>2, <1>3, CountByte
<1>5. data' = Append(data, c) /\ Len(data') = Len(data) + 1
  BY <1>3, <1>4, HeaderByte
<1>6. \A i \in 1..Len(data) : data'[i] = data[i]
  BY <1>1, <1>5
<1>7. data'[Len(data) + 1] = c
  BY <1>1, <1>5
<1>8. Len(data) \in {LenIdx, LenIdx + 1, LenIdx + 2}
  BY <1>1, <1>2, <1>3, <1>5
<1>9. LengthByte(c)
  <2>1. ~ Overflow(capacity)
    BY <1>1, <1>2, <1>4, Parts
  <2>2. ~ Len(data) < Len(Sync) /\ Len(data) \notin Len(Sync)..(LenIdx - 1)
        /\ Len(data) # LenIdx + 3 /\ ~ Len(data) >= Header
    BY <1>1, <1>2, <1>8
  <2> QED BY <2>1, <2>2 DEF Parse, SyncByte, FieldByte, CrcByte, PayloadByte
<1>10. ASSUME NEW len, NEW code, Store(c, len, code)
       PROVE  length' = len /\ crc' = code
  BY <1>3, <1>10 DEF Store, Reset
<1>11. CASE Len(data) = LenIdx
  <2>1. length' = c * Base
    BY <1>9, <1>10, <1>11, <1>1, <1>2 DEF LengthByte
  <2> QED BY <2>1, <1>2, <1>5, <1>7, <1>11
<1>12. CASE Len(data) = LenIdx + 1
  <2>1. length' = length + c
    BY <1>9, <1>10, <1>12, <1>1, <1>2 DEF LengthByte
  <2>2. length = data[LenIdx + 1] * Base
    BY <1>12 DEF ReadInv
  <2>3. data'[LenIdx + 1] = data[LenIdx + 1] /\ data'[LenIdx + 2] = c /\ Len(data') = LenIdx + 2
    BY <1>2, <1>5, <1>6, <1>7, <1>12
  <2> QED BY <2>1, <2>2, <2>3, <1>2
<1>13. CASE Len(data) = LenIdx + 2
  <2>1. length' = length /\ crc' = c * Base
    BY <1>9, <1>10, <1>13, <1>1, <1>2 DEF LengthByte
  <2>2. length = data[LenIdx + 1] * Base + data[LenIdx + 2]
    BY <1>13 DEF ReadInv
  <2>3. data'[LenIdx + 1] = data[LenIdx + 1] /\ data'[LenIdx + 2] = data[LenIdx + 2]
        /\ data'[LenIdx + 3] = c /\ Len(data') = LenIdx + 3
    BY <1>2, <1>5, <1>6, <1>7, <1>13
  <2> QED BY <2>1, <2>2, <2>3, <1>2
<1> QED BY <1>8, <1>11, <1>12, <1>13

\* The length that has passed its CRC is the one that was sent, or misleads.
LEMMA ReadAsSent ==
  ASSUME ParserInv, ReadInv, LineOK, Len(data) = Header - 1, NEW c \in Byte,
         data' = Append(data, c), length' = length, ~ Misled
  PROVE  length' = Len(now.payload)
<1> DEFINE f == FrameOf(now)
           n == Len(now.payload)
<1>1. data \in Seq(Byte) /\ Len(data) \in Nat
  BY Parts
<1>2. /\ Header \in Nat /\ LenIdx \in Nat /\ Header = LenIdx + 4
  BY Places
<1>3. /\ n \in U16 /\ f \in Seq(Byte) /\ Len(f) = Header + n /\ n \in Nat
      /\ f[LenIdx + 1] = n \div Base /\ f[LenIdx + 2] = n % Base
  BY FrameShape DEF LineOK, U16
<1>4. /\ data' \in Seq(Byte) /\ Len(data') = Header
      /\ \A i \in 1..Len(data) : data'[i] = data[i]
  BY <1>1, <1>2
<1>5. SubSeq(data', LenIdx + 1, Header) = SubSeq(f, LenIdx + 1, Header)
  BY <1>2, <1>4 DEF Misled
<1> HIDE DEF f, n
<1>6. /\ SubSeq(data', LenIdx + 1, Header)[1] = data'[LenIdx + 1]
      /\ SubSeq(data', LenIdx + 1, Header)[2] = data'[LenIdx + 2]
  BY <1>2, <1>4
<1>7. /\ SubSeq(f, LenIdx + 1, Header)[1] = f[LenIdx + 1]
      /\ SubSeq(f, LenIdx + 1, Header)[2] = f[LenIdx + 2]
  BY <1>2, <1>3
<1>8. data[LenIdx + 1] = n \div Base /\ data[LenIdx + 2] = n % Base
  BY <1>2, <1>3, <1>4, <1>5, <1>6, <1>7
<1>9. length = data[LenIdx + 1] * Base + data[LenIdx + 2]
  BY <1>2 DEF ReadInv
<1> QED BY <1>3, <1>8, <1>9, Digits DEF n

\* A byte of the frame on the line.
Came == todo # <<>> /\ todo' = Tail(todo) /\ now' = now

\* The frame on the line, byte after byte, and the assembler.
Going == ParserInv /\ ParserInv' /\ LineOK /\ RestInv /\ ReadInv

LEMMA GoesOn ==
  ASSUME Going, Came
  PROVE  LET n == Len(now.payload) IN
         /\ RestInv' /\ Len(todo) \in Nat /\ Len(todo) > 0
         /\ Len(todo') = Len(todo) - 1 /\ Len(todo') \in Nat
         /\ todo' = <<>> <=> Len(todo') = 0
         /\ Gone \in Nat /\ Gone' = Gone + 1
         /\ n \in Nat /\ Gone + Len(todo) = Header + n
         /\ Head(todo) = FrameOf(now)[Gone + 1] /\ Head(todo) \in Byte
<1>1. todo # <<>> /\ todo' = Tail(todo) /\ now' = now /\ LineOK /\ RestInv
  BY DEF Came, Going
<1> QED BY <1>1, Line, OneGone

\* The assembler has nothing: in step when the line is between frames, or hunting.
LEMMA AtRestNow ==
  ASSUME ParserInv', data' = <<>>, todo' = <<>>
  PROVE  Followed'
<1>1. Len(data') = 0 /\ ~ Len(data') >= Header /\ ~ Overflow(capacity)'
      /\ Len(data') \notin {LenIdx + 1, LenIdx + 2, LenIdx + 3}
  <2>1. Len(data') = 0
    OBVIOUS
  <2>2. BlockInv' /\ capacity' \in Nat
    BY DEF ParserInv
  <2>3. capacity' <= GcSize
    BY <2>1, <2>2, Places DEF BlockInv
  <2> QED BY <2>1, <2>2, <2>3, Places DEF Overflow
<1> QED BY <1>1 DEF Followed, SamePlace

LEMMA NowHunting ==
  ASSUME data' = <<>>, todo' # <<>>, Gone' \in Nat, Gone' >= 1
  PROVE  Hunting'
<1>1. Len(data') = 0
  OBVIOUS
<1>2. \A j \in 1..Len(data') : FALSE
  BY <1>1
<1>3. Len(data') < Len(Sync) /\ Len(data') < Gone'
  BY <1>1, Places
<1> QED BY <1>2, <1>3 DEF Hunting

LEMMA Dropped ==
  ASSUME Going, Came, data' = <<>>
  PROVE  IF todo' = <<>> THEN Followed' ELSE Hunting'
<1>1. ParserInv' /\ Gone' \in Nat /\ Gone' >= 1
  BY GoesOn DEF Going
<1> QED BY <1>1, AtRestNow, NowHunting

\* Hunting goes on, ends in step with the line, or meets a false start, which the
\* frame that ends here has or the one that goes on will have had.
LEMMA HuntingByte ==
  ASSUME Going, Came, Hunting, Parse(Head(todo))
  PROVE  IF todo' = <<>> THEN Followed' \/ FalseStart(now) ELSE Hunting' \/ Doomed'
<1> DEFINE f == FrameOf(now)
           c == Head(todo)
           d == Len(data)
<1>1. /\ d \in Nat /\ d < Len(Sync) /\ d < Gone /\ Gone \in Nat /\ Gone' = Gone + 1
      /\ Len(Sync) \in Nat /\ c = f[Gone + 1] /\ c \in Byte
      /\ \A j \in 1..d : f[Gone - d + j] = Sync[j]
      /\ data \in Seq(Byte) /\ ParserInv
      /\ now' = now
  BY Parts, Places, GoesOn DEF Going, Hunting, Came
<1>2. Len(f) = Gone + Len(todo) /\ Len(todo) \in Nat /\ Len(todo') = Len(todo) - 1
      /\ (todo' = <<>> <=> Len(todo') = 0) /\ Len(todo) > 0
  BY GoesOn, Line DEF Going, Came
<1>3. CASE c # Sync[d + 1]
  <2>1. data' = <<>>
    BY <1>1, <1>3, HuntByte
  <2> QED BY <2>1, Dropped
<1>4. CASE c = Sync[d + 1]
  <2>1. data' = Append(data, c)
    BY <1>1, <1>4, HuntByte
  <2>2. Len(data') = d + 1
    BY <1>1, <2>1
  <2> HIDE DEF f, c, d
  <2>3. ASSUME NEW j \in 1..(d + 1) PROVE f[Gone - d + j] = Sync[j]
    <3>1. CASE j = d + 1
      <4>1. Gone - d + j = Gone + 1
        BY <1>1, <3>1
      <4> QED BY <1>1, <1>4, <3>1, <4>1
    <3>2. CASE j # d + 1
      <4>1. j \in 1..d
        BY <1>1, <3>2
      <4> QED BY <1>1, <4>1
    <3> QED BY <3>1, <3>2
  <2>4. ASSUME Len(todo) = 1 \/ d + 1 = Len(Sync) PROVE FalseStart(now)
    <3>1. PICK i \in 2..Len(f) : i = Gone - d + 1
      <4>1. Gone - d + 1 \in 2..Len(f)
        BY <1>1, <1>2
      <4> QED BY <4>1
    <3>2. ASSUME NEW j \in 1..Len(Sync), i + j - 1 <= Len(f)
          PROVE  f[i + j - 1] = Sync[j]
      <4>1. j \in 1..(d + 1) /\ i + j - 1 = Gone - d + j
        BY <1>1, <1>2, <2>4, <3>1, <3>2
      <4> QED BY <2>3, <4>1
    <3> QED BY <3>1, <3>2 DEF FalseStart, f
  <2>5. CASE Len(todo) = 1
    <3>1. todo' = <<>>
      BY <1>2, <2>5
    <3> QED BY <2>4, <2>5, <3>1
  <2>6. CASE Len(todo) # 1
    <3>1. todo' # <<>>
      BY <1>2, <2>6
    <3>2. CASE d + 1 = Len(Sync)
      <4>1. Doomed'
        <5>1. FalseStart(now)'
          BY <1>1, <2>4, <3>2 DEF FalseStart
        <5> QED BY <3>1, <5>1 DEF Doomed
      <4> QED BY <3>1, <4>1
    <3>3. CASE d + 1 # Len(Sync)
      <4>1. Len(data') < Len(Sync) /\ Len(data') < Gone'
        BY <1>1, <2>2, <3>3
      <4>2. ASSUME NEW j \in 1..Len(data')
            PROVE  FrameOf(now')[Gone' - Len(data') + j] = Sync[j]
        <5>1. j \in 1..(d + 1) /\ Gone' - Len(data') + j = Gone - d + j
          BY <1>1, <2>2, <4>2
        <5>2. FrameOf(now') = f
          BY <1>1 DEF f
        <5> QED BY <2>3, <5>1, <5>2
      <4>3. Hunting'
        BY <3>1, <4>1, <4>2 DEF Hunting
      <4> QED BY <3>1, <4>3
    <3> QED BY <3>2, <3>3
  <2> QED BY <2>5, <2>6
<1> QED BY <1>3, <1>4

\* Counting ends within the frame on the line, ...
LEMMA EndingByte ==
  ASSUME Going, Came, Len(data) >= Header, length <= Len(todo), NEW c \in Byte, Parse(c)
  PROVE  IF todo' = <<>> THEN Followed' ELSE Hunting' \/ Ending'
<1>1. /\ ParserInv /\ Len(todo) \in Nat /\ Len(todo') = Len(todo) - 1 /\ length \in Nat
      /\ (todo' = <<>> <=> Len(todo') = 0)
  BY Parts, GoesOn DEF Going
<1>2. CASE data' = <<>>
  BY <1>2, Dropped
<1>3. CASE data' # <<>>
  <2>1. length > 1 /\ length' = length - 1 /\ Len(data') >= Header
    BY <1>1, <1>3, CountByte
  <2>2. length' <= Len(todo') /\ todo' # <<>>
    BY <1>1, <2>1
  <2> QED BY <2>1, <2>2 DEF Ending
<1> QED BY <1>2, <1>3

\* ... or one byte later.
LEMMA CountingByte ==
  ASSUME Going, Came, Counting, NEW c \in Byte, Parse(c)
  PROVE  IF todo' = <<>> THEN Followed' \/ Ending' ELSE Hunting' \/ Counting'
<1>1. /\ ParserInv /\ Len(todo) \in Nat /\ Len(todo') = Len(todo) - 1 /\ length \in Nat
      /\ (todo' = <<>> <=> Len(todo') = 0)
      /\ Len(data) >= Header /\ length <= Len(todo) + 1
  BY Parts, GoesOn DEF Going, Counting
<1>2. CASE data' = <<>>
  BY <1>2, Dropped
<1>3. CASE data' # <<>>
  <2>1. length > 1 /\ length' = length - 1 /\ Len(data') >= Header
    BY <1>1, <1>3, CountByte
  <2>2. length' <= Len(todo') + 1
    BY <1>1, <2>1
  <2> DEFINE k == Len(todo')
  <2>3. length' \in Nat /\ length' > 0 /\ length' <= k + 1
    BY <1>1, <2>1, <2>2
  <2>4. k = 0 => length' = 1
    <3> HIDE DEF k
    <3> QED BY ONLY <2>3
  <2> QED BY <1>1, <2>1, <2>2, <2>4 DEF Ending, Counting
<1> QED BY <1>2, <1>3

\* Within a header, at most one byte from where the line is.
Near == Len(data) < Header /\ Len(data) >= Gone - 1 /\ Len(data) <= Gone + 1

LEMMA NearByte ==
  ASSUME Going, Came, Near, NEW c \in Byte, Parse(c), ~ Misled
  PROVE  IF todo' = <<>> THEN Followed' \/ Straddling' \/ Ending'
                         ELSE Hunting' \/ Askew' \/ Counting'
<1> DEFINE n == Len(now.payload)
<1>1. /\ ParserInv /\ LineOK /\ ReadInv /\ Len(data) \in Nat /\ Len(data) < Header
      /\ Len(data) >= Gone - 1 /\ Len(data) <= Gone + 1
      /\ Gone \in Nat /\ Gone' = Gone + 1 /\ n \in Nat /\ Gone + Len(todo) = Header + n
      /\ Len(todo) \in Nat /\ Len(todo') = Len(todo) - 1 /\ Len(todo') \in Nat
      /\ (todo' = <<>> <=> Len(todo') = 0)
      /\ Header \in Nat /\ Header > 1
  <2>1. /\ ParserInv /\ LineOK /\ ReadInv /\ Len(data) < Header
        /\ Len(data) >= Gone - 1 /\ Len(data) <= Gone + 1
    BY DEF Going, Near
  <2>2. Len(data) \in Nat
    BY <2>1, Parts
  <2>3. Header \in Nat /\ Header > 1
    BY Places
  <2> QED BY <2>1, <2>2, <2>3, GoesOn
<1> HIDE DEF n
<1>2. CASE data' = <<>>
  BY <1>2, Dropped
<1>3. CASE data' # <<>>
  <2>1. /\ data' = Append(data, c) /\ Len(data') = Len(data) + 1
        /\ Len(data') < Header \/ (Len(data) = Header - 1 /\ length' = length)
    BY <1>1, <1>3, HeaderByte
  <2>2. CASE Len(data') < Header
    <3>1. Len(data') \in 1..(Header - 1) /\ Len(data') \in (Gone' - 1)..(Gone' + 1)
      BY <1>1, <2>1, <2>2
    <3>2. todo' # <<>> => Askew'
      BY <3>1 DEF Askew
    <3>3. todo' = <<>> => Straddling'
      <4> DEFINE k == Len(todo')
                 d == Len(data')
                 g == Gone'
      <4>1. k = 0 => d = Header - 1
        <5>1. /\ k = Header + n - g /\ d >= g - 1 /\ d < Header
              /\ g \in Nat /\ d \in Nat /\ n \in Nat /\ Header \in Nat
          BY <1>1, <2>1, <2>2
        <5> HIDE DEF k, d, g
        <5> QED BY ONLY <5>1
      <4> QED BY <1>1, <4>1 DEF Straddling
    <3> QED BY <3>2, <3>3
  <2>3. CASE ~ Len(data') < Header
    <3>1. Len(data) = Header - 1 /\ length' = length
      BY <2>1, <2>3
    <3>2. length' = n
      BY <1>1, <2>1, <3>1, ReadAsSent DEF n
    <3>3. Len(data') = Header /\ Len(data') >= Header /\ length' > 0 /\ length' \in Nat
      <4>1. ParserInv'
        BY DEF Going
      <4>2. LengthInv'
        BY <4>1 DEF ParserInv
      <4>3. Len(data') = Header /\ Len(data') >= Header
        BY <1>1, <2>1, <3>1
      <4> QED BY <1>1, <3>2, <4>2, <4>3 DEF LengthInv
    <3>4. length' <= Len(todo') + 1
      BY <1>1, <3>1, <3>2
    <3>5. Counting'
      BY <3>3, <3>4 DEF Counting
    <3>6. todo' = <<>> => Ending'
      <4> DEFINE k == Len(todo')
      <4>1. k = 0 => length' = 1
        <5>1. length' \in Nat /\ length' > 0 /\ length' <= k + 1
          BY <3>3, <3>4
        <5> HIDE DEF k
        <5> QED BY ONLY <5>1
      <4> QED BY <1>1, <3>3, <4>1 DEF Ending
    <3> QED BY <3>5, <3>6
  <2> QED BY <2>2, <2>3
<1> QED BY <1>2, <1>3

LEMMA StraddlingByte ==
  ASSUME Going, Came, Straddling, NEW c \in Byte, Parse(c), ~ Misled
  PROVE  todo' # <<>> /\ (Hunting' \/ Ending')
<1> DEFINE n == Len(now.payload)
<1>1. /\ ParserInv /\ LineOK /\ ReadInv /\ Len(data) \in Nat /\ Len(data) = Header - 1
      /\ Gone = 0 /\ n \in Nat /\ Gone + Len(todo) = Header + n
      /\ Len(todo) \in Nat /\ Len(todo') = Len(todo) - 1
      /\ (todo' = <<>> <=> Len(todo') = 0)
      /\ Header \in Nat /\ Header > 1
  <2>1. ParserInv /\ LineOK /\ ReadInv /\ Len(data) = Header - 1 /\ Gone = 0
    BY DEF Going, Straddling, Came
  <2>2. Len(data) \in Nat
    BY <2>1, Parts
  <2>3. Header \in Nat /\ Header > 1
    BY Places
  <2> QED BY <2>1, <2>2, <2>3, GoesOn
<1> HIDE DEF n
<1>2. todo' # <<>>
  BY <1>1
<1>3. CASE data' = <<>>
  BY <1>2, <1>3, Dropped
<1>4. CASE data' # <<>>
  <2>1. data' = Append(data, c) /\ Len(data') = Header /\ length' = length
    <3>1. Len(data) < Header
      BY <1>1
    <3>2. Len(data) + 1 = Header /\ ~ Header < Header
      BY <1>1
    <3> QED BY <1>1, <1>4, <3>1, <3>2, HeaderByte
  <2>2. length' = n
    BY <1>1, <2>1, ReadAsSent DEF n
  <2>3. Len(data') >= Header /\ length' <= Len(todo')
    BY <1>1, <2>1, <2>2
  <2> QED BY <1>2, <2>3 DEF Ending
<1> QED BY <1>3, <1>4

-----------------------------------------------------------------------------
(* What a byte makes of a line that was followed                           *)

LEMMA Level ==
  ASSUME ParserInv, LineOK, Followed, todo # <<>>
  PROVE  /\ ~ Overflow(capacity) => Len(data) = Gone
         /\ Len(data) < Header => Len(data) = Gone /\ ~ Overflow(capacity)
         /\ Len(data) >= Header => length = Len(todo)
<1> DEFINE f == FrameOf(now)
<1>1. data \in Seq(Byte) /\ todo \in Seq(Byte) /\ Len(data) \in Nat
  BY Parts DEF LineOK
<1>2. ASSUME ~ Overflow(capacity) PROVE Len(data) = Gone
  <2>1. data \o todo = f
    BY <1>2 DEF Followed, SamePlace
  <2>2. Len(data \o todo) = Len(data) + Len(todo) /\ Len(todo) \in Nat
    BY <1>1, Concat
  <2> HIDE DEF f
  <2>3. Len(data) = Len(f) - Len(todo)
    BY <1>1, <2>1, <2>2
  <2> QED BY <2>3 DEF Gone, f
<1>3. Len(data) < Header => ~ Overflow(capacity)
  BY <1>1, Parts, Places
<1> QED BY <1>2, <1>3 DEF Followed, SamePlace

\* A frame is followed to its end, and handled unless it is one of those that do
\* not fit.
LEMMA FollowedByte ==
  ASSUME Base <= 256, Ind, Going, capacity \in Grown, Followed, Came, Parse(Head(todo))
  PROVE  Followed' /\ (todo' = <<>> /\ Fits(now) => event' = Meaning(now))
<1> DEFINE n == Len(now.payload)
<1>1. /\ todo # <<>> /\ todo' = Tail(todo) /\ now' = now /\ SamePlace
      /\ ParserInv /\ LineOK /\ Head(todo) \in Byte
      /\ Overflow(capacity) => ~ Fits(now)
  BY GoesOn DEF Came, Followed, Going
<1>2. /\ SamePlace'
      /\ todo' = <<>> /\ ~ Overflow(capacity) => event' = Meaning(now)
  BY <1>1, ParseFollows DEF AtTheSamePlace
<1>3. ASSUME ~ Overflow(capacity), Overflow(capacity)' PROVE ~ Fits(now)
  <2>1. Len(data) = capacity /\ Largest = 1 + Len(data)
    BY <1>1, <1>3, Growth DEF Overflow
  <2>2. Len(data) = Gone /\ Len(data) \in Nat /\ Len(data) >= Header /\ length = Len(todo)
    BY <1>1, <1>3, <2>1, Level, Parts
  <2>3. Len(data') > Header /\ data' # <<>>
    <3>1. ParserInv'
      BY DEF Going
    <3>2. BlockInv' /\ data' \in Seq(Byte) /\ capacity' \in Nat
      BY <3>1 DEF ParserInv
    <3>3. ~ (Len(data') <= Header)
      BY <1>3, <3>2, Places DEF BlockInv, Overflow
    <3>4. Len(data') \in Nat /\ (data' = <<>> => Len(data') = 0)
      BY <3>2
    <3> QED BY <3>3, <3>4, Places
  <2>4. Len(todo) > 1
    BY <1>1, <2>2, <2>3, CountByte
  <2>5. Gone + Len(todo) = Header + n /\ n \in Nat /\ Len(todo) \in Nat /\ Gone \in Nat
    BY GoesOn
  <2>6. Header + n > Largest
    <3> HIDE DEF n
    <3> QED BY <2>1, <2>2, <2>4, <2>5, Places
  <2>7. Largest \in Nat
    BY <2>1, <2>2
  <2> HIDE DEF n
  <2>8. ~ (Header + n <= Largest)
    BY <2>5, <2>6, <2>7, Places
  <2> QED BY <2>8 DEF Fits, n
<1>4. Overflow(capacity)' => ~ Fits(now)'
  <2>1. Overflow(capacity)' => ~ Fits(now)
    BY <1>1, <1>3
  <2> QED BY <1>1, <2>1 DEF Fits
<1> QED BY <1>1, <1>2, <1>4 DEF Followed

LEMMA FollowedSend ==
  ASSUME ParserInv, ParserInv', Followed, NEW m \in Messages, Send(m)
  PROVE  Followed'
<1>1. SamePlace /\ todo = <<>> /\ data' = data
  BY DEF Followed, Send, parser
<1>2. data' = <<>>
  BY <1>1 DEF SamePlace
<1>3. Len(data') = 0 /\ BlockInv' /\ capacity' \in Nat
  BY <1>2 DEF ParserInv
<1>4. ~ Overflow(capacity)'
  BY <1>3, Places DEF BlockInv, Overflow
<1> QED BY <1>1, <1>4, SendFollows DEF Followed

\* One byte that is not the one that was sent, ...
LEMMA GarbledByte ==
  ASSUME Going, Came, Followed, NEW c \in Byte, Parse(c), ~ Misled
  PROVE  IF todo' = <<>> THEN Followed' \/ Straddling' \/ Ending'
                         ELSE Hunting' \/ Askew' \/ Counting' \/ Ending'
<1>1. ParserInv /\ LineOK /\ todo # <<>>
  BY DEF Going, Came
<1>2. Len(data) \in Nat /\ Header \in Nat /\ Gone \in Nat /\ Len(todo) \in Nat
  <2>1. Gone \in Nat /\ Len(todo) \in Nat
    BY GoesOn
  <2> QED BY <1>1, <2>1, Parts, Places
<1>3. CASE Len(data) < Header
  <2>1. Len(data) = Gone
    BY <1>1, <1>3, Level
  <2>2. Near
    BY <1>2, <1>3, <2>1 DEF Near
  <2> QED BY <2>2, NearByte
<1>4. CASE Len(data) >= Header
  <2>1. length = Len(todo)
    BY <1>1, <1>4, Level
  <2>2. length <= Len(todo)
    BY <1>2, <2>1
  <2> QED BY <1>4, <2>2, EndingByte
<1> QED BY <1>2, <1>3, <1>4

\* ... one that is lost, ...
LEMMA LostByte ==
  ASSUME Going, Came, Followed, UNCHANGED parser
  PROVE  IF todo' = <<>> THEN Straddling' \/ Ending'
                         ELSE Hunting' \/ Askew' \/ Counting'
<1>1. /\ ParserInv /\ LineOK /\ todo # <<>>
      /\ data' = data /\ length' = length
  BY DEF Going, Came, parser
<1>2. Len(data') = Len(data)
  BY <1>1
<1> DEFINE n == Len(now.payload)
           d == Len(data)
           t == Len(todo)
           k == Len(todo')
<1>3. /\ d \in Nat /\ Header \in Nat /\ Header > 1 /\ Gone \in Nat /\ Gone' = Gone + 1
      /\ t \in Nat /\ t > 0 /\ k = t - 1 /\ k \in Nat /\ Gone + t = Header + n /\ n \in Nat
  <2>1. /\ Gone \in Nat /\ Gone' = Gone + 1 /\ t \in Nat /\ t > 0 /\ k = t - 1 /\ k \in Nat
        /\ Gone + t = Header + n /\ n \in Nat
    BY GoesOn
  <2>2. d \in Nat
    BY <1>1, Parts
  <2>3. Header \in Nat /\ Header > 1
    BY Places
  <2> QED BY <2>1, <2>2, <2>3
<1>4. todo' = <<>> <=> k = 0
  BY GoesOn
<1>5. d = 0 <=> data = <<>>
  BY <1>1, Parts
<1>6. CASE d < Header
  <2>1. d = Gone
    BY <1>1, <1>6, Level
  <2> HIDE DEF n, d, t, k
  <2>2. k = 0 => d = Header - 1
    BY <1>3, <1>6, <2>1
  <2>3. ASSUME k # 0, d # 0 PROVE Askew'
    <3>1. d \in 1..(Header - 1) /\ d \in (Gone' - 1)..(Gone' + 1)
      BY <1>3, <1>6, <2>1, <2>3
    <3> QED BY <1>2, <1>4, <2>3, <3>1 DEF Askew, d
  <2>4. ASSUME k # 0, d = 0 PROVE Hunting'
    <3>1. Gone' \in Nat /\ Gone' >= 1 /\ data' = <<>> /\ todo' # <<>>
      BY <1>1, <1>3, <1>4, <1>5, <2>4
    <3> QED BY <3>1, NowHunting
  <2>5. k = 0 => Straddling'
    BY <1>2, <1>4, <2>2 DEF Straddling, d
  <2> QED BY <1>4, <2>3, <2>4, <2>5
<1>7. CASE d >= Header
  <2>1. length' = t
    BY <1>1, <1>7, Level
  <2>2. t <= k + 1 /\ (k = 0 => t = 1)
    <3> HIDE DEF n, d, t, k
    <3> QED BY <1>3
  <2>3. Counting'
    BY <1>2, <1>7, <2>1, <2>2 DEF Counting
  <2>4. k = 0 => Ending'
    BY <1>2, <1>4, <1>7, <2>1, <2>2 DEF Ending
  <2> QED BY <1>4, <2>3, <2>4
<1>8. d < Header \/ d >= Header
  <2> HIDE DEF d
  <2> QED BY <1>3
<1> QED BY <1>6, <1>7, <1>8

\* ... and one too many.
LEMMA NoisyByte ==
  ASSUME Going, Followed, UNCHANGED line, NEW c \in Byte, Parse(c), ~ Misled
  PROVE  IF todo' = <<>> THEN Followed' \/ Askew'
                         ELSE Followed' \/ Hunting' \/ Askew' \/ Ending'
<1>1. /\ ParserInv /\ ParserInv' /\ LineOK /\ RestInv /\ ReadInv /\ SamePlace
      /\ todo' = todo /\ now' = now
  BY DEF Going, line, Followed
<1>2. data \in Seq(Byte) /\ Len(data) \in Nat /\ Header \in Nat /\ Header > 1 /\ Len(Sync) > 0
      /\ Len(Sync) \in Nat
  BY <1>1, Parts, Places
<1>3. Gone' = Gone
  BY <1>1 DEF Gone
<1>4. CASE todo = <<>>
  <2>1. data = <<>> /\ Len(data) = 0
    BY <1>1, <1>4 DEF SamePlace
  <2>2. data' = <<>> \/ data' = Append(data, c)
    BY <1>1, <1>2, <2>1, HuntByte
  <2>3. data' = Append(data, c) => Len(data') = 1
    BY <1>2, <2>1
  <2>4. data' = <<>> => Followed'
    BY <1>1, <1>4, AtRestNow
  <2> QED BY <1>1, <1>4, <2>2, <2>3, <2>4 DEF Askew
<1>5. CASE todo # <<>>
  <2> DEFINE n == Len(now.payload)
             d == Len(data)
             t == Len(todo)
  <2>1. /\ Gone \in Nat /\ t \in Nat /\ t > 0 /\ Gone + t = Header + n /\ n \in Nat
    BY <1>1, <1>5, Line
  <2>2. todo' # <<>> /\ Len(todo') = t
    BY <1>1, <1>5
  <2>3. CASE d >= Header
    <3>1. length = t
      BY <1>1, <1>5, <2>3, Level
    <3>2. \/ length = 1 /\ data' = <<>>
          \/ length > 1 /\ length' = length - 1 /\ Len(data') >= Header
      BY <1>1, <2>3, CountByte
    <3>3. CASE length = 1 /\ data' = <<>>
      <4>1. Gone >= 1
        <5> HIDE DEF n, d, t
        <5> QED BY <1>2, <2>1, <3>1, <3>3
      <4>2. Hunting'
        BY <1>3, <2>1, <2>2, <3>3, <4>1, NowHunting
      <4> QED BY <2>2, <4>2
    <3>4. CASE length' = length - 1 /\ Len(data') >= Header
      <4>1. length' <= Len(todo')
        BY <2>1, <2>2, <3>1, <3>4
      <4> QED BY <2>2, <3>4, <4>1 DEF Ending
    <3> QED BY <3>2, <3>3, <3>4
  <2>4. CASE d < Header
    <3>1. d = Gone /\ ~ Overflow(capacity)
      BY <1>1, <1>5, <2>4, Level
    <3>2. CASE data' = <<>>
      <4>1. CASE Gone >= 1
        <5>1. Hunting'
          BY <1>3, <2>1, <2>2, <3>2, <4>1, NowHunting
        <5> QED BY <2>2, <5>1
      <4>2. CASE Gone < 1
        <5>1. data = <<>>
          <6>1. Len(data) = 0
            BY <2>1, <3>1, <4>2
          <6> QED BY <1>1, <6>1, Parts
        <5>2. data \o todo = FrameOf(now)
          BY <1>1, <1>5, <3>1 DEF SamePlace
        <5>3. Len(data') = 0 /\ ~ Len(data') >= Header /\ ~ Overflow(capacity)'
              /\ Len(data') \notin {LenIdx + 1, LenIdx + 2, LenIdx + 3}
          <6>1. Len(data') = 0
            BY <3>2
          <6>2. BlockInv' /\ capacity' \in Nat
            BY <1>1 DEF ParserInv
          <6>3. capacity' <= GcSize
            BY <6>1, <6>2, Places DEF BlockInv
          <6> QED BY <6>1, <6>2, <6>3, Places DEF Overflow
        <5>4. data' \o todo' = FrameOf(now')
          BY <1>1, <3>2, <5>1, <5>2
        <5>5. Followed'
          BY <2>2, <5>3, <5>4 DEF Followed, SamePlace
        <5> QED BY <2>2, <5>5
      <4> QED BY <2>1, <4>1, <4>2
    <3>3. CASE data' # <<>>
      <4>1. /\ data' = Append(data, c) /\ Len(data') = d + 1
            /\ Len(data') < Header \/ (d = Header - 1 /\ length' = length)
        BY <1>1, <2>4, <3>3, HeaderByte
      <4>2. CASE Len(data') < Header
        <5>1. Len(data') \in 1..(Header - 1) /\ Len(data') \in (Gone' - 1)..(Gone' + 1)
          BY <1>2, <1>3, <2>1, <3>1, <4>1, <4>2
        <5> QED BY <2>2, <5>1 DEF Askew
      <4>3. CASE ~ Len(data') < Header
        <5>1. d = Header - 1 /\ length' = length
          BY <4>1, <4>3
        <5>2. length' = n
          BY <1>1, <4>1, <5>1, ReadAsSent
        <5>3. n <= t /\ d + 1 >= Header
          <6> HIDE DEF n, d, t
          <6> QED BY <1>2, <2>1, <3>1, <5>1
        <5>4. Ending'
          BY <2>2, <4>1, <5>2, <5>3 DEF Ending
        <5> QED BY <2>2, <5>4
      <4> QED BY <4>2, <4>3
    <3> QED BY <3>2, <3>3
  <2>5. d < Header \/ d >= Header
    BY <1>2
  <2> QED BY <2>3, <2>4, <2>5
<1> QED BY <1>4, <1>5

-----------------------------------------------------------------------------
(* How long the assembler is lost                                          *)

LEMMA Accounted ==
  ASSUME LineOK, NEW damage \in BOOLEAN, NEW slip \in BOOLEAN, Account(damage, slip),
         ~ Understands
  PROVE  /\ hurt' = (hurt \/ damage)
         /\ missing \in 0..3 /\ missing' \in 0..3
         /\ ~ FrameEnds \/ ~ Fits(now) => missing' = missing
         /\ missing' <= missing + 1
         /\ ~ unlucky' => ~ unlucky /\ ~ Misled
         /\ ~ unlucky' /\ hurt' /\ FrameEnds => ~ FalseStart(now)
<1>1. /\ hurt' = (hurt \/ damage)
      /\ missing' = IF FrameEnds /\ Fits(now) /\ missing < 3 THEN missing + 1 ELSE missing
      /\ unlucky' = (unlucky \/ Misled \/ (hurt' /\ FrameEnds /\ FalseStart(now)))
  BY DEF Account
<1>2. missing \in 0..3
  BY DEF LineOK
<1>3. /\ missing' \in 0..3 /\ missing' <= missing + 1
      /\ ~ FrameEnds \/ ~ Fits(now) => missing' = missing
  BY <1>1, <1>2
<1> HIDE DEF Misled, FrameEnds
<1> QED BY <1>1, <1>2, <1>3

\* The history forgets when a frame is understood, and the assembler is at rest.
LEMMA Forgotten ==
  ASSUME Ind, Ind', NEW damage \in BOOLEAN, NEW slip \in BOOLEAN, Account(damage, slip),
         NEW c \in Byte, Parse(c), now' = now, Understands
  PROVE  ~ hurt' /\ missing' = 0 /\ Followed'
<1>1. ~ hurt' /\ missing' = 0 /\ event' = Meaning(now) /\ todo' = <<>>
  BY DEF Account, Understands
<1>2. event' # Nothing
  BY <1>1, Meant DEF Ind, LineOK
<1>3. data' = <<>>
  BY <1>2, EventMeansRest
<1> QED BY <1>1, <1>3, AtRestNow DEF Ind

\* A byte of the peer while the assembler is lost.
LEMMA RecoveringByte ==
  ASSUME Base <= 256, Ind, Going, capacity \in Grown, Recovering,
         hurt, Came, Parse(Head(todo)), Account(FALSE, FALSE), ~ Understands, ~ unlucky'
  PROVE  Recovering'
<1>1. /\ hurt' /\ missing \in 0..3 /\ missing' \in 0..3 /\ missing' <= missing + 1
      /\ ~ FrameEnds \/ ~ Fits(now) => missing' = missing
      /\ ~ Misled
      /\ FrameEnds => ~ FalseStart(now)
  BY Accounted DEF Going
<1>2. FrameEnds <=> todo' = <<>>
  BY DEF FrameEnds, Came
<1>3. Head(todo) \in Byte /\ todo # <<>> /\ now' = now /\ Gone \in Nat
  BY GoesOn DEF Came
<1>4. CASE Doomed
  <2>1. todo' # <<>>
    BY <1>1, <1>2, <1>4 DEF Doomed
  <2>2. Doomed'
    BY <1>3, <1>4, <2>1 DEF Doomed, FalseStart
  <2> QED BY <1>1, <1>2, <2>1, <2>2 DEF Recovering
<1>5. CASE Followed
  <2>1. Followed' /\ (todo' = <<>> /\ Fits(now) => event' = Meaning(now))
    BY <1>5, FollowedByte
  <2>2. missing' = missing
    BY <1>1, <1>2, <2>1 DEF Understands
  <2> QED BY <2>1, <2>2 DEF Recovering
<1>6. CASE missing <= 1 /\ (Hunting \/ Ending \/ Straddling)
  <2>1. IF todo' = <<>> THEN Followed' ELSE Hunting' \/ Doomed' \/ Ending'
    <3>1. CASE Hunting
      BY <1>1, <1>2, <3>1, HuntingByte
    <3>2. CASE Ending
      BY <1>3, <3>2, EndingByte DEF Ending
    <3>3. CASE Straddling
      BY <1>1, <1>3, <3>3, StraddlingByte
    <3> QED BY <1>6, <3>1, <3>2, <3>3
  <2>2. missing' <= 2 /\ (todo' # <<>> => missing' <= 1)
    BY <1>1, <1>2, <1>6
  <2> QED BY <2>1, <2>2 DEF Recovering
<1>7. CASE missing = 0 /\ (Askew \/ Counting)
  <2>1. IF todo' = <<>> THEN Followed' \/ Straddling' \/ Ending'
                        ELSE Hunting' \/ Askew' \/ Counting'
    <3>1. CASE Askew
      <4>1. Near
        <5>1. /\ Len(data) \in 1..(Header - 1)
              /\ Len(data) \in (Gone - 1)..(Gone + 1)
          BY <1>3, <3>1 DEF Askew
        <5> QED BY <1>3, <5>1, Places DEF Near
      <4> QED BY <1>1, <1>3, <4>1, NearByte
    <3>2. CASE Counting
      BY <1>3, <3>2, CountingByte
    <3> QED BY <1>7, <3>1, <3>2
  <2>2. missing' <= 1 /\ missing' <= 2 /\ (todo' # <<>> => missing' = 0)
    BY <1>1, <1>2, <1>7
  <2> QED BY <2>1, <2>2 DEF Recovering
<1> QED BY <1>4, <1>5, <1>6, <1>7 DEF Recovering

\* ... and a frame it sends meanwhile.
LEMMA RecoveringSend ==
  ASSUME ParserInv, ParserInv', Recovering, NEW m \in Messages, Send(m)
  PROVE  Recovering'
<1>1. /\ todo = <<>> /\ todo' = FrameOf(m) /\ now' = m /\ data' = data /\ length' = length
      /\ missing' = missing
  BY DEF Send, parser, history
<1>2. Len(data') = Len(data) /\ Len(data) \in Nat /\ length \in Nat
      /\ (Len(data) >= Header => length > 0)
  BY <1>1, Parts
<1> DEFINE t == Len(todo')
<1>3. Header \in Nat /\ Header > 1 /\ t \in Nat /\ t >= Header /\ Gone' = 0 /\ todo' # <<>>
  <2>1. /\ FrameOf(m) \in Seq(Byte)
        /\ Len(FrameOf(m)) = Header + Len(m.payload) /\ Len(m.payload) \in Nat
    BY FrameShape
  <2>2. Header \in Nat /\ Header > 1
    BY Places
  <2>3. t \in Nat /\ t >= Header
    BY <1>1, <2>1, <2>2
  <2>4. Gone' = 0
    <3>1. Gone' = Len(FrameOf(m)) - Len(FrameOf(m)) /\ Len(FrameOf(m)) = t
      BY <1>1 DEF Gone
    <3> HIDE DEF t
    <3> QED BY <2>3, <3>1
  <2>5. todo' = <<>> => t = 0
    OBVIOUS
  <2> HIDE DEF t
  <2> QED BY <2>2, <2>3, <2>4, <2>5
<1>4. CASE Followed
  BY <1>1, <1>4, FollowedSend DEF Recovering
<1>5. Len(todo) = 0
  BY <1>1
<1>6. CASE missing <= 1 /\ Ending
  <2>1. Len(data) >= Header /\ length = 1
    BY <1>1, <1>2, <1>5, <1>6 DEF Ending
  <2>2. length' <= Len(todo')
    BY <1>1, <1>3, <2>1
  <2> QED BY <1>1, <1>2, <1>6, <2>1, <2>2 DEF Recovering, Ending
<1>7. CASE missing <= 1 /\ Straddling
  BY <1>1, <1>2, <1>3, <1>7 DEF Recovering, Straddling
<1>8. CASE missing = 0 /\ Askew
  <2>1. Len(data) = 1
    BY <1>1, <1>8 DEF Askew
  <2>2. Len(data') \in 1..(Header - 1) /\ Len(data') \in (Gone' - 1)..(Gone' + 1)
    BY <1>2, <1>3, <2>1
  <2> QED BY <1>1, <1>3, <1>8, <2>2 DEF Recovering, Askew
<1>9. CASE missing = 0 /\ Counting
  <2>1. Len(data) >= Header /\ length <= 1
    BY <1>2, <1>5, <1>9 DEF Counting
  <2>2. length' <= Len(todo') + 1
    BY <1>1, <1>2, <1>3, <2>1
  <2> QED BY <1>1, <1>2, <1>9, <2>1, <2>2 DEF Recovering, Counting
<1>10. ~ Doomed /\ ~ Hunting
  BY <1>1 DEF Doomed, Hunting
<1> QED BY <1>4, <1>6, <1>7, <1>8, <1>9, <1>10 DEF Recovering

\* The damage itself, which the line does once until a frame has been understood.
LEMMA Damaging ==
  ASSUME Going, Followed, missing = 0, NEW slip \in BOOLEAN, Account(TRUE, slip),
         ~ Understands, ~ unlucky',
         \/ Came /\ \E c \in Byte : Parse(c)
         \/ Came /\ UNCHANGED parser
         \/ UNCHANGED line /\ \E c \in Byte : Parse(c)
  PROVE  Recovering'
<1>1. /\ missing' <= 1 /\ missing' \in 0..3 /\ ~ Misled
      /\ ~ FrameEnds => missing' = 0
  <2>1. /\ missing \in 0..3 /\ missing' \in 0..3 /\ missing' <= missing + 1
        /\ ~ FrameEnds \/ ~ Fits(now) => missing' = missing
        /\ ~ Misled
    BY Accounted DEF Going
  <2> QED BY <2>1
<1>2. missing' <= 2
  BY <1>1
<1>3. CASE Came
  <2>1. FrameEnds <=> todo' = <<>>
    BY <1>3 DEF FrameEnds, Came
  <2>2. IF todo' = <<>> THEN Followed' \/ Straddling' \/ Ending'
                        ELSE Hunting' \/ Askew' \/ Counting' \/ Ending'
    <3>1. CASE \E c \in Byte : Parse(c)
      BY <1>1, <1>3, <3>1, GarbledByte
    <3>2. CASE UNCHANGED parser
      BY <1>3, <3>2, LostByte
    <3>3. UNCHANGED line => todo' = todo
      BY DEF line
    <3> QED BY <3>1, <3>2
  <2> QED BY <1>1, <1>2, <2>1, <2>2 DEF Recovering
<1>4. CASE UNCHANGED line /\ \E c \in Byte : Parse(c)
  <2>1. ~ FrameEnds
    BY <1>4 DEF FrameEnds, line
  <2>2. Followed' \/ Hunting' \/ Askew' \/ Ending'
    BY <1>1, <1>4, NoisyByte
  <2> QED BY <1>1, <1>2, <2>1, <2>2 DEF Recovering
<1> QED BY <1>3, <1>4

LEMMA RecoverInit == Init => RecoverInv
<1> SUFFICES ASSUME Init PROVE RecoverInv
  OBVIOUS
<1>1. /\ data = <<>> /\ todo = <<>> /\ capacity = Header /\ missing = 0 /\ hurt = FALSE
  BY DEF Init
<1>2. Len(data) = 0
  BY <1>1
<1>3. /\ ~ Len(data) >= Header /\ ~ Overflow(capacity)
      /\ Len(data) \notin {LenIdx + 1, LenIdx + 2, LenIdx + 3}
  BY <1>1, <1>2, Sizing, Places DEF Overflow
<1>4. Followed
  BY <1>1, <1>3 DEF Followed, SamePlace
<1>5. Len(data) # LenIdx + 1 /\ Len(data) \notin {LenIdx + 2, LenIdx + 3}
  BY <1>3
<1>6. ReadInv
  BY <1>5 DEF ReadInv
<1>7. capacity \in Grown
  <2>1. 2 \in Powers /\ Header = Header * (2 - 1)
    BY Places DEF Powers
  <2> QED BY <1>1, <2>1, GrownAre
<1> QED BY <1>1, <1>4, <1>6, <1>7 DEF RecoverInv, RestInv

\* What is known of the line and of the assembler, after any step.
LEMMA PartsNext ==
  ASSUME Ind, RestInv, ReadInv, [Next]_vars
  PROVE  RestInv' /\ ReadInv'
<1>1. ParserInv /\ LineOK
  BY DEF Ind
<1>2. todo # <<>> => Head(todo) \in Byte
  BY <1>1, Line
<1>3. ASSUME NEW c \in Byte, Parse(c) PROVE ReadInv'
  BY <1>1, <1>3, ReadKept
<1>4. ASSUME UNCHANGED <<data, length, crc>> PROVE ReadInv'
  BY <1>4 DEF ReadInv
<1>5. ASSUME UNCHANGED line PROVE RestInv'
  BY <1>5 DEF RestInv, Gone, line
<1>6. ASSUME todo # <<>>, todo' = Tail(todo), now' = now PROVE RestInv'
  BY <1>1, <1>6, OneGone
<1>7. ASSUME NEW m \in Messages, Send(m) PROVE RestInv' /\ ReadInv'
  <2>1. todo' = FrameOf(m) /\ now' = m /\ UNCHANGED <<data, length, crc>>
    BY <1>7 DEF Send, parser
  <2>2. RestInv'
    <3> DEFINE f == FrameOf(m)
    <3>1. f \in Seq(Byte)
      BY FrameShape
    <3>2. Gone' = Len(f) - Len(f)
      BY <2>1 DEF Gone
    <3> HIDE DEF f
    <3>3. Gone' = 0 /\ Len(f) \in Nat
      BY <3>1, <3>2
    <3>4. \A i \in 1..Len(f) : f[i] = f[Gone' + i]
      BY <3>3
    <3>5. FrameOf(now') = f /\ todo' = f
      BY <2>1 DEF f
    <3> QED BY <3>3, <3>4, <3>5 DEF RestInv
  <2> QED BY <1>4, <2>1, <2>2
<1>8. CASE Arrive
  BY <1>2, <1>3, <1>6, <1>8 DEF Arrive
<1>9. CASE Garble
  BY <1>3, <1>6, <1>9 DEF Garble
<1>10. CASE LoseByte
  BY <1>4, <1>6, <1>10 DEF LoseByte, parser
<1>11. CASE Noise
  BY <1>3, <1>5, <1>11 DEF Noise
<1>12. CASE UNCHANGED vars
  BY <1>4, <1>5, <1>12 DEF vars, parser
<1> QED BY <1>7, <1>8, <1>9, <1>10, <1>11, <1>12 DEF Next

LEMMA GrownNext ==
  ASSUME Base <= 256, Ind, capacity \in Grown, [Next]_vars
  PROVE  capacity' \in Grown
<1>1. ParserInv /\ LineOK
  BY DEF Ind
<1>2. todo # <<>> => Head(todo) \in Byte
  <2>1. todo \in Seq(Byte)
    BY <1>1 DEF LineOK
  <2> QED BY <2>1
<1>3. (\E c \in Byte : Parse(c)) => capacity' \in Grown
  BY <1>1, Growth
<1>4. UNCHANGED parser => capacity' \in Grown
  BY DEF parser
<1>5. (\E c \in Byte : Parse(c)) \/ UNCHANGED parser
  BY <1>2 DEF Next, Send, Arrive, Garble, LoseByte, Noise, vars
<1> QED BY <1>3, <1>4, <1>5

LEMMA RecoverNext ==
  ASSUME Base <= 256, Ind, Ind', RecoverInv, [Next]_vars
  PROVE  RecoverInv'
<1>1. /\ ParserInv /\ LineOK /\ Going /\ capacity \in Grown /\ hurt \in BOOLEAN
      /\ unlucky \in BOOLEAN
      /\ ~ hurt => Followed /\ missing = 0
      /\ hurt /\ ~ unlucky => Recovering
  BY DEF Ind, Going, RecoverInv, LineOK
<1>2. RestInv' /\ ReadInv' /\ capacity' \in Grown
  BY PartsNext, GrownNext DEF RecoverInv
<1> SUFFICES /\ ~ hurt' => Followed' /\ missing' = 0
             /\ hurt' /\ ~ unlucky' => Recovering'
  BY <1>2 DEF RecoverInv
<1>3. ASSUME NEW m \in Messages, Send(m)
      PROVE  /\ ~ hurt' => Followed' /\ missing' = 0
             /\ hurt' /\ ~ unlucky' => Recovering'
  <2>1. hurt' = hurt /\ unlucky' = unlucky /\ missing' = missing
    BY <1>3 DEF Send, history
  <2>2. ParserInv'
    BY DEF Ind
  <2> QED BY <1>1, <1>3, <2>1, <2>2, FollowedSend, RecoveringSend
<1>4. ASSUME NEW slip \in BOOLEAN, Account(TRUE, slip), ~ hurt, now' = now,
             \/ Came /\ \E c \in Byte : Parse(c)
             \/ Came /\ UNCHANGED parser /\ event' = Nothing
             \/ UNCHANGED line /\ \E c \in Byte : Parse(c)
      PROVE  /\ ~ hurt' => Followed' /\ missing' = 0
             /\ hurt' /\ ~ unlucky' => Recovering'
  <2>1. CASE Understands
    <3>1. event' # Nothing
      BY <2>1, Meant DEF Understands, Ind, LineOK
    <3>2. PICK c \in Byte : Parse(c)
      BY <1>4, <3>1
    <3> QED BY <1>4, <2>1, <3>2, Forgotten
  <2>2. CASE ~ Understands
    <3>1. hurt'
      BY <1>1, <1>4, <2>2, Accounted
    <3> QED BY <1>1, <1>4, <2>2, <3>1, Damaging
  <2> QED BY <2>1, <2>2
<1>5. CASE Arrive
  <2>1. Came /\ Parse(Head(todo)) /\ Account(FALSE, FALSE) /\ now' = now
    BY <1>5 DEF Arrive, Came
  <2>2. Head(todo) \in Byte
    BY <1>1, <2>1, GoesOn
  <2>3. CASE Understands
    BY <2>1, <2>2, <2>3, Forgotten
  <2>4. CASE ~ Understands /\ hurt
    <3>1. hurt'
      BY <1>1, <2>1, <2>4, Accounted
    <3>2. ~ unlucky' => ~ unlucky
      BY <1>1, <2>1, <2>4, Accounted
    <3> QED BY <1>1, <2>1, <2>4, <3>1, <3>2, RecoveringByte
  <2>5. CASE ~ Understands /\ ~ hurt
    <3>1. ~ hurt'
      BY <1>1, <2>1, <2>5, Accounted
    <3>2. Followed' /\ (todo' = <<>> /\ Fits(now) => event' = Meaning(now))
      BY <1>1, <2>1, <2>5, FollowedByte
    <3>3. missing' = missing
      <4>1. ~ FrameEnds \/ ~ Fits(now)
        BY <2>5, <3>2 DEF FrameEnds, Understands
      <4> QED BY <1>1, <2>1, <2>5, <4>1, Accounted
    <3> QED BY <1>1, <2>5, <3>1, <3>2, <3>3
  <2> QED BY <2>3, <2>4, <2>5
<1>6. CASE Garble
  BY <1>4, <1>6 DEF Garble, Came
<1>7. CASE LoseByte
  BY <1>4, <1>7 DEF LoseByte, Came
<1>8. CASE Noise
  BY <1>4, <1>8 DEF Noise, line
<1>9. CASE UNCHANGED vars
  <2>1. /\ UNCHANGED <<data, length, crc, capacity, heap, event>>
        /\ UNCHANGED <<now, todo, hurt, missing, unlucky, slipped>>
    BY <1>9 DEF vars, parser, line, history
  <2>2. Followed' = Followed
    BY <2>1 DEF Followed, SamePlace
  <2>3. Recovering' = Recovering
    BY <2>1, <2>2 DEF Recovering, Doomed, Hunting, Ending, Straddling, Askew, Counting, Gone
  <2> QED BY <1>1, <2>1, <2>2, <2>3
<1> QED BY <1>3, <1>5, <1>6, <1>7, <1>8, <1>9 DEF Next

\* Without damage every frame that fits is handled, as it was meant, and nothing is
\* asked for again: the block never reaches the limit before the last byte of a
\* frame that fits (_protocol_buffer_alloc, :689).  A byte has at most eight bits:
\* the sizes of the block, and with them the frames that fit, are those that an
\* unsigned short can count.
THEOREM Handled == Base <= 256 => (Spec => []NothingToRepair)
<1> SUFFICES ASSUME Base <= 256 PROVE Spec => []NothingToRepair
  OBVIOUS
<1>1. Init => Ind /\ FollowInv /\ RecoverInv
  BY IndInit, FollowInit, RecoverInit
<1>2. Ind /\ FollowInv /\ RecoverInv /\ [Next]_vars => Ind' /\ FollowInv' /\ RecoverInv'
  BY IndNext, FollowNext, RecoverNext
<1>3. Ind /\ FollowInv /\ RecoverInv => NothingToRepair
  BY FollowIsInStep DEF NothingToRepair, RecoverInv
<1> QED BY <1>1, <1>2, <1>3, PTL DEF Spec

\* Wherever one byte is damaged, lost or put in, two frames in a row are missed at
\* most, unless one of them has a false start or a wrong length that passes its CRC.
THEOREM Recovery == Base <= 256 => (Spec => []TwoInARow)
<1> SUFFICES ASSUME Base <= 256 PROVE Spec => []TwoInARow
  OBVIOUS
<1>1. Init => Ind /\ RecoverInv
  BY IndInit, RecoverInit
<1>2. Ind /\ RecoverInv /\ [Next]_vars => Ind' /\ RecoverInv'
  BY IndNext, RecoverNext
<1>3. Ind /\ RecoverInv => TwoInARow
  <2> SUFFICES ASSUME Ind, RecoverInv, missing > 2, ~ unlucky PROVE FALSE
    BY DEF TwoInARow, Ind, LineOK
  <2>1. missing \in 0..3 /\ (~ hurt => missing = 0) /\ (hurt => missing <= 2)
        /\ hurt \in BOOLEAN
    BY DEF Ind, LineOK, RecoverInv, Recovering
  <2>2. missing <= 2
    BY <2>1
  <2> QED BY <2>1, <2>2
<1> QED BY <1>1, <1>2, <1>3, PTL DEF Spec

-----------------------------------------------------------------------------
(* One wrong byte in a frame                                               *)

\* Two bytes of which one is another are another number.
LEMMA OtherDigit ==
  ASSUME NEW x \in Byte, NEW y \in Byte, NEW v \in Byte, x # v
  PROVE  Value(x, y) # Value(v, y) /\ Value(y, x) # Value(y, v)
<1>1. x \in Nat /\ y \in Nat /\ v \in Nat /\ Base \in Nat /\ Base > 0
  BY Layout DEF Byte
<1>2. ASSUME NEW i \in Nat, NEW j \in Nat, i < j PROVE i * Base < j * Base
  <2>1. Base * (i + 1) <= Base * j
    BY <1>1, <1>2, Times
  <2>2. Base * (i + 1) = i * Base + Base /\ Base * j = j * Base
    BY <1>1
  <2>3. i * Base \in Nat /\ j * Base \in Nat
    BY <1>1
  <2> QED BY <1>1, <2>1, <2>2, <2>3
<1>3. x * Base # v * Base
  <2>1. x < v \/ v < x
    BY <1>1
  <2>2. x * Base \in Nat /\ v * Base \in Nat
    BY <1>1
  <2>3. x * Base < v * Base \/ v * Base < x * Base
    BY <1>1, <1>2, <2>1
  <2> QED BY <2>2, <2>3
<1>4. x * Base \in Nat /\ v * Base \in Nat /\ y * Base \in Nat
  BY <1>1
<1>5. x * Base + y # v * Base + y /\ y * Base + x # y * Base + v
  BY <1>1, <1>3, <1>4
<1> QED BY <1>5 DEF Value

\* Where a frame has its other fields, and what its checksum is made of.
LEMMA Fielded ==
  ASSUME NEW m \in Messages
  PROVE  LET f == FrameOf(m)
             n == Len(m.payload)
         IN  /\ m \in Message /\ Sendable(m)
             /\ m.seq \in Byte /\ m.cmd \in U16 /\ Control(m) \in Byte
             /\ n \in U16 /\ Checksum(m) \in U16 /\ LenCrc(n) \in U16
             /\ f[SeqIdx] = m.seq /\ f[ControlIdx] = Control(m)
             /\ Field(f, CmdIdx) = m.cmd /\ Field(f, ChecksumIdx) = Checksum(m)
             /\ Field(f, LenIdx + 1) = n /\ Field(f, LenIdx + 3) = LenCrc(n)
             /\ Blank(f) = WithChecksum(m, 0) /\ Told(Blank(f))
             /\ Checksum(m) = Crc16(Blank(f))
<1> DEFINE f == FrameOf(m)
           n == Len(m.payload)
           z == Len(Sync)
<1>1. m \in Message /\ Sendable(m)
  BY MessagesAssumption DEF Sendable
<1>2. n \in U16 /\ LenCrc(n) \in U16 /\ Checksum(m) \in U16
  <2>1. n \in U16
    BY FrameShape DEF U16
  <2> QED BY <2>1, CrcAssumption
<1>3. m.seq \in Byte /\ m.cmd \in U16 /\ Control(m) \in Byte
  BY <1>1, Bits DEF Message
<1>4. /\ f[z + 1] = m.seq /\ f[z + 2] = Control(m)
      /\ f[z + 3] = m.cmd \div Base /\ f[z + 4] = m.cmd % Base
      /\ f[z + 5] = Checksum(m) \div Base /\ f[z + 6] = Checksum(m) % Base
      /\ f[z + 7] = n \div Base /\ f[z + 8] = n % Base
      /\ f[z + 9] = LenCrc(n) \div Base /\ f[z + 10] = LenCrc(n) % Base
  BY <1>1, <1>2, Shape DEF FrameOf
<1>5. Blank(f) = WithChecksum(m, 0)
  BY <1>1, <1>2, BlankFrame DEF FrameOf
<1>6. Told(WithChecksum(m, 0)) /\ Checksum(m) = Crc16(WithChecksum(m, 0))
  BY DamageAssumption DEF Checksum
<1>7. /\ SeqIdx = z + 1 /\ ControlIdx = z + 2 /\ CmdIdx = z + 3 /\ CmdIdx + 1 = z + 4
      /\ ChecksumIdx = z + 5 /\ ChecksumIdx + 1 = z + 6
      /\ LenIdx + 1 = z + 7 /\ (LenIdx + 1) + 1 = z + 8
      /\ LenIdx + 3 = z + 9 /\ (LenIdx + 3) + 1 = z + 10
  BY Places DEF SeqIdx, ControlIdx, CmdIdx, ChecksumIdx, LenIdx
<1> HIDE DEF f, n, z
<1>8. /\ Value(m.cmd \div Base, m.cmd % Base) = m.cmd /\ Value(n \div Base, n % Base) = n
      /\ Value(Checksum(m) \div Base, Checksum(m) % Base) = Checksum(m)
      /\ Value(LenCrc(n) \div Base, LenCrc(n) % Base) = LenCrc(n)
  BY <1>2, <1>3, ReadBack
<1>9. /\ Field(f, CmdIdx) = m.cmd /\ Field(f, ChecksumIdx) = Checksum(m)
      /\ Field(f, LenIdx + 1) = n /\ Field(f, LenIdx + 3) = LenCrc(n)
  BY <1>4, <1>7, <1>8 DEF Field
<1> QED BY <1>1, <1>2, <1>3, <1>4, <1>5, <1>6, <1>7, <1>9 DEF f, n

\* f but for one byte.
OneWrong(g, f, p) ==
  /\ g \in Seq(Byte) /\ f \in Seq(Byte) /\ Len(g) = Len(f) /\ p \in 1..Len(f)
  /\ \A i \in 1..Len(f) : g[i] = f[i] <=> i # p

LEMMA Blanked ==
  ASSUME NEW g \in Seq(Byte), Len(g) >= Header
  PROVE  /\ Blank(g) \in Seq(Byte) /\ Len(Blank(g)) = Len(g)
         /\ \A i \in 1..Len(g) :
              Blank(g)[i] = IF i \in {ChecksumIdx, ChecksumIdx + 1} THEN 0 ELSE g[i]
<1>1. Len(g) \in Nat /\ Header \in Nat /\ 0 \in Byte
  BY Places, Layout DEF Byte
<1>2. ChecksumIdx \in 1..Len(g) /\ ChecksumIdx + 1 \in 1..Len(g)
  BY <1>1, Places DEF ChecksumIdx, LenIdx
<1> QED BY <1>1, <1>2, TwoOverwritten DEF Blank

\* The checksum tells a frame from one with a wrong byte, in the checksum or not.
LEMMA ChecksumTells ==
  ASSUME NEW m \in Messages, NEW g, NEW p, OneWrong(g, FrameOf(m), p)
  PROVE  ~ ChecksumValid(g)
<1> DEFINE f == FrameOf(m)
           x == Blank(f)
           y == Blank(g)
           at == {ChecksumIdx, ChecksumIdx + 1}
<1>1. /\ f \in Seq(Byte) /\ g \in Seq(Byte) /\ Len(g) = Len(f) /\ p \in 1..Len(f)
      /\ \A i \in 1..Len(f) : g[i] = f[i] <=> i # p
  BY DEF OneWrong
<1>2. Len(f) >= Header /\ Len(f) \in Nat /\ Header \in Nat
  <2>1. Len(f) = Header + Len(m.payload) /\ Len(m.payload) \in Nat
    BY FrameShape
  <2>2. Header \in Nat
    BY Places
  <2> HIDE DEF f
  <2> QED BY <2>1, <2>2
<1>3. ChecksumIdx \in 1..Len(f) /\ ChecksumIdx + 1 \in 1..Len(f) /\ ChecksumIdx \in Nat
  BY <1>2, Places DEF ChecksumIdx, LenIdx
<1>4. Field(f, ChecksumIdx) = Checksum(m) /\ Checksum(m) = Crc16(x) /\ Told(x)
  BY Fielded
<1> HIDE DEF f
<1>5. /\ x \in Seq(Byte) /\ Len(x) = Len(f)
      /\ \A i \in 1..Len(f) : x[i] = IF i \in at THEN 0 ELSE f[i]
  BY <1>1, <1>2, Blanked
<1>6. /\ y \in Seq(Byte) /\ Len(y) = Len(f)
      /\ \A i \in 1..Len(f) : y[i] = IF i \in at THEN 0 ELSE g[i]
  BY <1>1, <1>2, Blanked
<1>7. g[p] \in Byte /\ f[p] \in Byte /\ g[p] # f[p]
  BY <1>1
<1> HIDE DEF x, y
<1>8. CASE p \in at
  <2>1. y = x
    <3>1. \A i \in 1..Len(f) : y[i] = x[i]
      BY <1>1, <1>5, <1>6, <1>8
    <3> HIDE DEF at
    <3> QED BY <1>5, <1>6, <3>1
  <2>2. Field(g, ChecksumIdx) # Field(f, ChecksumIdx)
    <3>1. /\ f[ChecksumIdx] \in Byte /\ f[ChecksumIdx + 1] \in Byte
          /\ g[ChecksumIdx] \in Byte /\ g[ChecksumIdx + 1] \in Byte
      BY <1>1, <1>3
    <3>2. CASE p = ChecksumIdx
      <4>1. g[ChecksumIdx + 1] = f[ChecksumIdx + 1]
        BY <1>1, <1>3, <3>2
      <4> QED BY <1>7, <3>1, <3>2, <4>1, OtherDigit DEF Field
    <3>3. CASE p = ChecksumIdx + 1
      <4>1. g[ChecksumIdx] = f[ChecksumIdx]
        BY <1>1, <1>3, <3>3
      <4> QED BY <1>7, <3>1, <3>3, <4>1, OtherDigit DEF Field
    <3> QED BY <1>8, <3>2, <3>3
  <2> QED BY <1>4, <2>1, <2>2 DEF ChecksumValid, y
<1>9. CASE p \notin at
  <2>1. Field(g, ChecksumIdx) = Field(f, ChecksumIdx)
    BY <1>1, <1>3, <1>9 DEF Field
  <2>2. x[p] = f[p]
    BY <1>1, <1>5, <1>9
  <2>3. y = [x EXCEPT ![p] = g[p]]
    <3> DEFINE w == [x EXCEPT ![p] = g[p]]
    <3>1. /\ w \in Seq(Byte) /\ Len(w) = Len(f)
          /\ \A i \in 1..Len(f) : w[i] = IF i = p THEN g[p] ELSE x[i]
      BY <1>1, <1>5, <1>7
    <3>2. \A i \in 1..Len(f) : y[i] = w[i]
      BY <1>1, <1>5, <1>6, <1>9, <3>1
    <3> HIDE DEF w, at
    <3>3. y = w
      BY <1>6, <3>1, <3>2
    <3> QED BY <3>3 DEF w
  <2>4. Crc16(y) # Crc16(x)
    <3>1. p \in DOMAIN x
      BY <1>1, <1>5
    <3> QED BY <1>4, <1>7, <2>2, <2>3, <3>1 DEF Told
  <2> QED BY <1>4, <2>1, <2>4 DEF ChecksumValid, y
<1> QED BY <1>8, <1>9

\* What becomes of a frame with one wrong byte, the length and its CRC being right.
LEMMA OneByteProcessed ==
  ASSUME NEW m \in Messages, NEW g, NEW p, OneWrong(g, FrameOf(m), p),
         p \notin (LenIdx + 1)..Header
  PROVE  Processed(g) \in MayBecome(m)
<1> DEFINE f == FrameOf(m)
           n == Len(m.payload)
           e == Meaning(m)
<1>1. /\ f \in Seq(Byte) /\ g \in Seq(Byte) /\ Len(g) = Len(f) /\ p \in 1..Len(f)
      /\ \A i \in 1..Len(f) : g[i] = f[i] <=> i # p
  BY DEF OneWrong
<1>2. /\ Len(f) = Header + n /\ n \in Nat /\ Header \in Nat /\ LenIdx \in Nat
      /\ Header = LenIdx + 4
  BY FrameShape, Places
<1>3. /\ Sendable(m) /\ f[SeqIdx] = m.seq /\ f[ControlIdx] = Control(m) /\ m \in Message
      /\ Field(f, CmdIdx) = m.cmd /\ Field(f, LenIdx + 1) = n
  BY Fielded
<1>4. /\ IsBitSet(Control(m), 1) <=> m.ack
      /\ IsBitSet(Control(m), 2) <=> m.nack
  BY <1>3, Bits
<1>5. ~ ChecksumValid(g)
  BY ChecksumTells
<1> HIDE DEF f, n
<1>6. {SeqIdx, ControlIdx, CmdIdx, CmdIdx + 1, LenIdx + 1, (LenIdx + 1) + 1} \subseteq 1..Len(f)
  BY <1>2, Places DEF SeqIdx, ControlIdx, CmdIdx, LenIdx
<1>7. g[SeqIdx] \in Byte
  BY <1>1, <1>6
<1>8. Field(g, LenIdx + 1) = n
  <2>1. LenIdx + 1 # p /\ (LenIdx + 1) + 1 # p
    BY <1>2
  <2> QED BY <1>1, <1>3, <1>6, <2>1 DEF Field
<1>9. p # ControlIdx => g[ControlIdx] = Control(m)
  BY <1>1, <1>3, <1>6
<1>10. p # CmdIdx /\ p # CmdIdx + 1 => Field(g, CmdIdx) = m.cmd
  BY <1>1, <1>3, <1>6 DEF Field
<1>11. p # SeqIdx => g[SeqIdx] = m.seq
  BY <1>1, <1>3, <1>6
<1>12. Answer("junk", g[SeqIdx]) \in MayBecome(m)
  BY <1>7 DEF MayBecome
<1>13. CASE IsData(m)
  <2>1. m.cmd # 0 /\ ~ m.ack /\ ~ m.nack
    BY <1>3, <1>13 DEF Sendable, IsData
  <2>2. ~ Says(g, 1) /\ ~ Says(g, 2)
    <3>1. CASE p = ControlIdx
      <4>1. p # CmdIdx /\ p # CmdIdx + 1
        BY <3>1, Places DEF ControlIdx, CmdIdx
      <4> QED BY <1>10, <2>1, <4>1 DEF Says
    <3>2. CASE p # ControlIdx
      BY <1>4, <1>9, <2>1, <3>2 DEF Says
    <3> QED BY <3>1, <3>2
  <2>3. Processed(g) = Answer("junk", g[SeqIdx])
    BY <1>5, <2>2 DEF Processed, IsAcked, IsNacked
  <2> QED BY <1>12, <2>3
<1>14. CASE ~ IsData(m)
  <2>1. /\ \A s \in Byte : Answer(e.kind, s) \in MayBecome(m)
        /\ \A kind \in {"ack", "nack"} : Answer(kind, m.seq) \in MayBecome(m)
    BY <1>14 DEF MayBecome
  <2>2. CASE p # SeqIdx
    BY <1>5, <1>11, <1>12, <2>1, <2>2 DEF Processed
  <2>3. CASE p = SeqIdx
    <3>1. p # ControlIdx /\ p # CmdIdx /\ p # CmdIdx + 1
      BY <2>3, Places DEF SeqIdx, ControlIdx, CmdIdx
    <3>2. m.cmd = 0 /\ n = 0 /\ m.ack \in BOOLEAN /\ m.nack \in BOOLEAN /\ (m.ack \/ m.nack)
      <4>1. m.cmd = 0 /\ m.payload = <<>> /\ (m.ack \/ m.nack)
        BY <1>3, <1>14 DEF Sendable, IsData
      <4> QED BY <1>3, <4>1 DEF Message, n
    <3>3. (Says(g, 1) <=> m.ack) /\ (Says(g, 2) <=> m.nack)
      BY <1>4, <1>8, <1>9, <1>10, <3>1, <3>2 DEF Says
    <3>4. Processed(g) = Answer(e.kind, g[SeqIdx])
      BY <3>2, <3>3 DEF Processed, IsAcked, IsNacked, Meaning, Answer
    <3> QED BY <1>7, <2>1, <3>4
  <2> QED BY <2>2, <2>3
<1> QED BY <1>13, <1>14

LEMMA SameDigits ==
  ASSUME NEW x \in Byte, NEW y \in Byte, NEW v \in Byte, NEW w \in Byte,
         Value(x, y) = Value(v, w)
  PROVE  x = v /\ y = w
<1>1. /\ x \in Nat /\ y \in Nat /\ v \in Nat /\ w \in Nat /\ Base \in Nat /\ Base > 0
      /\ y < Base /\ w < Base
  BY Layout DEF Byte
<1>2. ASSUME NEW i \in Nat, NEW j \in Nat, i < j PROVE i * Base + Base <= j * Base
  <2>1. Base * (i + 1) <= Base * j
    BY <1>1, <1>2, Times
  <2>2. Base * (i + 1) = i * Base + Base /\ Base * j = j * Base
    BY <1>1
  <2> QED BY <2>1, <2>2
<1>3. x * Base \in Nat /\ v * Base \in Nat /\ x * Base + y = v * Base + w
  BY <1>1 DEF Value
<1>4. ~ x < v
  <2> SUFFICES ASSUME x < v PROVE FALSE
    OBVIOUS
  <2>1. x * Base + Base <= v * Base
    BY <1>1, <1>2
  <2> QED BY <1>1, <1>3, <2>1
<1>5. ~ v < x
  <2> SUFFICES ASSUME v < x PROVE FALSE
    OBVIOUS
  <2>1. v * Base + Base <= x * Base
    BY <1>1, <1>2
  <2> QED BY <1>1, <1>3, <2>1
<1>6. x = v
  BY <1>1, <1>4, <1>5
<1> QED BY <1>1, <1>3, <1>6

\* The bytes of a number that is two bytes.
LEMMA BytesOf ==
  ASSUME NEW x \in Byte, NEW y \in Byte
  PROVE  Value(x, y) \in U16 /\ Bytes(Value(x, y)) = <<x, y>>
<1>1. PICK v \in U16 : v = Value(x, y)
  BY TwoBytes DEF Value
<1>2. v \div Base \in Byte /\ v % Base \in Byte /\ Value(v \div Base, v % Base) = Value(x, y)
  BY <1>1, Digits, ReadBack
<1>3. v \div Base = x /\ v % Base = y
  BY <1>2, SameDigits
<1> QED BY <1>1, <1>3 DEF Bytes

\* A length with a wrong byte has another CRC, and a CRC with one is of no length
\* that was sent.
LEMMA LengthTells ==
  ASSUME NEW x \in Byte, NEW y \in Byte, NEW v \in Byte, x # v
  PROVE  /\ LenCrc(Value(x, y)) # LenCrc(Value(v, y))
         /\ LenCrc(Value(y, x)) # LenCrc(Value(y, v))
<1>1. /\ Value(v, y) \in U16 /\ Value(y, v) \in U16
      /\ Bytes(Value(x, y)) = <<x, y>> /\ Bytes(Value(v, y)) = <<v, y>>
      /\ Bytes(Value(y, x)) = <<y, x>> /\ Bytes(Value(y, v)) = <<y, v>>
  BY BytesOf
<1>2. Told(<<v, y>>) /\ Told(<<y, v>>)
  BY <1>1, DamageAssumption
<1>3. /\ [<<v, y>> EXCEPT ![1] = x] = <<x, y>> /\ [<<y, v>> EXCEPT ![2] = x] = <<y, x>>
      /\ 1 \in DOMAIN <<v, y>> /\ 2 \in DOMAIN <<y, v>>
      /\ <<v, y>>[1] = v /\ <<y, v>>[2] = v
  OBVIOUS
<1>4. Crc16(<<x, y>>) # Crc16(<<v, y>>)
  BY <1>2, <1>3 DEF Told
<1>5. Crc16(<<y, x>>) # Crc16(<<y, v>>)
  BY <1>2, <1>3 DEF Told
<1> QED BY <1>1, <1>4, <1>5 DEF LenCrc

\* g is the beginning of f but for one byte, and the length that was taken from it
\* is right.
WrongSoFar(g, f, p) ==
  /\ p \in 1..Len(g) /\ \A i \in 1..Len(g) : g[i] = f[i] <=> i # p
  /\ Len(g) >= Header => p \notin (LenIdx + 1)..Header

\* A header whose length passes its CRC has its wrong byte elsewhere.
LEMMA HeaderTells ==
  ASSUME ParserInv, ReadInv, LineOK, Len(data) = Header - 1, NEW c \in Byte, NEW p,
         p \in 1..Header, LenCrcValid(crc + c),
         \A i \in 1..Header : Append(data, c)[i] = FrameOf(now)[i] <=> i # p
  PROVE  p \notin (LenIdx + 1)..Header /\ length = Len(now.payload)
<1> DEFINE f == FrameOf(now)
           n == Len(now.payload)
           g == Append(data, c)
<1>1. Header \in Nat /\ LenIdx \in Nat /\ Header = LenIdx + 4
  BY Places
<1>2. data \in Seq(Byte) /\ Len(data) \in Nat
  BY Parts
<1>3. /\ g \in Seq(Byte) /\ Len(g) = Header /\ g[LenIdx + 4] = c
      /\ \A i \in 1..Len(data) : g[i] = data[i]
  BY <1>1, <1>2
<1>4. f \in Seq(Byte) /\ Len(f) >= Header /\ Len(f) \in Nat /\ n \in Nat
  <2>1. now \in Messages
    BY DEF LineOK
  <2>2. f \in Seq(Byte) /\ Len(f) = Header + n /\ n \in Nat
    BY <2>1, FrameShape
  <2> HIDE DEF f, n
  <2> QED BY <1>1, <2>2
<1>5. Field(f, LenIdx + 1) = n /\ Field(f, LenIdx + 3) = LenCrc(n)
  BY Fielded DEF LineOK
<1> HIDE DEF f, n, g
<1>6. /\ length = Value(g[LenIdx + 1], g[LenIdx + 2])
      /\ crc + c = Value(g[LenIdx + 3], g[LenIdx + 4])
  <2>1. /\ length = data[LenIdx + 1] * Base + data[LenIdx + 2]
        /\ crc = data[LenIdx + 3] * Base
    BY <1>1 DEF ReadInv
  <2>2. /\ g[LenIdx + 1] = data[LenIdx + 1] /\ g[LenIdx + 2] = data[LenIdx + 2]
        /\ g[LenIdx + 3] = data[LenIdx + 3]
    BY <1>1, <1>3
  <2> QED BY <1>3, <2>1, <2>2 DEF Value
<1>7. /\ n = Value(f[LenIdx + 1], f[LenIdx + 2])
      /\ LenCrc(n) = Value(f[LenIdx + 3], f[LenIdx + 4])
  <2>1. (LenIdx + 1) + 1 = LenIdx + 2 /\ (LenIdx + 3) + 1 = LenIdx + 4
    BY <1>1
  <2> QED BY <1>5, <2>1 DEF Field
<1>8. /\ \A i \in (LenIdx + 1)..Header : g[i] \in Byte /\ f[i] \in Byte /\ (g[i] = f[i] <=> i # p)
      /\ (LenIdx + 1)..Header = {LenIdx + 1, LenIdx + 2, LenIdx + 3, LenIdx + 4}
  <2>1. (LenIdx + 1)..Header = {LenIdx + 1, LenIdx + 2, LenIdx + 3, LenIdx + 4}
    BY <1>1
  <2>2. \A i \in 1..Header : g[i] = f[i] <=> i # p
    BY DEF f, g
  <2>3. \A i \in 1..Header : g[i] \in Byte /\ f[i] \in Byte
    BY <1>1, <1>3, <1>4
  <2>4. \A i \in (LenIdx + 1)..Header : i \in 1..Header
    BY <1>1
  <2> QED BY <2>1, <2>2, <2>3, <2>4
<1>9. Value(g[LenIdx + 3], g[LenIdx + 4]) = LenCrc(Value(g[LenIdx + 1], g[LenIdx + 2]))
  BY <1>6 DEF LenCrcValid
<1> DEFINE at(i) == LenIdx + i
<1>10. /\ \A i \in {1, 2, 3, 4} : g[at(i)] \in Byte /\ f[at(i)] \in Byte
       /\ \A i \in {1, 2, 3, 4} : p # at(i) => g[at(i)] = f[at(i)]
       /\ \A i \in {1, 2, 3, 4} : p = at(i) => g[at(i)] # f[at(i)]
  BY <1>8
<1>11. \A i, j \in {1, 2, 3, 4} : i # j => at(i) # at(j)
  BY <1>1
<1>12. LenCrc(Value(f[at(1)], f[at(2)])) = Value(f[at(3)], f[at(4)])
  BY <1>7
<1>13. Value(g[at(3)], g[at(4)]) = LenCrc(Value(g[at(1)], g[at(2)]))
  BY <1>9
<1>14. p \notin {at(1), at(2), at(3), at(4)}
  <2> HIDE DEF at
  <2>1. CASE p = at(1)
    BY <1>10, <1>11, <1>12, <1>13, <2>1, LengthTells
  <2>2. CASE p = at(2)
    BY <1>10, <1>11, <1>12, <1>13, <2>2, LengthTells
  <2>3. CASE p = at(3)
    BY <1>10, <1>11, <1>12, <1>13, <2>3, OtherDigit
  <2>4. CASE p = at(4)
    BY <1>10, <1>11, <1>12, <1>13, <2>4, OtherDigit
  <2> QED BY <2>1, <2>2, <2>3, <2>4
<1>15. length = n
  BY <1>6, <1>7, <1>10, <1>14
<1> QED BY <1>8, <1>14, <1>15 DEF n

\* Level with the line, and what has come of the frame on it has one wrong byte;
\* or dropping the rest of it.
Marred ==
  /\ todo # <<>>
  /\ Len(data) >= Header => length = Len(todo)
  /\ ~ Overflow(capacity) => /\ Len(data) = Gone
                             /\ \E p \in 1..Len(data) : WrongSoFar(data, FrameOf(now), p)

\* The next byte of a frame that has one wrong byte, that one or an earlier one.
LEMMA MarredByte ==
  ASSUME Going, Came, ~ Overflow(capacity), Len(data) = Gone,
         Len(data) >= Header => length = Len(todo),
         NEW c \in Byte, Parse(c), NEW p,
         p \in 1..(Len(data) + 1),
         \A i \in 1..(Len(data) + 1) : Append(data, c)[i] = FrameOf(now)[i] <=> i # p,
         Len(data) >= Header => p \notin (LenIdx + 1)..Header
  PROVE  /\ event' = Nothing \/ event' \in MayBecome(now)
         /\ data' = <<>> \/ Marred'
<1> DEFINE f == FrameOf(now)
           n == Len(now.payload)
           g == Append(data, c)
           d == Len(data)
           t == Len(todo)
<1>1. /\ ParserInv /\ LineOK /\ ReadInv /\ now \in Messages /\ now' = now
  BY DEF Going, LineOK, Came
<1>2. /\ Header \in Nat /\ LenIdx \in Nat /\ Header = LenIdx + 4 /\ Len(Sync) \in Nat
      /\ Len(Sync) < LenIdx
  BY Places
<1>3. /\ data \in Seq(Byte) /\ d \in Nat /\ length \in Nat
      /\ g \in Seq(Byte) /\ Len(g) = d + 1 /\ \A i \in 1..d : data[i] = g[i]
  BY <1>1, Parts
<1>4. /\ Gone' = d + 1 /\ d + t = Header + n /\ n \in Nat /\ t \in Nat /\ t > 0
      /\ Len(todo') = t - 1 /\ (todo' = <<>> <=> t - 1 = 0)
  BY GoesOn
<1>5. f \in Seq(Byte) /\ Len(f) = Header + n
  BY <1>1, FrameShape
<1>6. d >= Header => length = t
  OBVIOUS
<1> HIDE DEF f, n, t
\* Stored: it goes on, ...
<1>7. ASSUME data' = g, t > 1,
             d + 1 >= Header => length' = t - 1 /\ p \notin (LenIdx + 1)..Header
      PROVE  Marred'
  <2>1. todo' # <<>>
    BY <1>4, <1>7
  <2>2. Len(data') = d + 1
    BY <1>3, <1>7
  <2>3. Len(data') >= Header => length' = Len(todo')
    BY <1>4, <1>7, <2>2
  <2>4. Len(data') = Gone' /\ p \in 1..Len(data')
    BY <1>4, <2>2
  <2>5. WrongSoFar(data', FrameOf(now'), p)
    BY <1>1, <1>7, <2>2 DEF WrongSoFar
  <2> QED BY <2>1, <2>3, <2>4, <2>5 DEF Marred
\* ... or is the last byte.
<1>8. ASSUME t = 1, p \notin (LenIdx + 1)..Header
      PROVE  Processed(g) \in MayBecome(now)
  <2>1. Len(g) = Len(f) /\ Len(f) = d + 1
    BY <1>2, <1>3, <1>4, <1>5, <1>8
  <2>2. OneWrong(g, f, p)
    BY <1>3, <1>5, <2>1 DEF OneWrong, f
  <2> QED BY <1>1, <1>8, <2>2, OneByteProcessed DEF f
<1>9. SyncByte(c) \/ FieldByte(c) \/ LengthByte(c) \/ CrcByte(c) \/ PayloadByte(c)
  BY DEF Parse
<1>10. CASE d < Header - 1
  <2>1. ASSUME NEW len, NEW code, Store(c, len, code)
        PROVE  event' = Nothing
    <3>1. ~ Len(g) >= Header
      BY <1>2, <1>3, <1>10
    <3> QED BY <2>1, <3>1 DEF Store
  <2>2. event' = Nothing
    <3>1. ~ (d = LenIdx + 3) /\ ~ d >= Header
      BY <1>2, <1>3, <1>10
    <3>2. FieldByte(c) => event' = Nothing
      BY <2>1 DEF FieldByte
    <3>3. LengthByte(c) => event' = Nothing
      BY <2>1 DEF LengthByte
    <3>4. SyncByte(c) => event' = Nothing
      BY DEF SyncByte
    <3>5. ~ CrcByte(c) /\ ~ PayloadByte(c)
      BY <3>1 DEF CrcByte, PayloadByte
    <3> QED BY <1>9, <3>2, <3>3, <3>4, <3>5
  <2>3. data' = <<>> \/ data' = g
    <3>1. d < Header
      BY <1>2, <1>3, <1>10
    <3> QED BY <1>1, <3>1, HeaderByte
  <2>4. t > 1 /\ ~ d + 1 >= Header
    BY <1>2, <1>3, <1>4, <1>10
  <2> QED BY <1>7, <2>2, <2>3, <2>4
<1>11. CASE d = Header - 1
  <2>1. CrcByte(c)
    <3>1. ~ d < Len(Sync) /\ d \notin Len(Sync)..(LenIdx - 1) /\ d # LenIdx /\ d # LenIdx + 1
          /\ d # LenIdx + 2 /\ ~ d >= Header
      BY <1>2, <1>11
    <3> QED BY <1>9, <3>1 DEF SyncByte, FieldByte, LengthByte, PayloadByte
  <2>2. CASE ~ LenCrcValid(crc + c)
    <3>1. event' = Answer("junk", data[SeqIdx]) /\ data' = <<>>
      BY <2>1, <2>2 DEF CrcByte, Reset
    <3>2. data[SeqIdx] \in Byte
      <4>1. SeqIdx \in 1..d
        BY <1>2, <1>11 DEF SeqIdx, LenIdx
      <4> QED BY <1>3, <4>1
    <3>3. event' \in MayBecome(now)
      BY <3>1, <3>2 DEF MayBecome
    <3> QED BY <3>1, <3>3
  <2>3. CASE LenCrcValid(crc + c)
    <3>1. Store(c, length, crc + c)
      BY <2>1, <2>3 DEF CrcByte
    <3>2. d + 1 = Header
      BY <1>2, <1>11
    <3>3. p \notin (LenIdx + 1)..Header /\ length = n
      BY <1>1, <1>11, <2>3, <3>2, HeaderTells DEF n
    <3>4. t = n + 1
      BY <1>2, <1>3, <1>4, <1>11
    <3>5. CASE n = 0
      <4>1. Len(g) >= Header /\ length = 0
        BY <1>2, <1>3, <3>2, <3>3, <3>5
      <4>2. event' = Processed(g) /\ data' = <<>>
        BY <3>1, <4>1 DEF Store, Reset
      <4>3. t = 1
        BY <3>4, <3>5
      <4> QED BY <1>8, <3>3, <4>2, <4>3
    <3>6. CASE n # 0
      <4>1. event' = Nothing /\ data' = g /\ length' = n
        BY <3>1, <3>3, <3>6 DEF Store
      <4>2. t > 1 /\ n = t - 1
        BY <1>4, <3>4, <3>6
      <4> QED BY <1>7, <3>3, <4>1, <4>2
    <3> QED BY <3>5, <3>6
  <2> QED BY <2>2, <2>3
<1>12. CASE d >= Header
  <2>1. PayloadByte(c)
    <3>1. ~ d < Len(Sync) /\ d \notin Len(Sync)..(LenIdx - 1)
          /\ d \notin {LenIdx, LenIdx + 1, LenIdx + 2, LenIdx + 3}
      BY <1>2, <1>3, <1>12
    <3> QED BY <1>9, <3>1 DEF SyncByte, FieldByte, LengthByte, CrcByte
  <2>2. Store(c, length - 1, crc) /\ length = t /\ p \notin (LenIdx + 1)..Header
    BY <1>6, <1>12, <2>1 DEF PayloadByte
  <2>3. Len(g) >= Header
    BY <1>2, <1>3, <1>12
  <2>4. CASE t = 1
    <3>1. length - 1 = 0
      BY <2>2, <2>4
    <3>2. event' = Processed(g) /\ data' = <<>>
      BY <2>2, <2>3, <3>1 DEF Store, Reset
    <3> QED BY <1>8, <2>2, <2>4, <3>2
  <2>5. CASE t # 1
    <3>1. length - 1 # 0 /\ t > 1 /\ length - 1 = t - 1
      BY <1>4, <2>2, <2>5
    <3>2. event' = Nothing /\ data' = g /\ length' = length - 1
      BY <2>2, <3>1 DEF Store
    <3> QED BY <1>7, <2>2, <3>1, <3>2
  <2> QED BY <2>4, <2>5
<1>13. d < Header - 1 \/ d = Header - 1 \/ d >= Header
  BY <1>2, <1>3
<1> QED BY <1>10, <1>11, <1>12, <1>13

\* A byte while the rest of a frame is dropped.
LEMMA MarredDrop ==
  ASSUME Going, Came, Marred, Overflow(capacity), NEW c \in Byte, Parse(c)
  PROVE  event' = Nothing /\ (data' = <<>> \/ Marred')
<1>1. Drop /\ ParserInv
  BY DEF Parse, Going
<1>2. Len(data) >= Header /\ Len(data) \in Nat /\ length = Len(todo)
  <2>1. Len(data) \in Nat /\ ~ (Len(data) <= Header)
    BY <1>1, Parts
  <2>2. Len(data) >= Header
    BY <2>1, Places
  <2> QED BY <2>1, <2>2 DEF Marred
<1>3. CASE MoreToDrop
  <2>1. length > 1 /\ length' = length - 1 /\ data' = data /\ capacity' = capacity
        /\ event' = Nothing
    BY <1>1, <1>3 DEF Drop, MoreToDrop
  <2>2. Len(todo') = Len(todo) - 1 /\ Len(todo) \in Nat /\ (todo' = <<>> <=> Len(todo') = 0)
    BY GoesOn
  <2>3. length' = Len(todo') /\ todo' # <<>>
    BY <1>2, <2>1, <2>2
  <2>4. Overflow(capacity)'
    BY <2>1 DEF Overflow
  <2> QED BY <2>1, <2>3, <2>4 DEF Marred
<1>4. CASE ~ MoreToDrop
  BY <1>1, <1>4 DEF Drop, Reset
<1> QED BY <1>3, <1>4

\* The line did one damage, to a byte of a frame: at the same place in the frame or
\* a later one, or looking for a sync pattern in the rest of it.
OneByteInv ==
  /\ hurt /\ ~ slipped /\ ~ unlucky => SamePlace \/ Hunting \/ Doomed \/ Marred
  /\ OneByteDamage

LEMMA OneByteInit == Init => OneByteInv
BY DEF Init, OneByteInv, OneByteDamage

LEMMA OneByteNext ==
  ASSUME Ind, Ind', FollowInv, FollowInv', RestInv, ReadInv, OneByteInv, [Next]_vars
  PROVE  OneByteInv'
<1> DEFINE Kept == /\ (SamePlace \/ Hunting \/ Doomed \/ Marred)'
                   /\ event' # Nothing => event' \in MayBecome(now') \/ FalseStart(now')
<1>1. SUFFICES ASSUME hurt', ~ slipped', ~ unlucky' PROVE Kept
  <2>1. ASSUME ~ hurt' PROVE event' \in MayBecome(now')
    <3>1. event' \in {Nothing, Meaning(now')}
      BY <2>1 DEF FollowInv, AtTheSamePlace
    <3> QED BY <3>1 DEF MayBecome
  <2>2. hurt' \in BOOLEAN /\ slipped' \in BOOLEAN /\ unlucky' \in BOOLEAN
    BY DEF Ind, LineOK
  <2> QED BY <2>1, <2>2 DEF OneByteInv, OneByteDamage
<1>2. /\ ParserInv /\ LineOK /\ Going /\ hurt \in BOOLEAN /\ slipped \in BOOLEAN
  BY DEF Ind, Going, LineOK
<1>3. ~ hurt => SamePlace
  BY DEF FollowInv, AtTheSamePlace
<1>4. ASSUME SamePlace', event' = Nothing \/ event' \in MayBecome(now') PROVE Kept
  BY <1>4
<1>5. ASSUME Came, data' = <<>>, event' = Nothing \/ event' \in MayBecome(now')
      PROVE  Kept
  BY <1>2, <1>5, Dropped DEF Followed
<1>6. ASSUME NEW m \in Messages, Send(m) PROVE Kept
  <2>1. /\ todo = <<>> /\ event' = Nothing
        /\ hurt' = hurt /\ slipped' = slipped /\ unlucky' = unlucky
    BY <1>6 DEF Send, history
  <2>2. SamePlace
    BY <1>1, <2>1 DEF OneByteInv, Hunting, Doomed, Marred
  <2> QED BY <1>4, <1>6, <2>1, <2>2, SendFollows
<1>7. CASE Arrive
  <2>1. Came /\ Parse(Head(todo)) /\ Account(FALSE, FALSE) /\ now' = now /\ Head(todo) \in Byte
    <3>1. Came /\ Parse(Head(todo)) /\ Account(FALSE, FALSE) /\ now' = now
      BY <1>7 DEF Arrive, Came
    <3> QED BY <1>2, <3>1, GoesOn
  <2>2. ~ Understands
    BY <1>1, <2>1 DEF Account
  <2>3. hurt /\ ~ slipped /\ ~ unlucky /\ (FrameEnds => ~ FalseStart(now))
    <3>1. hurt /\ ~ unlucky /\ (FrameEnds => ~ FalseStart(now))
      BY <1>1, <1>2, <2>1, <2>2, Accounted
    <3>2. slipped' = (slipped \/ FALSE)
      BY <2>1, <2>2 DEF Account
    <3> QED BY <1>1, <3>1, <3>2
  <2>4. FrameEnds <=> todo' = <<>>
    BY <2>1 DEF FrameEnds, Came
  <2>5. CASE SamePlace
    <3>1. AtTheSamePlace'
      BY <2>1, <2>5, ParseFollows DEF Came
    <3> QED BY <3>1 DEF AtTheSamePlace, MayBecome
  <2>6. CASE Hunting
    <3>1. IF todo' = <<>> THEN Followed' \/ FalseStart(now) ELSE Hunting' \/ Doomed'
      BY <1>2, <2>1, <2>6, HuntingByte
    <3>2. event' = Nothing
      <4>1. Len(data) \in Nat /\ Len(data) < Len(Sync) /\ ~ Overflow(capacity)
        BY <1>2, <2>6, Parts, Places DEF Hunting
      <4>2. SyncByte(Head(todo))
        BY <2>1, <4>1, Places DEF Parse, FieldByte, LengthByte, CrcByte, PayloadByte
      <4> QED BY <4>2 DEF SyncByte
    <3> QED BY <2>3, <2>4, <3>1, <3>2 DEF Followed
  <2>7. CASE Doomed
    <3>1. todo' # <<>> /\ FalseStart(now)
      BY <2>3, <2>4, <2>7 DEF Doomed
    <3>2. Doomed' /\ FalseStart(now')
      BY <2>1, <3>1 DEF Doomed, FalseStart
    <3> QED BY <3>2
  <2>8. CASE Marred
    <3>1. CASE Overflow(capacity)
      <4>1. event' = Nothing /\ (data' = <<>> \/ Marred')
        BY <1>2, <2>1, <2>8, <3>1, MarredDrop
      <4> QED BY <1>5, <2>1, <4>1
    <3>2. CASE ~ Overflow(capacity)
      <4>1. /\ Len(data) = Gone /\ (Len(data) >= Header => length = Len(todo))
            /\ \E p \in 1..Len(data) : WrongSoFar(data, FrameOf(now), p)
        BY <2>8, <3>2 DEF Marred
      <4>2. PICK p \in 1..Len(data) : WrongSoFar(data, FrameOf(now), p)
        BY <4>1
      <4> DEFINE c == Head(todo)
                 f == FrameOf(now)
      <4>3. data \in Seq(Byte) /\ Len(data) \in Nat /\ c \in Byte /\ c = f[Gone + 1]
        BY <1>2, <2>1, Parts, GoesOn
      <4> HIDE DEF c, f
      <4>4. \A i \in 1..(Len(data) + 1) : Append(data, c)[i] = f[i] <=> i # p
        <5> TAKE i \in 1..(Len(data) + 1)
        <5>1. CASE i = Len(data) + 1
          <6>1. Append(data, c)[i] = c /\ i # p
            BY <4>2, <4>3, <5>1
          <6> QED BY <4>1, <4>3, <5>1, <6>1
        <5>2. CASE i # Len(data) + 1
          <6>1. i \in 1..Len(data)
            BY <4>3, <5>2
          <6>2. Append(data, c)[i] = data[i]
            BY <4>3, <6>1
          <6> QED BY <4>2, <6>1, <6>2 DEF WrongSoFar, f
        <5> QED BY <5>1, <5>2
      <4>5. /\ p \in 1..(Len(data) + 1)
            /\ Len(data) >= Header => p \notin (LenIdx + 1)..Header
        BY <4>2, <4>3 DEF WrongSoFar
      <4>6. /\ event' = Nothing \/ event' \in MayBecome(now)
            /\ data' = <<>> \/ Marred'
        BY <1>2, <2>1, <3>2, <4>1, <4>3, <4>4, <4>5, MarredByte DEF c, f
      <4> QED BY <1>5, <2>1, <4>6
    <3> QED BY <3>1, <3>2
  <2> QED BY <2>3, <2>5, <2>6, <2>7, <2>8 DEF OneByteInv
<1>8. CASE Garble
  <2>1. /\ ~ hurt /\ Came /\ now' = now /\ Account(TRUE, FALSE)
        /\ \E c \in Byte \ NextByte : Parse(c)
    BY <1>8 DEF Garble, Came
  <2>2. PICK c \in Byte : Parse(c) /\ c # Head(todo)
    BY <2>1 DEF NextByte, Came
  <2>3. SamePlace /\ todo # <<>> /\ Head(todo) \in Byte /\ todo' = Tail(todo)
    BY <1>2, <1>3, <2>1, GoesOn DEF Came
  <2>4. CASE Overflow(capacity)
    <3>1. Parse(Head(todo)) /\ event' = Nothing
      BY <2>2, <2>4 DEF Parse, Drop
    <3>2. AtTheSamePlace'
      BY <2>1, <2>3, <3>1, ParseFollows
    <3> QED BY <1>4, <3>1, <3>2 DEF AtTheSamePlace
  <2>5. CASE ~ Overflow(capacity)
    <3> DEFINE f == FrameOf(now)
               p == Len(data) + 1
    <3>1. Followed
      BY <2>3, <2>5 DEF Followed
    <3>2. Len(data) = Gone /\ (Len(data) >= Header => length = Len(todo))
      BY <1>2, <2>3, <2>5, <3>1, Level
    <3>3. data \in Seq(Byte) /\ Len(data) \in Nat /\ todo \in Seq(Byte) /\ Head(todo) = f[Gone + 1]
      BY <1>2, <2>1, Parts, GoesOn DEF LineOK
    <3>4. data \o todo = f
      BY <2>3, <2>5 DEF SamePlace
    <3>5. \A i \in 1..Len(data) : data[i] = f[i]
      BY <3>3, <3>4, Concat
    <3> HIDE DEF f
    <3>6. \A i \in 1..(Len(data) + 1) : Append(data, c)[i] = f[i] <=> i # p
      <4> TAKE i \in 1..(Len(data) + 1)
      <4>1. CASE i = p
        <5>1. Append(data, c)[i] = c /\ f[i] = Head(todo)
          BY <3>2, <3>3, <4>1
        <5> QED BY <2>2, <4>1, <5>1
      <4>2. CASE i # p
        <5>1. i \in 1..Len(data)
          BY <3>3, <4>2
        <5>2. Append(data, c)[i] = data[i]
          BY <3>3, <5>1
        <5> QED BY <3>5, <4>2, <5>1, <5>2
      <4> QED BY <4>1, <4>2
    <3>7. p \in 1..(Len(data) + 1) /\ (Len(data) >= Header => p \notin (LenIdx + 1)..Header)
      BY <3>3, Places
    <3>8. /\ event' = Nothing \/ event' \in MayBecome(now)
          /\ data' = <<>> \/ Marred'
      <4> HIDE DEF p
      <4> QED BY <1>2, <2>1, <2>2, <2>5, <3>2, <3>6, <3>7, MarredByte DEF f
    <3> QED BY <1>5, <2>1, <3>8
  <2> QED BY <2>4, <2>5
<1>9. CASE LoseByte \/ Noise
  BY <1>1, <1>9 DEF LoseByte, Noise, Account
<1>10. CASE UNCHANGED vars
  <2>1. /\ UNCHANGED <<data, length, crc, capacity, heap, event>>
        /\ UNCHANGED <<now, todo, hurt, missing, unlucky, slipped>>
    BY <1>10 DEF vars, parser, line, history
  <2>2. SamePlace' = SamePlace /\ Hunting' = Hunting /\ Doomed' = Doomed /\ Marred' = Marred
    BY <2>1 DEF SamePlace, Hunting, Doomed, Marred, Gone
  <2> QED BY <1>1, <2>1, <2>2 DEF OneByteInv, OneByteDamage
<1> QED BY <1>6, <1>7, <1>8, <1>9, <1>10 DEF Next

\* A byte that arrives as another one makes of a frame itself, nothing, or what is
\* answered with a nack, and of an acknowledgement a nack or one of another number:
\* never a command or a payload that was not sent (_one_protocol_frame_process,
\* :617-658).  What CommProtocol lets the line do is all it can.
THEOREM OneByte == Spec => []OneByteDamage
<1>1. Init => Ind /\ FollowInv /\ RestInv /\ ReadInv /\ OneByteInv
  BY IndInit, FollowInit, RecoverInit, OneByteInit DEF RecoverInv
<1>2. Ind /\ FollowInv /\ RestInv /\ ReadInv /\ OneByteInv /\ [Next]_vars
      => Ind' /\ FollowInv' /\ RestInv' /\ ReadInv' /\ OneByteInv'
  BY IndNext, FollowNext, PartsNext, OneByteNext
<1>3. OneByteInv => OneByteDamage
  BY DEF OneByteInv
<1> QED BY <1>1, <1>2, <1>3, PTL DEF Spec
================================================================================
