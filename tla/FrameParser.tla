------------------------------ MODULE FrameParser ------------------------------
(***************************************************************************)
(* The frame assembler of sdk/channel/src/uni_communication.c,             *)
(* _protocol_buffer_generate_byte_by_byte, and a line that brings it the   *)
(* frames of the peer byte by byte and now and then damages one.  What a   *)
(* frame is and what is made of a complete one is in FrameCodec.           *)
(***************************************************************************)
EXTENDS FrameCodec

CONSTANTS
  MaxSize,    \* PROTOCOL_BUF_SUPPORT_MAX_SIZE
  GcSize,     \* PROTOCOL_BUF_GC_TRIGGER_SIZE
  Messages    \* what the peer sends

ASSUME LimitsAssumption ==
  /\ MaxSize \in Nat /\ Header < MaxSize /\ 2 * MaxSize + Header <= Width
  /\ GcSize \in Header..(MaxSize - 1)

ASSUME MessagesAssumption == \A m \in Messages : Sendable(m)

ASSUME CrcAssumption ==
  /\ \A n \in U16 : LenCrc(n) \in U16
  /\ \A m \in Messages : Checksum(m) \in U16

\* A CRC tells a sequence of bytes from one with another byte in one place.
Told(s) ==
  \A i \in DOMAIN s, c \in Byte : c # s[i] => Crc16([s EXCEPT ![i] = c]) # Crc16(s)

ASSUME DamageAssumption ==
  /\ \A n \in U16 : Told(Bytes(n))
  /\ \A m \in Messages : Told(WithChecksum(m, 0))

VARIABLES
  data,      \* the bytes of the frame so far; index is their number
  length,    \* payload bytes that are still to come
  crc,       \* length_crc16
  capacity,  \* protocol_buffer_length
  heap,      \* size of the block at protocol_buffer, 0 when it is NULL
  event,     \* what the protocol thread does with the last byte
  now,       \* the message on the line
  todo,      \* its bytes that have not come yet
  hurt,      \* history: the line did damage since a frame was handled
  missing,   \* history: frames in a row that were not handled, 3 for more
  unlucky,   \* history: one of them had a false start, or a wrong length passed
  slipped    \* history: since then a byte was lost or came on top

parser == <<data, length, crc, capacity, heap>>
line == <<now, todo>>
history == <<hurt, missing, unlucky, slipped>>
vars == <<parser, event, line, history>>

Overflow(n) == n >= MaxSize

Init ==
  /\ data = <<>> /\ length = 0 /\ crc = 0
  /\ capacity = Header /\ heap = 0
  /\ event = Nothing
  /\ now \in Messages /\ todo = <<>>
  /\ hurt = FALSE /\ missing = 0 /\ unlucky = FALSE /\ slipped = FALSE

-----------------------------------------------------------------------------
(* _protocol_buffer_generate_byte_by_byte                                  *)

BugDropOneMore == length > 0
MoreToDrop == length > 1

BugFull == capacity < Len(data)
Full == capacity <= Len(data)

\* _protocol_buffer_alloc: a block that was freed comes back as it was.
NewSize == IF heap # 0 /\ Full THEN (2 * capacity + Header) % Width ELSE capacity

\* _try_garbage_collection_protocol_buffer, n being the capacity
BugNoGc(n) == FALSE
Collected(n) == n > GcSize

Reset == data' = <<>> /\ length' = 0 /\ crc' = 0

Collect(n) ==
  IF Collected(n) THEN heap' = 0 /\ capacity' = Header
                  ELSE heap' = n /\ capacity' = n

Allocate == heap' = NewSize /\ capacity' = NewSize

\* "protect heap use": the rest of a frame that has grown too large is counted
\* and not stored.
Drop ==
  /\ event' = Nothing
  /\ IF MoreToDrop
     THEN length' = length - 1 /\ UNCHANGED <<data, crc, capacity, heap>>
     ELSE Reset /\ Collect(capacity)

BugAnyByte(c) == TRUE
SyncFits(c) == c = Sync[Len(data) + 1]

\* A byte that does not fit is not tried as the first one.
SyncByte(c) ==
  /\ Len(data) < Len(Sync)
  /\ Allocate
  /\ event' = Nothing
  /\ IF SyncFits(c)
     THEN data' = Append(data, c) /\ UNCHANGED <<length, crc>>
     ELSE Reset

\* buffer[index++] = c, with len bytes to come and the CRC so far; the frame is
\* processed when it is complete.
Store(c, len, code) ==
  LET frame == Append(data, c) IN
  IF Len(frame) >= Header /\ len = 0
  THEN event' = Processed(frame) /\ Reset /\ Collect(NewSize)
  ELSE /\ event' = Nothing
       /\ data' = frame /\ length' = len /\ crc' = code
       /\ Allocate

FieldByte(c) ==
  /\ Len(data) \in Len(Sync)..(LenIdx - 1)
  /\ Store(c, length, crc)

LengthByte(c) ==
  \/ Len(data) = LenIdx     /\ Store(c, c * Base, crc)
  \/ Len(data) = LenIdx + 1 /\ Store(c, length + c, crc)
  \/ Len(data) = LenIdx + 2 /\ Store(c, length, c * Base)

BugHighByteOnly(code) == crc = LenCrc(length)
LenCrcValid(code) == code = LenCrc(length)

\* The last byte of the header: a wrong length would swallow what follows.
CrcByte(c) ==
  /\ Len(data) = LenIdx + 3
  /\ IF LenCrcValid(crc + c)
     THEN Store(c, length, crc + c)
     ELSE event' = Answer("junk", data[SeqIdx]) /\ Reset /\ Allocate

PayloadByte(c) ==
  /\ Len(data) >= Header /\ length > 0
  /\ Store(c, length - 1, crc)

Parse(c) ==
  IF Overflow(capacity) THEN Drop
  ELSE SyncByte(c) \/ FieldByte(c) \/ LengthByte(c) \/ CrcByte(c) \/ PayloadByte(c)

-----------------------------------------------------------------------------
(* The line                                                                *)

\* The largest frame that is handled: one byte more than the largest size below
\* the limit in the series Header, 3 * Header, 7 * Header, ...
Sizes == {n \in 1..(MaxSize - 1) : \E k \in 1..16 : n = Header * (2^k - 1)}
Largest == 1 + CHOOSE n \in Sizes : \A i \in Sizes : i <= n
Fits(m) == Header + Len(m.payload) <= Largest

\* A sync pattern within a frame, or the beginning of one at its end.
FalseStart(m) ==
  LET f == FrameOf(m) IN
  \E i \in 2..Len(f) : \A j \in 1..Len(Sync) : i + j - 1 <= Len(f) => f[i + j - 1] = Sync[j]

\* A wrong length has passed its CRC: four bytes that were sent as something else.
Misled ==
  /\ Len(data) < Header /\ Len(data') = Header
  /\ SubSeq(data', LenIdx + 1, Header) # SubSeq(FrameOf(now), LenIdx + 1, Header)

FrameEnds == todo # <<>> /\ todo' = <<>>

\* A frame that means at its last byte what it was sent for ends the trouble.
Understands == event' = Meaning(now) /\ todo' = <<>>

Account(damage, slip) ==
  IF Understands
  THEN hurt' = FALSE /\ missing' = 0 /\ unlucky' = FALSE /\ slipped' = FALSE
  ELSE /\ hurt' = (hurt \/ damage)
       /\ missing' = IF FrameEnds /\ Fits(now) /\ missing < 3 THEN missing + 1 ELSE missing
       /\ unlucky' = (unlucky \/ Misled \/ (hurt' /\ FrameEnds /\ FalseStart(now)))
       /\ slipped' = (slipped \/ slip)

\* _assemble_and_send_frame of the peer
Send(m) ==
  /\ todo = <<>>
  /\ ~ Overflow(Header + Len(m.payload))
  /\ now' = m /\ todo' = FrameOf(m)
  /\ event' = Nothing
  /\ UNCHANGED <<parser, history>>

Arrive ==
  /\ todo # <<>>
  /\ Parse(Head(todo))
  /\ todo' = Tail(todo) /\ UNCHANGED now
  /\ Account(FALSE, FALSE)

NextByte == IF todo = <<>> THEN {} ELSE {Head(todo)}

\* One damage at a time: the line behaves until a frame was understood.
Garble ==
  /\ ~ hurt /\ todo # <<>>
  /\ \E c \in Byte \ NextByte : Parse(c)
  /\ todo' = Tail(todo) /\ UNCHANGED now
  /\ Account(TRUE, FALSE)

LoseByte ==
  /\ ~ hurt /\ todo # <<>>
  /\ event' = Nothing
  /\ todo' = Tail(todo) /\ UNCHANGED <<parser, now>>
  /\ Account(TRUE, TRUE)

\* A byte the peer did not send.  One like the next is the same as one after it.
Noise ==
  /\ ~ hurt
  /\ \E c \in Byte \ NextByte : Parse(c)
  /\ UNCHANGED line
  /\ Account(TRUE, TRUE)

Next ==
  \/ \E m \in Messages : Send(m)
  \/ Arrive
  \/ Garble \/ LoseByte \/ Noise

Spec == Init /\ [][Next]_vars

-----------------------------------------------------------------------------
(* Properties                                                              *)

\* The assembler's statics and its block, the line and the history.
TypeOK ==
  /\ data \in Seq(Byte) /\ length \in 0..(Width - 1) /\ crc \in 0..(Width - 1)
  /\ capacity \in Nat /\ heap \in Nat
  /\ event \in Event
  /\ now \in Messages /\ todo \in Seq(Byte)
  /\ hurt \in BOOLEAN /\ missing \in 0..3 /\ unlucky \in BOOLEAN /\ slipped \in BOOLEAN

\* The block is as large as protocol_buffer_length says or does not exist.
BlockInv ==
  /\ heap \in {0, capacity}
  /\ heap = 0 => data = <<>>
  /\ capacity >= Header
  /\ Len(data) <= Header => capacity <= GcSize

\* The length is read digit by digit, and counts down once it is known.
LengthInv ==
  /\ Len(data) <= LenIdx => length = 0
  /\ Len(data) = LenIdx + 1 => \E c \in Byte : length = c * Base
  /\ Len(data) <= LenIdx + 2 => crc = 0
  /\ Len(data) = LenIdx + 3 => \E c \in Byte : crc = c * Base
  /\ Len(data) >= Header => length > 0

\* Every byte that is stored lands inside the allocated block (:713-755), however
\* the frame and the block grow, shrink and are given back.
InBlock == Len(data) <= heap

\* The limit is looked at before the block grows (:689), so the block may exceed
\* it, but by one growth only; between frames no large block is kept (:566).
HeapBound ==
  /\ heap < 2 * MaxSize + Header
  /\ data = <<>> => heap <= GcSize

\* The inductive invariant: with BlockInv and LengthInv every byte lands in the
\* block that was allocated for it.
IInv == TypeOK /\ BlockInv /\ LengthInv /\ InBlock

\* On an undamaged line the assembler is between two frames when the line is: it
\* has counted every byte of the frame, those it dropped (:691) included, and
\* what it holds of a frame is what has come of it.
InStep ==
  ~ hurt =>
    /\ todo = <<>> => data = <<>> /\ length = 0 /\ ~ Overflow(capacity)
    /\ ~ Overflow(capacity) => data \o todo \in {<<>>, FrameOf(now)}

\* Without damage every frame that fits is handled (:656, :759), as what the peer
\* meant by it, and none is asked for again (:739).
AsMeant == ~ hurt => event \in {Nothing, Meaning(now)}
NothingToRepair == AsMeant /\ (~ hurt => missing = 0)

\* A byte that arrives as another one makes of a frame what CommProtocol supposes
\* and nothing worse: no command or payload that was not sent, and no other frame
\* taken for an acknowledgement.  Shifted bytes are another matter, and so is a frame
\* within a frame.
OneByteDamage ==
  event # Nothing /\ ~ slipped /\ ~ unlucky =>
    event \in MayBecome(now) \/ FalseStart(now)

\* One byte damaged, lost or too many costs two frames in a row at most, unless
\* a frame that was missed has a false start in it (:710) or the bytes at the
\* place of the length are a valid length that was not sent (:736).
TwoInARow == missing > 2 => unlucky
================================================================================
