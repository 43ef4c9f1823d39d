------------------------------ MODULE FrameCodec ------------------------------
(***************************************************************************)
(* A frame of sdk/channel/src/uni_communication.c as bytes, and what the   *)
(* receiver makes of them:                                                 *)
(*    Sync, sequence, control, cmd, checksum, payload length, its CRC,     *)
(*    payload                                                              *)
(* with two bytes, the high one first, for cmd and the last three fields   *)
(* of the header.  The checksum is the CRC of the frame with zeros in its  *)
(* place.  Pure definitions: FrameParser has the state.                    *)
(***************************************************************************)
EXTENDS Integers, Sequences

CONSTANTS
  Base,      \* values of a byte: 256
  Sync,      \* g_sync
  Crc16(_)   \* _crc16 of a sequence of bytes

Byte == 0..(Base - 1)
Width == Base * Base      \* unsigned short
U16 == 0..(Width - 1)

SeqIdx == Len(Sync) + 1
ControlIdx == Len(Sync) + 2
CmdIdx == Len(Sync) + 3
ChecksumIdx == Len(Sync) + 5
LenIdx == Len(Sync) + 6   \* bytes in front of the length
Header == LenIdx + 4      \* sizeof(struct header)

ASSUME LayoutAssumption ==
  /\ Base \in Nat /\ Base > 7
  /\ Sync \in Seq(Byte) /\ Len(Sync) > 0

Bytes(n) == <<n \div Base, n % Base>>
Value(hi, lo) == hi * Base + lo
Field(f, i) == Value(f[i], f[i + 1])

\* What _assemble_and_send_frame is called with: by an application with a command
\* and a payload, by the protocol thread for an acknowledgement or a nack.
Message == [seq : Byte, rel : BOOLEAN, ack : BOOLEAN, nack : BOOLEAN,
            cmd : U16, payload : Seq(Byte)]

IsData(m) == ~ m.ack /\ ~ m.nack

\* Applications send commands, and uni_channel_common.h has none that is 0; the
\* protocol thread's answers have no command and no payload.
Sendable(m) ==
  /\ m \in Message
  /\ Header + Len(m.payload) < Width
  /\ IsData(m) => m.cmd # 0
  /\ ~ IsData(m) => m.cmd = 0 /\ m.payload = <<>> /\ ~ m.rel /\ ~ (m.ack /\ m.nack)

-----------------------------------------------------------------------------
(* _assmeble_packet                                                        *)

Bit(b, i) == IF b THEN 2^i ELSE 0

\* _control_set on a header of zeros
Control(m) == Bit(m.rel, 0) + Bit(m.ack, 1) + Bit(m.nack, 2)

LenCrc(n) == Crc16(Bytes(n))

Fields(m, checksum) == <<m.seq, Control(m)>> \o Bytes(m.cmd) \o Bytes(checksum)

WithChecksum(m, checksum) ==
  Sync \o Fields(m, checksum) \o Bytes(Len(m.payload)) \o Bytes(LenCrc(Len(m.payload)))
       \o m.payload

\* _checksum_calc: over the frame with no checksum in it
Checksum(m) == Crc16(WithChecksum(m, 0))

FrameOf(m) == WithChecksum(m, Checksum(m))

-----------------------------------------------------------------------------
(* _one_protocol_frame_process, on the bytes of a complete frame           *)

BugBitAbove(control, i) == (control \div 2^(i + 1)) % 2 = 1
IsBitSet(control, i) == (control \div 2^i) % 2 = 1

\* Acknowledgements and nacks: no command and no payload.  Their checksum is not
\* looked at.
Says(f, i) ==
  /\ Field(f, CmdIdx) = 0
  /\ Field(f, LenIdx + 1) = 0
  /\ IsBitSet(f[ControlIdx], i)

IsAcked(f) == Says(f, 1)
IsNacked(f) == Says(f, 2)

Blank(f) == [f EXCEPT ![ChecksumIdx] = 0, ![ChecksumIdx + 1] = 0]

BugHeaderOnly(f) == Crc16(SubSeq(Blank(f), 1, Header)) = Field(f, ChecksumIdx)
ChecksumValid(f) == Crc16(Blank(f)) = Field(f, ChecksumIdx)

\* What the protocol thread does next (CommProtocol), and with which number: an
\* acknowledgement or a nack of frame seq, a packet for the application, or
\* nothing but a nack to be sent.
Answer(kind, seq) ==
  [kind |-> kind, seq |-> seq, rel |-> FALSE, cmd |-> 0, payload |-> <<>>]
Nothing == Answer("none", 0)
Event == [kind : {"none", "ack", "nack", "data", "junk"}, seq : Byte,
          rel : BOOLEAN, cmd : U16, payload : Seq(Byte)]
Packet(seq, rel, cmd, payload) ==
  [kind |-> "data", seq |-> seq, rel |-> rel, cmd |-> cmd, payload |-> payload]

\* _packet_disassemble
Disassembled(f) ==
  Packet(f[SeqIdx], IsBitSet(f[ControlIdx], 0), Field(f, CmdIdx),
         SubSeq(f, Header + 1, Len(f)))

Processed(f) ==
  CASE IsAcked(f) -> Answer("ack", f[SeqIdx])
    [] ~ IsAcked(f) /\ IsNacked(f) -> Answer("nack", f[SeqIdx])
    [] ~ IsAcked(f) /\ ~ IsNacked(f) ->
         IF ChecksumValid(f) THEN Disassembled(f) ELSE Answer("junk", f[SeqIdx])

-----------------------------------------------------------------------------
(* What both ends should agree on                                          *)

\* What the sender of m means the receiver to do.
Meaning(m) ==
  IF m.ack THEN Answer("ack", m.seq)
  ELSE IF m.nack THEN Answer("nack", m.seq)
  ELSE Packet(m.seq, m.rel, m.cmd, m.payload)

\* What one damaged byte may make of m: itself (a checksum nobody looks at),
\* nothing, something that is answered with a nack, of whatever number; an
\* acknowledgement may also become a nack, or the other way round, or one of
\* another number.  This is the damage of CommProtocol.
MayBecome(m) ==
  LET e == Meaning(m) IN
  {Nothing, e} \cup {Answer("junk", s) : s \in Byte} \cup
  (IF IsData(m) THEN {} ELSE {Answer(kind, m.seq) : kind \in {"ack", "nack"}}
                             \cup {Answer(e.kind, s) : s \in Byte})
===============================================================================
