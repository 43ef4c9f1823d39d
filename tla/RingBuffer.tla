------------------------------ MODULE RingBuffer ------------------------------
(***************************************************************************)
(* app/src/uni_uart.c and utils/ringbuf/src/uni_ringbuf.c: the thread that *)
(* reads the UART (_recv_task, the writer) and the thread that feeds the   *)
(* frame assembler (_protocol_stack_parse_task, the reader) share a ring   *)
(* buffer without a lock.  The writer alone changes head, the reader alone *)
(* changes tail, and each looks at the other's index while it may be       *)
(* moving.                                                                 *)
(*                                                                         *)
(* A byte is the number of its arrival, so that a byte lost, repeated,     *)
(* overtaken or overwritten shows.  Stores become visible in the order of  *)
(* the program.  memcpy may move its bytes in any order.                   *)
(***************************************************************************)
EXTENDS Integers, Sequences

CONSTANTS
  Capacity,   \* RingBufferCreate(Capacity)
  MaxChunk,   \* size of the buffer the UART is read into
  MaxRead,    \* size of the buffer the ring buffer is read into
  MaxBytes    \* bound: bytes that arrive

ASSUME SizesAssumption ==
  /\ Capacity \in Nat \ {0} /\ MaxChunk \in Nat /\ MaxRead \in Nat \ {0}
  /\ MaxBytes \in Nat

VARIABLES
  head,     \* the cell the next byte is written to
  tail,     \* the cell the next byte is read from
  buf,      \* the cells; 0 is what malloc left in them
  writer,   \* where the writer is, its chunk, the bytes still to be copied
  reader,   \* where the reader is, its length, the bytes still to be copied
  out,      \* the reader's static buffer
  arrived,  \* how many bytes came before the chunk in the writer's hands
  fed       \* history: the bytes given to CommProtocolReceiveUartData

vars == <<head, tail, buf, writer, reader, out, arrived, fed>>

\* RINGBBUF_FILL_BYTE_SIZE: one cell more than asked for, which stays empty.
FillByte == 1
Size == Capacity + FillByte
Cell == 0..(Size - 1)

Init ==
  /\ head = 0 /\ tail = 0
  /\ buf = [c \in Cell |-> 0]
  /\ writer = [at |-> "idle", n |-> 0, todo |-> {}]
  /\ reader = [at |-> "idle", n |-> 0, todo |-> {}]
  /\ out = [i \in 1..MaxRead |-> 0]
  /\ arrived = 0
  /\ fed = <<>>

BugDistance(h, t) == IF h >= t THEN h - t ELSE t - h
DataSize(h, t) == (h + Size - t) % Size
FreeSize(h, t) == Size - DataSize(h, t) - FillByte

\* The index n cells after p.
After(p, n) == (p + n) % Size

\* The cell of byte i of n bytes from cell p on: one memcpy, or one up to the
\* end of the buffer and one from its beginning.
CellOf(p, n, i) ==
  IF After(p, n) >= p \/ i < Size - p THEN p + i ELSE i - (Size - p)

-----------------------------------------------------------------------------
(* _recv_task and RingBufferWrite                                          *)

\* read(uart_fd, ...) returns n bytes.
Recv(n) ==
  /\ writer.at = "idle"
  /\ arrived + n <= MaxBytes
  /\ writer' = [at |-> "look", n |-> n, todo |-> {}]
  /\ UNCHANGED <<head, tail, buf, reader, out, arrived, fed>>

BugAlwaysRoom(n) == TRUE
HasRoom(n) == FreeSize(head, tail) > n

\* A chunk that would fill the buffer is dropped ("uart ringbuf full").
LookForRoom ==
  /\ writer.at = "look"
  /\ IF HasRoom(writer.n)
     THEN /\ writer' = [writer EXCEPT !.at = "check"]
          /\ UNCHANGED arrived
     ELSE /\ writer' = [writer EXCEPT !.at = "idle"]
          /\ arrived' = arrived + writer.n
  /\ UNCHANGED <<head, tail, buf, reader, out, fed>>

WriteOverflow == FreeSize(head, tail) < writer.n

\* RingBufferWrite looks again; its result is ignored, so that a chunk it
\* refused would be lost without a word.
CheckWrite ==
  /\ writer.at = "check"
  /\ IF WriteOverflow
     THEN /\ writer' = [writer EXCEPT !.at = "idle"]
          /\ arrived' = arrived + writer.n
     ELSE /\ writer' = [writer EXCEPT !.at = "copy", !.todo = 0..(writer.n - 1)]
          /\ UNCHANGED arrived
  /\ UNCHANGED <<head, tail, buf, reader, out, fed>>

WriteByte ==
  /\ writer.at = "copy"
  /\ \E i \in writer.todo :
       /\ buf' = [buf EXCEPT ![CellOf(head, writer.n, i)] = arrived + i + 1]
       /\ writer' = [writer EXCEPT !.todo = @ \ {i}]
  /\ UNCHANGED <<head, tail, reader, out, arrived, fed>>

\* RINGBBUF_ATTR_SYNC: the reader may now see the chunk.
MoveHead ==
  /\ writer.at = "copy" /\ writer.todo = {}
  /\ head' = After(head, writer.n)
  /\ arrived' = arrived + writer.n
  /\ writer' = [writer EXCEPT !.at = "idle"]
  /\ UNCHANGED <<tail, buf, reader, out, fed>>

WriterStep == LookForRoom \/ CheckWrite \/ WriteByte \/ MoveHead

-----------------------------------------------------------------------------
(* _protocol_stack_parse_task and RingBufferRead                           *)

BugWholeBuffer(len) == MaxRead
AtMostRead(len) == IF len > MaxRead THEN MaxRead ELSE len

BugWaitForMore(len) == len < MaxRead
NothingThere(len) == len = 0

LookForData ==
  LET len == DataSize(head, tail) IN
  /\ reader.at = "idle"
  /\ ~NothingThere(len)
  /\ reader' = [at |-> "check", n |-> AtMostRead(len), todo |-> {}]
  /\ UNCHANGED <<head, tail, buf, writer, out, arrived, fed>>

ReadOverflow == DataSize(head, tail) < reader.n

\* The reader gives the first reader.n bytes of its buffer to
\* CommProtocolReceiveUartData, which does not touch the ring buffer.
Feed == fed' = fed \o SubSeq(out, 1, reader.n)

\* RingBufferRead looks again; its result is ignored, so that after a refusal
\* the assembler would be fed what the buffer held before.
CheckRead ==
  /\ reader.at = "check"
  /\ IF ReadOverflow
     THEN /\ reader' = [reader EXCEPT !.at = "idle"]
          /\ Feed
     ELSE /\ reader' = [reader EXCEPT !.at = "copy", !.todo = 0..(reader.n - 1)]
          /\ UNCHANGED fed
  /\ UNCHANGED <<head, tail, buf, writer, out, arrived>>

ReadByte ==
  /\ reader.at = "copy"
  /\ \E i \in reader.todo :
       /\ out' = [out EXCEPT ![i + 1] = buf[CellOf(tail, reader.n, i)]]
       /\ reader' = [reader EXCEPT !.todo = @ \ {i}]
  /\ UNCHANGED <<head, tail, buf, writer, arrived, fed>>

\* RINGBBUF_ATTR_SYNC: the writer may now use the cells; then feed the bytes.
MoveTail ==
  /\ reader.at = "copy" /\ reader.todo = {}
  /\ tail' = After(tail, reader.n)
  /\ Feed
  /\ reader' = [reader EXCEPT !.at = "idle"]
  /\ UNCHANGED <<head, buf, writer, out, arrived>>

ReaderStep == LookForData \/ CheckRead \/ ReadByte \/ MoveTail

\* All bytes have arrived and been fed; the reader polls for ever.
Finished ==
  /\ writer.at = "idle" /\ arrived = MaxBytes
  /\ reader.at = "idle" /\ NothingThere(DataSize(head, tail))
  /\ UNCHANGED vars

Next == \/ \E n \in 1..MaxChunk : Recv(n)
        \/ WriterStep \/ ReaderStep \/ Finished

Spec == Init /\ [][Next]_vars

\* The reader's thread keeps running.
FairSpec == Spec /\ WF_vars(ReaderStep)
-----------------------------------------------------------------------------
(* Properties                                                              *)

Places == {"idle", "look", "check", "copy"}
Job == [at : Places, n : Nat, todo : SUBSET Nat]

\* Every variable keeps its shape; no index leaves the buffer.
TypeOK ==
  /\ head \in Cell /\ tail \in Cell
  /\ buf \in [Cell -> Nat]
  /\ writer \in Job /\ reader \in Job
  /\ out \in [1..MaxRead -> Nat]
  /\ arrived \in Nat
  /\ fed \in Seq(Nat)

\* memcpy never leaves the buffer, and the writer never writes to a cell with
\* an unread byte, in particular to none the reader is copying from.
NoOverlap ==
  /\ \A i \in writer.todo :
       /\ CellOf(head, writer.n, i) \in Cell
       /\ \A j \in 0..(DataSize(head, tail) - 1) :
            CellOf(head, writer.n, i) # After(tail, j)
  /\ \A i \in reader.todo : CellOf(tail, reader.n, i) \in Cell

\* The tasks may ignore the results of RingBufferWrite and RingBufferRead:
\* what they have seen before still holds when these look again.
ResultsMayBeIgnored ==
  /\ writer.at = "check" => ~WriteOverflow
  /\ reader.at = "check" => ~ReadOverflow

\* The bytes the reader may see.
Unread == [i \in 1..DataSize(head, tail) |-> buf[After(tail, i - 1)]]

\* The bytes fed to the assembler are those of the line but for chunks that
\* found no room, in order and each once.
Pipe == INSTANCE BytePipe WITH pipe <- Unread
PipeSpec == Pipe!Spec

\* A byte that was kept is fed to the assembler, even if no other follows it.
KeptIsFed ==
  \A b \in 1..MaxBytes :
    (\E i \in DOMAIN Unread : Unread[i] = b) ~> (\E i \in DOMAIN fed : fed[i] = b)

-----------------------------------------------------------------------------
(* Why they hold: an inductive invariant                                   *)

\* What each thread has seen of the other's index errs on the safe side.
RoomInv ==
  /\ DataSize(head, tail) < Capacity
  /\ writer.at \in {"check", "copy"} =>
       DataSize(head, tail) + writer.n < Capacity
  /\ writer.at # "idle" => writer.n \in 1..MaxChunk
  /\ reader.at # "idle" => reader.n \in 1..MaxRead /\ reader.at # "look"
  /\ reader.at # "idle" => reader.n <= DataSize(head, tail)

\* The bytes copied so far are where they belong.
CopyInv ==
  /\ writer.todo \subseteq 0..(writer.n - 1)
  /\ writer.at = "copy" =>
       \A i \in 0..(writer.n - 1) \ writer.todo :
         buf[CellOf(head, writer.n, i)] = arrived + i + 1
  /\ writer.at # "copy" => writer.todo = {}
  /\ reader.todo \subseteq 0..(reader.n - 1)
  /\ reader.at = "copy" =>
       \A i \in 0..(reader.n - 1) \ reader.todo :
         out[i + 1] = buf[CellOf(tail, reader.n, i)]
  /\ reader.at # "copy" => reader.todo = {}

IInv == TypeOK /\ RoomInv /\ CopyInv
=============================================================================
