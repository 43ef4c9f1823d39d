# Verification of voice_iot_sdk

TLA+ models of the SDK that connects a speech chip ("hbm") to a host device
over a serial line, the TLC runs that check them on small instances, and TLAPS
proofs of what matters most. File names below are relative to `src/`.

    cd tla
    tlc -workers 4 -config comm_lossy.cfg MC_CommProtocol
    tlapm CommHistory_proofs.tla

`PROJECT.json` lists every run with its properties, the mutants that show each
property can fail, the source lines each definition stands for, the hazards and
the theorems.

## 1. The system

    _recv_task thread        read(fd), 256 bytes          app/src/uni_uart.c
         | RingBufferWrite (or the chunk is dropped)
    ring buffer, 1024 bytes                               utils/ringbuf
         | RingBufferRead, at most 128 bytes
    protocol thread          byte -> frame -> handler     sdk/channel/src/uni_communication.c
         | ACK / NACK back to the line, or
         | ChnlReceiveCommProtocolPacket -> EventListAdd  sdk/channel/src/uni_channel.c
    three event lists, one worker thread each             utils/event_list
         | application callback
    application threads      ChnlIotDeviceFeedAudioData, ... -> CommProtocolPacketAssembleAndSend

| Component | State | Operations | Hard because |
|---|---|---|---|
| frame protocol (`uni_communication.c`) | sequence counter, acked flag, `current_acked_seq`, `last_recv_packet_seq`, semaphore of the interruptable sleep, `app_send_sync_lock`, `write_sync_lock` | `CommProtocolPacketAssembleAndSend`, `_one_protocol_frame_process`, retry and NACK handling | several senders and the protocol thread share flags without a lock; frames and answers are lost, damaged, late; restarts |
| frame assembler (`:558-765`) | statics: index, length, length CRC, growing buffer | one byte at a time | resynchronisation after damage, growth and limits, dropping what is too long |
| frame format (`:289-401`, `:476-556`), CRC-16 (`:150-193`) | none | assemble, disassemble, checksum | the receiver blanks the checksum and computes it again; acknowledgements are used without a look at theirs |
| protocol set-up (`:800-857`, `ChnlInit`, `main`) | `inited`, hooks, handlers, locks | register, init, final | threads run, and the chip may send, before everything is set up |
| channel dispatch (`uni_channel.c`) | `adpcm_packet_cnt`, `rasr_start_cnt`, `rasr_stop_cnt`, three event lists | filters, `EventListAdd`, `_event_handle` | counters changed by two threads without a lock; malloc failures |
| audio feed (`uni_channel.c:325-387`) | remaining credit, query semaphore | query, push packets | a timeout looks like success; a late answer |
| event list (`uni_event_list.c`) | three lists, three counters, mutex, two semaphores, `is_running` | create, add, clear, destroy, worker loop | counters read without the mutex before sleeping; tear-down |
| ring buffer and UART threads (`uni_ringbuf.c`, `uni_uart.c`) | head, tail, cells | write, read | one writer, one reader, no lock |
| intrusive lists, logging, porting layer, demo application, build files | - | - | not modelled, see `PROJECT.json` |

What makes each correct:

- frame protocol: the application of an end is given the peer's messages in
  order and at most once; a send returns; what it returns is true; only one
  frame is on the line of an end at a time; breaks of the sleep are neither lost
  nor left behind.
- frame assembler: every byte is stored inside the block; on an undamaged line the assembler
  follows byte for byte and handles every frame that fits; after a damage it is back
  in step within a bounded number of frames.
- frame format: what the receiver makes of a frame is what the sender meant; a changed byte is
  found out.
- set-up: nothing is used before it is set up, nothing is acknowledged that is not handed on, and
  what was ignored early is still accepted later.
- channel dispatch: the counters equal the packets queued; limits hold; the
  last START/STOP the application sees is the last one sent.
- audio feed: never more bytes in flight than the chip has offered.
- event list: priorities and FIFO order; no lost wake-up; a tear-down that
  returns and leaves nobody in freed memory.
- ring buffer: the bytes read are the bytes written, in order, in whole chunks.

## 2. Modules

| Module | Models | Kind |
|---|---|---|
| `OrderedDelivery` | what the frame protocol promises: messages of an end are given to the peer in order, each at most once | abstract specification |
| `CommProtocol` | `uni_communication.c`, both ends of the line | detailed specification, implements `OrderedDelivery` |
| `CommProtocol_proofs` | theorems about it | proofs |
| `CommBudget` | `CommProtocol` with a count of the frames lost or dropped by a full line: what holds while the line loses no more than a send has retries | extension of `CommProtocol` |
| `CommHistory` | invariants of `CommProtocol` that tie what a send returns, and how long it has slept, to what was sent, answered and left behind before it | invariants |
| `CommHistory_proofs` | theorems about them | proofs |
| `PriorityQueue` | what the event list promises: one event at a time, the oldest of the highest priority | abstract specification |
| `EventList` | `uni_event_list.c`, its worker and its users | detailed specification, implements `PriorityQueue` |
| `EventList_proofs` | theorems about it | proofs |
| `BytePipe` | what the ring buffer promises: bytes come out in the order in which they went in, whole chunks may be dropped | abstract specification |
| `RingBuffer` | `uni_ringbuf.c` and the two UART threads of `uni_uart.c` | detailed specification, implements `BytePipe` |
| `RingBuffer_proofs` | theorems about it | proofs |
| `FrameCodec` | the bytes of a frame, assembled and taken apart | pure definitions |
| `Crc16` | the table and the loop of `_crc16` | pure definitions, for TLC |
| `FrameParser` | the byte assembler of `uni_communication.c`, its buffer, and a line that damages, loses and adds bytes | component, uses `FrameCodec` |
| `FrameCodec_proofs`, `FrameParser_proofs` | theorems about them | proofs |
| `ChannelDispatch` | `uni_channel.c` from the protocol thread's filters to the workers, with the counters | component |
| `AudioFeed` | `ChnlIotDeviceFeedAudioData`, its query and the answer's handler; the chip's buffer is external | component |
| `Channel` | the two at work together: callback, answers among the other packets, challenge | composition of `ChannelDispatch` and `AudioFeed` |
| `Channel_proofs` | theorems about the three | proofs |
| `Startup` | `main`, `CommProtocolInit` and `ChnlInit` against the UART threads, the workers and a chip that already sends | component |
| `Startup_proofs` | theorems about it | proofs |
| `MC_*` | model values and message sets of the runs | for TLC |

### CommProtocol

One variable per member of `g_comm_protocol_business` that matters
(`sequence`, `acked`, `currentAckedSeq`, `interruptSem`, `appSendLock`,
`writeLock`) and one for the static of `_is_duplicate_frame` (`lastRecvSeq`),
each indexed by the end of the line. `tx[t]` is where application thread `t` is
in `_write_uart`, `rx[n]` where the protocol thread of `n` is in
`_one_protocol_frame_process`, `wire[n]` the frames under way to `n`. `sent`,
`inbox` and `restarts` are history.

A thread takes one action per access to what it shares with another: the clear of the
acked flag, each lock, the write, each sleep and its outcome, the look at the flag; the
protocol thread's comparison of the numbers (`ReceiveAck`), its store of the flag
(`SetAcked`) and its break (`Break`) are three steps, because the sender may do
anything in between. `Accept` is the whole tail of the handler: the reset of
`current_acked_seq`, the duplicate filter and the application's hook.

The unit of the line is the frame. `Lose` drops one, `Corrupt` damages one
(`Damaged`): a data frame becomes the models' "junk", a frame that fails its checksum, with whatever
sequence byte, which is what the NACK carries; an acknowledgement or a NACK is used before its
checksum is looked at (`:633-651`), so it may also become the other kind, or one of another
number. That this is all one changed byte can do is `OneByteDamage` of `FrameParser`. `Restart` puts every static of
an end back to its initial value and flushes its input, as `_set_speed` does
when the port is opened. Messages have a command other than 0, as every command
of `uni_channel_common.h`; a frame with command 0 is a control frame.

Simplifications: a failed `malloc` or a payload beyond the limit
returns before anything is changed and is a stuttering step; `wire` holds at most
`WireCap` frames in a direction and a frame beyond that is lost, which is something the
line may do anyway.

### EventList

`list`, `cnt`, `mutex`, `semNewEvent`, `semExit`, `isRunning` are the members of
the object; `handlersSet` stands for the handlers `_destroy_all` resets and
`allocated` for the object itself. `_consume_one_list` is run by three callers:
the worker, `EventListClear` and `EventListDestroy`. They are the three consumers,
which share the actions `Lock`, `Look`, `Uncount`, `Deliver`, `Leave` and differ
in what `Interrupted` and `Deliver` do for them and where they go after
the lowest list. The list and its counter are changed in two steps, although
within one critical section, because `Peek` (`_all_list_empty` without the mutex)
reads one counter after the other at any time. `EventListAdd` is `AddBegin`,
`AddLock`, `AddLink`, `AddCount`, `AddSignal`: the signal is given after the mutex is
released.

The caller's contract: `EventListDestroy` starts when no add or clear is
in progress and none starts afterwards, and an event handler does not
destroy its own list. Nothing in `src/` destroys a list.

### RingBuffer

`head`, `tail` and the cells are those of `RingBuf`; `writer` is `_recv_task` and
`reader` is `_protocol_stack_parse_task`, each with the length it works with
and the bytes it has still to copy. Each looks at the other's index twice, once before the
call and once inside it (`LookForRoom` and `CheckWrite`, `LookForData` and
`CheckRead`), because the results of `RingBufferWrite` and `RingBufferRead` are
ignored; that they never fail is a property. A `memcpy` copies its bytes one by one in any order
(`WriteByte`, `ReadByte`), and the index is stored afterwards (`MoveHead`, `MoveTail`).
A byte is the number of its arrival. Assumed: stores become visible in the order
of the program. The build is for x86 without optimisation (`build.sh`, `CMakeLists.txt`), where this holds;
the code has no barriers that would make it hold elsewhere.

### FrameCodec, Crc16, FrameParser

`FrameCodec` builds a frame as `_assmeble_packet` does (`WithChecksum` with 0 in the place of the
checksum, then with the CRC of that) and takes it apart as `_one_protocol_frame_process` does
(`Processed`): an acknowledgement, else a NACK, else a packet if the checksum of the blanked frame is
the one found in it, else junk. The checksum function is a constant operator. `Crc16` is `_crc16` for bytes of any
number of bits; a table entry is computed with the rule that gives the 256 literals of the
source (polynomial 0x1021, checked entry by entry outside TLC).

`data` of `FrameParser` is what has been stored of a frame (its length is the static `index`), `length`,
`crc` and `capacity` are the other statics of `_protocol_buffer_generate_byte_by_byte`, and
`heap` is the size of the block `protocol_buffer` points to, 0 for NULL. `Parse(c)` is one call for
one byte; its cases (`Drop`, `SyncByte`, `FieldByte`, `LengthByte`, `CrcByte`, `PayloadByte`) are
its branches, each with the allocation before it and the reset and collection after it. What the
call leads to is in `event`: what `Processed` says of a complete frame, or a NACK for a length that fails its
CRC.

These are `CommProtocol`'s frames: "ack", "nack" and "data" are the `Receive` of an undamaged one,
"junk" is the `ReceiveJunk` of one that went through `Corrupt`, and a frame that leads to no
event is one that went through `Lose`. So `Lose` there includes what a damage to the frame *before*
does here. What `Damaged` of `CommProtocol` allows is `MayBecome` here.

The peer sends one message after another (`Send`, within the sender's limit), and each byte arrives (`Arrive`),
arrives as another one (`Garble`), does not arrive (`LoseByte`) or has a stray one
before it (`Noise`). One damage at a time: the next comes after a frame was understood. `hurt`,
`missing`, `unlucky` and `slipped` are history: whether there was a damage since the last frame understood, how many frames in a row
were not, whether one of two things happened that make resynchronisation take longer (a
missed frame contained or ended like a sync pattern, or four bytes that were not sent as a length passed its CRC), and
whether a byte was lost or came on top.

### Startup

`done` counts the stores `main` has made, in the order of `_uart_init`, `CommProtocolInit` and
`ChnlInit`; a thread finds of each thing whether it has been stored (`Stored`). The protocol thread
takes what has arrived in two parts, which need not be a whole frame: a frame whose first half came
before `inited` is lost. Then it looks whether somebody listens (`Ignore`), acknowledges
(`Acknowledge`), and passes the duplicate filter to the list of the packet (`Accept`). A NULL list ends the program (`NoList`):
`EventListAdd` dereferences its handle. The chip and what it does when it is not answered are external;
an acknowledgement need not reach it. `opened = FALSE` is a port that could not be opened: `_uart_init` logs it and `main` goes on.

### ChannelDispatch, AudioFeed, Channel

`ChannelDispatch` has the counters of `g_channel`, the three event lists as queues
(all packets have one priority, for which `EventList` is shown to be a queue), `recv`
for the protocol thread inside `ChnlReceiveCommProtocolPacket` and `hand[l]` for the worker of list `l` inside
`_event_handle`. `adpcm_packet_cnt++` and `--` are a load and a store each, so that either may undo the other.
`torn` and `failed` are history: a store undid a change; a packet was counted and
then lost because `malloc` failed.

`AudioFeed` has the static credit, `audio_remain_len`, the semaphore, the queries and
answers under way and the bytes in the chip's buffer. A send is one step for
leaving and one for returning: `CommProtocol` shows that it returns and, for
answers in time, that 0 means delivered. `TimeOut` has the same effect as `GetToken` on the caller, because
`uni_sem_wait` returns 0 in both cases. `troubles` counts sends that failed and waits that timed
out while the answer was still coming.

`Channel` declares no step of its own on their variables: each of its
actions is one of the actions of either, or one of both at once where the code does
both in one function (`LenAckBegin` is `Call` of the worker and `StoreLen`). The
worker of the IoT events runs the application's callback, which feeds a sound
in several calls (`app/src/main.c:35-68`). A packet is its command; the length in an answer
is kept in `answers`, in the order in which the answers pass.

## 3. Runs

Every run but those of `Startup` has deadlock checking on; the action `Finished` of each module is
the state in which everything was done and nothing is under way. `Startup` stops when the chip has said everything and
main is done, or when the program has died.

| Run | Instance | Shows |
|---|---|---|
| `comm_lossy` | three reliable messages of one end, loss, late answers, 2 retries | one break per sequence number; success means delivery unless an earlier send timed out; a send that times out has slept after all its writes but two; the invariants of `CommHistory` |
| `comm_prompt` | three threads, both ends, reliable and unreliable messages, loss, 1 retry, answers before the timeout | locks exclude; a send that times out has slept after every write; success means delivery; no break outlives its send; no false timeout and every message arrives (liveness) while no more frames are lost than there are retries |
| `comm_restart` | two messages of one end, the second reliable, two sequence numbers, loss and damage for ever, a restart of either end | the inductive invariant; implements `OrderedDelivery`; a send returns (liveness) |
| `comm_late_ack` | finding | a send returns 0 though nothing was delivered |
| `comm_double_break` | finding | two breaks of one sequence number |
| `events` | two adders, a clear, a destroy | the inductive invariant; counters; no lost wake-up; no use after free; implements `PriorityQueue`; destroy returns and every event is handled (liveness) |
| `ringbuf` | ten bytes, chunks up to 3, reads up to 2, four usable cells | the inductive invariant; the threads never meet in a cell; ignored results are harmless; implements `BytePipe`; what was kept is fed (liveness) |
| `channel` | three packets of any kind (a callback counts for two and makes two calls), chip with room for 2 bytes, one trouble, one failed `malloc` | counts stand for packets; no overrun; a START or STOP is never skipped for nothing, a challenge never waits for a sound, a feed returns (liveness) |
| `channel_limit` | finding | more ADPCM packets are cached than the limit |
| `frames` | data frames of twelve payloads, an acknowledgement and a NACK, with their checksums, in any order for ever, one damage at a time, blocks up to twice the limit | the inductive invariant with every byte inside its block; the block's bound; in step, everything understood and nothing rejected on an undamaged line; a changed byte is found out or hits an acknowledgement; one damage costs two frames, or the payload imitates a header |
| `startup` | any two messages of the chip, reliable or not, for any of the three lists, 2 retries, 2 frames on the line | nothing is used before it is stored; what is acknowledged is given to the channel; a message still resent when everything is set up is handled (liveness) |
| `startup_early` | finding | an acknowledged message for the IoT side is lost |

A run answers several questions where one instance is interesting for all of them. `comm_restart` has
`VIEW WithoutCounts`: two states that differ only in how many waits an entry of the history has counted, which no
property of the run and no action looks at, are one.

Bounds of the frame protocol. Sequence numbers are real (`SeqMod = 256`) except
where a wrap-around is the point: `comm_restart` has two, so
that numbers are reused at once, and every damaged acknowledgement is one of the number in use or of the one before. The code retries five
times (`TRY_RESEND_TIMES`); one or two retries give every order of timeouts, breaks and
answers between two writes, and the proofs hold for any number. Two
reliable sends in a row are what a leftover (break, acknowledgement, frame under way) of one needs
to meet the next. `comm_lossy` has three, because it takes two to leave two breaks for a third, and two
retries, because with fewer its bound on the sleeps says nothing; only one end sends, and that the
other may do so at the same time is left to the proofs of the same properties and to `comm_prompt`.

Bounds of the event list. Two adders and a worker are enough for two parties
to meet in each critical section; their events have any of the three priorities, so that one
arrives while one of another priority is in hand. One clear and one destroy: neither is
called twice at the same time by the contract.

Bounds of the ring buffer. Five cells, ten bytes: the indices go round twice, chunks of three
find no room while the reader is slow, and both copies run over the end of the buffer.

Bounds of the assembler. A byte has 16 values, a header twelve bytes with two sync bytes. The buffer grows three
times before the limit; growth during the
header does not happen in the code either, where the first block is a header. The sizes are chosen at the
edges: a block exactly full, one byte more, the largest frame the receiver takes, one
byte more, the largest the sender takes. The CRC is `Crc16` for four-bit
bytes, a polynomial of degree 8. Payloads contain the sync pattern, its first byte at the end, a leading 0, and a whole frame of another
command. A CRC finds every change of a single byte, whatever its width, so the narrow one takes nothing from `OneByteDamage`.

Bounds of the start. Two messages are needed for a second one to meet what the first has left in the filter;
all lists and both kinds are in `MCTalks`. Two frames on the line: one is waiting while another is in
hand. Two retries: one is ignored, one is acknowledged, and one is left for the wait that `RetriedIsHandled` is about.

Bounds of the channel. Two packets under way are needed for the two threads to
meet at a counter, three for a skipped one next to them; `MaxCached` is 2 in place of 16, and
the byte's 256 values are kept so that a decrement at 0 is what it is in the code. Two calls of up to two bytes
against a buffer of two leave credit over from one call to the next, find the buffer full and
ask again. One trouble and one failed `malloc` reach every branch that handles them; `NoOverrun` claims
nothing after a trouble.

Fairness. Threads inside a call and the protocol thread keep running (weak fairness
of each thread's step). A thread that waits for `write_sync_lock` gets it if it is
free again and again (strong fairness of `LockWrite`): two
protocol threads that answer each other's damaged NACKs can keep taking the
lock, and weak fairness would allow a sender to be passed over for ever; the lock is a POSIX
semaphore, on which a waiting thread is woken when it is posted. In
the event list, the ring buffer and the channel weak fairness of each thread is enough, with an event handler
that returns; for a feed's return the chip must empty its buffer again and again, which
`FeedReturns` has as its premise and the specification does not assume. In `Startup` the chip's timeout
ends its wait (`SayAgain`); that it hears an acknowledgement is not supposed. Nobody has to start a call and the line does not have to fail.

`AckPrompt = TRUE` means that a sleep only times out when nothing is under way and
no protocol thread is at work: the answer to a frame always comes within
`WAIT_ACK_TIMEOUT_MSEC`.

## 4. What the code does otherwise than it says

Each finding is a run TLC ends with a counterexample; `PROJECT.json` quotes the lines.

1. `comm_late_ack`: the protocol thread decides that an acknowledgement belongs to the frame under
   way and stores the flag afterwards. A sender that gives up in between
   leaves the store to the next send, which returns 0.
2. `comm_double_break`: "one sequence can only break once" does not hold when the peer
   sends an unreliable frame between two acknowledgements. The second acknowledgement that counts can also be
   stored after the next send has cleared the flag, so that this one returns 0 undelivered: with unreliable frames of
   the peer `SuccessAfterCleanHistory` fails without any loss and without any timeout.
3. `channel_limit`: `adpcm_packet_cnt` is changed by two threads without a lock. A lost increment
   lets more than the 16 packets of the comment be cached; the decrement that follows at 0
   wraps the byte to 255, and from then on every ADPCM packet is skipped.
4. `startup_early`: the receive handler is registered before the event lists exist and before the callback is
   known, while the UART threads are already running. A message for the IoT side that comes in between is
   acknowledged, and then either the program dies on a list that is NULL or the worker throws the message away; the chip's
   retry is a duplicate. (The obvious repair, to return when the list is NULL, would still lose the message; it is
   the mutant of `AcknowledgedIsGiven`. To create the lists and register the callback before the receive handler is what the order needs.)

`SuccessAfterCleanHistory`, `OneBreakPerSequence` (both without unreliable frames), `NoFalseTimeout`
(for the first frames of 256, if number 127 is not the first reliable one) and `RetriedIsHandled` (for messages no worker threw away) state how far the promises do hold.

Noticed while modelling, with no run of its own:

- Acknowledgements and NACKs are used before the checksum of the frame is looked at (`:633-651`, `:655`). One changed bit
  makes a NACK an acknowledgement, and the send returns 0 for a frame that was rejected. The order of delivery survives it (`comm_restart`);
  the truth of "success" does not, which is why `comm_prompt` has no damage.
- The comment at `:46` gives an acknowledgement a control byte of 0; the code sets the ACKED bit.
- `CHNL_MSG_IOT_NET_CONFIGURE` and `CHNL_MSG_IOT_NET_CONFIGURE_STOP` are above `CHNL_MSG_HBM_IOT_DEVICE_BASE` and go to the
  callback, so their cases in `_event_handle` are never reached.
- `porting.h` says that `uni_sem_wait` returns 0 on success and otherwise fails; it returns 0 on a timeout too.
- Without semaphore hooks `CommProtocolInit` returns 0 but does not set `inited`: everything received is thrown away.
- `current_acked_seq` starts at 127 (`uni_communication.c:808`), a sequence number: when the first
  acknowledgement that would count is that of frame 127, it is ignored and the send times out on a perfect line.
- The sender takes frames of up to 8191 bytes, the receiver none of more than 8177: its buffer grows
  to 8176, then to 16368, and the limit of 8192 is looked at before the growth. The comment at `:688`
  ("cannot alloc large than 8K") does not hold either; `HeapBound` states what does.
- A byte that does not match the sync pattern is not tried as its beginning (`:710`). A missed frame
  that ends in the first sync byte makes the next frame missed as well; `TwoInARow` names the case.
- The CRC of the length starts from 0 and does not see a shift: of a frame with a length below 256 whose payload begins with 0, with
  one header byte lost, the four bytes at the place of the length are a valid length. With `_crc16` and a payload of 12 bytes it is
  3265, and that many bytes of the following frames are swallowed. `TwoInARow` names this case too, and the payload
  `<<0, 3>>` of `frames` reaches it.
- The first frame of an end that was restarted has number 0 again; when that is what the peer's filter remembers (`:612`), it is acknowledged
  and dropped. To `OrderedDelivery` that is a lost message: the runs with restarts show the order and that nothing
  comes twice, not that everything comes.
- A `malloc` that fails behind the filters of `uni_channel.c:98` leaves its packet counted for ever. `CountsMatchPackets` has
  these failures in its balance: it shows that nothing else leaks.
- After a timed-out wait for the free space (`uni_channel.c:332`) the old value is used and the late answer is taken for the next query's. Then the chip
  may be overrun; `NoOverrun` is about the time before.

## 5. Proofs

All for any set of threads, any number of retries, messages and restarts.

`CommProtocol_proofs`:
`LocksHeld`, `TypeCorrect` (TypeOK), `Exclusion` (MutualExclusion), `InOrder` (IInv),
`Refinement` (OrderedSpec). `MutualExclusion` follows from `LockInv`: who is in a call holds
`app_send_sync_lock` and who writes holds `write_sync_lock`. For the order of delivery
the invariant needs more than the inbox: the data frames of a direction are in the
order of their messages along inbox, frame in hand and line (`WireInv`,
`HeldInv`, `InboxInv`); each carries the number of its message; and the
filter's static is the number of the last message delivered. A frame the filter lets
through then differs from the last message given, and cannot be an earlier one: it is a
later one. That a number may be reused does not matter, since a reused number only makes
the filter drop more. The constants' assumption is `ConstantsAssumption`.

`CommHistory_proofs` is about what the caller of a send is told. The first four theorems assume `OnlyLosses`: every send is
reliable, no end is restarted, and the line loses frames but does not damage them; finding 2, the restart's reuse of
numbers and a NACK damaged into an acknowledgement are why. They assume nothing of the timing.
- `BreaksOnce` (OneBreakPerSequence). `BreakInv`: once an acknowledgement of the last message has counted, its number is
  in hand or remembered in `currentAckedSeq`, and as all frames are reliable nothing resets it.
- `SuccessIsDelivery` (SuccessAfterCleanHistory). `FlowInv` follows the last message as long as the sends before it
  returned 0: what is on its way is it or a repetition of the one before, and wherever an acknowledgement with its number is,
  on the line, in hand or already the flag, the message has arrived and every later
  acknowledgement on the line is for it. So a number that wraps around, to a neighbour even with two numbers, is never
  taken for another message's. `NoFalseDuplicate` is the matching fact about the filter: neighbours have different numbers, and the
  message before was given.
- `TimeoutIsWaiting` (TimeoutMeansMostWaits) also assumes `EnoughNumbers`, no more messages than sequence
  numbers. `LeftInv` counts the breaks: those posted or about to be, and the sleeps of the call they have cut
  short, are at most two and one more for its own acknowledgement; a send leaves at most one behind, or two if its
  acknowledgement came late. Two is reached: with one retry and three messages a send gives up without having waited at all.
- `Calls` (CallsInv) has the same hypotheses and puts the three together: what the program knows of its calls while the line only loses frames.

The other four assume `Prompt`: no restart and no damage either, and that the answer to a frame comes before the timeout, but
the sends may be of both kinds. They are what finding 2 and `comm_late_ack` show not to hold when answers are late.
- `PromptBreaks` (NoBreakLeftBehind). `OneToken` says that the question of a reliable send is in one place only: on the line, in the peer's hands, on the
  way back as an acknowledgement, in the hands of the own protocol thread, or posted; and that its sender sleeps meanwhile. `PlaceSteps` says
  that it moves from each to the next and leaves the one behind, and a timeout finds all of them empty.
- `PromptTimeouts` (TimeoutMeansAllWaits). `AllWaitsInv`: a sleep that is broken finds the flag set, so a retry follows
  a timeout, and the timeouts slept through and the retries left add up.
- `PromptSuccess` (SuccessMeansDelivered), with `EnoughNumbers`. `AnswerInv`: what is asked is the last message and what is answered has
  arrived; `NamedDuplicate` says that a repeated number is that of a message the application has, which is where numbers that come round would do harm.
- `NoTimeoutInBudget` (NoFalseTimeout, about `CommBudget`), with `EnoughNumbers`. `BudgetInv` keeps an account: every frame of a
  send that has come to nothing was lost on the line or dropped by a full one, so that retries used and frames lost balance, and as long as the
  losses are within the budget the last repetition and its acknowledgement come through and count. Its hypothesis `FirstCounts` says that the first reliable
  message of a program is not the 128th: the acknowledgement with number 127 has the initial value of `current_acked_seq`
  and is taken for a repetition as long as none has counted, so such a send times out on a perfect line.

`EventList_proofs`: `Invariant` (IInv), `WakeUps` (NoLostWakeup), `Counters`
(CountsAgree), `SafeDestroy` (NoUseAfterFree), `Refinement` (QueueSpec). `PlacesInv` says
who holds the mutex and an event; `CountInv` that a counter differs from its list only by the change its
mutex holder has begun; `LifeInv` is the order of `EventListDestroy`. `NoLostWakeup` is inductive with
them: the worker goes to sleep only after it has seen all counters 0 under the mutex, when by
`CountInv` the lists are empty, and an event linked afterwards has an adder that still has to
signal.

`RingBuffer_proofs`: `Invariant` (IInv), `NoRace` (NoOverlap), `NeverRefused`
(ResultsMayBeIgnored), `Refinement` (PipeSpec), for buffers, chunks and reads of any size. `RoomInv` says that
what a thread has seen of the other's index errs on the safe side, and `CopyInv` that the bytes copied so far are
where they belong. The arithmetic rests on one lemma, that below twice the
size a remainder is found by one subtraction; with it indices advance and distances
change as on a line.

`FrameCodec_proofs`: `RoundTrip`: for every message that can be sent, any layout of the sync pattern, any byte size and any
checksum function, `Processed(FrameOf(m)) = Meaning(m)`. `Layout` says at which index of the frame each field is, `ReadBack` that two
bytes give back the number they were made of, `Bits` that a control byte gives back its bits, and `BlankFrame` that blanking
the checksum of the finished frame gives the frame it was computed over. The assumptions are `LayoutAssumption` and that the checksum is a number of
two bytes.

`FrameParser_proofs`: `Invariant` (IInv), `BoundedHeap` (HeapBound), `StaysInStep` (InStep and AsMeant),
for any layout, limits, checksum and messages. `BlockInv` ties the statics to the block and `LengthInv` says that a length is read
digit by digit, so that adding its low byte does not wrap; `RoomForOne` is the step from them to "the byte fits".
`StaysInStep` needs `FollowInv`: on an undamaged line what the assembler holds and what is still to come make the frame,
or it is dropping a frame and `length` is the number of bytes the line still holds; at the last byte `RoundTrip` says that what is made of
the frame is what was meant.
Three more theorems say what damage may cost.
- `Handled` (NothingToRepair) and `Recovery` (TwoInARow) assume `Base <= 256`, that a byte has at most eight bits. The sizes of the block are
  `Header * (2^k - 1)`, a geometric series; with bytes of eight bits an `unsigned short` can count only those with `k` up to 16, and
  the proof lists them, where a general argument would need induction. `RecoverInv` is the argument: the size of the block is
  always one of the series, and in step it is above the limit only in a frame that does not fit; after a damage the assembler is in step, is looking for a header, is
  sure to stop in what is left of this frame, or is a byte ahead or behind; each of these ends with this frame or the next, and only
  a false start or a shifted length that passes its CRC (`unlucky`) leads out of them.
- `OneByte` (OneByteDamage) has no further hypothesis. `OneByteInv`: with one wrong byte the assembler holds the frame as sent but for
  that byte, or is looking for a header. A wrong length or a wrong CRC of it is rejected, everything else is in the checksum, and only an answer is used
  before its checksum is looked at. What a CRC must be for that is `DamageAssumption`: it tells two bytes, and a frame with a blank
  checksum, from the same with another byte in one place. A CRC of 16 bits finds every error within 16 bits in a row; TLC evaluates the assumption with
  the narrow CRC and the messages of `frames`.

`Startup_proofs`: `Invariant` (IInv) and `AcknowledgedGiven` (AcknowledgedIsGiven), for whatever the chip says and
however often. `Order` works out the sequence of the stores, and `Before` what has been stored when another thing has; `StaysStored` says
that nothing is unset. `SetUpStep` then follows from where the protocol thread may come from (`Moves`).
`AcknowledgedIsGiven` needs `RememberedIsKept`: what the filter remembers is in the hands of the channel, so that the
copy it throws away is not the only one.

`Channel_proofs`: `Composition` (Channel implements both its parts), `Invariant` (IInv),
`CountsAreRight` (CountsMatchPackets), `CreditIsSafe` (NoOverrun). Each part has its own invariant, kept by its
own steps, and by `Parts` a step of the channel is a step or a stutter of each. For the counters `PlacesInv`
says where a packet of a command may be, so that a packet in the list, in the worker's hands or in the
protocol thread's is counted once; two lemmas on the cardinality of positions say what `Append` and `Tail` do
to the count. For the credit `OneAnswer` says that a query under way has exactly one answer, wherever it is, and
`OffersFit` that credit or offer and the bytes in the chip's buffer fit in it.

Only model-checked: the liveness properties (`SendReturns`, `EveryMessageArrives`,
`RetriedIsHandled`, `DestroyReturns`, `EventuallyHandled`, `KeptIsFed`, `EveryRasrHandled`, `ChallengeAnswered`, `FeedReturns`), because fairness and ENABLED are beyond this
prover. Every invariant and every action property of the passing runs is a theorem.
Recursive definitions are avoided in the modules with proofs: the prover cannot do
induction over data and loses its SMT solver next to a RECURSIVE operator.

## 6. Not modelled, and what could follow

The plan was, in this order: frame protocol, event list, ring buffer, channel with audio feed, frame assembler, frame format with its
checksum, start-up. All of it is done. What could follow:

1. `FrameParser` behind `BytePipe`: whole chunks dropped in place of single bytes.
2. Proofs: `NoFalseTimeout` with frames that are damaged as well as lost, which with `OneByte` would join the two parts.

Not modelled:

- `CommProtocolFinal`, `UartFinalize`, `RingBufferClear`, `RingBufferDestroy`: nothing in `src/` calls them, so there is
  no state of the program to start from.
- Logging: formatting and output. Two threads that log for the first time at once may create its mutex twice, see the hazards.
- The intrusive list's pointers, used under one mutex; the models use sequences.
- The porting layer: its effect is in the models. The deadline of a timed wait is on the clock of the day, which may be set; the models let a sleep
  end at any time.
- The demo's file reading, and the build files.

The channel's ordering of START and STOP is modelled but not judged: a START that is skipped because an
earlier one waits may be the last command of the chip, and the last one handled a STOP. The comment at
`sdk/channel/src/uni_channel.c:379` that all packets but the last have 512 bytes is not what the code does when the
chip's free space is no multiple of 512, or 0; no run is spent on it.
