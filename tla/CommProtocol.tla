----------------------------- MODULE CommProtocol -----------------------------
(***************************************************************************)
(* sdk/channel/src/uni_communication.c: the stop-and-wait frame protocol   *)
(* of the serial line.  Each end of the line runs                          *)
(*   - application threads, which call CommProtocolPacketAssembleAndSend   *)
(*     and block until the frame is acknowledged or the retries are used   *)
(*     up, one at a time behind app_send_sync_lock;                        *)
(*   - one protocol thread, which takes the received frames in order and   *)
(*     runs _one_protocol_frame_process on each.                           *)
(* The two share g_comm_protocol_business: the acked flag, the sequence    *)
(* counter and the semaphore of the interruptable sleep.  Only the writes  *)
(* to the line are protected from each other, by write_sync_lock.          *)
(*                                                                         *)
(* The line is FIFO.  It may lose or damage a frame.  A damaged data frame *)
(* fails _checksum_valid or _is_payload_len_crc16_valid ("junk"); a        *)
(* damaged control frame may pass for another one, because nothing looks   *)
(* at its checksum.  Bytes are the business of FrameCodec and FrameParser; *)
(* here the unit is the frame.                                             *)
(***************************************************************************)
EXTENDS Integers, Sequences

CONSTANTS
  Task,         \* the application threads
  Home,         \* Home[t]: the end on which thread t runs
  None,         \* nobody holds the lock
  SeqMod,       \* number of values of CommSequence, an unsigned char
  RetryTimes,   \* TRY_RESEND_TIMES
  MaxSends,     \* bound: messages each end hands over
  Reliable,     \* Reliable[n]: those of n sent with attribute.reliable set
  WireCap,      \* bound: frames under way in one direction; more are lost
  Faults,       \* what the line does: a subset of {"lose", "corrupt"}
  AckPrompt,    \* the answer to a frame takes less than WAIT_ACK_TIMEOUT_MSEC
  Restarts      \* the ends that may be restarted, at most MaxRestarts in all
CONSTANT MaxRestarts

Node == {"dev", "hbm"}
Peer(n) == IF n = "dev" THEN "hbm" ELSE "dev"

ASSUME ConstantsAssumption ==
  /\ Home \in [Task -> Node]
  /\ None \notin Task \cup Node /\ Task \cap Node = {}
  /\ SeqMod \in Nat /\ SeqMod > 1
  /\ RetryTimes \in Nat
  /\ MaxSends \in [Node -> Nat]
  /\ WireCap \in Nat \ {0}
  /\ AckPrompt \in BOOLEAN
  /\ MaxRestarts \in Nat

VARIABLES
  sequence,         \* the number of the next frame
  acked,            \* the frame under way has been acknowledged
  currentAckedSeq,  \* the number last acknowledged, or -1
  lastRecvSeq,      \* last_recv_packet_seq, the number last received, or -1
  interruptSem,     \* the semaphore of the interruptable sleep
  appSendLock,      \* the holder of app_send_sync_lock, or None
  writeLock,        \* the holder of write_sync_lock, or None
  tx,               \* tx[t]: where thread t is in _write_uart
  rx,               \* rx[n]: where n's protocol thread is, and its frame
  wire,             \* wire[n]: the frames under way to n
  restarts,         \* restarts so far
  sent,             \* history: sent[n][i], what became of n's i-th message
  inbox             \* history: the messages given to n since it was started

protocolVars == <<sequence, acked, currentAckedSeq, lastRecvSeq, interruptSem>>
lockVars == <<appSendLock, writeLock>>
vars == <<protocolVars, lockVars, tx, rx, wire, restarts, sent, inbox>>

-----------------------------------------------------------------------------
(* Frames and sequence numbers                                             *)

Seqs == 0..(SeqMod - 1)

Frame == [type : {"data", "ack", "nack", "junk"},
          seq : Seqs, rel : BOOLEAN, msg : Nat]

\* Where a thread is in _write_uart, with the message and the retries it has
\* left; where the protocol thread is, with the frame it is at work on.
Sender == [at : {"idle", "clear", "lock", "write", "wait", "check"},
           msg : Nat, tries : 0..RetryTimes]
Parser == [at : {"idle", "flag", "break", "lock", "write", "accept"},
           frame : Frame]

\* What is recorded of a message: its number and reliable bit, what the call
\* returned, whether the peer's application was given it, how many of its
\* acknowledgements counted and how many timeouts its sender slept through.
Entry == [seq : Seqs, rel : BOOLEAN, res : {"pending", "ok", "timeout"},
          got : BOOLEAN, breaks : Nat, waits : Nat]

DataFrame(e, m) == [type |-> "data", seq |-> e.seq, rel |-> e.rel, msg |-> m]
Control(kind, s) == [type |-> kind, seq |-> s, rel |-> FALSE, msg |-> 0]

BugSameSeq(s) == s
NextSeq(s) == (s + 1) % SeqMod

\* _current_sequence_get: the number of the frame under way.
CurrentSeq(n) == (sequence[n] + SeqMod - 1) % SeqMod

\* ((CommSequence)-1) >> 1
BugFirstSeq == 0
NoAckedSeq == (SeqMod - 1) \div 2

\* Writing to the line; the result of on_write is not looked at.
Put(w, n, f) == [w EXCEPT ![Peer(n)] = IF Len(@) < WireCap THEN Append(@, f)
                                                           ELSE @]

\* The frame a thread resends is the packet it assembled.
PacketOf(t) == DataFrame(sent[Home[t]][tx[t].msg], tx[t].msg)

AtRest == [at |-> "idle", frame |-> Control("junk", 0)]
Resting == [at |-> "idle", msg |-> 0, tries |-> 0]

Init ==
  /\ sequence = [n \in Node |-> 0]
  /\ acked = [n \in Node |-> FALSE]
  /\ currentAckedSeq = [n \in Node |-> NoAckedSeq]
  /\ lastRecvSeq = [n \in Node |-> -1]
  /\ interruptSem = [n \in Node |-> 0]
  /\ appSendLock = [n \in Node |-> None]
  /\ writeLock = [n \in Node |-> None]
  /\ tx = [t \in Task |-> Resting]
  /\ rx = [n \in Node |-> AtRest]
  /\ wire = [n \in Node |-> <<>>]
  /\ restarts = 0
  /\ sent = [n \in Node |-> <<>>]
  /\ inbox = [n \in Node |-> <<>>]

-----------------------------------------------------------------------------
(* An application thread in CommProtocolPacketAssembleAndSend.  The early  *)
(* returns of _assemble_and_send_frame (payload too long, no memory) come  *)
(* before anything is changed and are stuttering steps.                    *)

BugAlwaysFree(lock) == TRUE
Free(lock) == lock = None

\* Take app_send_sync_lock and assemble the packet: _sequence_set takes the
\* next number, _control_set the reliable bit.
SendBegin(t) ==
  LET n == Home[t]
      m == Len(sent[n]) + 1
      rel == m \in Reliable[n] IN
  /\ tx[t].at = "idle"
  /\ Free(appSendLock[n])
  /\ m <= MaxSends[n]
  /\ appSendLock' = [appSendLock EXCEPT ![n] = t]
  /\ sequence' = [sequence EXCEPT ![n] = NextSeq(@)]
  /\ sent' = [sent EXCEPT ![n] = Append(@,
       [seq |-> sequence[n], rel |-> rel, res |-> "pending",
        got |-> FALSE, breaks |-> 0, waits |-> 0])]
  /\ tx' = [tx EXCEPT ![t] = [at |-> IF rel THEN "clear" ELSE "lock",
                              msg |-> m, tries |-> RetryTimes]]
  /\ UNCHANGED <<acked, currentAckedSeq, lastRecvSeq, interruptSem,
                 writeLock, rx, wire, restarts, inbox>>

\* _unset_acked_sync_flag, before the first write of a reliable frame.
BugFlagKept == TRUE
FlagAtStart == FALSE
ClearAcked(t) ==
  /\ tx[t].at = "clear"
  /\ acked' = [acked EXCEPT ![Home[t]] = @ /\ FlagAtStart]
  /\ tx' = [tx EXCEPT ![t].at = "lock"]
  /\ UNCHANGED <<sequence, currentAckedSeq, lastRecvSeq, interruptSem,
                 lockVars, rx, wire, restarts, sent, inbox>>

LockWrite(t) ==
  /\ tx[t].at = "lock"
  /\ Free(writeLock[Home[t]])
  /\ writeLock' = [writeLock EXCEPT ![Home[t]] = t]
  /\ tx' = [tx EXCEPT ![t].at = "write"]
  /\ UNCHANGED <<protocolVars, appSendLock, rx, wire, restarts, sent, inbox>>

\* CommProtocolPacketAssembleAndSend returns r and posts app_send_sync_lock.
Return(t, r) ==
  /\ tx' = [tx EXCEPT ![t] = Resting]
  /\ appSendLock' = [appSendLock EXCEPT ![Home[t]] = None]
  /\ sent' = [sent EXCEPT ![Home[t]][tx[t].msg].res = r]

\* on_write, post write_sync_lock, and on to _wait_ack: only a reliable frame
\* is waited for.
WriteFrame(t) ==
  /\ tx[t].at = "write"
  /\ wire' = Put(wire, Home[t], PacketOf(t))
  /\ writeLock' = [writeLock EXCEPT ![Home[t]] = None]
  /\ IF PacketOf(t).rel
     THEN /\ tx' = [tx EXCEPT ![t].at = "wait"]
          /\ UNCHANGED <<appSendLock, sent>>
     ELSE Return(t, "ok")
  /\ UNCHANGED <<protocolVars, rx, restarts, inbox>>

\* A sleep that is broken takes the break from the semaphore.
BugNotTaken(k) == k
Taken(k) == k - 1

\* InterruptableSleep ends: a break had been or is posted ...
WaitBreak(t) ==
  LET n == Home[t] IN
  /\ tx[t].at = "wait"
  /\ interruptSem[n] > 0
  /\ interruptSem' = [interruptSem EXCEPT ![n] = Taken(@)]
  /\ tx' = [tx EXCEPT ![t].at = "check"]
  /\ UNCHANGED <<sequence, acked, currentAckedSeq, lastRecvSeq,
                 lockVars, rx, wire, restarts, sent, inbox>>

\* Nothing is under way and no protocol thread is at work.
Quiet == \A n \in Node : wire[n] = <<>> /\ rx[n].at = "idle"

\* ... or WAIT_ACK_TIMEOUT_MSEC have passed without one.
WaitTimeout(t) ==
  LET n == Home[t] IN
  /\ tx[t].at = "wait"
  /\ interruptSem[n] = 0
  /\ AckPrompt => Quiet
  /\ tx' = [tx EXCEPT ![t].at = "check"]
  /\ sent' = [sent EXCEPT ![n][tx[t].msg].waits = @ + 1]
  /\ UNCHANGED <<protocolVars, lockVars, rx, wire, restarts, inbox>>

BugOneTryMore(k) == k >= 0
BugOneTryFewer(k) == k > 1
TriesLeft(k) == k > 0

BugNoCountdown(k) == k
OneTryLess(k) == k - 1

\* _wait_ack looks at the flag; _resend_status decides.
CheckAcked(t) ==
  LET n == Home[t] IN
  /\ tx[t].at = "check"
  /\ \/ /\ acked[n]
        /\ Return(t, "ok")
     \/ /\ ~acked[n]
        /\ TriesLeft(tx[t].tries)
        /\ tx' = [tx EXCEPT ![t].at = "lock", ![t].tries = OneTryLess(@)]
        /\ UNCHANGED <<appSendLock, sent>>
     \/ /\ ~acked[n]
        /\ ~TriesLeft(tx[t].tries)
        /\ Return(t, "timeout")
  /\ UNCHANGED <<protocolVars, writeLock, rx, wire, restarts, inbox>>

SendStep(t) == \/ ClearAcked(t) \/ LockWrite(t) \/ WriteFrame(t)
               \/ WaitBreak(t) \/ WaitTimeout(t) \/ CheckAcked(t)

-----------------------------------------------------------------------------
(* The protocol thread in _one_protocol_frame_process                      *)

\* The next frame has been put together from the received bytes.
Receive(n, kind) ==
  /\ rx[n].at = "idle"
  /\ wire[n] # <<>>
  /\ Head(wire[n]).type = kind
  /\ wire' = [wire EXCEPT ![n] = Tail(@)]

Busy(n, place) == rx' = [rx EXCEPT ![n] = [at |-> place,
                                           frame |-> Head(wire[n])]]

\* An acknowledgement counts if it is for the frame under way, and only the
\* first one of a sequence number does.
BugEveryAckCounts(n, s) == s = CurrentSeq(n)
AckCounts(n, s) == s = CurrentSeq(n) /\ s # currentAckedSeq[n]

ReceiveAck(n) ==
  /\ Receive(n, "ack")
  /\ IF AckCounts(n, Head(wire[n]).seq)
     THEN /\ Busy(n, "flag")
          /\ sent' = [sent EXCEPT ![n][Len(sent[n])].breaks = @ + 1]
     ELSE UNCHANGED <<rx, sent>>
  /\ UNCHANGED <<protocolVars, lockVars, tx, restarts, inbox>>

\* _set_acked_sync_flag and _set_current_acked_seq.
SetAcked(n) ==
  /\ rx[n].at = "flag"
  /\ acked' = [acked EXCEPT ![n] = TRUE]
  /\ currentAckedSeq' = [currentAckedSeq EXCEPT ![n] = rx[n].frame.seq]
  /\ rx' = [rx EXCEPT ![n].at = "break"]
  /\ UNCHANGED <<sequence, lastRecvSeq, interruptSem, lockVars, tx, wire,
                 restarts, sent, inbox>>

\* InterruptableBreak.
Break(n) ==
  /\ rx[n].at = "break"
  /\ interruptSem' = [interruptSem EXCEPT ![n] = @ + 1]
  /\ rx' = [rx EXCEPT ![n] = AtRest]
  /\ UNCHANGED <<sequence, acked, currentAckedSeq, lastRecvSeq, lockVars, tx,
                 wire, restarts, sent, inbox>>

\* A nack of the frame under way only ends the sleep of its sender.
ReceiveNack(n) ==
  /\ Receive(n, "nack")
  /\ IF Head(wire[n]).seq = CurrentSeq(n) THEN Busy(n, "break")
                                          ELSE UNCHANGED rx
  /\ UNCHANGED <<protocolVars, lockVars, tx, restarts, sent, inbox>>

\* An intact data frame is acknowledged if its sender asks for it, ...
ReceiveData(n) ==
  /\ Receive(n, "data")
  /\ Busy(n, IF Head(wire[n]).rel THEN "lock" ELSE "accept")
  /\ UNCHANGED <<protocolVars, lockVars, tx, restarts, sent, inbox>>

\* ... a damaged one, of whatever kind it was, is answered with a nack.
ReceiveJunk(n) ==
  /\ Receive(n, "junk")
  /\ Busy(n, "lock")
  /\ UNCHANGED <<protocolVars, lockVars, tx, restarts, sent, inbox>>

LockReply(n) ==
  /\ rx[n].at = "lock"
  /\ Free(writeLock[n])
  /\ writeLock' = [writeLock EXCEPT ![n] = n]
  /\ rx' = [rx EXCEPT ![n].at = "write"]
  /\ UNCHANGED <<protocolVars, appSendLock, tx, wire, restarts, sent, inbox>>

\* _send_ack_frame and _send_nack_frame take no number and wait for nothing.
WriteReply(n) ==
  LET f == rx[n].frame
      good == f.type = "data" IN
  /\ rx[n].at = "write"
  /\ wire' = Put(wire, n, Control(IF good THEN "ack" ELSE "nack", f.seq))
  /\ writeLock' = [writeLock EXCEPT ![n] = None]
  /\ rx' = [rx EXCEPT ![n] = IF good THEN [@ EXCEPT !.at = "accept"]
                                     ELSE AtRest]
  /\ UNCHANGED <<protocolVars, appSendLock, tx, restarts, sent, inbox>>

BugNeverDuplicate(n, f) == FALSE
IsDuplicate(n, f) == lastRecvSeq[n] = f.seq

\* The rest of the handler: an unreliable frame resets currentAckedSeq, and
\* a frame that does not repeat the last one goes to the application.
Accept(n) ==
  LET f == rx[n].frame IN
  /\ rx[n].at = "accept"
  /\ currentAckedSeq' = [currentAckedSeq EXCEPT ![n] = IF f.rel THEN @ ELSE -1]
  /\ lastRecvSeq' = [lastRecvSeq EXCEPT ![n] = f.seq]
  /\ IF IsDuplicate(n, f)
     THEN UNCHANGED <<sent, inbox>>
     ELSE /\ sent' = [sent EXCEPT ![Peer(n)][f.msg].got = TRUE]
          /\ inbox' = [inbox EXCEPT ![n] = Append(@, f.msg)]
  /\ rx' = [rx EXCEPT ![n] = AtRest]
  /\ UNCHANGED <<sequence, acked, interruptSem, lockVars, tx, wire, restarts>>

ParseStep(n) == \/ ReceiveAck(n) \/ SetAcked(n) \/ Break(n)
                \/ ReceiveNack(n) \/ ReceiveData(n) \/ ReceiveJunk(n)
                \/ LockReply(n) \/ WriteReply(n) \/ Accept(n)

-----------------------------------------------------------------------------
(* The line and the power supply                                           *)

Lose(n) ==
  /\ "lose" \in Faults
  /\ wire[n] # <<>>
  /\ wire' = [wire EXCEPT ![n] = Tail(@)]
  /\ UNCHANGED <<protocolVars, lockVars, tx, rx, restarts, sent, inbox>>

\* What one damaged byte makes of a frame: one that fails a checksum, or, of an
\* acknowledgement, another one, for this number or for any.
Damaged(f) ==
  {Control("junk", s) : s \in Seqs} \cup
  (IF f.type \in {"ack", "nack"}
   THEN {Control(kind, f.seq) : kind \in {"ack", "nack"}} \cup {Control(f.type, s) : s \in Seqs}
   ELSE {})

Corrupt(n) ==
  /\ "corrupt" \in Faults
  /\ wire[n] # <<>>
  /\ Head(wire[n]).type # "junk"
  /\ \E f \in Damaged(Head(wire[n])) : wire' = [wire EXCEPT ![n] = <<f>> \o Tail(@)]
  /\ UNCHANGED <<protocolVars, lockVars, tx, rx, restarts, sent, inbox>>

\* The program at n is started anew: every static is back at its initial
\* value, its calls never returned, and opening the line flushes its input.
Restart(n) ==
  /\ n \in Restarts /\ restarts < MaxRestarts
  /\ restarts' = restarts + 1
  /\ sequence' = [sequence EXCEPT ![n] = 0]
  /\ acked' = [acked EXCEPT ![n] = FALSE]
  /\ currentAckedSeq' = [currentAckedSeq EXCEPT ![n] = NoAckedSeq]
  /\ lastRecvSeq' = [lastRecvSeq EXCEPT ![n] = -1]
  /\ interruptSem' = [interruptSem EXCEPT ![n] = 0]
  /\ appSendLock' = [appSendLock EXCEPT ![n] = None]
  /\ writeLock' = [writeLock EXCEPT ![n] = None]
  /\ tx' = [t \in Task |-> IF Home[t] = n THEN Resting ELSE tx[t]]
  /\ rx' = [rx EXCEPT ![n] = AtRest]
  /\ wire' = [wire EXCEPT ![n] = <<>>]
  /\ inbox' = [inbox EXCEPT ![n] = <<>>]
  /\ UNCHANGED sent

\* Everything has been handed over and answered: the run may end here.
Finished ==
  /\ Quiet
  /\ \A t \in Task : tx[t].at = "idle"
  /\ \A t \in Task : Len(sent[Home[t]]) = MaxSends[Home[t]]
  /\ UNCHANGED vars

Next ==
  \/ \E t \in Task : SendBegin(t) \/ SendStep(t)
  \/ \E n \in Node : ParseStep(n) \/ Lose(n) \/ Corrupt(n) \/ Restart(n)
  \/ Finished

Spec == Init /\ [][Next]_vars

\* A thread inside a call and the protocol thread keep running, and a thread
\* that waits for write_sync_lock gets it if it is free again and again, as a
\* semaphore grants it: the protocol thread only holds it for one write.
\* Nobody has to start a call, and the line is not obliged to fail.
Fairness == /\ \A t \in Task : WF_vars(SendStep(t)) /\ SF_vars(LockWrite(t))
            /\ \A n \in Node : WF_vars(ParseStep(n))
FairSpec == Spec /\ Fairness
-----------------------------------------------------------------------------
(* Properties                                                              *)

\* Every variable keeps its shape: among others, the retries left never go
\* below zero and a message under way is one that was handed over.
TypeOK ==
  /\ sequence \in [Node -> Seqs]
  /\ acked \in [Node -> BOOLEAN]
  /\ currentAckedSeq \in [Node -> Seqs \cup {-1}]
  /\ lastRecvSeq \in [Node -> Seqs \cup {-1}]
  /\ interruptSem \in [Node -> Nat]
  /\ appSendLock \in [Node -> Task \cup {None}]
  /\ writeLock \in [Node -> Task \cup Node \cup {None}]
  /\ tx \in [Task -> Sender]
  /\ rx \in [Node -> Parser]
  /\ wire \in [Node -> Seq(Frame)]
  /\ restarts \in Nat
  /\ sent \in [Node -> Seq(Entry)]
  /\ inbox \in [Node -> Seq(Nat)]

\* Who is writing a frame to the line at n.
Writers(n) == {t \in Task : Home[t] = n /\ tx[t].at = "write"}
              \cup {k \in {n} : rx[k].at = "write"}

\* At each end one call of CommProtocolPacketAssembleAndSend is in progress
\* at a time, and the bytes of two frames never interleave on the line,
\* whoever writes them: an application thread or the protocol thread.
MutualExclusion ==
  \A n \in Node :
    /\ \A t, u \in Task : (Home[t] = n /\ Home[u] = n /\ tx[t].at # "idle"
                           /\ tx[u].at # "idle") => t = u
    /\ \A k, l \in Writers(n) : k = l

\* The applications are given each message at most once and in the order of
\* the sends, whatever is lost, damaged, resent or restarted: the sequence
\* numbers, the retries and the duplicate filter implement OrderedDelivery.
Ordered == INSTANCE OrderedDelivery
             WITH issued <- [n \in Node |-> Len(sent[n])]
OrderedSpec == Ordered!Spec

Entries(n) == {sent[n][i] : i \in DOMAIN sent[n]}

\* "one sequence can only break once": of all the acknowledgements of one
\* sequence number, the retries' included, one posts the semaphore.
OneBreakPerSequence == \A n \in Node : \A e \in Entries(n) : e.breaks <= 1

\* A send that gives up has slept through WAIT_ACK_TIMEOUT_MSEC after all of its
\* RetryTimes + 1 writes but two at most: the breaks that earlier sends have left
\* in the semaphore do not add up.
TimeoutMeansMostWaits ==
  \A n \in Node : \A e \in Entries(n) :
    e.res = "timeout" => e.waits >= RetryTimes - 1

\* With prompt answers it has done so after the first write and every retry.
TimeoutMeansAllWaits ==
  \A n \in Node : \A e \in Entries(n) :
    e.res = "timeout" => e.waits = RetryTimes + 1

\* With prompt answers a break is used up by the send it was posted for: the
\* semaphore is empty when the first write of a send begins.
NoBreakLeftBehind ==
  \A n \in Node :
    (\A t \in Task : Home[t] = n => tx[t].at \in {"idle", "clear"})
      => interruptSem[n] = 0

\* Message i of n has reached the handler of the peer's application.
Arrived(n, i) ==
  \/ sent[n][i].got
  \/ LET r == rx[Peer(n)] IN r.at = "accept" /\ r.frame.msg = i

\* A reliable send that returns 0 was delivered to the peer's application.
SuccessMeansDelivered ==
  \A n \in Node : \A i \in DOMAIN sent[n] :
    sent[n][i].rel /\ sent[n][i].res = "ok" => Arrived(n, i)

\* The same, as long as no earlier reliable send of that end has timed out.
SuccessAfterCleanHistory ==
  \A n \in Node : \A i \in DOMAIN sent[n] :
    /\ sent[n][i].rel /\ sent[n][i].res = "ok"
    /\ \A j \in 1..(i - 1) : sent[n][j].rel => sent[n][j].res = "ok"
    => Arrived(n, i)

\* CommProtocolPacketAssembleAndSend returns.
SendReturns == \A t \in Task : tx[t].at # "idle" ~> tx[t].at = "idle"

-----------------------------------------------------------------------------
(* Why OrderedSpec holds: an inductive invariant                           *)

\* A call in progress holds app_send_sync_lock and sends the last message.
SendersInv ==
  \A t \in Task : tx[t].at # "idle" =>
    /\ appSendLock[Home[t]] = t
    /\ tx[t].msg = Len(sent[Home[t]]) /\ tx[t].msg > 0

\* Who is writing holds write_sync_lock.
WritersInv ==
  /\ \A t \in Task : tx[t].at = "write" => writeLock[Home[t]] = t
  /\ \A n \in Node : rx[n].at = "write" => writeLock[n] = n

\* A data frame on its way to n is a message of n's peer, with its number.
Genuine(n, f) ==
  f.type = "data" => /\ f.msg \in 1..Len(sent[Peer(n)])
                     /\ f.seq = sent[Peer(n)][f.msg].seq

NotBefore(m, f) == f.type = "data" => m <= f.msg

\* The data frames of a direction are in the order of their messages: those
\* on the line, ...
WireInv(n) ==
  /\ \A i \in DOMAIN wire[n] : Genuine(n, wire[n][i])
  /\ \A i, j \in DOMAIN wire[n] :
       i < j /\ wire[n][i].type = "data" => NotBefore(wire[n][i].msg, wire[n][j])

\* ... the one the protocol thread is at work on, ...
HeldInv(n) ==
  /\ Genuine(n, rx[n].frame)
  /\ rx[n].frame.type = "data" =>
       \A i \in DOMAIN wire[n] : NotBefore(rx[n].frame.msg, wire[n][i])
  /\ rx[n].at = "accept" => rx[n].frame.type = "data"

\* ... and those given to the application, each later than the one before.
\* The duplicate filter remembers the last of them.
InboxInv(n) ==
  /\ \A k \in DOMAIN inbox[n] :
       /\ inbox[n][k] \in 1..Len(sent[Peer(n)])
       /\ NotBefore(inbox[n][k], rx[n].frame)
       /\ \A i \in DOMAIN wire[n] : NotBefore(inbox[n][k], wire[n][i])
       /\ \A l \in DOMAIN inbox[n] : k < l => inbox[n][k] < inbox[n][l]
  /\ inbox[n] # <<>> =>
       lastRecvSeq[n] = sent[Peer(n)][inbox[n][Len(inbox[n])]].seq

OrderInv == \A n \in Node : WireInv(n) /\ HeldInv(n) /\ InboxInv(n)

\* The four parts together are kept by every step.
IInv == TypeOK /\ SendersInv /\ WritersInv /\ OrderInv
=============================================================================
