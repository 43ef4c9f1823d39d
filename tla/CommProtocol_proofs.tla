------------------------- MODULE CommProtocol_proofs -------------------------
(***************************************************************************)
(* Proofs about CommProtocol, for any threads, sequence-number space,      *)
(* number of retries, faults and restarts.                                 *)
(***************************************************************************)
EXTENDS CommProtocol, SequenceTheorems, TLAPS

-----------------------------------------------------------------------------
(* Lemmas about the operators of the model                                 *)

\* The two ends of the line are each other's peers.
LEMMA Peers ==
  ASSUME NEW n \in Node
  PROVE  Peer(n) \in Node /\ Peer(n) # n /\ Peer(Peer(n)) = n
BY DEF Node, Peer

\* Sequence numbers stay within an unsigned char.
LEMMA Numbers ==
  /\ 0 \in Seqs /\ NoAckedSeq \in Seqs
  /\ \A s \in Seqs : NextSeq(s) \in Seqs
BY ConstantsAssumption DEF Seqs, NoAckedSeq, NextSeq

\* What a change of one entry of the history leaves as it was.
SameNumbers ==
  /\ sent' \in [Node -> Seq(Entry)]
  /\ \A n \in Node : Len(sent'[n]) = Len(sent[n])
  /\ \A n \in Node : \A i \in 1..Len(sent[n]) : sent'[n][i].seq = sent[n][i].seq

\* What is recorded is of the right kind.
LEMMA Records ==
  ASSUME NEW x \in Entry, NEW r \in {"ok", "timeout"}
  PROVE  \A y \in {[x EXCEPT !.res = r], [x EXCEPT !.waits = @ + 1],
                   [x EXCEPT !.breaks = @ + 1], [x EXCEPT !.got = TRUE]} :
           y \in Entry /\ y.seq = x.seq
<1>1. [x EXCEPT !.res = r] \in Entry /\ [x EXCEPT !.res = r].seq = x.seq
  BY DEF Entry
<1>2. [x EXCEPT !.waits = @ + 1] \in Entry /\ [x EXCEPT !.waits = @ + 1].seq = x.seq
  BY DEF Entry
<1>3. [x EXCEPT !.breaks = @ + 1] \in Entry /\ [x EXCEPT !.breaks = @ + 1].seq = x.seq
  BY DEF Entry
<1>4. [x EXCEPT !.got = TRUE] \in Entry /\ [x EXCEPT !.got = TRUE].seq = x.seq
  BY DEF Entry
<1> QED BY <1>1, <1>2, <1>3, <1>4

\* Recording something of a message changes neither how many messages there
\* are nor their numbers.
LEMMA Recording ==
  ASSUME sent \in [Node -> Seq(Entry)], NEW n \in Node, NEW i, NEW e,
         i \in 1..Len(sent[n]) => e \in Entry /\ e.seq = sent[n][i].seq,
         sent' = [sent EXCEPT ![n] = [sent[n] EXCEPT ![i] = e]]
  PROVE  SameNumbers
<1> DEFINE s == sent[n]
           r == [s EXCEPT ![i] = e]
<1>1. r \in Seq(Entry) /\ Len(r) = Len(s)
      /\ \A j \in 1..Len(s) : r[j].seq = s[j].seq
  <2>1. CASE i \in 1..Len(s)
    BY <2>1, ExceptSeq
  <2>2. CASE i \notin 1..Len(s)
    <3>1. DOMAIN s = 1..Len(s)
      OBVIOUS
    <3>2. r = s
      BY <2>2, <3>1
    <3> QED BY <3>2
  <2> QED BY <2>1, <2>2
<1> QED BY <1>1 DEF SameNumbers

\* What is put on the line is a frame.
LEMMA Frames ==
  /\ \A kind \in {"ack", "nack", "junk"}, s \in Seqs : Control(kind, s) \in Frame
  /\ \A e \in Entry, m \in Nat : DataFrame(e, m) \in Frame
BY DEF Control, DataFrame, Frame, Entry

\* A damaged frame is a frame, and not one of a message.
LEMMA DamagedFrames ==
  ASSUME NEW f \in Frame, NEW j \in Damaged(f)
  PROVE  j \in Frame /\ j.type # "data"
<1>1. f.seq \in Seqs
  BY DEF Frame
<1>2. CASE \E s \in Seqs : j = Control("junk", s)
  BY <1>2, Frames DEF Control
<1>3. CASE \E kind \in {"ack", "nack"} : j = Control(kind, f.seq)
  BY <1>1, <1>3, Frames DEF Control
<1>4. CASE f.type \in {"ack", "nack"} /\ \E s \in Seqs : j = Control(f.type, s)
  BY <1>4, Frames DEF Control
<1> QED BY <1>2, <1>3, <1>4 DEF Damaged

\* A frame written to the line comes behind those under way, or is lost.
LEMMA Putting ==
  ASSUME NEW w \in [Node -> Seq(Frame)], NEW n \in Node, NEW f \in Frame
  PROVE  /\ Put(w, n, f) \in [Node -> Seq(Frame)]
         /\ Put(w, n, f)[n] = w[n]
         /\ Put(w, n, f)[Peer(n)] \in {w[Peer(n)], Append(w[Peer(n)], f)}
BY Peers, AppendProperties DEF Put

-----------------------------------------------------------------------------
(* Types and locks                                                         *)

LockInv == TypeOK /\ SendersInv /\ WritersInv

\* Every step but SendBegin changes the history by recording at most.
LEMMA OnlyRecords ==
  ASSUME LockInv,
         \/ \E t \in Task : SendStep(t)
         \/ \E n \in Node : ParseStep(n) \/ Lose(n) \/ Corrupt(n) \/ Restart(n)
         \/ UNCHANGED vars
  PROVE  SameNumbers
<1>0. sent' = sent => SameNumbers
  BY DEF SameNumbers, LockInv, TypeOK
<1>1. ASSUME NEW t \in Task, NEW r \in {"ok", "timeout"}, Return(t, r)
      PROVE  SameNumbers
  <2> DEFINE n == Home[t]
             i == tx[t].msg
             e == [sent[n][i] EXCEPT !.res = r]
  <2>1. n \in Node /\ sent[n] \in Seq(Entry)
    BY ConstantsAssumption DEF LockInv, TypeOK
  <2>2. i \in 1..Len(sent[n]) => e \in Entry /\ e.seq = sent[n][i].seq
    BY <2>1, ElementOfSeq, Records
  <2>3. sent' = [sent EXCEPT ![n] = [sent[n] EXCEPT ![i] = e]]
    BY <1>1 DEF Return
  <2> QED BY <2>1, <2>2, <2>3, Recording DEF LockInv, TypeOK
<1>2. ASSUME NEW t \in Task, WaitTimeout(t)
      PROVE  SameNumbers
  <2> DEFINE n == Home[t]
             i == tx[t].msg
             e == [sent[n][i] EXCEPT !.waits = @ + 1]
  <2>1. n \in Node /\ sent[n] \in Seq(Entry)
    BY ConstantsAssumption DEF LockInv, TypeOK
  <2>2. i \in 1..Len(sent[n]) => e \in Entry /\ e.seq = sent[n][i].seq
    BY <2>1, ElementOfSeq, Records
  <2>3. sent' = [sent EXCEPT ![n] = [sent[n] EXCEPT ![i] = e]]
    BY <1>2 DEF WaitTimeout
  <2> QED BY <2>1, <2>2, <2>3, Recording DEF LockInv, TypeOK
<1>3. ASSUME NEW n \in Node, ReceiveAck(n), sent' # sent
      PROVE  SameNumbers
  <2> DEFINE i == Len(sent[n])
             e == [sent[n][i] EXCEPT !.breaks = @ + 1]
  <2>1. sent[n] \in Seq(Entry)
    BY DEF LockInv, TypeOK
  <2>2. i \in 1..Len(sent[n]) => e \in Entry /\ e.seq = sent[n][i].seq
    BY <2>1, ElementOfSeq, Records
  <2>3. sent' = [sent EXCEPT ![n] = [sent[n] EXCEPT ![i] = e]]
    BY <1>3 DEF ReceiveAck
  <2> QED BY <2>1, <2>2, <2>3, Recording DEF LockInv, TypeOK
<1>4. ASSUME NEW n \in Node, Accept(n), sent' # sent
      PROVE  SameNumbers
  <2> DEFINE p == Peer(n)
             i == rx[n].frame.msg
             e == [sent[p][i] EXCEPT !.got = TRUE]
  <2>1. p \in Node /\ sent[p] \in Seq(Entry)
    BY Peers DEF LockInv, TypeOK
  <2>2. i \in 1..Len(sent[p]) => e \in Entry /\ e.seq = sent[p][i].seq
    BY <2>1, ElementOfSeq, Records
  <2>3. sent' = [sent EXCEPT ![p] = [sent[p] EXCEPT ![i] = e]]
    BY <1>4 DEF Accept
  <2> QED BY <2>1, <2>2, <2>3, Recording DEF LockInv, TypeOK
<1>5. ASSUME NEW t \in Task, SendStep(t)
      PROVE  SameNumbers
  BY <1>0, <1>1, <1>2, <1>5
     DEF SendStep, ClearAcked, LockWrite, WriteFrame, WaitBreak, CheckAcked
<1>6. ASSUME NEW n \in Node, ParseStep(n)
      PROVE  SameNumbers
  BY <1>0, <1>3, <1>4, <1>6
     DEF ParseStep, SetAcked, Break, ReceiveNack, ReceiveData, ReceiveJunk,
         LockReply, WriteReply
<1>7. ASSUME NEW n \in Node, Lose(n) \/ Corrupt(n) \/ Restart(n)
      PROVE  SameNumbers
  BY <1>0, <1>7 DEF Lose, Corrupt, Restart
<1> QED BY <1>0, <1>5, <1>6, <1>7 DEF vars

\* The program starts with everything at rest.
LEMMA LockInit == Init => LockInv
<1> SUFFICES ASSUME Init PROVE LockInv
  OBVIOUS
<1>1. TypeOK
  BY Numbers, ConstantsAssumption, Frames
     DEF Init, TypeOK, Resting, AtRest, Sender, Parser
<1>2. SendersInv /\ WritersInv
  BY ConstantsAssumption DEF Init, SendersInv, WritersInv, Resting, AtRest
<1> QED BY <1>1, <1>2 DEF LockInv

LEMMA SendBeginLocks ==
  ASSUME LockInv, NEW t \in Task, SendBegin(t)
  PROVE  LockInv'
<1> USE DEF LockInv
<1> DEFINE n == Home[t]
           e == [seq |-> sequence[n], rel |-> Len(sent[n]) + 1 \in Reliable[n],
                 res |-> "pending", got |-> FALSE, breaks |-> 0, waits |-> 0]
<1>1. n \in Node
  BY ConstantsAssumption
<1>2. e \in Entry
  BY <1>1 DEF Entry, TypeOK
<1>3. sent' = [sent EXCEPT ![n] = Append(sent[n], e)]
  BY DEF SendBegin
<1>4. sent' \in [Node -> Seq(Entry)] /\ Len(sent'[n]) = Len(sent[n]) + 1
      /\ \A k \in Node \ {n} : sent'[k] = sent[k]
  BY <1>1, <1>2, <1>3, AppendProperties DEF TypeOK
<1>5. tx' \in [Task -> Sender]
  BY <1>1, ConstantsAssumption DEF TypeOK, SendBegin, Sender
<1>6. TypeOK'
  BY <1>1, <1>4, <1>5, Numbers DEF TypeOK, SendBegin
<1>7. SendersInv'
  <2> SUFFICES ASSUME NEW u \in Task, tx'[u].at # "idle"
               PROVE  /\ appSendLock'[Home[u]] = u
                      /\ tx'[u].msg = Len(sent'[Home[u]]) /\ tx'[u].msg > 0
    BY DEF SendersInv
  <2>1. CASE u = t
    BY <1>1, <1>4, <2>1 DEF SendBegin, TypeOK
  <2>2. CASE u # t
    <3>1. tx'[u] = tx[u] /\ appSendLock[Home[u]] = u
      BY <2>2 DEF SendBegin, TypeOK, SendersInv
    <3>2. Home[u] # n
      BY <3>1, ConstantsAssumption DEF SendBegin, Free
    <3> QED BY <1>1, <1>4, <3>1, <3>2, ConstantsAssumption
            DEF SendBegin, SendersInv, TypeOK
  <2> QED BY <2>1, <2>2
<1>8. WritersInv'
  BY DEF WritersInv, SendBegin, TypeOK
<1> QED BY <1>6, <1>7, <1>8

\* The calls in progress are unaffected, or end together with their hold on
\* app_send_sync_lock.
LEMMA SendersKept ==
  ASSUME LockInv, SameNumbers,
         \A u \in Task : tx'[u].at # "idle" =>
           /\ tx[u].at # "idle" /\ tx'[u].msg = tx[u].msg
           /\ appSendLock'[Home[u]] = appSendLock[Home[u]]
  PROVE  SendersInv'
BY ConstantsAssumption DEF LockInv, SendersInv, SameNumbers

\* Whoever writes after a step wrote before it and still has the lock.
LEMMA WritersKept ==
  ASSUME WritersInv,
         \A u \in Task : tx'[u].at = "write" =>
           tx[u].at = "write" /\ writeLock'[Home[u]] = writeLock[Home[u]],
         \A n \in Node : rx'[n].at = "write" =>
           rx[n].at = "write" /\ writeLock'[n] = writeLock[n]
  PROVE  WritersInv'
BY DEF WritersInv

LEMMA ReturnLocks ==
  ASSUME LockInv, SameNumbers, NEW t \in Task, tx[t].at # "idle",
         NEW r, Return(t, r)
  PROVE  /\ SendersInv'
         /\ tx' \in [Task -> Sender]
         /\ appSendLock' \in [Node -> Task \cup {None}]
<1>0. Resting \in Sender
  BY ConstantsAssumption DEF Resting, Sender
<1>1. tx' \in [Task -> Sender] /\ appSendLock' \in [Node -> Task \cup {None}]
  BY <1>0 DEF Return, LockInv, TypeOK
<1>2. SendersInv'
  <2> SUFFICES ASSUME NEW u \in Task, tx'[u].at # "idle"
               PROVE  /\ tx[u].at # "idle" /\ tx'[u].msg = tx[u].msg
                      /\ appSendLock'[Home[u]] = appSendLock[Home[u]]
    BY SendersKept
  <2>1. u # t /\ tx'[u] = tx[u]
    BY DEF Return, Resting, LockInv, TypeOK
  <2>2. Home[u] # Home[t]
    BY <2>1 DEF LockInv, SendersInv
  <2> QED BY <2>1, <2>2, ConstantsAssumption DEF Return, LockInv, TypeOK
<1> QED BY <1>1, <1>2

LEMMA SendStepLocks ==
  ASSUME LockInv, NEW t \in Task, SendStep(t)
  PROVE  LockInv'
<1> DEFINE n == Home[t]
<1>0. n \in Node /\ SameNumbers /\ TypeOK /\ SendersInv /\ WritersInv
  BY OnlyRecords, ConstantsAssumption DEF LockInv
<1>1. CASE ClearAcked(t)
  <2>1. tx' \in [Task -> Sender]
    BY <1>0, <1>1 DEF ClearAcked, TypeOK, Sender
  <2>2. TypeOK'
    BY <1>0, <1>1, <2>1 DEF ClearAcked, TypeOK, SameNumbers, FlagAtStart, lockVars
  <2>3. SendersInv'
    BY <1>0, <1>1, SendersKept DEF ClearAcked, LockInv, TypeOK, lockVars
  <2>4. WritersInv'
    BY <1>0, <1>1 DEF ClearAcked, TypeOK, WritersInv, lockVars
  <2> QED BY <2>2, <2>3, <2>4 DEF LockInv
<1>2. CASE LockWrite(t)
  <2>1. tx' \in [Task -> Sender]
    BY <1>0, <1>2 DEF LockWrite, TypeOK, Sender
  <2>2. TypeOK'
    BY <1>0, <1>2, <2>1 DEF LockWrite, TypeOK, SameNumbers, protocolVars
  <2>3. SendersInv'
    BY <1>0, <1>2, SendersKept DEF LockWrite, LockInv, TypeOK
  <2>4. WritersInv'
    BY <1>0, <1>2, ConstantsAssumption DEF LockWrite, Free, TypeOK, WritersInv
  <2> QED BY <2>2, <2>3, <2>4 DEF LockInv
<1>3. CASE WriteFrame(t)
  <2>1. PacketOf(t) \in Frame
    <3>1. tx[t].msg \in 1..Len(sent[n]) /\ sent[n] \in Seq(Entry)
      <4>1. tx[t].msg = Len(sent[n]) /\ tx[t].msg > 0
        BY <1>0, <1>3 DEF WriteFrame, SendersInv
      <4>2. sent[n] \in Seq(Entry) /\ Len(sent[n]) \in Nat
        BY <1>0, LenProperties DEF TypeOK
      <4> QED BY <4>1, <4>2
    <3>2. sent[n][tx[t].msg] \in Entry
      BY <3>1, ElementOfSeq
    <3> QED BY <3>1, <3>2, Frames DEF PacketOf
  <2>2. wire' \in [Node -> Seq(Frame)]
    BY <1>0, <1>3, <2>1, Putting DEF WriteFrame, TypeOK
  <2>3. /\ SendersInv'
        /\ tx' \in [Task -> Sender]
        /\ appSendLock' \in [Node -> Task \cup {None}]
    <3>1. CASE PacketOf(t).rel
      <4>1. tx' = [tx EXCEPT ![t].at = "wait"] /\ UNCHANGED <<appSendLock, sent>>
        BY <1>3, <3>1 DEF WriteFrame
      <4>2. tx' \in [Task -> Sender]
        BY <1>0, <4>1 DEF TypeOK, Sender
      <4>3. \A u \in Task : tx'[u].at # "idle" =>
              tx[u].at # "idle" /\ tx'[u].msg = tx[u].msg
        BY <1>3, <4>1 DEF WriteFrame, LockInv, TypeOK
      <4> QED BY <1>0, <4>1, <4>2, <4>3, SendersKept DEF TypeOK
    <3>2. CASE ~PacketOf(t).rel
      BY <1>0, <1>3, <3>2, ReturnLocks DEF WriteFrame
    <3> QED BY <3>1, <3>2
  <2>4. TypeOK'
    BY <1>0, <1>3, <2>2, <2>3 DEF WriteFrame, TypeOK, SameNumbers, protocolVars
  <2>5. WritersInv'
    <3>1. \A u \in Task : tx'[u].at = "write" => tx[u].at = "write" /\ u # t
      <4>1. tx'[t].at # "write" /\ tx' = [tx EXCEPT ![t] = tx'[t]]
        BY <1>0, <1>3 DEF WriteFrame, Return, Resting, TypeOK, Sender
      <4> QED BY <1>0, <4>1 DEF TypeOK
    <3>2. \A k \in Task \cup Node : k # t /\ writeLock[n] = k => FALSE
      BY <1>0, <1>3 DEF WriteFrame, WritersInv
    <3>3. t \notin Node
      BY ConstantsAssumption
    <3>4. \A u \in Task : u # t /\ tx[u].at = "write" => Home[u] # n
      BY <1>0, <3>2 DEF WritersInv
    <3>5. rx[n].at # "write"
      BY <1>0, <3>2, <3>3 DEF WritersInv
    <3> QED BY <1>0, <1>3, <3>1, <3>4, <3>5, WritersKept, ConstantsAssumption
            DEF WriteFrame, TypeOK
  <2> QED BY <2>3, <2>4, <2>5 DEF LockInv
<1>4. CASE WaitBreak(t)
  <2>1. tx' \in [Task -> Sender]
    BY <1>0, <1>4 DEF WaitBreak, TypeOK, Sender
  <2>2. TypeOK'
    BY <1>0, <1>4, <2>1 DEF WaitBreak, Taken, TypeOK, SameNumbers, lockVars
  <2>3. SendersInv'
    BY <1>0, <1>4, SendersKept DEF WaitBreak, LockInv, TypeOK, lockVars
  <2>4. WritersInv'
    BY <1>0, <1>4 DEF WaitBreak, TypeOK, WritersInv, lockVars
  <2> QED BY <2>2, <2>3, <2>4 DEF LockInv
<1>5. CASE WaitTimeout(t)
  <2>1. tx' \in [Task -> Sender]
    BY <1>0, <1>5 DEF WaitTimeout, TypeOK, Sender
  <2>2. TypeOK'
    BY <1>0, <1>5, <2>1 DEF WaitTimeout, TypeOK, SameNumbers, protocolVars, lockVars
  <2>3. SendersInv'
    BY <1>0, <1>5, SendersKept DEF WaitTimeout, LockInv, TypeOK, lockVars
  <2>4. WritersInv'
    BY <1>0, <1>5 DEF WaitTimeout, TypeOK, WritersInv, lockVars
  <2> QED BY <2>2, <2>3, <2>4 DEF LockInv
<1>6. CASE CheckAcked(t)
  <2>1. /\ SendersInv'
        /\ tx' \in [Task -> Sender]
        /\ appSendLock' \in [Node -> Task \cup {None}]
    <3>1. CASE \E r : Return(t, r)
      BY <1>0, <1>6, <3>1, ReturnLocks DEF CheckAcked
    <3>2. CASE /\ TriesLeft(tx[t].tries)
               /\ tx' = [tx EXCEPT ![t].at = "lock", ![t].tries = OneTryLess(@)]
               /\ UNCHANGED <<appSendLock, sent>>
      <4>1. tx[t].tries - 1 \in 0..RetryTimes
        BY <1>0, <3>2, ConstantsAssumption DEF TriesLeft, TypeOK, Sender
      <4>2. tx' \in [Task -> Sender]
        BY <1>0, <3>2, <4>1 DEF OneTryLess, TypeOK, Sender
      <4>3. \A u \in Task : tx'[u].at # "idle" =>
              tx[u].at # "idle" /\ tx'[u].msg = tx[u].msg
        BY <1>6, <3>2 DEF CheckAcked, LockInv, TypeOK
      <4> QED BY <1>0, <3>2, <4>2, <4>3, SendersKept DEF TypeOK
    <3> QED BY <1>6, <3>1, <3>2 DEF CheckAcked
  <2>2. TypeOK'
    BY <1>0, <1>6, <2>1 DEF CheckAcked, TypeOK, SameNumbers, protocolVars
  <2>3. WritersInv'
    <3>1. \A u \in Task : tx'[u].at = "write" => tx[u].at = "write"
      <4>1. tx'[t].at # "write" /\ tx' = [tx EXCEPT ![t] = tx'[t]]
        BY <1>0, <1>6 DEF CheckAcked, Return, Resting, TypeOK, Sender
      <4> QED BY <1>0, <4>1 DEF TypeOK
    <3> QED BY <1>0, <1>6, <3>1, WritersKept DEF CheckAcked
  <2> QED BY <2>1, <2>2, <2>3 DEF LockInv
<1> QED BY <1>1, <1>2, <1>3, <1>4, <1>5, <1>6 DEF SendStep

\* Steps of the protocol thread, the line and the power supply leave the
\* calls alone or end them.
LEMMA ParseStepLocks ==
  ASSUME LockInv, NEW n \in Node, ParseStep(n)
  PROVE  LockInv'
<1>0. SameNumbers /\ TypeOK /\ SendersInv /\ WritersInv
  BY OnlyRecords DEF LockInv
<1>1. SendersInv'
  BY <1>0, SendersKept
     DEF ParseStep, ReceiveAck, SetAcked, Break, ReceiveNack, ReceiveData,
         ReceiveJunk, LockReply, WriteReply, Accept, lockVars
<1>2. CASE \E kind \in {"ack", "nack", "data", "junk"} : Receive(n, kind)
  <2>1. Head(wire[n]) \in Frame /\ wire' \in [Node -> Seq(Frame)]
    BY <1>0, <1>2, HeadTailProperties DEF Receive, TypeOK
  <2>2. CASE ReceiveAck(n)
    <3>1. rx' \in [Node -> Parser] /\ rx'[n].at # "write"
          /\ \A k \in Node \ {n} : rx'[k] = rx[k]
      <4>1. rx' = [rx EXCEPT ![n] = rx'[n]] /\ rx'[n] \in Parser
            /\ rx'[n].at # "write"
        BY <1>0, <2>1, <2>2 DEF ReceiveAck, Receive, Busy, Parser, TypeOK
      <4> QED BY <1>0, <4>1 DEF TypeOK
    <3>2. TypeOK'
      BY <1>0, <2>1, <2>2, <3>1
         DEF ReceiveAck, TypeOK, SameNumbers, protocolVars, lockVars
    <3>3. WritersInv'
      BY <1>0, <2>2, <3>1, WritersKept DEF ReceiveAck, lockVars
    <3> QED BY <1>1, <3>2, <3>3 DEF LockInv
  <2>3. CASE ReceiveNack(n) \/ ReceiveData(n) \/ ReceiveJunk(n)
    <3>1. rx' \in [Node -> Parser] /\ rx'[n].at # "write"
          /\ \A k \in Node \ {n} : rx'[k] = rx[k]
      <4>1. rx' = [rx EXCEPT ![n] = rx'[n]] /\ rx'[n] \in Parser
            /\ rx'[n].at # "write"
        BY <1>0, <2>1, <2>3
           DEF ReceiveNack, ReceiveData, ReceiveJunk, Receive, Busy, Parser, TypeOK
      <4> QED BY <1>0, <4>1 DEF TypeOK
    <3>2. TypeOK'
      BY <1>0, <2>1, <2>3, <3>1
         DEF ReceiveNack, ReceiveData, ReceiveJunk, TypeOK, protocolVars, lockVars
    <3>3. WritersInv'
      BY <1>0, <2>3, <3>1, WritersKept
         DEF ReceiveNack, ReceiveData, ReceiveJunk, lockVars
    <3> QED BY <1>1, <3>2, <3>3 DEF LockInv
  <2>4. ~(\/ SetAcked(n) \/ Break(n) \/ LockReply(n) \/ WriteReply(n) \/ Accept(n))
    BY <1>2 DEF Receive, SetAcked, Break, LockReply, WriteReply, Accept
  <2> QED BY <2>2, <2>3, <2>4 DEF ParseStep
<1>3. CASE SetAcked(n)
  <2>1. rx' \in [Node -> Parser] /\ rx'[n].at # "write"
        /\ \A k \in Node \ {n} : rx'[k] = rx[k]
    BY <1>0, <1>3 DEF SetAcked, Parser, TypeOK
  <2>2. rx[n].frame.seq \in Seqs
    BY <1>0 DEF TypeOK, Parser, Frame
  <2>3. TypeOK'
    BY <1>0, <1>3, <2>1, <2>2 DEF SetAcked, TypeOK, lockVars
  <2>4. WritersInv'
    BY <1>0, <1>3, <2>1, WritersKept DEF SetAcked, lockVars
  <2> QED BY <1>1, <2>3, <2>4 DEF LockInv
<1>4. CASE Break(n)
  <2>1. rx' \in [Node -> Parser] /\ rx'[n].at # "write"
        /\ \A k \in Node \ {n} : rx'[k] = rx[k]
    BY <1>0, <1>4, Frames, Numbers DEF Break, AtRest, Parser, TypeOK
  <2>2. TypeOK'
    BY <1>0, <1>4, <2>1 DEF Break, TypeOK, lockVars
  <2>3. WritersInv'
    BY <1>0, <1>4, <2>1, WritersKept DEF Break, lockVars
  <2> QED BY <1>1, <2>2, <2>3 DEF LockInv
<1>5. CASE LockReply(n)
  <2>1. rx' \in [Node -> Parser] /\ \A k \in Node \ {n} : rx'[k] = rx[k]
    BY <1>0, <1>5 DEF LockReply, Parser, TypeOK
  <2>2. TypeOK'
    BY <1>0, <1>5, <2>1 DEF LockReply, TypeOK, protocolVars
  <2>3. WritersInv'
    <3>1. writeLock[n] = None /\ writeLock' = [writeLock EXCEPT ![n] = n] /\ tx' = tx
      BY <1>5 DEF LockReply, Free
    <3>2. \A u \in Task : tx[u].at = "write" => Home[u] # n
      BY <1>0, <3>1, ConstantsAssumption DEF WritersInv
    <3> QED BY <1>0, <2>1, <3>1, <3>2, ConstantsAssumption DEF WritersInv, TypeOK
  <2> QED BY <1>1, <2>2, <2>3 DEF LockInv
<1>6. CASE WriteReply(n)
  <2> DEFINE f == rx[n].frame
             reply == Control(IF f.type = "data" THEN "ack" ELSE "nack", f.seq)
  <2>1. reply \in Frame
    <3>1. f.seq \in Seqs
      BY <1>0 DEF TypeOK, Parser, Frame
    <3> QED BY <3>1, Frames
  <2>2. wire' \in [Node -> Seq(Frame)]
    BY <1>0, <1>6, <2>1, Putting DEF WriteReply, TypeOK
  <2>3. rx' \in [Node -> Parser] /\ rx'[n].at # "write"
        /\ \A k \in Node \ {n} : rx'[k] = rx[k]
    BY <1>0, <1>6, Frames, Numbers DEF WriteReply, AtRest, Parser, TypeOK
  <2>4. TypeOK'
    BY <1>0, <1>6, <2>2, <2>3 DEF WriteReply, TypeOK, protocolVars
  <2>5. WritersInv'
    <3>1. \A u \in Task : tx[u].at = "write" => Home[u] # n
      BY <1>0, <1>6, ConstantsAssumption DEF WriteReply, WritersInv
    <3> QED BY <1>0, <1>6, <2>3, <3>1, WritersKept, ConstantsAssumption
            DEF WriteReply, TypeOK
  <2> QED BY <1>1, <2>4, <2>5 DEF LockInv
<1>7. CASE Accept(n)
  <2>1. rx' \in [Node -> Parser] /\ rx'[n].at # "write"
        /\ \A k \in Node \ {n} : rx'[k] = rx[k]
    BY <1>0, <1>7, Frames, Numbers DEF Accept, AtRest, Parser, TypeOK
  <2>2. rx[n].frame.seq \in Seqs /\ rx[n].frame.msg \in Nat
    BY <1>0 DEF TypeOK, Parser, Frame
  <2>3. inbox' \in [Node -> Seq(Nat)]
    <3>1. Append(inbox[n], rx[n].frame.msg) \in Seq(Nat)
      BY <1>0, <2>2, AppendProperties DEF TypeOK
    <3> QED BY <1>0, <1>7, <3>1 DEF Accept, TypeOK
  <2>4. TypeOK'
    BY <1>0, <1>7, <2>1, <2>2, <2>3 DEF Accept, TypeOK, SameNumbers, lockVars
  <2>5. WritersInv'
    BY <1>0, <1>7, <2>1, WritersKept DEF Accept, lockVars
  <2> QED BY <1>1, <2>4, <2>5 DEF LockInv
<1> QED BY <1>2, <1>3, <1>4, <1>5, <1>6, <1>7
        DEF ParseStep, ReceiveAck, ReceiveNack, ReceiveData, ReceiveJunk

LEMMA LineLocks ==
  ASSUME LockInv, NEW n \in Node, Lose(n) \/ Corrupt(n)
  PROVE  LockInv'
<1>0. TypeOK /\ SendersInv /\ WritersInv
  BY DEF LockInv
<1>1. Head(wire[n]) \in Frame /\ Tail(wire[n]) \in Seq(Frame)
  BY <1>0, HeadTailProperties DEF Lose, Corrupt, TypeOK
<1>2. ASSUME NEW f \in Damaged(Head(wire[n]))
      PROVE  <<f>> \o Tail(wire[n]) \in Seq(Frame)
  <2>1. <<f>> \in Seq(Frame)
    BY <1>1, DamagedFrames
  <2> QED BY <1>1, <2>1, ConcatProperties
<1>4. wire' \in [Node -> Seq(Frame)]
  <2>1. CASE Corrupt(n)
    <3>1. PICK f \in Damaged(Head(wire[n])) :
            wire' = [wire EXCEPT ![n] = <<f>> \o Tail(wire[n])]
      BY <1>0, <2>1 DEF Corrupt, TypeOK
    <3> QED BY <1>0, <1>2, <3>1 DEF TypeOK
  <2> QED BY <1>0, <1>1, <2>1 DEF Lose, TypeOK
<1>5. TypeOK'
  BY <1>0, <1>4 DEF Lose, Corrupt, TypeOK, protocolVars, lockVars
<1> QED BY <1>0, <1>5 DEF Lose, Corrupt, LockInv, SendersInv, WritersInv, lockVars

LEMMA RestartLocks ==
  ASSUME LockInv, NEW n \in Node, Restart(n)
  PROVE  LockInv'
<1>0. TypeOK /\ SendersInv /\ WritersInv /\ SameNumbers
  BY OnlyRecords DEF LockInv
<1>1. Resting \in Sender /\ AtRest \in Parser
  BY Frames, Numbers, ConstantsAssumption DEF Resting, AtRest, Sender, Parser
<1>2. TypeOK'
  BY <1>0, <1>1, Numbers DEF Restart, TypeOK
<1>3. SendersInv'
  BY <1>0, SendersKept, ConstantsAssumption DEF Restart, Resting, TypeOK
<1>4. WritersInv'
  BY <1>0, WritersKept, ConstantsAssumption DEF Restart, Resting, AtRest, TypeOK
<1> QED BY <1>2, <1>3, <1>4 DEF LockInv

\* Every step of the specification keeps the types and the locks.
LEMMA LockStep == LockInv /\ [Next]_vars => LockInv'
<1>1. ASSUME LockInv, UNCHANGED vars PROVE LockInv'
  BY <1>1 DEF vars, protocolVars, lockVars, LockInv, TypeOK, SendersInv, WritersInv
<1> QED BY <1>1, SendBeginLocks, SendStepLocks, ParseStepLocks, LineLocks,
           RestartLocks DEF Next, Finished

\* The types, the locks and their holders fit together in every state.
THEOREM LocksHeld == Spec => []LockInv
BY LockInit, LockStep, PTL DEF Spec

\* Every variable keeps its shape; in particular the count of the retries
\* left stops at zero.
THEOREM TypeCorrect == Spec => []TypeOK
<1>1. LockInv => TypeOK
  BY DEF LockInv
<1> QED BY <1>1, LocksHeld, PTL

\* app_send_sync_lock admits one call at a time, write_sync_lock one writer,
\* be it an application thread or the protocol thread.
THEOREM Exclusion == Spec => []MutualExclusion
<1>1. LockInv => MutualExclusion
  <2> SUFFICES ASSUME LockInv, NEW n \in Node
               PROVE  /\ \A t, u \in Task :
                           (Home[t] = n /\ Home[u] = n /\ tx[t].at # "idle"
                            /\ tx[u].at # "idle") => t = u
                      /\ \A k, l \in Writers(n) : k = l
    BY DEF MutualExclusion
  <2>1. \A k \in Writers(n) : writeLock[n] = k
    BY DEF LockInv, WritersInv, Writers
  <2> QED BY <2>1 DEF LockInv, SendersInv
<1> QED BY <1>1, LocksHeld, PTL

-----------------------------------------------------------------------------
(* The order of the messages                                               *)

\* Messages may be added; those there are keep their numbers.
KeepsNumbers ==
  \A n \in Node : /\ Len(sent[n]) \in Nat /\ Len(sent'[n]) \in Nat
                  /\ Len(sent[n]) <= Len(sent'[n])
                  /\ \A i \in 1..Len(sent[n]) : sent'[n][i].seq = sent[n][i].seq

Line(n) == WireInv(n) /\ HeldInv(n) /\ InboxInv(n)

LEMMA Domains ==
  ASSUME TypeOK, NEW n \in Node
  PROVE  /\ wire[n] \in Seq(Frame) /\ Len(wire[n]) \in Nat
         /\ DOMAIN wire[n] = 1..Len(wire[n])
         /\ \A i \in 1..Len(wire[n]) : wire[n][i] \in Frame /\ wire[n][i].msg \in Nat
         /\ inbox[n] \in Seq(Nat) /\ Len(inbox[n]) \in Nat
         /\ DOMAIN inbox[n] = 1..Len(inbox[n])
         /\ \A k \in 1..Len(inbox[n]) : inbox[n][k] \in Nat
         /\ rx[n].frame \in Frame /\ rx[n].frame.msg \in Nat
         /\ sent[n] \in Seq(Entry) /\ Len(sent[n]) \in Nat
<1>1. wire[n] \in Seq(Frame) /\ inbox[n] \in Seq(Nat) /\ sent[n] \in Seq(Entry)
      /\ rx[n].frame \in Frame
  BY DEF TypeOK, Parser
<1>2. \A f \in Frame : f.msg \in Nat
  BY DEF Frame
<1> QED BY <1>1, <1>2, LenProperties, ElementOfSeq

\* The frames on the line stay in order when the first is taken away (d = 1)
\* or frames are damaged, and when the protocol thread takes up the first.
LEMMA LineShrinks ==
  ASSUME TypeOK, TypeOK', KeepsNumbers, NEW n \in Node, Line(n),
         NEW d \in {0, 1},
         \A i \in 1..Len(wire'[n]) :
           /\ i + d \in 1..Len(wire[n])
           /\ wire'[n][i] = wire[n][i + d] \/ wire'[n][i].type # "data",
         \/ rx'[n].frame.type # "data"
         \/ rx'[n].frame = rx[n].frame
         \/ d = 1 /\ Len(wire[n]) > 0 /\ rx'[n].frame = wire[n][1],
         rx'[n].at = "accept" => rx'[n].frame.type = "data",
         inbox'[n] = inbox[n], lastRecvSeq'[n] = lastRecvSeq[n]
  PROVE  Line(n)'
<1>0. /\ DOMAIN wire[n] = 1..Len(wire[n]) /\ DOMAIN wire'[n] = 1..Len(wire'[n])
      /\ Len(wire[n]) \in Nat /\ Len(wire'[n]) \in Nat
      /\ Len(inbox[n]) \in Nat /\ DOMAIN inbox[n] = 1..Len(inbox[n])
      /\ \A k \in 1..Len(inbox[n]) : inbox[n][k] \in Nat
  <2>1. wire'[n] \in Seq(Frame)
    BY DEF TypeOK
  <2> QED BY <2>1, Domains, LenProperties
<1>1. WireInv(n)'
  <2>1. \A i \in 1..Len(wire'[n]) : Genuine(n, wire[n][i])'
    <3> SUFFICES ASSUME NEW i \in 1..Len(wire'[n]), wire'[n][i].type = "data"
                 PROVE  Genuine(n, wire[n][i])'
      BY DEF Genuine
    <3>1. wire'[n][i] = wire[n][i + d] /\ i + d \in 1..Len(wire[n])
      OBVIOUS
    <3>2. /\ wire'[n][i].msg \in 1..Len(sent[Peer(n)])
          /\ wire'[n][i].seq = sent[Peer(n)][wire'[n][i].msg].seq
      BY <1>0, <3>1 DEF Line, WireInv, Genuine
    <3>3. /\ wire'[n][i].msg \in 1..Len(sent'[Peer(n)])
          /\ wire'[n][i].seq = sent'[Peer(n)][wire'[n][i].msg].seq
      BY <3>2, Peers DEF KeepsNumbers
    <3> QED BY <3>3 DEF Genuine
  <2>2. ASSUME NEW i \in 1..Len(wire'[n]), NEW j \in 1..Len(wire'[n]), i < j,
               wire'[n][i].type = "data", wire'[n][j].type = "data"
        PROVE  wire'[n][i].msg <= wire'[n][j].msg
    <3>1. /\ wire'[n][i] = wire[n][i + d] /\ wire'[n][j] = wire[n][j + d]
          /\ i + d \in 1..Len(wire[n]) /\ j + d \in 1..Len(wire[n])
      BY <2>2
    <3>2. i + d < j + d
      BY <1>0, <2>2
    <3> QED BY <1>0, <2>2, <3>1, <3>2 DEF Line, WireInv, NotBefore
  <2> QED BY <1>0, <2>1, <2>2 DEF WireInv, NotBefore
<1>2. HeldInv(n)'
  <2>1. CASE rx'[n].frame.type # "data"
    BY <2>1 DEF HeldInv, Genuine
  <2>2. CASE rx'[n].frame = rx[n].frame
    <3>1. Genuine(n, rx[n].frame)'
      BY <2>2, Domains, Peers DEF Line, HeldInv, KeepsNumbers, Genuine
    <3>2. rx'[n].frame.type = "data" =>
            \A i \in 1..Len(wire'[n]) : NotBefore(rx'[n].frame.msg, wire'[n][i])
      BY <1>0, <2>2 DEF Line, HeldInv, NotBefore
    <3> QED BY <1>0, <3>1, <3>2 DEF HeldInv
  <2>3. CASE d = 1 /\ Len(wire[n]) > 0 /\ rx'[n].frame = wire[n][1]
    <3>0. 1 \in DOMAIN wire[n]
      BY <1>0, <2>3
    <3>1. Genuine(n, wire[n][1]) /\ wire[n][1].msg \in Nat
      <4>1. Genuine(n, wire[n][1])
        BY <3>0 DEF Line, WireInv
      <4>2. wire[n][1].msg \in Nat
        BY <3>0, Domains
      <4> QED BY <4>1, <4>2
    <3>2. Genuine(n, rx[n].frame)'
      BY <2>3, <3>1, Peers DEF KeepsNumbers, Genuine
    <3>3. rx'[n].frame.type = "data" =>
            \A i \in 1..Len(wire'[n]) : NotBefore(rx'[n].frame.msg, wire'[n][i])
      <4> SUFFICES ASSUME NEW i \in 1..Len(wire'[n]), wire'[n][i].type = "data",
                          wire[n][1].type = "data"
                   PROVE  wire[n][1].msg <= wire'[n][i].msg
        BY <2>3 DEF NotBefore
      <4>1. wire'[n][i] = wire[n][i + 1] /\ i + 1 \in 1..Len(wire[n]) /\ 1 < i + 1
            /\ 1 \in 1..Len(wire[n])
        BY <1>0, <2>3
      <4> QED BY <1>0, <4>1 DEF Line, WireInv, NotBefore
    <3> QED BY <1>0, <3>2, <3>3 DEF HeldInv
  <2> QED BY <2>1, <2>2, <2>3
<1>3. InboxInv(n)'
  <2>1. \A k \in 1..Len(inbox[n]) : inbox[n][k] \in 1..Len(sent'[Peer(n)])
    <3>1. \A k \in 1..Len(inbox[n]) : inbox[n][k] \in 1..Len(sent[Peer(n)])
      BY <1>0 DEF Line, InboxInv
    <3> QED BY <3>1, Peers DEF KeepsNumbers
  <2>2. ASSUME NEW k \in 1..Len(inbox[n])
        PROVE  /\ NotBefore(inbox[n][k], rx'[n].frame)
               /\ \A i \in 1..Len(wire'[n]) : NotBefore(inbox[n][k], wire'[n][i])
    <3>1. /\ NotBefore(inbox[n][k], rx[n].frame)
          /\ \A i \in 1..Len(wire[n]) : NotBefore(inbox[n][k], wire[n][i])
      BY <1>0 DEF Line, InboxInv
    <3>2. NotBefore(inbox[n][k], rx'[n].frame)
      <4>1. Len(wire[n]) > 0 => 1 \in 1..Len(wire[n])
        BY <1>0
      <4> QED BY <3>1, <4>1 DEF NotBefore
    <3>3. \A i \in 1..Len(wire'[n]) : NotBefore(inbox[n][k], wire'[n][i])
      BY <3>1 DEF NotBefore
    <3> QED BY <3>2, <3>3
  <2>3. inbox[n] # <<>> =>
          lastRecvSeq[n] = sent'[Peer(n)][inbox[n][Len(inbox[n])]].seq
    <3>1. inbox[n] # <<>> => Len(inbox[n]) \in 1..Len(inbox[n])
      BY <1>0, EmptySeq DEF TypeOK
    <3> QED BY <1>0, <3>1, Peers DEF Line, InboxInv, KeepsNumbers
  <2> QED BY <1>0, <2>1, <2>2, <2>3 DEF Line, InboxInv
<1> QED BY <1>1, <1>2, <1>3 DEF Line

\* No message is later than the last one handed over.
LEMMA NoneLater ==
  ASSUME TypeOK, NEW n \in Node, Line(n)
  PROVE  /\ \A i \in 1..Len(wire[n]) :
              wire[n][i].type = "data" => wire[n][i].msg <= Len(sent[Peer(n)])
         /\ rx[n].frame.type = "data" => rx[n].frame.msg <= Len(sent[Peer(n)])
         /\ \A k \in 1..Len(inbox[n]) : inbox[n][k] <= Len(sent[Peer(n)])
BY Domains, Peers DEF Line, WireInv, HeldInv, InboxInv, Genuine

\* The frames stay in order when the last message handed over, or a frame
\* that is not data, is written behind them.
LEMMA LineGrows ==
  ASSUME TypeOK, TypeOK', KeepsNumbers, NEW n \in Node, Line(n),
         NEW f \in Frame, wire'[n] = Append(wire[n], f),
         f.type = "data" => /\ f.msg = Len(sent[Peer(n)]) /\ f.msg > 0
                            /\ f.seq = sent[Peer(n)][f.msg].seq,
         rx'[n] = rx[n], inbox'[n] = inbox[n], lastRecvSeq'[n] = lastRecvSeq[n]
  PROVE  Line(n)'
<1> DEFINE L == Len(wire[n])
<1>0. /\ DOMAIN wire[n] = 1..L /\ L \in Nat
      /\ DOMAIN wire'[n] = 1..(L + 1) /\ wire'[n][L + 1] = f
      /\ \A i \in 1..L : wire'[n][i] = wire[n][i]
      /\ Len(sent[Peer(n)]) \in Nat
  <2>1. wire[n] \in Seq(Frame) /\ DOMAIN wire[n] = 1..L /\ L \in Nat
        /\ Len(sent[Peer(n)]) \in Nat
    BY Domains, Peers
  <2>2. Append(wire[n], f) \in Seq(Frame) /\ Len(Append(wire[n], f)) = L + 1
        /\ \A i \in 1..L : Append(wire[n], f)[i] = wire[n][i]
        /\ Append(wire[n], f)[L + 1] = f
    BY <2>1, AppendProperties
  <2>3. DOMAIN Append(wire[n], f) = 1..(L + 1)
    BY <2>2, LenProperties
  <2> QED BY <2>1, <2>2, <2>3
<1>1. \A i \in 1..(L + 1) : i \in 1..L \/ i = L + 1
  BY <1>0
<1>2. WireInv(n)'
  <2>1. \A i \in 1..(L + 1) : Genuine(n, wire[n][i])'
    <3>1. ASSUME NEW i \in 1..L PROVE Genuine(n, wire[n][i])'
      <4>1. wire'[n][i] = wire[n][i] /\ Genuine(n, wire[n][i])
        BY <1>0 DEF Line, WireInv
      <4> QED BY <4>1, Peers DEF Genuine, KeepsNumbers
    <3>2. ASSUME NEW i \in 1..(L + 1), i = L + 1 PROVE Genuine(n, wire[n][i])'
      <4>1. f.type = "data" => f.msg \in 1..Len(sent[Peer(n)])
        BY <1>0
      <4>2. wire'[n][i] = f
        BY <1>0, <3>2
      <4> QED BY <4>1, <4>2, Peers DEF Genuine, KeepsNumbers
    <3> QED BY <1>1, <3>1, <3>2
  <2>2. ASSUME NEW i \in 1..(L + 1), NEW j \in 1..(L + 1), i < j,
               wire'[n][i].type = "data", wire'[n][j].type = "data"
        PROVE  wire'[n][i].msg <= wire'[n][j].msg
    <3>1. i \in 1..L /\ wire'[n][i] = wire[n][i]
      BY <1>0, <2>2
    <3>2. CASE j \in 1..L
      BY <1>0, <2>2, <3>1, <3>2 DEF Line, WireInv, NotBefore
    <3>3. CASE j = L + 1
      BY <1>0, <2>2, <3>1, <3>3, NoneLater
    <3> QED BY <1>1, <3>2, <3>3
  <2> QED BY <1>0, <2>1, <2>2 DEF WireInv, NotBefore
<1>3. HeldInv(n)'
  <2>1. Genuine(n, rx[n].frame)'
    BY Peers DEF Line, HeldInv, Genuine, KeepsNumbers
  <2>2. ASSUME NEW i \in 1..(L + 1), rx[n].frame.type = "data",
               wire'[n][i].type = "data"
        PROVE  rx[n].frame.msg <= wire'[n][i].msg
    <3>1. CASE i \in 1..L
      BY <1>0, <2>2, <3>1 DEF Line, HeldInv, NotBefore
    <3>2. CASE i = L + 1
      BY <1>0, <2>2, <3>2, NoneLater
    <3> QED BY <1>1, <3>1, <3>2
  <2> QED BY <1>0, <2>1, <2>2 DEF Line, HeldInv, NotBefore
<1>4. InboxInv(n)'
  <2>0. Len(inbox[n]) \in Nat /\ DOMAIN inbox[n] = 1..Len(inbox[n])
    BY Domains
  <2>1. ASSUME NEW k \in 1..Len(inbox[n]), NEW i \in 1..(L + 1),
               wire'[n][i].type = "data"
        PROVE  inbox[n][k] <= wire'[n][i].msg
    <3>1. CASE i \in 1..L
      BY <1>0, <2>0, <2>1, <3>1 DEF Line, InboxInv, NotBefore
    <3>2. CASE i = L + 1
      BY <1>0, <2>1, <3>2, NoneLater
    <3> QED BY <1>1, <3>1, <3>2
  <2>2. \A k \in 1..Len(inbox[n]) : inbox[n][k] \in 1..Len(sent'[Peer(n)])
    BY <2>0, Peers DEF Line, InboxInv, KeepsNumbers
  <2>3. inbox[n] # <<>> =>
          lastRecvSeq[n] = sent'[Peer(n)][inbox[n][Len(inbox[n])]].seq
    <3>1. inbox[n] # <<>> => Len(inbox[n]) \in 1..Len(inbox[n])
      BY <2>0, EmptySeq DEF TypeOK
    <3> QED BY <2>0, <3>1, Peers DEF Line, InboxInv, KeepsNumbers
  <2> QED BY <1>0, <2>0, <2>1, <2>2, <2>3 DEF Line, InboxInv, NotBefore
<1> QED BY <1>2, <1>3, <1>4 DEF Line

\* What the protocol thread hands to the application is later than all it
\* handed over before: a frame with the number of the last one is dropped,
\* and of the frames that are not later only the last one is still around.
LEMMA Later ==
  ASSUME TypeOK, NEW n \in Node, Line(n), rx[n].at = "accept",
         ~IsDuplicate(n, rx[n].frame)
  PROVE  /\ rx[n].frame.msg \in 1..Len(sent[Peer(n)])
         /\ \A k \in 1..Len(inbox[n]) : inbox[n][k] < rx[n].frame.msg
<1> DEFINE m == rx[n].frame.msg
           L == Len(inbox[n])
<1>1. /\ m \in 1..Len(sent[Peer(n)]) /\ m \in Nat
      /\ rx[n].frame.seq = sent[Peer(n)][m].seq /\ rx[n].frame.type = "data"
  BY Domains DEF Line, HeldInv, Genuine
<1>2. L \in Nat /\ DOMAIN inbox[n] = 1..L /\ \A k \in 1..L : inbox[n][k] \in Nat
  BY Domains
<1>3. ASSUME NEW k \in 1..L PROVE inbox[n][k] < m
  <2>1. inbox[n] # <<>> /\ L \in 1..L
    BY <1>2, EmptySeq
  <2>2. inbox[n][L] # m
    BY <1>1, <2>1 DEF Line, InboxInv, IsDuplicate
  <2>3. inbox[n][L] <= m
    BY <1>1, <1>2, <2>1 DEF Line, InboxInv, NotBefore
  <2>4. k = L \/ inbox[n][k] < inbox[n][L]
    BY <1>2, <2>1 DEF Line, InboxInv
  <2> QED BY <1>1, <1>2, <2>1, <2>2, <2>3, <2>4
<1> QED BY <1>1, <1>3

LEMMA AcceptLine ==
  ASSUME TypeOK, TypeOK', KeepsNumbers, NEW n \in Node, Line(n), Accept(n)
  PROVE  Line(n)'
<1> DEFINE f == rx[n].frame
           L == Len(inbox[n])
<1>0. /\ L \in Nat /\ DOMAIN inbox[n] = 1..L
      /\ \A k \in 1..L : inbox[n][k] \in Nat
      /\ inbox[n] \in Seq(Nat) /\ f.msg \in Nat
  BY Domains
<1>1. /\ rx'[n].frame.type # "data" /\ rx'[n].at # "accept"
      /\ wire'[n] = wire[n] /\ lastRecvSeq'[n] = f.seq
  BY DEF Accept, AtRest, Control, TypeOK
<1>2. CASE IsDuplicate(n, f)
  <2>1. inbox'[n] = inbox[n] /\ lastRecvSeq'[n] = lastRecvSeq[n]
    BY <1>1, <1>2 DEF Accept, IsDuplicate
  <2> QED BY <1>1, <2>1, LineShrinks, Domains, 0 \in {0, 1}
<1>3. CASE ~IsDuplicate(n, f)
  <2>1. inbox'[n] = Append(inbox[n], f.msg)
    BY <1>3 DEF Accept, TypeOK
  <2>2. /\ DOMAIN inbox'[n] = 1..(L + 1) /\ Len(inbox'[n]) = L + 1
        /\ inbox'[n][L + 1] = f.msg
        /\ \A k \in 1..L : inbox'[n][k] = inbox[n][k]
    BY <1>0, <2>1, AppendProperties, LenProperties
  <2>3. /\ f.msg \in 1..Len(sent[Peer(n)])
        /\ \A k \in 1..L : inbox[n][k] < f.msg
        /\ f.type = "data" /\ f.seq = sent[Peer(n)][f.msg].seq
    BY <1>3, Later DEF Accept, Line, HeldInv, Genuine
  <2>4. \A k \in 1..(L + 1) : k \in 1..L \/ k = L + 1
    BY <1>0
  <2>5. WireInv(n)'
    <3>1. \A i \in DOMAIN wire[n] : Genuine(n, wire[n][i])'
      BY <1>1, Peers DEF Line, WireInv, Genuine, KeepsNumbers
    <3> QED BY <1>1, <3>1 DEF Line, WireInv
  <2>6. HeldInv(n)'
    BY <1>1 DEF HeldInv, Genuine
  <2>7. ASSUME NEW k \in 1..(L + 1)
        PROVE  /\ inbox'[n][k] \in 1..Len(sent'[Peer(n)])
               /\ \A i \in DOMAIN wire[n] : NotBefore(inbox'[n][k], wire[n][i])
               /\ \A l \in 1..(L + 1) : k < l => inbox'[n][k] < inbox'[n][l]
    <3>1. CASE k \in 1..L
      <4>1. inbox'[n][k] \in 1..Len(sent'[Peer(n)])
        <5>1. inbox'[n][k] = inbox[n][k] /\ inbox[n][k] \in 1..Len(sent[Peer(n)])
          BY <1>0, <2>2, <3>1 DEF Line, InboxInv
        <5> QED BY <5>1, Peers DEF KeepsNumbers
      <4>2. \A i \in DOMAIN wire[n] : NotBefore(inbox'[n][k], wire[n][i])
        BY <1>0, <2>2, <3>1 DEF Line, InboxInv
      <4>3. \A l \in 1..(L + 1) : k < l => inbox'[n][k] < inbox'[n][l]
        BY <1>0, <2>2, <2>3, <2>4, <3>1 DEF Line, InboxInv
      <4> QED BY <4>1, <4>2, <4>3
    <3>2. CASE k = L + 1
      <4>1. inbox'[n][k] \in 1..Len(sent'[Peer(n)])
        BY <2>2, <2>3, <3>2, Peers DEF KeepsNumbers
      <4>2. \A i \in DOMAIN wire[n] : NotBefore(inbox'[n][k], wire[n][i])
        BY <2>2, <2>3, <3>2 DEF Line, HeldInv
      <4>3. \A l \in 1..(L + 1) : ~(k < l)
        BY <1>0, <3>2
      <4> QED BY <4>1, <4>2, <4>3
    <3> QED BY <2>4, <3>1, <3>2
  <2>8. lastRecvSeq'[n] = sent'[Peer(n)][inbox'[n][Len(inbox'[n])]].seq
    BY <1>1, <2>2, <2>3, Peers DEF KeepsNumbers
  <2>9. InboxInv(n)'
    BY <1>1, <2>2, <2>7, <2>8 DEF InboxInv, NotBefore
  <2> QED BY <2>5, <2>6, <2>9 DEF Line
<1> QED BY <1>2, <1>3

\* A direction of the line that a step does not touch stays in order.
LEMMA LineUntouched ==
  ASSUME TypeOK, TypeOK', KeepsNumbers, NEW n \in Node, Line(n),
         wire'[n] = wire[n], inbox'[n] = inbox[n],
         lastRecvSeq'[n] = lastRecvSeq[n],
         \/ rx'[n].frame.type # "data" /\ rx'[n].at # "accept"
         \/ /\ rx'[n].frame = rx[n].frame
            /\ rx'[n].at = "accept" => rx[n].frame.type = "data"
  PROVE  Line(n)'
<1>1. Len(wire[n]) \in Nat
  BY Domains
<1>2. \A i \in 1..Len(wire'[n]) : /\ i + 0 \in 1..Len(wire[n])
                                  /\ wire'[n][i] = wire[n][i + 0]
  BY <1>1
<1> QED BY <1>2, LineShrinks, 0 \in {0, 1}

\* So does one from which the first frame is taken, by the protocol thread
\* or by the noise on the line.
LEMMA HeadTaken ==
  ASSUME TypeOK, TypeOK', KeepsNumbers, NEW n \in Node, Line(n),
         wire[n] # <<>>, wire'[n] = Tail(wire[n]),
         inbox'[n] = inbox[n], lastRecvSeq'[n] = lastRecvSeq[n],
         rx'[n].frame = rx[n].frame \/ rx'[n].frame = Head(wire[n]),
         rx'[n].at = "accept" => rx'[n].frame.type = "data"
  PROVE  Line(n)'
<1>1. wire[n] \in Seq(Frame) /\ Len(wire[n]) \in Nat
  BY Domains
<1>2. /\ Len(wire'[n]) = Len(wire[n]) - 1 /\ Len(wire[n]) > 0
      /\ \A i \in 1..Len(wire'[n]) : wire'[n][i] = wire[n][i + 1]
  BY <1>1, HeadTailProperties, EmptySeq
<1>3. Head(wire[n]) = wire[n][1]
  BY <1>1
<1>4. \A i \in 1..Len(wire'[n]) : i + 1 \in 1..Len(wire[n])
  BY <1>1, <1>2
<1> QED BY <1>2, <1>3, <1>4, LineShrinks, 1 \in {0, 1}

\* Writing to the line at k leaves both directions in order.
LEMMA PutLines ==
  ASSUME TypeOK, TypeOK', KeepsNumbers, OrderInv, NEW k \in Node,
         NEW f \in Frame, wire' = Put(wire, k, f),
         f.type = "data" => /\ f.msg = Len(sent[k]) /\ f.msg > 0
                            /\ f.seq = sent[k][f.msg].seq,
         inbox' = inbox, lastRecvSeq' = lastRecvSeq,
         \A n \in Node \ {k} : rx'[n] = rx[n],
         \/ rx'[k].frame.type # "data" /\ rx'[k].at # "accept"
         \/ /\ rx'[k].frame = rx[k].frame
            /\ rx'[k].at = "accept" => rx[k].frame.type = "data"
  PROVE  OrderInv'
<1> SUFFICES ASSUME NEW n \in Node PROVE Line(n)'
  BY DEF OrderInv, Line
<1>0. Line(n) /\ wire \in [Node -> Seq(Frame)]
  BY DEF OrderInv, Line, TypeOK
<1>1. CASE n = k
  BY <1>0, <1>1, LineUntouched, Putting
<1>2. CASE n # k
  <2>1. n = Peer(k) /\ Peer(n) = k /\ rx'[n] = rx[n]
    BY <1>2 DEF Node, Peer
  <2>2. rx'[n].at = "accept" => rx[n].frame.type = "data"
    BY <1>0, <2>1 DEF Line, HeldInv
  <2>3. wire'[n] = wire[n] \/ wire'[n] = Append(wire[n], f)
    BY <1>0, <2>1, Putting
  <2> QED BY <1>0, <2>1, <2>2, <2>3, LineUntouched, LineGrows
<1> QED BY <1>1, <1>2

LEMMA RecordsKeepNumbers ==
  ASSUME TypeOK, SameNumbers PROVE KeepsNumbers
BY LenProperties DEF KeepsNumbers, SameNumbers, TypeOK

LEMMA SendBeginOrder ==
  ASSUME IInv, TypeOK', NEW t \in Task, SendBegin(t)
  PROVE  OrderInv'
<1> DEFINE n == Home[t]
           e == [seq |-> sequence[n], rel |-> Len(sent[n]) + 1 \in Reliable[n],
                 res |-> "pending", got |-> FALSE, breaks |-> 0, waits |-> 0]
<1>0. n \in Node /\ TypeOK
  BY ConstantsAssumption DEF IInv
<1>1. e \in Entry
  BY <1>0 DEF Entry, TypeOK
<1>2. sent' = [sent EXCEPT ![n] = Append(sent[n], e)]
  BY DEF SendBegin
<1>3. KeepsNumbers
  <2> SUFFICES ASSUME NEW k \in Node
               PROVE  /\ Len(sent[k]) \in Nat /\ Len(sent'[k]) \in Nat
                      /\ Len(sent[k]) <= Len(sent'[k])
                      /\ \A i \in 1..Len(sent[k]) :
                           sent'[k][i].seq = sent[k][i].seq
    BY DEF KeepsNumbers
  <2>1. sent[k] \in Seq(Entry) /\ Len(sent[k]) \in Nat
    BY <1>0, Domains
  <2>2. CASE k = n
    <3>1. /\ Len(Append(sent[n], e)) = Len(sent[n]) + 1
          /\ \A i \in 1..Len(sent[n]) : Append(sent[n], e)[i] = sent[n][i]
      BY <1>1, <2>1, <2>2, AppendProperties
    <3> QED BY <1>0, <1>2, <2>1, <2>2, <3>1 DEF TypeOK
  <2>3. CASE k # n
    BY <1>0, <1>2, <2>1, <2>3 DEF TypeOK
  <2> QED BY <2>2, <2>3
<1> SUFFICES ASSUME NEW k \in Node PROVE Line(k)'
  BY DEF OrderInv, Line
<1>4. Line(k) /\ UNCHANGED <<wire, rx, inbox, lastRecvSeq>>
  BY DEF IInv, OrderInv, Line, SendBegin
<1> QED BY <1>0, <1>3, <1>4, LineUntouched DEF Line, HeldInv

LEMMA SendStepOrder ==
  ASSUME IInv, TypeOK', NEW t \in Task, SendStep(t)
  PROVE  OrderInv'
<1> DEFINE n == Home[t]
<1>0. n \in Node /\ TypeOK /\ OrderInv /\ KeepsNumbers
  BY OnlyRecords, RecordsKeepNumbers, ConstantsAssumption DEF IInv, LockInv
<1>1. UNCHANGED <<rx, inbox, lastRecvSeq>>
  BY DEF SendStep, ClearAcked, LockWrite, WriteFrame, WaitBreak, WaitTimeout,
         CheckAcked, protocolVars
<1>2. CASE WriteFrame(t)
  <2> DEFINE m == tx[t].msg
  <2>1. m = Len(sent[n]) /\ m > 0 /\ m \in Nat /\ sent[n] \in Seq(Entry)
    BY <1>0, <1>2, Domains DEF WriteFrame, IInv, SendersInv
  <2>2. sent[n][m] \in Entry
    BY <2>1, ElementOfSeq
  <2>3. /\ PacketOf(t) \in Frame /\ PacketOf(t).msg = m
        /\ PacketOf(t).seq = sent[n][m].seq
    BY <2>1, <2>2, Frames DEF PacketOf, DataFrame
  <2>4. wire' = Put(wire, n, PacketOf(t))
    BY <1>2 DEF WriteFrame
  <2>5. rx[n].at = "accept" => rx[n].frame.type = "data"
    BY <1>0 DEF OrderInv, HeldInv
  <2> QED BY <1>0, <1>1, <2>1, <2>3, <2>4, <2>5, PutLines
<1>3. CASE wire' = wire
  <2> SUFFICES ASSUME NEW k \in Node PROVE Line(k)'
    BY DEF OrderInv, Line
  <2>1. Line(k)
    BY <1>0 DEF OrderInv, Line
  <2> QED BY <1>0, <1>1, <1>3, <2>1, LineUntouched DEF Line, HeldInv
<1> QED BY <1>2, <1>3
        DEF SendStep, ClearAcked, LockWrite, WaitBreak, WaitTimeout, CheckAcked

LEMMA ParseStepOrder ==
  ASSUME IInv, TypeOK', NEW n \in Node, ParseStep(n)
  PROVE  OrderInv'
<1>0. TypeOK /\ OrderInv /\ KeepsNumbers /\ \A k \in Node : Line(k)
  BY OnlyRecords, RecordsKeepNumbers DEF IInv, LockInv, OrderInv, Line
<1>1. CASE \E kind \in {"ack", "nack", "data", "junk"} : Receive(n, kind)
  <2> SUFFICES ASSUME NEW k \in Node PROVE Line(k)'
    BY DEF OrderInv, Line
  <2>1. /\ wire[n] # <<>> /\ wire'[n] = Tail(wire[n])
        /\ UNCHANGED <<inbox, lastRecvSeq>>
        /\ rx'[n] = rx[n] \/ rx'[n].frame = Head(wire[n])
        /\ rx'[n].at = "accept" => rx'[n].frame.type = "data"
        /\ \A l \in Node \ {n} : wire'[l] = wire[l] /\ rx'[l] = rx[l]
    <3>1. rx[n].at = "idle" /\ wire[n] # <<>> /\ wire' = [wire EXCEPT ![n] = Tail(@)]
      BY <1>1 DEF Receive
    <3>2. \/ ReceiveAck(n) \/ ReceiveNack(n) \/ ReceiveData(n) \/ ReceiveJunk(n)
      BY <3>1 DEF ParseStep, SetAcked, Break, LockReply, WriteReply, Accept
    <3>3. UNCHANGED <<inbox, lastRecvSeq>>
      BY <3>2 DEF ReceiveAck, ReceiveNack, ReceiveData, ReceiveJunk, protocolVars
    <3>4. /\ rx' = [rx EXCEPT ![n] = rx'[n]]
          /\ rx'[n] = rx[n] \/ rx'[n].frame = Head(wire[n])
          /\ rx'[n].at = "accept" => rx'[n].frame.type = "data"
      <4>1. CASE rx' = rx
        BY <1>0, <3>1, <4>1 DEF TypeOK
      <4>2. ASSUME NEW place, Busy(n, place),
                   place = "accept" => Head(wire[n]).type = "data"
            PROVE  /\ rx' = [rx EXCEPT ![n] = rx'[n]]
                   /\ rx'[n].frame = Head(wire[n])
                   /\ rx'[n].at = "accept" => rx'[n].frame.type = "data"
        BY <1>0, <4>2 DEF Busy, TypeOK
      <4>3. CASE ReceiveAck(n) \/ ReceiveNack(n)
        BY <4>1, <4>2, <4>3 DEF ReceiveAck, ReceiveNack
      <4>4. CASE ReceiveData(n) \/ ReceiveJunk(n)
        BY <4>2, <4>4 DEF ReceiveData, ReceiveJunk, Receive
      <4> QED BY <3>2, <4>3, <4>4
    <3> QED BY <1>0, <3>1, <3>3, <3>4 DEF TypeOK
  <2>2. CASE k = n
    BY <1>0, <2>1, <2>2, HeadTaken
  <2>3. CASE k # n
    BY <1>0, <2>1, <2>3, LineUntouched DEF Line, HeldInv
  <2> QED BY <2>2, <2>3
<1>2. CASE SetAcked(n) \/ Break(n) \/ LockReply(n)
  <2> SUFFICES ASSUME NEW k \in Node PROVE Line(k)'
    BY DEF OrderInv, Line
  <2>1. UNCHANGED <<wire, inbox, lastRecvSeq>>
    BY <1>2 DEF SetAcked, Break, LockReply, protocolVars
  <2>2. \/ rx'[k].frame = rx[k].frame
        \/ rx'[k].frame.type # "data"
    <3>1. CASE k = n
      <4>1. CASE Break(n)
        BY <1>0, <3>1, <4>1 DEF Break, AtRest, Control, TypeOK
      <4>2. CASE SetAcked(n) \/ LockReply(n)
        BY <1>0, <3>1, <4>2 DEF SetAcked, LockReply, TypeOK, Parser
      <4> QED BY <1>2, <4>1, <4>2
    <3>2. CASE k # n
      BY <1>0, <1>2, <3>2 DEF SetAcked, Break, LockReply, TypeOK
    <3> QED BY <3>1, <3>2
  <2>3. rx'[k].at = "accept" => rx[k].frame.type = "data" /\ rx'[k] = rx[k]
    <3>1. rx[n] \in Parser /\ DOMAIN rx = Node
      BY <1>0 DEF TypeOK
    <3>2. k = n => rx'[k].at # "accept"
      <4>1. CASE SetAcked(n)
        BY <3>1, <4>1 DEF SetAcked, Parser
      <4>2. CASE Break(n)
        BY <3>1, <4>2 DEF Break, AtRest
      <4>3. CASE LockReply(n)
        BY <3>1, <4>3 DEF LockReply, Parser
      <4> QED BY <1>2, <4>1, <4>2, <4>3
    <3>3. k # n => rx'[k] = rx[k]
      BY <1>2, <3>1 DEF SetAcked, Break, LockReply
    <3>4. rx[k].at = "accept" => rx[k].frame.type = "data"
      BY <1>0 DEF Line, HeldInv
    <3> QED BY <3>2, <3>3, <3>4
  <2> QED BY <1>0, <2>1, <2>2, <2>3, LineUntouched
<1>3. CASE WriteReply(n)
  <2> DEFINE f == rx[n].frame
             reply == Control(IF f.type = "data" THEN "ack" ELSE "nack", f.seq)
  <2>1. reply \in Frame /\ reply.type # "data"
    <3>1. f.seq \in Seqs
      BY <1>0 DEF TypeOK, Parser, Frame
    <3> QED BY <3>1, Frames DEF Control
  <2>2. /\ wire' = Put(wire, n, reply) /\ UNCHANGED <<inbox, lastRecvSeq>>
        /\ \A k \in Node \ {n} : rx'[k] = rx[k]
    BY <1>0, <1>3 DEF WriteReply, protocolVars, TypeOK
  <2>3. \/ rx'[n].frame.type # "data" /\ rx'[n].at # "accept"
        \/ /\ rx'[n].frame = rx[n].frame
           /\ rx'[n].at = "accept" => rx[n].frame.type = "data"
    BY <1>0, <1>3 DEF WriteReply, AtRest, Control, TypeOK, Parser
  <2> QED BY <1>0, <2>1, <2>2, <2>3, PutLines
<1>4. CASE Accept(n)
  <2> SUFFICES ASSUME NEW k \in Node PROVE Line(k)'
    BY DEF OrderInv, Line
  <2>1. CASE k = n
    BY <1>0, <1>4, <2>1, AcceptLine
  <2>2. CASE k # n
    <3>1. /\ wire'[k] = wire[k] /\ inbox'[k] = inbox[k] /\ rx'[k] = rx[k]
          /\ lastRecvSeq'[k] = lastRecvSeq[k]
      BY <1>0, <1>4, <2>2 DEF Accept, TypeOK
    <3> QED BY <1>0, <3>1, LineUntouched DEF Line, HeldInv
  <2> QED BY <2>1, <2>2
<1> QED BY <1>1, <1>2, <1>3, <1>4
        DEF ParseStep, ReceiveAck, ReceiveNack, ReceiveData, ReceiveJunk

LEMMA LineOrder ==
  ASSUME IInv, TypeOK', NEW n \in Node, Lose(n) \/ Corrupt(n)
  PROVE  OrderInv'
<1>0. TypeOK /\ OrderInv /\ KeepsNumbers /\ \A k \in Node : Line(k)
  BY OnlyRecords, RecordsKeepNumbers DEF IInv, LockInv, OrderInv, Line
<1> SUFFICES ASSUME NEW k \in Node PROVE Line(k)'
  BY DEF OrderInv, Line
<1>1. UNCHANGED <<rx, inbox, lastRecvSeq>>
  BY DEF Lose, Corrupt, protocolVars
<1>2. rx[k].at = "accept" => rx[k].frame.type = "data"
  BY <1>0 DEF Line, HeldInv
<1>3. CASE k # n
  <2>1. wire'[k] = wire[k]
    BY <1>0, <1>3 DEF Lose, Corrupt, TypeOK
  <2> QED BY <1>0, <1>1, <1>2, <2>1, LineUntouched
<1>4. CASE k = n /\ Lose(n)
  <2>1. wire[n] # <<>> /\ wire'[n] = Tail(wire[n])
    BY <1>0, <1>4 DEF Lose, TypeOK
  <2> QED BY <1>0, <1>1, <1>2, <1>4, <2>1, HeadTaken
<1>5. CASE k = n /\ Corrupt(n)
  <2> DEFINE w == wire[n]
  <2>0. PICK j \in Damaged(Head(w)) :
          wire' = [wire EXCEPT ![n] = <<j>> \o Tail(w)]
    BY <1>0, <1>5 DEF Corrupt, TypeOK
  <2>1. w \in Seq(Frame) /\ w # <<>> /\ Len(w) \in Nat
        /\ wire'[n] = <<j>> \o Tail(w)
    BY <1>0, <1>5, <2>0, Domains DEF Corrupt, TypeOK
  <2>2. /\ Tail(w) \in Seq(Frame) /\ Len(Tail(w)) = Len(w) - 1
        /\ \A i \in 1..Len(Tail(w)) : Tail(w)[i] = w[i + 1]
        /\ j \in Frame /\ j.type # "data"
    <3>1. Head(w) \in Frame
      BY <2>1, HeadTailProperties
    <3>2. j \in Frame /\ j.type # "data"
      BY <2>0, <3>1, DamagedFrames
    <3> QED BY <2>1, <3>2, HeadTailProperties
  <2>3. /\ Len(wire'[n]) = Len(w)
        /\ \A i \in 1..Len(w) : wire'[n][i] = IF i <= 1 THEN j ELSE Tail(w)[i - 1]
    <3>1. <<j>> \in Seq(Frame) /\ Len(<<j>>) = 1 /\ <<j>>[1] = j
      BY <2>2
    <3>2. /\ Len(<<j>> \o Tail(w)) = 1 + Len(Tail(w))
          /\ \A i \in 1..(1 + Len(Tail(w))) : (<<j>> \o Tail(w))[i]
               = IF i <= 1 THEN <<j>>[i] ELSE Tail(w)[i - 1]
      BY <2>2, <3>1, ConcatProperties
    <3> QED BY <2>1, <2>2, <3>1, <3>2
  <2>4. \A i \in 1..Len(wire'[n]) :
          /\ i + 0 \in 1..Len(w)
          /\ wire'[n][i] = w[i + 0] \/ wire'[n][i].type # "data"
    <3> SUFFICES ASSUME NEW i \in 1..Len(w)
                 PROVE  wire'[n][i] = w[i] \/ wire'[n][i].type # "data"
      BY <2>1, <2>3
    <3>1. CASE i <= 1
      BY <2>2, <2>3, <3>1
    <3>2. CASE i > 1
      <4>1. i - 1 \in 1..Len(Tail(w)) /\ (i - 1) + 1 = i
        BY <2>1, <2>2, <3>2
      <4> QED BY <2>2, <2>3, <3>2, <4>1
    <3> QED BY <2>1, <3>1, <3>2
  <2> QED BY <1>0, <1>1, <1>2, <1>5, <2>4, LineShrinks, 0 \in {0, 1}
<1> QED BY <1>3, <1>4, <1>5

LEMMA RestartOrder ==
  ASSUME IInv, TypeOK', NEW n \in Node, Restart(n)
  PROVE  OrderInv'
<1>0. TypeOK /\ OrderInv /\ KeepsNumbers /\ \A k \in Node : Line(k)
  BY OnlyRecords, RecordsKeepNumbers DEF IInv, LockInv, OrderInv, Line
<1> SUFFICES ASSUME NEW k \in Node PROVE Line(k)'
  BY DEF OrderInv, Line
<1>1. CASE k = n
  <2>1. /\ wire'[n] = <<>> /\ inbox'[n] = <<>>
        /\ rx'[n].frame.type # "data" /\ rx'[n].at # "accept"
    BY <1>0 DEF Restart, AtRest, Control, TypeOK
  <2> QED BY <1>1, <2>1 DEF Line, WireInv, HeldInv, InboxInv, Genuine
<1>2. CASE k # n
  <2>1. /\ wire'[k] = wire[k] /\ inbox'[k] = inbox[k] /\ rx'[k] = rx[k]
        /\ lastRecvSeq'[k] = lastRecvSeq[k]
    BY <1>0, <1>2 DEF Restart, TypeOK
  <2> QED BY <1>0, <2>1, LineUntouched DEF Line, HeldInv
<1> QED BY <1>1, <1>2

LEMMA IInvInit == Init => IInv
<1> SUFFICES ASSUME Init PROVE IInv
  OBVIOUS
<1>1. OrderInv
  BY DEF Init, OrderInv, WireInv, HeldInv, InboxInv, Genuine, AtRest, Control
<1> QED BY <1>1, LockInit DEF IInv, LockInv

LEMMA IInvStep == IInv /\ [Next]_vars => IInv'
<1> SUFFICES ASSUME IInv, [Next]_vars PROVE IInv'
  OBVIOUS
<1>1. LockInv' /\ TypeOK'
  BY LockStep DEF IInv, LockInv
<1>2. OrderInv'
  <2>1. CASE UNCHANGED vars
    BY <2>1 DEF IInv, OrderInv, WireInv, HeldInv, InboxInv, Genuine, NotBefore,
                vars, protocolVars
  <2> QED BY <1>1, <2>1, SendBeginOrder, SendStepOrder, ParseStepOrder, LineOrder,
             RestartOrder DEF Next, Finished
<1> QED BY <1>1, <1>2 DEF IInv, LockInv

\* The messages are in order wherever they are on their way.
THEOREM InOrder == Spec => []IInv
BY IInvInit, IInvStep, PTL DEF Spec

-----------------------------------------------------------------------------
(* CommProtocol implements OrderedDelivery                                 *)

\* A step either hands over a message, delivers a later one than all before,
\* restarts an end, or changes nothing that OrderedDelivery sees.
LEMMA OrderedStep == IInv /\ [Next]_vars => [Ordered!Next]_(Ordered!vars)
<1> DEFINE issued == [n \in Node |-> Len(sent[n])]
<1> SUFFICES ASSUME IInv, [Next]_vars
             PROVE  Ordered!Next \/ UNCHANGED Ordered!vars
  OBVIOUS
<1>0. TypeOK /\ LockInv /\ OrderInv /\ \A k \in Node : Line(k)
  BY DEF IInv, LockInv, OrderInv, Line
<1>1. SameNumbers => UNCHANGED [n \in Node |-> Len(sent[n])]
  BY DEF SameNumbers
<1>2. ASSUME SameNumbers, inbox' = inbox
      PROVE  UNCHANGED Ordered!vars
  BY <1>1, <1>2 DEF Ordered!vars
<1>3. ASSUME NEW t \in Task, SendBegin(t)
      PROVE  Ordered!Next
  <2> DEFINE n == Home[t]
  <2>1. n \in Node /\ sent[n] \in Seq(Entry)
    BY <1>0, ConstantsAssumption DEF TypeOK
  <2>2. PICK e \in Entry : sent' = [sent EXCEPT ![n] = Append(sent[n], e)]
    <3> DEFINE e == [seq |-> sequence[n],
                     rel |-> Len(sent[n]) + 1 \in Reliable[n],
                     res |-> "pending", got |-> FALSE, breaks |-> 0, waits |-> 0]
    <3>1. e \in Entry
      BY <1>0, <2>1 DEF Entry, TypeOK
    <3> QED BY <1>3, <3>1 DEF SendBegin
  <2>3. Len(sent'[n]) = Len(sent[n]) + 1
        /\ \A k \in Node \ {n} : sent'[k] = sent[k]
    BY <1>0, <2>1, <2>2, AppendProperties DEF TypeOK
  <2>4. [k \in Node |-> Len(sent'[k])]
          = [[k \in Node |-> Len(sent[k])] EXCEPT ![n] = @ + 1]
    BY <2>1, <2>3
  <2>5. inbox' = inbox
    BY <1>3 DEF SendBegin
  <2> QED BY <2>1, <2>4, <2>5 DEF Ordered!Next, Ordered!Issue
<1>4. ASSUME NEW t \in Task, SendStep(t)
      PROVE  UNCHANGED Ordered!vars
  <2>1. inbox' = inbox
    BY <1>4 DEF SendStep, ClearAcked, LockWrite, WriteFrame, WaitBreak,
                WaitTimeout, CheckAcked
  <2> QED BY <1>0, <1>2, <1>4, <2>1, OnlyRecords
<1>5. ASSUME NEW n \in Node, ParseStep(n)
      PROVE  Ordered!Next \/ UNCHANGED Ordered!vars
  <2>1. SameNumbers
    BY <1>0, <1>5, OnlyRecords
  <2>2. CASE inbox' = inbox
    BY <1>2, <2>1, <2>2
  <2>3. CASE inbox' # inbox
    <3> DEFINE m == rx[n].frame.msg
    <3>1. /\ rx[n].at = "accept" /\ ~IsDuplicate(n, rx[n].frame)
          /\ inbox' = [inbox EXCEPT ![n] = Append(@, m)]
      BY <1>5, <2>3
         DEF ParseStep, ReceiveAck, SetAcked, Break, ReceiveNack, ReceiveData,
             ReceiveJunk, LockReply, WriteReply, Accept
    <3>2. /\ m \in 1..Len(sent[Peer(n)])
          /\ \A k \in 1..Len(inbox[n]) : inbox[n][k] < m
      BY <1>0, <3>1, Later
    <3>3. DOMAIN inbox[n] = 1..Len(inbox[n])
      BY <1>0, Domains
    <3>4. Ordered!Deliver(n, m)
      BY <1>1, <2>1, <3>1, <3>2, <3>3 DEF Ordered!Deliver
    <3>5. m \in 1..([k \in Node |-> Len(sent[k])][Peer(n)])
      BY <3>2, Peers
    <3> QED BY <3>4, <3>5 DEF Ordered!Next
  <2> QED BY <2>2, <2>3
<1>6. ASSUME NEW n \in Node, Lose(n) \/ Corrupt(n)
      PROVE  UNCHANGED Ordered!vars
  BY <1>0, <1>2, <1>6, OnlyRecords DEF Lose, Corrupt
<1>7. ASSUME NEW n \in Node, Restart(n)
      PROVE  Ordered!Next
  <2>1. SameNumbers /\ inbox' = [inbox EXCEPT ![n] = <<>>]
    BY <1>0, <1>7, OnlyRecords DEF Restart
  <2> QED BY <1>1, <2>1 DEF Ordered!Next, Ordered!Forget
<1>8. ASSUME UNCHANGED vars
      PROVE  UNCHANGED Ordered!vars
  BY <1>8 DEF vars, Ordered!vars
<1> QED BY <1>3, <1>4, <1>5, <1>6, <1>7, <1>8 DEF Next, Finished

\* Whatever the line loses or damages, whichever end is restarted and however
\* small the space of sequence numbers, an application is given the messages
\* of its peer in the order of the sends and each of them at most once.
THEOREM Refinement == Spec => OrderedSpec
<1>1. Init => Ordered!Init
  <2> SUFFICES ASSUME Init PROVE Ordered!Init
    OBVIOUS
  <2>1. [n \in Node |-> Len(sent[n])] = [n \in Node |-> 0]
    BY EmptySeq DEF Init
  <2> QED BY <2>1 DEF Init, Ordered!Init
<1> QED BY <1>1, InOrder, OrderedStep, PTL DEF Spec, OrderedSpec, Ordered!Spec

=============================================================================
