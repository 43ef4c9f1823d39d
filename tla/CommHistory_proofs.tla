-------------------------- MODULE CommHistory_proofs --------------------------
(***************************************************************************)
(* Proofs about CommHistory, for any threads, number of messages and       *)
(* retries: what a send's result says when nothing but losses happens.     *)
(***************************************************************************)
EXTENDS CommBudget, CommProtocol_proofs

-----------------------------------------------------------------------------
(* What a step does to the history and to the line                         *)

\* Entry i of n is e now, and the others are as they were.
Overwritten(n, i, e) ==
  \A k \in Node :
    /\ Last(k)' = Last(k)
    /\ \A j \in 1..Last(k) :
         sent'[k][j] = IF k = n /\ j = i THEN e ELSE sent[k][j]

LEMMA EntryWritten ==
  ASSUME sent \in [Node -> Seq(Entry)], NEW n \in Node, NEW i, NEW e,
         sent' = [sent EXCEPT ![n] = [sent[n] EXCEPT ![i] = e]]
  PROVE  Overwritten(n, i, e)
<1> SUFFICES ASSUME NEW k \in Node
             PROVE  /\ Last(k)' = Last(k)
                    /\ \A j \in 1..Last(k) :
                         sent'[k][j] = IF k = n /\ j = i THEN e ELSE sent[k][j]
  BY DEF Overwritten
<1>1. CASE k # n
  BY <1>1 DEF Last
<1>2. CASE k = n
  <2> DEFINE s == sent[n]
  <2>1. s \in Seq(Entry) /\ sent'[n] = [s EXCEPT ![i] = e]
    OBVIOUS
  <2>2. DOMAIN s = 1..Len(s) /\ DOMAIN sent'[n] = DOMAIN s /\ Len(s) \in Nat
    BY <2>1
  <2>3. Len(sent'[n]) = Len(s)
    <3>1. sent'[n] = [j \in 1..Len(s) |-> IF j = i THEN e ELSE s[j]]
      BY <2>1, <2>2
    <3> HIDE DEF s
    <3> QED BY <2>2, <3>1
  <2> QED BY <1>2, <2>1, <2>2, <2>3 DEF Last
<1> QED BY <1>1, <1>2

\* The frames behind a place of the line: those that were there, in their
\* order, d of them taken away, and f if it was written.
LineStep(n, d, f) ==
  \A i \in 1..Len(wire'[n]) :
    \/ i + d \in 1..Len(wire[n]) /\ wire'[n][i] = wire[n][i + d]
    \/ d = 0 /\ i = Len(wire[n]) + 1 /\ wire'[n][i] = f

LEMMA LineSame ==
  ASSUME TypeOK, NEW n \in Node, wire'[n] = wire[n], NEW f
  PROVE  LineStep(n, 0, f)
BY Domains DEF LineStep

LEMMA LineTail ==
  ASSUME TypeOK, NEW n \in Node, wire[n] # <<>>, wire'[n] = Tail(wire[n]), NEW f
  PROVE  /\ LineStep(n, 1, f) /\ wire[n][1] = Head(wire[n]) /\ 1 \in 1..Len(wire[n])
         /\ Len(wire'[n]) <= Len(wire[n])
<1>1. wire[n] \in Seq(Frame) /\ Len(wire[n]) \in Nat
  BY Domains
<1>2. Tail(wire[n]) \in Seq(Frame) /\ Len(Tail(wire[n])) = Len(wire[n]) - 1
      /\ \A i \in 1..Len(Tail(wire[n])) : Tail(wire[n])[i] = wire[n][i + 1]
  BY <1>1, HeadTailProperties
<1>3. Len(wire[n]) > 0 /\ wire[n][1] = Head(wire[n])
  BY <1>1, EmptySeq
<1> QED BY <1>1, <1>2, <1>3 DEF LineStep

LEMMA LinePut ==
  ASSUME TypeOK, NEW n \in Node, NEW f \in Frame, wire' = Put(wire, n, f)
  PROVE  LineStep(Peer(n), 0, f) /\ wire'[n] = wire[n]
<1> DEFINE p == Peer(n)
<1>1. p \in Node /\ wire \in [Node -> Seq(Frame)]
  BY Peers DEF TypeOK
<1>2. wire'[n] = wire[n] /\ wire'[p] \in {wire[p], Append(wire[p], f)}
  BY <1>1, Putting
<1>3. CASE wire'[p] = wire[p]
  BY <1>1, <1>2, <1>3, LineSame
<1>4. CASE wire'[p] = Append(wire[p], f)
  <2>1. wire[p] \in Seq(Frame) /\ Len(wire[p]) \in Nat
    BY <1>1, Domains
  <2>2. Len(wire'[p]) = Len(wire[p]) + 1
        /\ \A i \in 1..Len(wire[p]) : wire'[p][i] = wire[p][i]
        /\ wire'[p][Len(wire[p]) + 1] = f
    BY <1>4, <2>1, AppendProperties
  <2> QED BY <1>2, <2>1, <2>2 DEF LineStep
<1> QED BY <1>2, <1>3, <1>4

\* No frame comes from nowhere.
LEMMA NoNewFrames ==
  ASSUME TypeOK, NEW n \in Node, NEW d \in {0, 1}, NEW f, LineStep(n, d, f),
         rx'[n].frame \in FramesTo(n) \cup {f}
  PROVE  FramesTo(n)' \subseteq FramesTo(n) \cup {f}
<1> SUFFICES ASSUME NEW g \in FramesTo(n)' PROVE g \in FramesTo(n) \cup {f}
  OBVIOUS
<1>1. CASE g = rx'[n].frame
  BY <1>1
<1>2. CASE \E i \in 1..Len(wire'[n]) : g = wire'[n][i]
  BY <1>2 DEF LineStep, FramesTo
<1> QED BY <1>1, <1>2 DEF FramesTo

\* What the steps of CommHistory are: neither damage nor restarts.
Step == \/ \E t \in Task : SendBegin(t) \/ SendStep(t)
        \/ \E n \in Node : ParseStep(n) \/ Lose(n)
        \/ UNCHANGED vars

\* Taking up the first frame of a line touches neither the other line nor the
\* other protocol thread.
LEMMA Taking ==
  ASSUME TypeOK, NEW n \in Node, NEW kind, Receive(n, kind),
         (\E place : Busy(n, place)) \/ rx' = rx, NEW f
  PROVE  /\ LineStep(n, 1, f) /\ 1 \in 1..Len(wire[n])
         /\ Len(wire'[n]) <= Len(wire[n])
         /\ rx'[n].frame \in FramesTo(n)
         /\ wire'[Peer(n)] = wire[Peer(n)] /\ rx'[Peer(n)] = rx[Peer(n)]
         /\ rx' # rx => rx'[n].frame = wire[n][1] /\ rx[n].at = "idle"
         /\ wire[n][1].type = kind
<1>1. wire[n] # <<>> /\ wire'[n] = Tail(wire[n]) /\ Head(wire[n]).type = kind
      /\ rx[n].at = "idle"
  BY DEF Receive, TypeOK
<1>2. /\ LineStep(n, 1, f) /\ wire[n][1] = Head(wire[n]) /\ 1 \in 1..Len(wire[n])
      /\ Len(wire'[n]) <= Len(wire[n])
  BY <1>1, LineTail
<1>3. rx'[n].frame \in {rx[n].frame, wire[n][1]}
      /\ (rx' # rx => rx'[n].frame = wire[n][1])
  BY <1>2 DEF Busy, TypeOK
<1>4. wire'[Peer(n)] = wire[Peer(n)] /\ rx'[Peer(n)] = rx[Peer(n)]
  BY Peers DEF Receive, Busy, TypeOK
<1> QED BY <1>1, <1>2, <1>3, <1>4 DEF FramesTo

\* One step of the line to k: at most its first frame is taken away, or one is
\* written by the other end.
LEMMA LineSteps ==
  ASSUME IInv, Step, NEW k \in Node
  PROVE  \E d \in {0, 1}, f \in Frame :
           /\ LineStep(k, d, f)
           /\ rx'[k].frame \in FramesTo(k) \cup {AtRest.frame}
           /\ \/ f = AtRest.frame /\ Len(wire'[k]) <= Len(wire[k])
              \/ \E t \in Task : Home[t] = Peer(k) /\ WriteFrame(t) /\ f = PacketOf(t)
              \/ /\ WriteReply(Peer(k))
                 /\ f = Control(IF rx[Peer(k)].frame.type = "data" THEN "ack" ELSE "nack",
                                rx[Peer(k)].frame.seq)
<1> DEFINE Goal(d, f) ==
      /\ LineStep(k, d, f)
      /\ rx'[k].frame \in FramesTo(k) \cup {AtRest.frame}
      /\ \/ f = AtRest.frame /\ Len(wire'[k]) <= Len(wire[k])
         \/ \E t \in Task : Home[t] = Peer(k) /\ WriteFrame(t) /\ f = PacketOf(t)
         \/ /\ WriteReply(Peer(k))
            /\ f = Control(IF rx[Peer(k)].frame.type = "data" THEN "ack" ELSE "nack",
                           rx[Peer(k)].frame.seq)
<1>0. TypeOK /\ LockInv /\ rx[k].frame \in FramesTo(k) /\ DOMAIN rx = Node
  BY DEF IInv, LockInv, FramesTo, TypeOK
<1>a. AtRest.frame \in Frame
  BY Numbers, Frames DEF AtRest
<1>b. (wire'[k] = wire[k] /\ rx'[k].frame \in FramesTo(k) \cup {AtRest.frame})
        => Goal(0, AtRest.frame)
  BY <1>0, LineSame, Domains
<1>1. ASSUME NEW t \in Task, SendBegin(t) \/ (SendStep(t) /\ ~ WriteFrame(t))
      PROVE  Goal(0, AtRest.frame)
  <2>1. wire' = wire /\ rx' = rx
    BY <1>1 DEF SendBegin, SendStep, ClearAcked, LockWrite, WaitBreak,
                WaitTimeout, CheckAcked
  <2> QED BY <1>0, <1>b, <2>1
<1>2. ASSUME NEW t \in Task, WriteFrame(t)
      PROVE  \E f \in Frame : Goal(0, f)
  <2> DEFINE n == Home[t]
  <2>1. n \in Node /\ PacketOf(t) \in Frame
    <3>1. tx[t].msg \in 1..Len(sent[n]) /\ sent[n] \in Seq(Entry) /\ n \in Node
      <4>1. tx[t].msg = Len(sent[n]) /\ tx[t].msg > 0
        BY <1>2 DEF WriteFrame, IInv, SendersInv
      <4>2. sent[n] \in Seq(Entry) /\ Len(sent[n]) \in Nat /\ n \in Node
        BY <1>0, LenProperties, ConstantsAssumption DEF TypeOK
      <4> QED BY <4>1, <4>2
    <3> QED BY <3>1, ElementOfSeq, Frames DEF PacketOf
  <2>2. wire' = Put(wire, n, PacketOf(t)) /\ rx' = rx
    BY <1>2 DEF WriteFrame
  <2>3. LineStep(Peer(n), 0, PacketOf(t)) /\ wire'[n] = wire[n]
    BY <1>0, <2>1, <2>2, LinePut
  <2>4. CASE k = n
    BY <1>0, <1>a, <1>b, <2>2, <2>3, <2>4
  <2>5. CASE k # n
    <3>1. k = Peer(n) /\ n = Peer(k)
      BY <2>1, <2>5 DEF Peer, Node
    <3> QED BY <1>0, <1>2, <2>1, <2>2, <2>3, <3>1
  <2> QED BY <2>4, <2>5
<1>3. ASSUME NEW n \in Node, SetAcked(n) \/ Break(n) \/ LockReply(n) \/ Accept(n)
      PROVE  Goal(0, AtRest.frame)
  <2>1. wire' = wire
    BY <1>3 DEF SetAcked, Break, LockReply, Accept
  <2>2. rx'[k].frame \in {rx[k].frame, AtRest.frame}
    <3>1. rx[k] \in Parser
      BY <1>0 DEF TypeOK
    <3> QED BY <1>0, <1>3, <3>1 DEF SetAcked, Break, LockReply, Accept, Parser
  <2> QED BY <1>0, <1>b, <2>1, <2>2
<1>4. ASSUME NEW n \in Node,
             ReceiveAck(n) \/ ReceiveNack(n) \/ ReceiveData(n) \/ ReceiveJunk(n)
      PROVE  \E d \in {0, 1} : Goal(d, AtRest.frame)
  <2>1. /\ \E kind \in {"ack", "nack", "data", "junk"} : Receive(n, kind)
        /\ (\E place : Busy(n, place)) \/ rx' = rx
    BY <1>4 DEF ReceiveAck, ReceiveNack, ReceiveData, ReceiveJunk
  <2>2. /\ LineStep(n, 1, AtRest.frame) /\ rx'[n].frame \in FramesTo(n)
        /\ Len(wire'[n]) <= Len(wire[n])
        /\ wire'[Peer(n)] = wire[Peer(n)] /\ rx'[Peer(n)] = rx[Peer(n)]
    BY <1>0, <2>1, Taking
  <2>3. CASE k = n
    BY <2>2, <2>3
  <2>4. CASE k # n
    <3>1. k = Peer(n)
      BY <2>4 DEF Peer, Node
    <3> QED BY <1>0, <1>b, <2>2, <3>1
  <2> QED BY <2>3, <2>4
<1>5. ASSUME NEW n \in Node, WriteReply(n)
      PROVE  \E f \in Frame : Goal(0, f)
  <2> DEFINE f == Control(IF rx[n].frame.type = "data" THEN "ack" ELSE "nack",
                          rx[n].frame.seq)
  <2>1. f \in Frame
    <3>1. rx[n].frame.seq \in Seqs
      BY <1>0 DEF TypeOK, Parser, Frame
    <3> QED BY <3>1, Frames
  <2>2. wire' = Put(wire, n, f) /\ rx'[k].frame \in {rx[k].frame, AtRest.frame}
    <3>1. wire' = Put(wire, n, f)
      BY <1>5 DEF WriteReply
    <3>2. rx[k] \in Parser
      BY <1>0 DEF TypeOK
    <3>3. rx'[k].frame \in {rx[k].frame, AtRest.frame}
      BY <1>0, <1>5, <3>2 DEF WriteReply, Parser
    <3> QED BY <3>1, <3>3
  <2>3. LineStep(Peer(n), 0, f) /\ wire'[n] = wire[n]
    BY <1>0, <2>1, <2>2, LinePut
  <2>4. CASE k = n
    BY <1>0, <1>a, <1>b, <2>2, <2>3, <2>4
  <2>5. CASE k # n
    <3>1. k = Peer(n) /\ n = Peer(k)
      BY <2>5 DEF Peer, Node
    <3> QED BY <1>0, <1>5, <2>1, <2>2, <2>3, <3>1
  <2> QED BY <2>4, <2>5
<1>6. ASSUME NEW n \in Node, Lose(n)
      PROVE  \E d \in {0, 1} : Goal(d, AtRest.frame)
  <2>1. wire[n] # <<>> /\ wire'[n] = Tail(wire[n]) /\ rx' = rx
        /\ (k # n => wire'[k] = wire[k])
    BY <1>0, <1>6 DEF Lose, TypeOK
  <2>2. CASE k = n
    BY <1>0, <2>1, <2>2, LineTail
  <2>3. CASE k # n
    BY <1>0, <1>b, <2>1, <2>3
  <2> QED BY <2>2, <2>3
<1>7. ASSUME UNCHANGED vars
      PROVE  Goal(0, AtRest.frame)
  BY <1>0, <1>7, <1>b DEF vars
<1> HIDE DEF Goal
<1>8. \E d \in {0, 1}, f \in Frame : Goal(d, f)
  <2>1. ASSUME NEW n \in Node, ParseStep(n)
        PROVE  \E d \in {0, 1}, f \in Frame : Goal(d, f)
    BY <1>a, <1>3, <1>4, <1>5, <2>1 DEF ParseStep
  <2>2. ASSUME NEW t \in Task, SendBegin(t) \/ SendStep(t)
        PROVE  \E d \in {0, 1}, f \in Frame : Goal(d, f)
    BY <1>a, <1>1, <1>2, <2>2
  <2> QED BY <1>a, <1>6, <1>7, <2>1, <2>2 DEF Step
<1> QED BY <1>8 DEF Goal

\* A frame that was not there before is one a step put there.
LEMMA NewFrames ==
  ASSUME IInv, Step, NEW k \in Node, NEW g \in FramesTo(k)', g \notin FramesTo(k)
  PROVE  \/ g = AtRest.frame
         \/ \E t \in Task : Home[t] = Peer(k) /\ WriteFrame(t) /\ g = PacketOf(t)
         \/ /\ WriteReply(Peer(k))
            /\ g = Control(IF rx[Peer(k)].frame.type = "data" THEN "ack" ELSE "nack",
                           rx[Peer(k)].frame.seq)
<1>0. TypeOK
  BY DEF IInv
<1>1. PICK d \in {0, 1}, f \in Frame :
           /\ LineStep(k, d, f)
           /\ rx'[k].frame \in FramesTo(k) \cup {AtRest.frame}
           /\ \/ f = AtRest.frame
              \/ \E t \in Task : Home[t] = Peer(k) /\ WriteFrame(t) /\ f = PacketOf(t)
              \/ /\ WriteReply(Peer(k))
                 /\ f = Control(IF rx[Peer(k)].frame.type = "data" THEN "ack" ELSE "nack",
                                rx[Peer(k)].frame.seq)
  BY LineSteps
<1>2. g = f \/ g = AtRest.frame
  BY <1>1 DEF FramesTo, LineStep
<1> QED BY <1>1, <1>2

\* What is recorded changes one field of one entry.
LEMMA Fields ==
  ASSUME NEW x \in Entry
  PROVE  /\ \A r : LET y == [x EXCEPT !.res = r] IN
              /\ y.seq = x.seq /\ y.rel = x.rel /\ y.res = r
              /\ y.got = x.got /\ y.breaks = x.breaks /\ y.waits = x.waits
         /\ LET y == [x EXCEPT !.got = TRUE] IN
              /\ y.seq = x.seq /\ y.rel = x.rel /\ y.res = x.res
              /\ y.got = TRUE /\ y.breaks = x.breaks /\ y.waits = x.waits
         /\ LET y == [x EXCEPT !.breaks = @ + 1] IN
              /\ y.seq = x.seq /\ y.rel = x.rel /\ y.res = x.res
              /\ y.got = x.got /\ y.breaks = x.breaks + 1 /\ y.waits = x.waits
         /\ LET y == [x EXCEPT !.waits = @ + 1] IN
              /\ y.seq = x.seq /\ y.rel = x.rel /\ y.res = x.res
              /\ y.got = x.got /\ y.breaks = x.breaks /\ y.waits = x.waits + 1
BY DEF Entry


\* What each step records, and nothing else changes.
LEMMA Recorded ==
  ASSUME IInv, Step,
         ~ \E t \in Task : SendBegin(t),
         NEW k \in Node
  PROVE  /\ Last(k)' = Last(k) /\ Last(k) \in Nat
         /\ \A j \in 1..Last(k) :
              LET x == sent[k][j] IN
              /\ x \in Entry /\ sent'[k][j] \in Entry
              /\ sent'[k][j].rel = x.rel /\ sent'[k][j].seq = x.seq
              /\ \/ sent'[k][j].res = x.res
                 \/ \E t \in Task :
                      /\ Home[t] = k /\ j = Last(k) /\ CheckAcked(t)
                      /\ sent'[k][j].res = IF acked[k] THEN "ok" ELSE "timeout"
                      /\ ~ acked[k] => ~ TriesLeft(tx[t].tries)
                 \/ \E t \in Task :
                      /\ Home[t] = k /\ j = Last(k) /\ WriteFrame(t)
                      /\ ~ x.rel /\ sent'[k][j].res = "ok"
              /\ \/ sent'[k][j].got = x.got
                 \/ /\ Accept(Peer(k)) /\ ~ IsDuplicate(Peer(k), rx[Peer(k)].frame)
                    /\ j = rx[Peer(k)].frame.msg /\ sent'[k][j].got
              /\ \/ sent'[k][j].breaks = x.breaks
                 \/ /\ ReceiveAck(k) /\ AckCounts(k, Head(wire[k]).seq)
                    /\ j = Last(k) /\ sent'[k][j].breaks = x.breaks + 1
              /\ \/ sent'[k][j].waits = x.waits
                 \/ \E t \in Task : /\ Home[t] = k /\ j = Last(k) /\ WaitTimeout(t)
                                    /\ sent'[k][j].waits = x.waits + 1
<1> DEFINE Goal ==
      /\ Last(k)' = Last(k)
      /\ \A j \in 1..Last(k) :
           LET x == sent[k][j] IN
           /\ sent'[k][j] \in Entry
           /\ sent'[k][j].rel = x.rel /\ sent'[k][j].seq = x.seq
           /\ \/ sent'[k][j].res = x.res
              \/ \E t \in Task :
                   /\ Home[t] = k /\ j = Last(k) /\ CheckAcked(t)
                   /\ sent'[k][j].res = IF acked[k] THEN "ok" ELSE "timeout"
                   /\ ~ acked[k] => ~ TriesLeft(tx[t].tries)
              \/ \E t \in Task :
                   /\ Home[t] = k /\ j = Last(k) /\ WriteFrame(t)
                   /\ ~ x.rel /\ sent'[k][j].res = "ok"
           /\ \/ sent'[k][j].got = x.got
              \/ /\ Accept(Peer(k)) /\ ~ IsDuplicate(Peer(k), rx[Peer(k)].frame)
                 /\ j = rx[Peer(k)].frame.msg /\ sent'[k][j].got
           /\ \/ sent'[k][j].breaks = x.breaks
              \/ /\ ReceiveAck(k) /\ AckCounts(k, Head(wire[k]).seq)
                 /\ j = Last(k) /\ sent'[k][j].breaks = x.breaks + 1
           /\ \/ sent'[k][j].waits = x.waits
              \/ \E t \in Task : /\ Home[t] = k /\ j = Last(k) /\ WaitTimeout(t)
                                 /\ sent'[k][j].waits = x.waits + 1
<1>0. TypeOK /\ sent \in [Node -> Seq(Entry)]
  BY DEF IInv, TypeOK
<1>1. Last(k) \in Nat /\ \A j \in 1..Last(k) : sent[k][j] \in Entry
  BY <1>0, LenProperties, ElementOfSeq DEF Last
<1>2. sent' = sent => Goal
  BY <1>1 DEF Last
<1>3. ASSUME NEW t \in Task, CheckAcked(t), sent' # sent
      PROVE  Goal
  <2> DEFINE n == Home[t]
             i == tx[t].msg
             r == IF acked[n] THEN "ok" ELSE "timeout"
             e == [sent[n][i] EXCEPT !.res = r]
  <2>1. n \in Node /\ i = Last(n)
    BY <1>3, ConstantsAssumption DEF CheckAcked, IInv, SendersInv, Last
  <2>2. sent' = [sent EXCEPT ![n] = [sent[n] EXCEPT ![i] = e]]
        /\ (~ acked[n] => ~ TriesLeft(tx[t].tries))
    BY <1>3 DEF CheckAcked, Return
  <2>3. /\ Last(k)' = Last(k)
        /\ \A j \in 1..Last(k) :
             sent'[k][j] = IF k = n /\ j = i THEN e ELSE sent[k][j]
    <3>1. Overwritten(n, i, e)
      BY <1>0, <2>1, <2>2, EntryWritten
    <3> HIDE DEF e
    <3> QED BY <3>1 DEF Overwritten
  <2>4. \A j \in 1..Last(k) : k = n /\ j = i => e \in Entry
    BY <1>1, Records
  <2>5. \A j \in 1..Last(k) : k = n /\ j = i =>
          /\ e.seq = sent[k][j].seq /\ e.rel = sent[k][j].rel /\ e.res = r
          /\ e.got = sent[k][j].got /\ e.breaks = sent[k][j].breaks
          /\ e.waits = sent[k][j].waits
    BY <1>1, Fields
  <2> HIDE DEF e
  <2> QED BY <1>1, <1>3, <2>1, <2>2, <2>3, <2>4, <2>5
<1>4. ASSUME NEW t \in Task, WaitTimeout(t)
      PROVE  Goal
  <2> DEFINE n == Home[t]
             i == tx[t].msg
             e == [sent[n][i] EXCEPT !.waits = @ + 1]
  <2>1. n \in Node /\ i = Last(n)
    BY <1>4, ConstantsAssumption DEF WaitTimeout, IInv, SendersInv, Last
  <2>2. sent' = [sent EXCEPT ![n] = [sent[n] EXCEPT ![i] = e]]
    BY <1>4 DEF WaitTimeout
  <2>3. /\ Last(k)' = Last(k)
        /\ \A j \in 1..Last(k) :
             sent'[k][j] = IF k = n /\ j = i THEN e ELSE sent[k][j]
    <3>1. Overwritten(n, i, e)
      BY <1>0, <2>1, <2>2, EntryWritten
    <3> HIDE DEF e
    <3> QED BY <3>1 DEF Overwritten
  <2>4. \A j \in 1..Last(k) : k = n /\ j = i => e \in Entry
    BY <1>1, Records
  <2>5. \A j \in 1..Last(k) : k = n /\ j = i =>
          /\ e.seq = sent[k][j].seq /\ e.rel = sent[k][j].rel
          /\ e.res = sent[k][j].res
          /\ e.got = sent[k][j].got /\ e.breaks = sent[k][j].breaks
          /\ e.waits = sent[k][j].waits + 1
    BY <1>1, Fields
  <2> HIDE DEF e
  <2> QED BY <1>1, <1>4, <2>1, <2>3, <2>4, <2>5
<1>5. ASSUME NEW n \in Node, ReceiveAck(n), sent' # sent
      PROVE  Goal
  <2> DEFINE i == Last(n)
             e == [sent[n][i] EXCEPT !.breaks = @ + 1]
  <2>1. AckCounts(n, Head(wire[n]).seq)
    BY <1>5 DEF ReceiveAck
  <2>2. sent' = [sent EXCEPT ![n] = [sent[n] EXCEPT ![i] = e]]
    BY <1>5 DEF ReceiveAck, Last
  <2>3. /\ Last(k)' = Last(k)
        /\ \A j \in 1..Last(k) :
             sent'[k][j] = IF k = n /\ j = i THEN e ELSE sent[k][j]
    <3>1. Overwritten(n, i, e)
      BY <1>0, <2>1, <2>2, EntryWritten
    <3> HIDE DEF e
    <3> QED BY <3>1 DEF Overwritten
  <2>4. \A j \in 1..Last(k) : k = n /\ j = i => e \in Entry
    BY <1>1, Records
  <2>5. \A j \in 1..Last(k) : k = n /\ j = i =>
          /\ e.seq = sent[k][j].seq /\ e.rel = sent[k][j].rel
          /\ e.res = sent[k][j].res
          /\ e.got = sent[k][j].got /\ e.breaks = sent[k][j].breaks + 1
          /\ e.waits = sent[k][j].waits
    BY <1>1, Fields
  <2> HIDE DEF e
  <2> QED BY <1>1, <1>5, <2>1, <2>3, <2>4, <2>5
<1>6. ASSUME NEW n \in Node, Accept(n), sent' # sent
      PROVE  Goal
  <2> DEFINE p == Peer(n)
             i == rx[n].frame.msg
             e == [sent[p][i] EXCEPT !.got = TRUE]
  <2>1. p \in Node /\ Peer(p) = n /\ ~ IsDuplicate(n, rx[n].frame)
    BY <1>6, Peers DEF Accept
  <2>2. sent' = [sent EXCEPT ![p] = [sent[p] EXCEPT ![i] = e]]
    BY <1>6 DEF Accept
  <2>3. /\ Last(k)' = Last(k)
        /\ \A j \in 1..Last(k) :
             sent'[k][j] = IF k = p /\ j = i THEN e ELSE sent[k][j]
    <3>1. Overwritten(p, i, e)
      BY <1>0, <2>1, <2>2, EntryWritten
    <3> HIDE DEF e
    <3> QED BY <3>1 DEF Overwritten
  <2>4. \A j \in 1..Last(k) : k = p /\ j = i => e \in Entry
    BY <1>1, Records
  <2>5. \A j \in 1..Last(k) : k = p /\ j = i =>
          /\ e.seq = sent[k][j].seq /\ e.rel = sent[k][j].rel
          /\ e.res = sent[k][j].res
          /\ e.got = TRUE /\ e.breaks = sent[k][j].breaks
          /\ e.waits = sent[k][j].waits
    BY <1>1, Fields
  <2> HIDE DEF e
  <2> QED BY <1>1, <1>6, <2>1, <2>3, <2>4, <2>5
<1>7. ASSUME NEW t \in Task, WriteFrame(t), sent' # sent
      PROVE  Goal
  <2> DEFINE n == Home[t]
             i == tx[t].msg
             e == [sent[n][i] EXCEPT !.res = "ok"]
  <2>1. n \in Node /\ i = Last(n)
    BY <1>7, ConstantsAssumption DEF WriteFrame, IInv, SendersInv, Last
  <2>2. ~ sent[n][i].rel /\ sent' = [sent EXCEPT ![n] = [sent[n] EXCEPT ![i] = e]]
    BY <1>7 DEF WriteFrame, Return, PacketOf, DataFrame
  <2>3. /\ Last(k)' = Last(k)
        /\ \A j \in 1..Last(k) :
             sent'[k][j] = IF k = n /\ j = i THEN e ELSE sent[k][j]
    <3>1. Overwritten(n, i, e)
      BY <1>0, <2>1, <2>2, EntryWritten
    <3> HIDE DEF e
    <3> QED BY <3>1 DEF Overwritten
  <2>4. \A j \in 1..Last(k) : k = n /\ j = i => e \in Entry
    BY <1>1, Records
  <2>5. \A j \in 1..Last(k) : k = n /\ j = i =>
          /\ e.seq = sent[k][j].seq /\ e.rel = sent[k][j].rel /\ e.res = "ok"
          /\ e.got = sent[k][j].got /\ e.breaks = sent[k][j].breaks
          /\ e.waits = sent[k][j].waits
    BY <1>1, Fields
  <2> HIDE DEF e
  <2> QED BY <1>1, <1>7, <2>1, <2>2, <2>3, <2>4, <2>5
<1> HIDE DEF Goal
<1>8. Goal
  <2>1. ASSUME NEW t \in Task, SendStep(t)
        PROVE  Goal
    BY <1>2, <1>3, <1>4, <1>7, <2>1
       DEF SendStep, ClearAcked, LockWrite, WaitBreak
  <2>2. ASSUME NEW n \in Node, ParseStep(n)
        PROVE  Goal
    BY <1>2, <1>5, <1>6, <2>2
       DEF ParseStep, SetAcked, Break, ReceiveNack, ReceiveData, ReceiveJunk,
           LockReply, WriteReply
  <2>3. ASSUME NEW n \in Node, Lose(n)
        PROVE  Goal
    BY <1>2, <2>3 DEF Lose
  <2>4. UNCHANGED vars => Goal
    BY <1>2 DEF vars
  <2> QED BY <2>1, <2>2, <2>3, <2>4 DEF Step
<1> QED BY <1>1, <1>8 DEF Goal

\* A send leaves the other entries of the history alone.
LEMMA Begun ==
  ASSUME IInv, NEW t \in Task, SendBegin(t), NEW k \in Node
  PROVE  LET m == Last(k) + 1 IN
         IF Home[t] = k
         THEN /\ m <= MaxSends[k] /\ Last(k)' = m
              /\ sent'[k][m].seq = sequence[k]
              /\ sent'[k][m].rel <=> m \in Reliable[k]
              /\ sent'[k][m].res = "pending" /\ ~ sent'[k][m].got
              /\ sent'[k][m].breaks = 0 /\ sent'[k][m].waits = 0
              /\ \A j \in 1..Last(k) : sent'[k][j] = sent[k][j]
              /\ Last(k) \in Nat
         ELSE sent'[k] = sent[k] /\ Last(k)' = Last(k)
<1> DEFINE n == Home[t]
           m == Len(sent[n]) + 1
           e == [seq |-> sequence[n], rel |-> m \in Reliable[n], res |-> "pending",
                 got |-> FALSE, breaks |-> 0, waits |-> 0]
<1>1. n \in Node /\ sent \in [Node -> Seq(Entry)] /\ e \in Entry
  <2>1. n \in Node /\ sent \in [Node -> Seq(Entry)] /\ sequence[n] \in Seqs
    BY ConstantsAssumption DEF IInv, TypeOK
  <2>2. e \in Entry
    BY <2>1 DEF Entry
  <2> QED BY <2>1, <2>2
<1>2. sent' = [sent EXCEPT ![n] = Append(sent[n], e)] /\ m <= MaxSends[n]
  BY DEF SendBegin
<1>3. CASE n # k
  BY <1>1, <1>2, <1>3 DEF Last
<1>4. CASE n = k
  <2>1. sent[n] \in Seq(Entry) /\ Len(sent[n]) \in Nat
    BY <1>1, LenProperties
  <2>2. sent'[n] = Append(sent[n], e)
    BY <1>1, <1>2
  <2>3. /\ Len(sent'[n]) = Len(sent[n]) + 1 /\ sent'[n][Len(sent[n]) + 1] = e
        /\ \A j \in 1..Len(sent[n]) : sent'[n][j] = sent[n][j]
    <3> HIDE DEF e
    <3> QED BY <1>1, <2>1, <2>2, AppendProperties
  <2>4. /\ e.seq = sequence[k] /\ (e.rel <=> Len(sent[k]) + 1 \in Reliable[k])
        /\ e.res = "pending" /\ ~ e.got /\ e.breaks = 0 /\ e.waits = 0
    BY <1>4
  <2> HIDE DEF e
  <2> QED BY <1>2, <1>4, <2>1, <2>3, <2>4 DEF Last
<1> QED BY <1>3, <1>4

-----------------------------------------------------------------------------
(* One break for one sequence number                                       *)

LEMMA HeldIsData ==
  ASSUME IInv, NEW k \in Node, rx[k].at = "accept"
  PROVE  rx[k].frame.type = "data"
BY DEF IInv, OrderInv, HeldInv

LEMMA ReliableStep ==
  ASSUME EverySendAsks, IInv, \A n \in Node : ReliableInv(n), Step, NEW k \in Node
  PROVE  ReliableInv(k)'
<1>1. \A i \in 1..Last(k)' : sent'[k][i].rel
  <2>1. CASE \E t \in Task : SendBegin(t)
    <3>1. PICK t \in Task : SendBegin(t)
      BY <2>1
    <3>2. CASE Home[t] = k
      <4> DEFINE m == Last(k) + 1
      <4>1. /\ m <= MaxSends[k] /\ Last(k)' = m /\ Last(k) \in Nat
            /\ sent'[k][m].rel <=> m \in Reliable[k]
            /\ \A j \in 1..Last(k) : sent'[k][j] = sent[k][j]
        BY <3>1, <3>2, Begun
      <4>2. m \in Reliable[k]
        BY <4>1, ConstantsAssumption DEF EverySendAsks
      <4> QED BY <4>1, <4>2 DEF ReliableInv
    <3>3. CASE Home[t] # k
      BY <3>1, <3>3, Begun DEF ReliableInv
    <3> QED BY <3>2, <3>3
  <2>2. CASE ~ \E t \in Task : SendBegin(t)
    BY <2>2, Recorded DEF ReliableInv
  <2> QED BY <2>1, <2>2
<1>2. ASSUME NEW g \in FramesTo(k)', g.type = "data"
      PROVE  g.rel
  <2>1. CASE g \in FramesTo(k)
    BY <1>2, <2>1 DEF ReliableInv
  <2>2. CASE g \notin FramesTo(k)
    <3>1. PICK t \in Task : Home[t] = Peer(k) /\ WriteFrame(t) /\ g = PacketOf(t)
      BY <1>2, <2>2, NewFrames DEF AtRest, Control
    <3>2. Peer(k) \in Node /\ tx[t].msg = Last(Peer(k)) /\ tx[t].msg > 0
      BY <3>1, Peers DEF WriteFrame, IInv, SendersInv, Last
    <3>3. Last(Peer(k)) \in Nat
      BY <3>2, Domains DEF IInv, Last
    <3> QED BY <3>1, <3>2, <3>3 DEF ReliableInv, PacketOf, DataFrame
  <2> QED BY <2>1, <2>2
<1> QED BY <1>1, <1>2 DEF ReliableInv

LEMMA SequenceSteps ==
  ASSUME IInv, Step, NEW k \in Node
  PROVE  \/ sequence'[k] = sequence[k]
         \/ \E t \in Task : SendBegin(t) /\ Home[t] = k
<1>1. ASSUME NEW t \in Task, SendBegin(t), Home[t] # k
      PROVE  sequence'[k] = sequence[k]
  BY <1>1, ConstantsAssumption DEF SendBegin, IInv, TypeOK
<1>2. ASSUME NEW t \in Task, SendStep(t)
      PROVE  sequence' = sequence
  BY <1>2 DEF SendStep, ClearAcked, LockWrite, WriteFrame, WaitBreak,
              WaitTimeout, CheckAcked, protocolVars
<1>3. ASSUME NEW n \in Node, ParseStep(n) \/ Lose(n)
      PROVE  sequence' = sequence
  BY <1>3 DEF ParseStep, ReceiveAck, ReceiveNack, ReceiveData, ReceiveJunk, SetAcked,
         Break, LockReply, WriteReply, Accept, Lose, protocolVars
<1>4. UNCHANGED vars => sequence' = sequence
  BY DEF vars, protocolVars
<1> QED BY <1>1, <1>2, <1>3, <1>4 DEF Step

\* How a step of the protocol thread of k changes what decides whether an
\* acknowledgement counts.
FlagSame(k) == /\ rx'[k].at = "flag" <=> rx[k].at = "flag"
               /\ rx[k].at = "flag" => rx'[k] = rx[k]
               /\ currentAckedSeq'[k] = currentAckedSeq[k]
FlagRises(k) == /\ ReceiveAck(k) /\ AckCounts(k, Head(wire[k]).seq)
                /\ rx[k].at = "idle" /\ rx'[k].at = "flag"
                /\ rx'[k].frame = Head(wire[k])
                /\ currentAckedSeq' = currentAckedSeq /\ acked' = acked
FlagSet(k) == /\ SetAcked(k) /\ rx[k].at = "flag" /\ rx'[k].at = "break"
              /\ currentAckedSeq'[k] = rx[k].frame.seq /\ acked'[k]

LEMMA FlagSteps ==
  ASSUME IInv, \A n \in Node : ReliableInv(n), Step, NEW k \in Node
  PROVE  /\ \/ FlagRises(k)
            \/ FlagSet(k)
            \/ /\ FlagSame(k)
               /\ \/ acked'[k] = acked[k]
                  \/ \E t \in Task : ClearAcked(t) /\ Home[t] = k
         /\ ReceiveAck(k) /\ AckCounts(k, Head(wire[k]).seq) => FlagRises(k)
         /\ \/ sequence'[k] = sequence[k]
            \/ \E t \in Task : SendBegin(t) /\ Home[t] = k
<1> DEFINE Goal == \/ FlagRises(k)
                   \/ FlagSet(k)
                   \/ /\ FlagSame(k)
                      /\ \/ acked'[k] = acked[k]
                         \/ \E t \in Task : ClearAcked(t) /\ Home[t] = k
<1>0. /\ rx \in [Node -> Parser] /\ rx[k] \in Parser /\ acked \in [Node -> BOOLEAN]
      /\ currentAckedSeq \in [Node -> Seqs \cup {-1}] /\ sequence \in [Node -> Seqs]
      /\ \A t \in Task : Home[t] \in Node
  BY ConstantsAssumption DEF IInv, TypeOK
<1>1. ASSUME rx'[k] = rx[k], currentAckedSeq'[k] = currentAckedSeq[k], acked' = acked
      PROVE  Goal
  BY <1>1 DEF FlagSame
<1>2. ASSUME NEW t \in Task, SendBegin(t) \/ SendStep(t)
      PROVE  Goal
  <2>1. rx' = rx /\ currentAckedSeq' = currentAckedSeq
    BY <1>2 DEF SendBegin, SendStep, ClearAcked, LockWrite, WriteFrame, WaitBreak,
                WaitTimeout, CheckAcked, protocolVars
  <2>2. CASE ClearAcked(t)
    <3>1. CASE Home[t] = k
      BY <2>1, <2>2, <3>1 DEF FlagSame
    <3>2. CASE Home[t] # k
      BY <1>0, <2>1, <2>2, <3>2 DEF FlagSame, ClearAcked
    <3> QED BY <3>1, <3>2
  <2>3. CASE ~ ClearAcked(t)
    <3>1. acked' = acked
      BY <1>2, <2>3 DEF SendBegin, SendStep, LockWrite, WriteFrame, WaitBreak,
                WaitTimeout, CheckAcked, protocolVars
    <3> QED BY <1>1, <2>1, <3>1
  <2> QED BY <2>2, <2>3
<1>3. ASSUME NEW n \in Node, n # k, ParseStep(n)
      PROVE  Goal
  <2>1. rx'[k] = rx[k] /\ currentAckedSeq'[k] = currentAckedSeq[k]
        /\ acked'[k] = acked[k]
    BY <1>0, <1>3
       DEF ParseStep, ReceiveAck, ReceiveNack, ReceiveData, ReceiveJunk, Busy, SetAcked,
           Break, LockReply, WriteReply, Accept, protocolVars
  <2> QED BY <2>1 DEF FlagSame
<1>4. ASSUME ReceiveAck(k)
      PROVE  Goal
  <2>1. rx[k].at = "idle" /\ currentAckedSeq' = currentAckedSeq /\ acked' = acked
    BY <1>4 DEF ReceiveAck, Receive, protocolVars
  <2>2. CASE AckCounts(k, Head(wire[k]).seq)
    <3>1. rx'[k] = [at |-> "flag", frame |-> Head(wire[k])]
      BY <1>0, <1>4, <2>2 DEF ReceiveAck, Busy
    <3> QED BY <1>4, <2>1, <2>2, <3>1 DEF FlagRises
  <2>3. CASE ~ AckCounts(k, Head(wire[k]).seq)
    BY <1>1, <1>4, <2>1, <2>3 DEF ReceiveAck
  <2> QED BY <2>2, <2>3
<1>5. ASSUME ReceiveNack(k) \/ ReceiveData(k) \/ ReceiveJunk(k)
      PROVE  Goal
  <2>1. /\ rx[k].at = "idle" /\ currentAckedSeq' = currentAckedSeq /\ acked' = acked
        /\ rx' = rx \/ \E place \in {"break", "lock", "accept"} : Busy(k, place)
    BY <1>5 DEF ReceiveNack, ReceiveData, ReceiveJunk, Receive, protocolVars
  <2>2. rx'[k].at # "flag"
    BY <1>0, <2>1 DEF Busy
  <2> QED BY <2>1, <2>2 DEF FlagSame
<1>6. ASSUME SetAcked(k)
      PROVE  Goal
  <2>1. /\ rx[k].at = "flag" /\ rx'[k].at = "break"
        /\ currentAckedSeq'[k] = rx[k].frame.seq /\ acked'[k]
    BY <1>0, <1>6 DEF SetAcked, Parser
  <2> QED BY <1>6, <2>1 DEF FlagSet
<1>7. ASSUME Break(k) \/ LockReply(k) \/ WriteReply(k)
      PROVE  Goal
  <2>1. /\ rx[k].at # "flag" /\ currentAckedSeq' = currentAckedSeq /\ acked' = acked
    BY <1>7 DEF Break, LockReply, WriteReply, protocolVars
  <2>2. rx'[k].at # "flag"
    <3>1. CASE Break(k)
      BY <1>0, <3>1 DEF Break, AtRest
    <3>2. CASE LockReply(k)
      BY <1>0, <3>2 DEF LockReply, Parser
    <3>3. CASE WriteReply(k)
      BY <1>0, <3>3 DEF WriteReply, AtRest, Parser
    <3> QED BY <1>7, <3>1, <3>2, <3>3
  <2> QED BY <2>1, <2>2 DEF FlagSame
<1>8. ASSUME Accept(k)
      PROVE  Goal
  <2>1. rx[k].frame.rel
    <3>1. rx[k].frame.type = "data"
      BY <1>8, HeldIsData DEF Accept
    <3> QED BY <3>1 DEF ReliableInv, FramesTo
  <2>2. /\ rx[k].at = "accept" /\ rx'[k].at # "flag" /\ acked' = acked
        /\ currentAckedSeq'[k] = currentAckedSeq[k]
    BY <1>0, <1>8, <2>1 DEF Accept, AtRest
  <2> QED BY <2>2 DEF FlagSame
<1>9. ASSUME (\E n \in Node : Lose(n)) \/ UNCHANGED vars
      PROVE  Goal
  BY <1>1, <1>9 DEF Lose, vars, protocolVars
<1>10. Goal
  <2> HIDE DEF Goal
  <2>1. CASE ParseStep(k)
    BY <1>4, <1>5, <1>6, <1>7, <1>8, <2>1 DEF ParseStep
  <2> QED BY <1>2, <1>3, <1>9, <2>1 DEF Step
<1>11. ReceiveAck(k) /\ AckCounts(k, Head(wire[k]).seq) => FlagRises(k)
  <2> SUFFICES ASSUME ReceiveAck(k), AckCounts(k, Head(wire[k]).seq)
               PROVE  FlagRises(k)
    OBVIOUS
  <2>1. rx[k].at = "idle" /\ currentAckedSeq' = currentAckedSeq /\ acked' = acked
        /\ rx'[k] = [at |-> "flag", frame |-> Head(wire[k])]
    BY <1>0 DEF ReceiveAck, Receive, Busy, protocolVars
  <2> QED BY <2>1 DEF FlagRises
<1>12. \/ sequence'[k] = sequence[k]
       \/ \E t \in Task : SendBegin(t) /\ Home[t] = k
  BY SequenceSteps
<1> QED BY <1>10, <1>11, <1>12

LEMMA BreakStep ==
  ASSUME IInv, \A n \in Node : ReliableInv(n), Step, NEW k \in Node, BreakInv(k)
  PROVE  BreakInv(k)'
<1> DEFINE Counted == ReceiveAck(k) /\ AckCounts(k, Head(wire[k]).seq)
           L == Last(k)
<1>1. CASE \E t \in Task : SendBegin(t) /\ Home[t] = k
  <2>1. /\ Last(k)' = L + 1 /\ L \in Nat /\ sent'[k][L + 1].breaks = 0
        /\ \A j \in 1..L : sent'[k][j] = sent[k][j]
    BY <1>1, Begun
  <2> QED BY <2>1 DEF BreakInv
<1>2. CASE ~ \E t \in Task : SendBegin(t) /\ Home[t] = k
  <2>0. CurrentSeq(k)' = CurrentSeq(k)
    BY <1>2, FlagSteps DEF CurrentSeq
  <2>1. /\ Last(k)' = L /\ L \in Nat
        /\ \A j \in 1..L :
             /\ sent[k][j].breaks \in Nat
             /\ \/ sent'[k][j].breaks = sent[k][j].breaks
                \/ Counted /\ j = L /\ sent'[k][j].breaks = sent[k][j].breaks + 1
    <3>1. CASE \E t \in Task : SendBegin(t)
      <4>1. sent'[k] = sent[k] /\ Last(k)' = L
        BY <1>2, <3>1, Begun
      <4>2. L \in Nat /\ \A j \in 1..L : sent[k][j] \in Entry
        BY Domains, ElementOfSeq DEF IInv, Last
      <4> QED BY <4>1, <4>2 DEF Entry
    <3>2. CASE ~ \E t \in Task : SendBegin(t)
      BY <3>2, Recorded DEF Entry
    <3> QED BY <3>1, <3>2
  <2>2. Counted => FlagRises(k)
    BY FlagSteps
  <2>3. Counted /\ L > 0 => sent[k][L].breaks = 0
    <3> SUFFICES ASSUME Counted, L > 0 PROVE sent[k][L].breaks = 0
      OBVIOUS
    <3>1. rx[k].at # "flag" /\ currentAckedSeq[k] # CurrentSeq(k)
      BY <2>2 DEF FlagRises, AckCounts
    <3>2. sent[k][L].breaks \in Nat /\ sent[k][L].breaks <= 1
      BY <2>1 DEF BreakInv
    <3> QED BY <3>1, <3>2 DEF BreakInv
  <2>4. \A i \in 1..L : sent'[k][i].breaks <= 1
    BY <2>1, <2>3 DEF BreakInv
  <2>5. ASSUME L > 0, sent'[k][L].breaks = 1
        PROVE  IF rx'[k].at = "flag" THEN rx'[k].frame.seq = CurrentSeq(k)
                                     ELSE currentAckedSeq'[k] = CurrentSeq(k)
    <3>1. CASE Counted
      <4>1. rx'[k].at = "flag" /\ rx'[k].frame.seq = CurrentSeq(k)
        BY <2>2, <3>1 DEF FlagRises, AckCounts
      <4> QED BY <4>1
    <3>2. CASE ~ Counted
      <4>1. sent[k][L].breaks = 1
        BY <2>1, <2>5, <3>2
      <4>2. IF rx[k].at = "flag" THEN rx[k].frame.seq = CurrentSeq(k)
                                 ELSE currentAckedSeq[k] = CurrentSeq(k)
        BY <2>5, <4>1 DEF BreakInv
      <4>3. FlagSet(k) \/ FlagSame(k)
        BY <3>2, FlagSteps DEF FlagRises
      <4> QED BY <4>2, <4>3 DEF FlagSet, FlagSame
    <3> QED BY <3>1, <3>2
  <2> QED BY <2>0, <2>1, <2>4, <2>5 DEF BreakInv
<1> QED BY <1>1, <1>2

LEMMA OneBreakInit == Init => OneBreakInv
BY EmptySeq DEF Init, OneBreakInv, ReliableInv, BreakInv, Last, FramesTo, AtRest, Control

\* Without damage and restarts the steps are those of Step.
LEMMA Steps ==
  ASSUME Restarts = {}, "corrupt" \notin Faults, [Next]_vars
  PROVE  Step
BY DEF Next, Step, Restart, Corrupt, Finished

LEMMA OneBreakStep ==
  OnlyLosses /\ IInv /\ OneBreakInv /\ [Next]_vars => OneBreakInv'
<1> SUFFICES ASSUME OnlyLosses, IInv, OneBreakInv, [Next]_vars, NEW k \in Node
             PROVE  ReliableInv(k)' /\ BreakInv(k)'
  BY DEF OneBreakInv
<1>1. Step /\ EverySendAsks
  BY Steps DEF OnlyLosses
<1> QED BY <1>1, ReliableStep, BreakStep DEF OneBreakInv

\* "One sequence can only break once", as the comment in the code has it: of the
\* acknowledgements of one message, those of its retries included, one breaks a
\* sleep, if all sends are reliable and the line does no more than lose frames,
\* whatever the timing and however many messages there are.
THEOREM BreaksOnce == OnlyLosses => (Spec => []OneBreakPerSequence)
<1> SUFFICES ASSUME OnlyLosses PROVE Spec => []OneBreakPerSequence
  OBVIOUS
<1>1. IInv /\ OneBreakInv => OneBreakPerSequence
  <2> SUFFICES ASSUME IInv, OneBreakInv, NEW n \in Node, NEW e \in Entries(n)
               PROVE  e.breaks <= 1
    BY DEF OneBreakPerSequence
  <2>1. PICK i \in DOMAIN sent[n] : e = sent[n][i]
    BY DEF Entries
  <2>2. i \in 1..Last(n)
    BY <2>1, Domains DEF IInv, Last
  <2> QED BY <2>1, <2>2 DEF OneBreakInv, BreakInv
<1> QED BY <1>1, OneBreakInit, OneBreakStep, InOrder, PTL DEF Spec

-----------------------------------------------------------------------------
(* Success means delivered                                                 *)

\* The number of a frame is the current one once the next is counted up, and no
\* number follows itself.
LEMMA Current ==
  ASSUME NEW s \in Seqs
  PROVE  /\ (NextSeq(s) + SeqMod - 1) % SeqMod = s
         /\ (s + SeqMod - 1) % SeqMod # s
<1>0. SeqMod \in Nat /\ SeqMod > 1 /\ s \in Nat /\ s < SeqMod
  BY ConstantsAssumption DEF Seqs
<1>1. CASE s + 1 < SeqMod
  <2>1. NextSeq(s) = s + 1
    BY <1>0, <1>1 DEF NextSeq
  <2>2. (s + SeqMod) % SeqMod = s
    BY <1>0
  <2>3. (s + 1 + SeqMod - 1) = s + SeqMod
    BY <1>0
  <2>4. (s + SeqMod - 1) % SeqMod = IF s = 0 THEN SeqMod - 1 ELSE s - 1
    BY <1>0
  <2> QED BY <1>0, <2>1, <2>2, <2>3, <2>4
<1>2. CASE s + 1 = SeqMod
  <2>1. NextSeq(s) = 0
    BY <1>0, <1>2 DEF NextSeq
  <2>2. (0 + SeqMod - 1) % SeqMod = SeqMod - 1
    BY <1>0
  <2>3. (s + SeqMod - 1) % SeqMod = s - 1
    BY <1>0, <1>2
  <2> QED BY <1>0, <1>2, <2>1, <2>2, <2>3
<1> QED BY <1>0, <1>1, <1>2

\* What a step that begins no send at k records there.
LEMMA RecordedHere ==
  ASSUME IInv, Step, NEW k \in Node,
         ~ \E t \in Task : SendBegin(t) /\ Home[t] = k
  PROVE  /\ Last(k)' = Last(k) /\ Last(k) \in Nat
         /\ \A j \in 1..Last(k) :
              LET x == sent[k][j] IN
              /\ x \in Entry
              /\ sent'[k][j].rel = x.rel /\ sent'[k][j].seq = x.seq
              /\ \/ sent'[k][j].res = x.res
                 \/ \E t \in Task :
                      /\ Home[t] = k /\ j = Last(k) /\ CheckAcked(t)
                      /\ sent'[k][j].res = IF acked[k] THEN "ok" ELSE "timeout"
                      /\ ~ acked[k] => ~ TriesLeft(tx[t].tries)
                 \/ \E t \in Task :
                      /\ Home[t] = k /\ j = Last(k) /\ WriteFrame(t)
                      /\ ~ x.rel /\ sent'[k][j].res = "ok"
              /\ \/ sent'[k][j].got = x.got
                 \/ /\ Accept(Peer(k)) /\ ~ IsDuplicate(Peer(k), rx[Peer(k)].frame)
                    /\ j = rx[Peer(k)].frame.msg /\ sent'[k][j].got
              /\ \/ sent'[k][j].breaks = x.breaks
                 \/ /\ ReceiveAck(k) /\ AckCounts(k, Head(wire[k]).seq)
                    /\ j = Last(k) /\ sent'[k][j].breaks = x.breaks + 1
              /\ \/ sent'[k][j].waits = x.waits
                 \/ \E t \in Task : /\ Home[t] = k /\ j = Last(k) /\ WaitTimeout(t)
                                    /\ sent'[k][j].waits = x.waits + 1
<1>1. CASE \E t \in Task : SendBegin(t)
  <2>1. sent'[k] = sent[k] /\ Last(k)' = Last(k)
    BY <1>1, Begun
  <2>2. Last(k) \in Nat /\ \A j \in 1..Last(k) : sent[k][j] \in Entry
    BY Domains, ElementOfSeq DEF IInv, Last
  <2> QED BY <2>1, <2>2
<1>2. CASE ~ \E t \in Task : SendBegin(t)
  BY <1>2, Recorded
<1> QED BY <1>1, <1>2

\* If every send is reliable, only a look at the flag makes one return.
LEMMA RecordedAt ==
  ASSUME IInv, \A n \in Node : ReliableInv(n), Step, NEW k \in Node,
         ~ \E t \in Task : SendBegin(t) /\ Home[t] = k
  PROVE  /\ Last(k)' = Last(k) /\ Last(k) \in Nat
         /\ \A j \in 1..Last(k) :
              LET x == sent[k][j] IN
              /\ x \in Entry
              /\ sent'[k][j].seq = x.seq
              /\ \/ sent'[k][j].res = x.res
                 \/ \E t \in Task :
                      /\ Home[t] = k /\ j = Last(k) /\ CheckAcked(t)
                      /\ sent'[k][j].res = IF acked[k] THEN "ok" ELSE "timeout"
                      /\ ~ acked[k] => ~ TriesLeft(tx[t].tries)
              /\ \/ sent'[k][j].got = x.got
                 \/ /\ Accept(Peer(k)) /\ ~ IsDuplicate(Peer(k), rx[Peer(k)].frame)
                    /\ j = rx[Peer(k)].frame.msg /\ sent'[k][j].got
              /\ \/ sent'[k][j].breaks = x.breaks
                 \/ /\ ReceiveAck(k) /\ AckCounts(k, Head(wire[k]).seq)
                    /\ j = Last(k) /\ sent'[k][j].breaks = x.breaks + 1
              /\ \/ sent'[k][j].waits = x.waits
                 \/ \E t \in Task : /\ Home[t] = k /\ j = Last(k) /\ WaitTimeout(t)
                                    /\ sent'[k][j].waits = x.waits + 1
BY RecordedHere DEF ReliableInv

\* Only one call is in progress at an end, and only its steps change its place.
LEMMA OneCall ==
  ASSUME IInv, NEW t \in Task, NEW u \in Task, Home[t] = Home[u],
         tx[t].at # "idle", tx[u].at # "idle"
  PROVE  t = u /\ tx[t].msg = Last(Home[t]) /\ Last(Home[t]) > 0
BY DEF IInv, SendersInv, Last

LEMMA CallSteps ==
  ASSUME IInv, Step, NEW u \in Task, tx'[u] # tx[u]
  PROVE  SendBegin(u) \/ SendStep(u)
<1>0. tx \in [Task -> Sender]
  BY DEF IInv, TypeOK
<1>1. ASSUME NEW t \in Task, SendBegin(t) \/ SendStep(t), t # u
      PROVE  FALSE
  BY <1>0, <1>1 DEF SendBegin, SendStep, ClearAcked, LockWrite, WriteFrame, WaitBreak,
                    WaitTimeout, CheckAcked, Return
<1>2. ASSUME NEW n \in Node, ParseStep(n) \/ Lose(n)
      PROVE  FALSE
  BY <1>2 DEF ParseStep, ReceiveAck, ReceiveNack, ReceiveData, ReceiveJunk, SetAcked,
              Break, LockReply, WriteReply, Accept, Lose
<1>3. ~ UNCHANGED vars
  BY DEF vars
<1> QED BY <1>1, <1>2, <1>3 DEF Step

\* The flag is cleared when the call at its beginning moves on.
LEMMA ClearSteps ==
  ASSUME IInv, Step, NEW k \in Node, ~ \E t \in Task : SendBegin(t) /\ Home[t] = k
  PROVE  /\ AtClear(k)' => AtClear(k)
         /\ AtClear(k) /\ ~ AtClear(k)' => ~ acked'[k]
         /\ \A t \in Task : ClearAcked(t) /\ Home[t] = k => ~ acked'[k]
<1>0. /\ tx \in [Task -> Sender] /\ acked \in [Node -> BOOLEAN]
      /\ \A t \in Task : Home[t] \in Node
  BY ConstantsAssumption DEF IInv, TypeOK
<1>1. ASSUME NEW t \in Task, SendStep(t)
      PROVE  tx'[t].at # "clear"
  BY <1>0, <1>1 DEF SendStep, ClearAcked, LockWrite, WriteFrame, WaitBreak,
                    WaitTimeout, CheckAcked, Return, Resting, Sender
<1>2. ASSUME NEW t \in Task, ClearAcked(t), Home[t] = k
      PROVE  ~ acked'[k]
  BY <1>0, <1>2 DEF ClearAcked, FlagAtStart
<1>3. AtClear(k)' => AtClear(k)
  BY <1>1, CallSteps DEF AtClear
<1>4. ASSUME AtClear(k), ~ AtClear(k)'
      PROVE  ~ acked'[k]
  <2>1. PICK u \in Task : Home[u] = k /\ tx[u].at = "clear"
    BY <1>4 DEF AtClear
  <2>2. tx'[u] # tx[u]
    BY <1>4, <2>1 DEF AtClear
  <2>3. SendStep(u)
    BY <2>1, <2>2, CallSteps
  <2>4. ClearAcked(u)
    BY <2>1, <2>3 DEF SendStep, LockWrite, WriteFrame, WaitBreak, WaitTimeout, CheckAcked
  <2> QED BY <1>2, <2>1, <2>4
<1> QED BY <1>2, <1>3, <1>4

LEMMA NumbersStep ==
  ASSUME IInv, Step, NEW k \in Node, NumbersInv(k)
  PROVE  NumbersInv(k)'
<1> DEFINE L == Last(k)
<1>0. /\ sequence[k] \in Seqs /\ sequence \in [Node -> Seqs]
      /\ tx \in [Task -> Sender]
  BY DEF IInv, TypeOK
<1>1. CASE \E t \in Task : SendBegin(t) /\ Home[t] = k
  <2>1. PICK t \in Task : SendBegin(t) /\ Home[t] = k
    BY <1>1
  <2>2. /\ L \in Nat /\ Last(k)' = L + 1
        /\ sent'[k][L + 1].seq = sequence[k] /\ sent'[k][L + 1].res = "pending"
        /\ \A j \in 1..L : sent'[k][j] = sent[k][j]
    BY <2>1, Begun
  <2>3. sequence'[k] = NextSeq(sequence[k])
    BY <1>0, <2>1 DEF SendBegin
  <2>4. CurrentSeq(k)' = sequence[k] /\ CurrentSeq(k) # sequence[k]
    BY <1>0, <2>3, Current DEF CurrentSeq
  <2>5. ASSUME NEW i \in 1..(L + 1), i > 1
        PROVE  sent'[k][i - 1].seq # sent'[k][i].seq
    <3>1. CASE i = L + 1
      <4>1. L > 0 /\ L \in 1..L /\ i - 1 = L
        BY <2>2, <2>5, <3>1
      <4>2. CurrentSeq(k) = sent[k][L].seq
        BY <4>1 DEF NumbersInv
      <4> QED BY <2>2, <2>4, <3>1, <4>1, <4>2
    <3>2. CASE i # L + 1
      <4>1. i \in 1..L /\ i - 1 \in 1..L
        BY <2>2, <2>5, <3>2
      <4> QED BY <2>2, <2>5, <4>1 DEF NumbersInv
    <3> QED BY <3>1, <3>2
  <2> QED BY <2>2, <2>4, <2>5 DEF NumbersInv
<1>2. CASE ~ \E t \in Task : SendBegin(t) /\ Home[t] = k
  <2>1. CurrentSeq(k)' = CurrentSeq(k)
    BY <1>2, SequenceSteps DEF CurrentSeq
  <2>2. Last(k)' = L /\ L \in Nat /\ \A j \in 1..L : sent'[k][j].seq = sent[k][j].seq
    BY <1>2, RecordedHere
  <2>3. ASSUME NEW u \in Task, Home[u] = k, tx'[u].at # "idle"
        PROVE  sent'[k][L].res = "pending"
    <3>1. tx[u].at # "idle"
      <4>1. CASE tx'[u] = tx[u]
        BY <2>3, <4>1
      <4>2. CASE tx'[u] # tx[u]
        <5>1. SendStep(u)
          BY <1>2, <2>3, <4>2, CallSteps
        <5> QED BY <5>1 DEF SendStep, ClearAcked, LockWrite, WriteFrame, WaitBreak,
                            WaitTimeout, CheckAcked
      <4> QED BY <4>1, <4>2
    <3>2. sent[k][L].res = "pending" /\ L \in 1..L
      BY <2>2, <2>3, <3>1, OneCall DEF NumbersInv
    <3>3. ASSUME NEW t \in Task, Home[t] = k,
                 \/ /\ CheckAcked(t)
                    /\ ~ acked[k] => ~ TriesLeft(tx[t].tries)
                 \/ WriteFrame(t) /\ ~ sent[k][L].rel
          PROVE  FALSE
      <4>1. t = u
        BY <2>3, <3>1, <3>3, OneCall DEF CheckAcked, WriteFrame
      <4>2. tx'[t] = Resting
        <5>1. CASE CheckAcked(t) /\ (~ acked[k] => ~ TriesLeft(tx[t].tries))
          BY <1>0, <3>3, <5>1 DEF CheckAcked, Return
        <5>2. CASE WriteFrame(t) /\ ~ sent[k][L].rel
          <6>1. ~ PacketOf(t).rel
            BY <3>1, <3>3, <4>1, <5>2, OneCall DEF PacketOf, DataFrame
          <6> QED BY <1>0, <5>2, <6>1 DEF WriteFrame, Return
        <5> QED BY <3>3, <5>1, <5>2
      <4> QED BY <2>3, <4>1, <4>2 DEF Resting
    <3> QED BY <1>2, <3>2, <3>3, RecordedHere
  <2> QED BY <2>1, <2>2, <2>3 DEF NumbersInv
<1> QED BY <1>1, <1>2

\* What is given to an application is given by Accept.
LEMMA InboxSteps ==
  ASSUME IInv, Step, NEW p \in Node
  PROVE  \/ inbox'[p] = inbox[p] /\ lastRecvSeq'[p] = lastRecvSeq[p]
         \/ /\ Accept(p) /\ lastRecvSeq'[p] = rx[p].frame.seq
            /\ IF IsDuplicate(p, rx[p].frame)
               THEN inbox'[p] = inbox[p]
               ELSE inbox'[p] = Append(inbox[p], rx[p].frame.msg)
<1>0. inbox \in [Node -> Seq(Nat)] /\ lastRecvSeq \in [Node -> Seqs \cup {-1}]
  BY DEF IInv, TypeOK
<1>1. ASSUME NEW t \in Task, SendBegin(t) \/ SendStep(t)
      PROVE  inbox' = inbox /\ lastRecvSeq' = lastRecvSeq
  BY <1>1 DEF SendBegin, SendStep, ClearAcked, LockWrite, WriteFrame, WaitBreak,
              WaitTimeout, CheckAcked, protocolVars
<1>2. ASSUME NEW n \in Node, ParseStep(n) \/ Lose(n), ~ Accept(n)
      PROVE  inbox' = inbox /\ lastRecvSeq' = lastRecvSeq
  BY <1>2 DEF ParseStep, ReceiveAck, ReceiveNack, ReceiveData, ReceiveJunk, SetAcked,
              Break, LockReply, WriteReply, Lose, protocolVars
<1>3. ASSUME NEW n \in Node, Accept(n), n # p
      PROVE  inbox'[p] = inbox[p] /\ lastRecvSeq'[p] = lastRecvSeq[p]
  BY <1>0, <1>3 DEF Accept
<1>4. ASSUME Accept(p)
      PROVE  /\ lastRecvSeq'[p] = rx[p].frame.seq
             /\ IF IsDuplicate(p, rx[p].frame)
                THEN inbox'[p] = inbox[p]
                ELSE inbox'[p] = Append(inbox[p], rx[p].frame.msg)
  BY <1>0, <1>4 DEF Accept
<1>5. UNCHANGED vars => inbox' = inbox /\ lastRecvSeq' = lastRecvSeq
  BY DEF vars, protocolVars
<1> QED BY <1>1, <1>2, <1>3, <1>4, <1>5 DEF Step

LEMMA GotStep ==
  ASSUME IInv, Step, NEW k \in Node, GotInv(k)
  PROVE  GotInv(k)'
<1> DEFINE L == Last(k)
           p == Peer(k)
           m == rx[p].frame.msg
<1>0. /\ p \in Node /\ Peer(p) = k /\ TypeOK
      /\ inbox[p] \in Seq(Nat) /\ Len(inbox[p]) \in Nat
      /\ sent \in [Node -> Seq(Entry)]
  BY Peers, Domains DEF IInv, TypeOK
<1>1. lastRecvSeq'[p] # -1 => inbox'[p] # <<>>
  <2>1. CASE inbox'[p] = inbox[p] /\ lastRecvSeq'[p] = lastRecvSeq[p]
    BY <2>1 DEF GotInv
  <2>2. CASE Accept(p) /\ ~ IsDuplicate(p, rx[p].frame)
    <3>1. inbox'[p] = Append(inbox[p], m)
      <4>1. inbox \in [Node -> Seq(Nat)]
        BY <1>0 DEF TypeOK
      <4> QED BY <1>0, <2>2, <4>1 DEF Accept
    <3>2. m \in Nat
      BY <1>0, Domains
    <3>3. Len(inbox'[p]) = Len(inbox[p]) + 1
      BY <1>0, <3>1, <3>2, AppendProperties
    <3> QED BY <1>0, <3>3
  <2>3. CASE Accept(p) /\ IsDuplicate(p, rx[p].frame)
    <3>1. lastRecvSeq[p] # -1
      <4>1. rx[p].frame.seq \in Nat
        BY <1>0, ConstantsAssumption DEF TypeOK, Parser, Frame, Seqs
      <4> QED BY <2>3, <4>1 DEF IsDuplicate
    <3>2. inbox'[p] = inbox[p]
      BY <1>0, <2>3, InboxSteps
    <3> QED BY <3>1, <3>2 DEF GotInv
  <2> QED BY <1>0, <2>1, <2>2, <2>3, InboxSteps
<1>2. CASE \E t \in Task : SendBegin(t) /\ Home[t] = k
  <2>1. PICK t \in Task : SendBegin(t) /\ Home[t] = k
    BY <1>2
  <2>2. /\ L \in Nat /\ Last(k)' = L + 1 /\ ~ sent'[k][L + 1].got
        /\ \A j \in 1..L : sent'[k][j] = sent[k][j]
    BY <2>1, Begun
  <2>3. inbox' = inbox
    BY <2>1 DEF SendBegin
  <2>4. \A q \in 1..Len(inbox[p]) : inbox[p][q] \in 1..L
    BY <1>0, Domains DEF IInv, OrderInv, InboxInv, Last
  <2>5. ASSUME NEW i \in 1..(L + 1)
        PROVE  sent'[k][i].got <=> \E q \in 1..Len(inbox[p]) : inbox[p][q] = i
    <3>1. CASE i = L + 1
      BY <2>2, <2>4, <3>1
    <3>2. CASE i \in 1..L
      BY <2>2, <3>2 DEF GotInv
    <3> QED BY <2>2, <3>1, <3>2
  <2> QED BY <1>1, <2>2, <2>3, <2>5 DEF GotInv
<1>3. CASE ~ \E t \in Task : SendBegin(t) /\ Home[t] = k
  <2>1. Last(k)' = L /\ L \in Nat
    BY <1>3, RecordedHere
  <2>2. CASE Accept(p) /\ ~ IsDuplicate(p, rx[p].frame)
    <3>1. m \in 1..L
      <4>1. rx[p].at = "accept" /\ rx[p].frame.type = "data"
        BY <1>0, <2>2, HeldIsData DEF Accept
      <4> QED BY <1>0, <4>1 DEF IInv, OrderInv, HeldInv, Genuine, Last
    <3>2. \A q \in Nat : (\E r \in 1..Len(inbox'[p]) : inbox'[p][r] = q)
            <=> q = m \/ \E r \in 1..Len(inbox[p]) : inbox[p][r] = q
      <4>1. inbox'[p] = Append(inbox[p], m) /\ m \in Nat
        <5>1. inbox \in [Node -> Seq(Nat)]
          BY <1>0 DEF TypeOK
        <5>2. inbox'[p] = Append(inbox[p], m)
          BY <1>0, <2>2, <5>1 DEF Accept
        <5> QED BY <2>1, <3>1, <5>2
      <4>2. /\ Len(inbox'[p]) = Len(inbox[p]) + 1 /\ inbox'[p][Len(inbox[p]) + 1] = m
            /\ \A r \in 1..Len(inbox[p]) : inbox'[p][r] = inbox[p][r]
        BY <1>0, <4>1, AppendProperties
      <4> DEFINE l == Len(inbox[p])
                 a == inbox[p]
                 b == inbox'[p]
      <4>3. /\ l \in Nat /\ Len(inbox'[p]) = l + 1 /\ b[l + 1] = m
            /\ \A r \in 1..l : b[r] = a[r]
        BY <1>0, <4>2
      <4> HIDE DEF l, a, b
      <4>4. ASSUME NEW q \in Nat, NEW r \in 1..(l + 1), b[r] = q
            PROVE  q = m \/ \E j \in 1..l : a[j] = q
        <5>1. r = l + 1 \/ r \in 1..l
          BY <4>3
        <5> QED BY <4>3, <4>4, <5>1
      <4>5. ASSUME NEW r \in 1..l
            PROVE  r \in 1..(l + 1) /\ b[r] = a[r]
        BY <4>3
      <4>6. l + 1 \in 1..(l + 1)
        BY <4>3
      <4>7. \A q \in Nat : (\E r \in 1..(l + 1) : b[r] = q)
                             <=> q = m \/ \E r \in 1..l : a[r] = q
        BY <4>3, <4>4, <4>5, <4>6
      <4> QED BY <4>3, <4>7 DEF l, a, b
    <3>3. \A i \in 1..L : sent'[k][i].got <=> i = m \/ sent[k][i].got
      <4> DEFINE e == [sent[k][m] EXCEPT !.got = TRUE]
      <4>1. sent' = [sent EXCEPT ![k] = [sent[k] EXCEPT ![m] = e]]
        BY <1>0, <2>2 DEF Accept
      <4>2. Overwritten(k, m, e)
        BY <1>0, <4>1, EntryWritten
      <4>3. e.got
        <5>1. sent[k][m] \in Entry
          BY <3>1, Domains, ElementOfSeq DEF IInv, Last
        <5> QED BY <5>1, Fields
      <4>4. \A i \in 1..L : sent'[k][i] = IF i = m THEN e ELSE sent[k][i]
        BY <1>0, <4>2 DEF Overwritten
      <4> HIDE DEF e
      <4> QED
        <5> SUFFICES ASSUME NEW i \in 1..L
                     PROVE  sent'[k][i].got <=> i = m \/ sent[k][i].got
          OBVIOUS
        <5>1. CASE i = m
          BY <4>3, <4>4, <5>1
        <5>2. CASE i # m
          BY <4>4, <5>2
        <5> QED BY <5>1, <5>2
    <3>4. ASSUME NEW i \in 1..L
          PROVE  sent'[k][i].got <=> \E r \in 1..Len(inbox'[p]) : inbox'[p][r] = i
      <4>1. sent[k][i].got <=> \E r \in 1..Len(inbox[p]) : inbox[p][r] = i
        BY DEF GotInv
      <4>2. i \in Nat
        BY <2>1
      <4> HIDE DEF L, p, m
      <4> QED BY <3>2, <3>3, <3>4, <4>1, <4>2
    <3>5. \A i \in 1..Last(k)' :
            sent'[k][i].got <=> \E r \in 1..Len(inbox'[p]) : inbox'[p][r] = i
      BY <2>1, <3>4
    <3> QED BY <1>1, <3>5 DEF GotInv
  <2>3. CASE ~ (Accept(p) /\ ~ IsDuplicate(p, rx[p].frame))
    <3>1. \A i \in 1..L : sent'[k][i].got = sent[k][i].got
      BY <1>3, <2>3, RecordedHere
    <3>2. inbox'[p] = inbox[p]
      BY <1>0, <2>3, InboxSteps
    <3> QED BY <1>1, <2>1, <3>1, <3>2 DEF GotInv
  <2> QED BY <2>2, <2>3
<1> QED BY <1>2, <1>3

\* What the protocol thread is about to hand over, it hands over.
LEMMA HeldUntilAccept ==
  ASSUME IInv, Step, NEW p \in Node, rx[p].at = "accept", ~ Accept(p)
  PROVE  rx'[p] = rx[p]
<1>0. rx \in [Node -> Parser]
  BY DEF IInv, TypeOK
<1>1. ASSUME NEW t \in Task, SendBegin(t) \/ SendStep(t)
      PROVE  rx' = rx
  BY <1>1 DEF SendBegin, SendStep, ClearAcked, LockWrite, WriteFrame, WaitBreak,
              WaitTimeout, CheckAcked
<1>2. ASSUME NEW n \in Node, n # p, ParseStep(n)
      PROVE  rx'[p] = rx[p]
  BY <1>0, <1>2 DEF ParseStep, ReceiveAck, ReceiveNack, ReceiveData, ReceiveJunk, Busy,
                    SetAcked, Break, LockReply, WriteReply, Accept
<1>3. ~ ParseStep(p)
  BY DEF ParseStep, ReceiveAck, ReceiveNack, ReceiveData, ReceiveJunk, Receive,
         SetAcked, Break, LockReply, WriteReply
<1>4. (\E n \in Node : Lose(n)) \/ UNCHANGED vars => rx' = rx
  BY DEF Lose, vars
<1> QED BY <1>1, <1>2, <1>3, <1>4 DEF Step

\* The duplicate filter never takes a message for the one before it: what has
\* reached the handler is given to the application.
LEMMA NoFalseDuplicate ==
  ASSUME IInv, NEW k \in Node, NumbersInv(k), GotInv(k), SuccessInv(k),
         NEW i \in 1..Last(k), CleanBefore(k, i),
         rx[Peer(k)].at = "accept", rx[Peer(k)].frame.msg = i,
         IsDuplicate(Peer(k), rx[Peer(k)].frame)
  PROVE  sent[k][i].got
<1> DEFINE p == Peer(k)
           b == inbox[p]
           l == Len(b)
           m == b[l]
<1>0. /\ p \in Node /\ Peer(p) = k /\ TypeOK /\ Last(k) \in Nat
      /\ b \in Seq(Nat) /\ l \in Nat /\ DOMAIN b = 1..l
  BY Peers, Domains DEF IInv, Last
<1>1. rx[p].frame.type = "data" /\ rx[p].frame.seq = sent[k][i].seq
      /\ lastRecvSeq[p] = sent[k][i].seq
  <2>1. rx[p].frame.type = "data"
    BY <1>0, HeldIsData
  <2> QED BY <1>0, <2>1 DEF IInv, OrderInv, HeldInv, Genuine, IsDuplicate
<1>2. b # <<>> /\ l \in 1..l
  <2>1. lastRecvSeq[p] # -1
    <3>1. rx[p].frame.seq \in Seqs
      BY <1>0, Domains DEF Frame
    <3> QED BY <1>1, <3>1, ConstantsAssumption DEF Seqs
  <2>2. b # <<>>
    BY <2>1 DEF GotInv
  <2> QED BY <1>0, <2>2, EmptySeq
<1>3. InboxInv(p)
  BY <1>0 DEF IInv, OrderInv
<1>4. /\ m \in 1..Last(k) /\ m <= i /\ sent[k][m].seq = sent[k][i].seq
      /\ \A q \in 1..l : q < l => b[q] < m
  <2>1. \A q \in 1..l : /\ b[q] \in 1..Last(k) /\ NotBefore(b[q], rx[p].frame)
                         /\ \A r \in 1..l : q < r => b[q] < b[r]
    BY <1>0, <1>3 DEF InboxInv, Last
  <2>2. m \in 1..Last(k) /\ m <= i
    BY <1>1, <1>2, <2>1 DEF NotBefore
  <2>3. lastRecvSeq[p] = sent[k][m].seq
    BY <1>0, <1>2, <1>3 DEF InboxInv
  <2> QED BY <1>1, <1>2, <2>1, <2>2, <2>3
<1>5. CASE m = i
  BY <1>0, <1>2, <1>5 DEF GotInv
<1>6. CASE m < i
  <2>1. i - 1 \in 1..Last(k) /\ i > 1 /\ i - 1 \in 1..(i - 1)
    BY <1>0, <1>4, <1>6
  <2>2. CleanBefore(k, i - 1) /\ sent[k][i - 1].res = "ok"
    BY <2>1 DEF CleanBefore
  <2>3. sent[k][i - 1].got
    <3>1. Arrived(k, i - 1)
      BY <2>1, <2>2 DEF SuccessInv
    <3> QED BY <2>1, <3>1 DEF Arrived
  <2>4. PICK q \in 1..l : b[q] = i - 1
    BY <1>0, <2>1, <2>3 DEF GotInv
  <2>5. m >= i - 1
    <3>1. CASE q = l
      BY <1>0, <1>4, <2>1, <2>4, <3>1
    <3>2. CASE q < l
      <4>1. i - 1 < m
        BY <1>4, <2>4, <3>2
      <4> QED BY <1>0, <1>4, <2>1, <4>1
    <3> QED BY <1>0, <2>4, <3>1, <3>2
  <2>6. m = i - 1
    BY <1>0, <1>4, <1>6, <2>5
  <2> QED BY <1>4, <2>1, <2>6 DEF NumbersInv
<1> QED BY <1>0, <1>4, <1>5, <1>6

LEMMA ArrivedKept ==
  ASSUME IInv, Step, NEW k \in Node, NEW i \in 1..Last(k), Arrived(k, i),
         /\ rx[Peer(k)].at = "accept" /\ rx[Peer(k)].frame.msg = i
         /\ IsDuplicate(Peer(k), rx[Peer(k)].frame)
         => sent[k][i].got
  PROVE  Arrived(k, i)'
<1> DEFINE p == Peer(k)
<1>0. p \in Node /\ Peer(p) = k
  BY Peers
<1>1. sent[k][i].got => sent'[k][i].got
  <2>1. CASE \E t \in Task : SendBegin(t) /\ Home[t] = k
    BY <2>1, Begun
  <2>2. CASE ~ \E t \in Task : SendBegin(t) /\ Home[t] = k
    BY <2>2, RecordedHere
  <2> QED BY <2>1, <2>2
<1>2. CASE sent[k][i].got
  BY <1>1, <1>2 DEF Arrived
<1>3. CASE rx[p].at = "accept" /\ rx[p].frame.msg = i /\ ~ Accept(p)
  <2>1. rx'[p] = rx[p]
    BY <1>0, <1>3, HeldUntilAccept
  <2> QED BY <1>3, <2>1 DEF Arrived
<1>4. CASE rx[p].at = "accept" /\ rx[p].frame.msg = i /\ Accept(p)
  <2>1. CASE IsDuplicate(p, rx[p].frame)
    BY <1>2, <1>4, <2>1
  <2>2. CASE ~ IsDuplicate(p, rx[p].frame)
    <3> DEFINE e == [sent[k][i] EXCEPT !.got = TRUE]
    <3>1. sent' = [sent EXCEPT ![k] = [sent[k] EXCEPT ![i] = e]]
      BY <1>0, <1>4, <2>2 DEF Accept
    <3>2. sent \in [Node -> Seq(Entry)] /\ sent[k][i] \in Entry
      BY Domains, ElementOfSeq DEF IInv, TypeOK, Last
    <3>3. Overwritten(k, i, e)
      BY <3>1, <3>2, EntryWritten
    <3>4. e.got
      BY <3>2, Fields
    <3> HIDE DEF e
    <3> QED BY <3>3, <3>4 DEF Overwritten, Arrived
  <2> QED BY <2>1, <2>2
<1> QED BY <1>2, <1>3, <1>4 DEF Arrived

LEMMA ArrivedStep ==
  ASSUME IInv, Step, NEW k \in Node, NumbersInv(k), GotInv(k), SuccessInv(k),
         NEW i \in 1..Last(k), CleanBefore(k, i), Arrived(k, i)
  PROVE  Arrived(k, i)'
BY NoFalseDuplicate, ArrivedKept

\* Who looks at the flag and finds it set is not about to clear it.
LEMMA FlagSeen ==
  ASSUME IInv, NEW t \in Task, CheckAcked(t), acked[Home[t]]
  PROVE  Flagged(Home[t])
BY OneCall DEF CheckAcked, Flagged, AtClear

LEMMA SuccessStep ==
  ASSUME IInv, \A n \in Node : ReliableInv(n), Step, NEW k \in Node,
         NumbersInv(k), GotInv(k), FlowInv(k), SuccessInv(k)
  PROVE  SuccessInv(k)'
<1> DEFINE L == Last(k)
<1>1. ASSUME NEW i \in 1..L, CleanBefore(k, i), sent[k][i].res = "ok"
      PROVE  Arrived(k, i)'
  BY <1>1, ArrivedStep DEF SuccessInv
<1>2. CASE \E t \in Task : SendBegin(t) /\ Home[t] = k
  <2>1. /\ L \in Nat /\ Last(k)' = L + 1 /\ sent'[k][L + 1].res = "pending"
        /\ \A j \in 1..L : sent'[k][j] = sent[k][j]
    BY <1>2, Begun
  <2>2. ASSUME NEW i \in 1..(L + 1), CleanBefore(k, i)', sent'[k][i].res = "ok"
        PROVE  Arrived(k, i)'
    <3>1. i \in 1..L /\ sent[k][i].res = "ok"
      BY <2>1, <2>2
    <3>2. CleanBefore(k, i)
      BY <2>1, <2>2, <3>1 DEF CleanBefore
    <3> QED BY <1>1, <3>1, <3>2
  <2> QED BY <2>1, <2>2 DEF SuccessInv
<1>3. CASE ~ \E t \in Task : SendBegin(t) /\ Home[t] = k
  <2>1. Last(k)' = L /\ L \in Nat
    BY <1>3, RecordedAt
  <2>2. ASSUME NEW i \in 1..L, CleanBefore(k, i)', sent'[k][i].res = "ok"
        PROVE  Arrived(k, i)'
    <3>1. CleanBefore(k, i)
      <4> SUFFICES ASSUME NEW j \in 1..(i - 1) PROVE sent[k][j].res = "ok"
        BY DEF CleanBefore
      <4>1. j \in 1..L /\ j # L /\ sent'[k][j].res = "ok"
        BY <2>1, <2>2 DEF CleanBefore
      <4> QED BY <1>3, <4>1, RecordedAt
    <3>2. CASE sent[k][i].res = "ok"
      BY <1>1, <3>1, <3>2
    <3>3. CASE sent[k][i].res # "ok"
      <4>1. PICK t \in Task : Home[t] = k /\ i = L /\ CheckAcked(t) /\ acked[k]
        BY <1>3, <2>2, <3>3, RecordedAt
      <4>2. Flagged(k) /\ L > 0
        BY <2>1, <4>1, FlagSeen
      <4>3. Arrived(k, L)
        BY <3>1, <4>1, <4>2 DEF FlowInv, Through
      <4> QED BY <3>1, <4>1, <4>3, ArrivedStep
    <3> QED BY <3>2, <3>3
  <2> QED BY <2>1, <2>2 DEF SuccessInv
<1> QED BY <1>2, <1>3

\* A message that is on its way now and was not has just been written.
LEMMA OnWayStep ==
  ASSUME IInv, Step, NEW k \in Node, NEW m \in OnWay(k)', m \notin OnWay(k)
  PROVE  m = Last(k) /\ \E t \in Task : Home[t] = k /\ WriteFrame(t)
<1> DEFINE p == Peer(k)
<1>0. p \in Node /\ Peer(p) = k
  BY Peers
<1>1. PICK g \in FramesTo(p)' : g.type = "data" /\ g.msg = m
  BY DEF OnWay
<1>2. g \notin FramesTo(p)
  BY <1>1 DEF OnWay
<1>3. PICK t \in Task : Home[t] = k /\ WriteFrame(t) /\ g = PacketOf(t)
  BY <1>0, <1>1, <1>2, NewFrames DEF AtRest, Control
<1>4. g.msg = Last(k)
  BY <1>3, OneCall DEF PacketOf, DataFrame, WriteFrame
<1> QED BY <1>1, <1>3, <1>4

LEMMA OnWayIsSent ==
  ASSUME IInv, NEW k \in Node, NEW m \in OnWay(k)
  PROVE  m \in 1..Last(k) /\ m \in Nat
<1> DEFINE p == Peer(k)
<1>0. p \in Node /\ Peer(p) = k /\ WireInv(p) /\ HeldInv(p)
      /\ DOMAIN wire[p] = 1..Len(wire[p])
  BY Peers, Domains DEF IInv, OrderInv
<1>1. PICK g \in FramesTo(p) : g.type = "data" /\ g.msg = m
  BY DEF OnWay
<1>2. Genuine(p, g)
  BY <1>0, <1>1 DEF FramesTo, WireInv, HeldInv
<1> QED BY <1>0, <1>1, <1>2 DEF Genuine, Last

\* The protocol thread answers a message that is on its way, by its number.
LEMMA ReplyNames ==
  ASSUME IInv, NEW k \in Node, WriteReply(Peer(k)), rx[Peer(k)].frame.type = "data"
  PROVE  LET p == Peer(k)
             m == rx[p].frame.msg IN
         /\ m \in OnWay(k) /\ rx[p].frame.seq = sent[k][m].seq
         /\ rx'[p].at = "accept" /\ rx'[p].frame = rx[p].frame
         /\ \A q \in OnWay(k) : m <= q
<1> DEFINE p == Peer(k)
           m == rx[p].frame.msg
<1>0. p \in Node /\ Peer(p) = k /\ WireInv(p) /\ HeldInv(p)
      /\ DOMAIN wire[p] = 1..Len(wire[p]) /\ rx \in [Node -> Parser]
  BY Peers, Domains DEF IInv, OrderInv, TypeOK
<1>1. m \in OnWay(k)
  BY DEF OnWay, FramesTo
<1>2. rx[p].frame.seq = sent[k][m].seq
  BY <1>0 DEF HeldInv, Genuine
<1>3. rx'[p].at = "accept" /\ rx'[p].frame = rx[p].frame
  <2>1. rx'[p] = [rx[p] EXCEPT !.at = "accept"] /\ rx[p] \in Parser
    BY <1>0 DEF WriteReply
  <2> QED BY <2>1 DEF Parser
<1>4. ASSUME NEW q \in OnWay(k)
      PROVE  m <= q
  <2>1. PICK g \in FramesTo(p) : g.type = "data" /\ g.msg = q
    BY DEF OnWay
  <2>2. CASE g = rx[p].frame
    <3>1. m \in Nat
      BY <1>1, OnWayIsSent
    <3> QED BY <2>1, <2>2, <3>1
  <2>3. CASE \E i \in 1..Len(wire[p]) : g = wire[p][i]
    BY <1>0, <2>1, <2>3 DEF HeldInv, NotBefore
  <2> QED BY <2>1, <2>2, <2>3 DEF FramesTo
<1> QED BY <1>1, <1>2, <1>3, <1>4

\* What is through stays through, on a line of which d frames were taken.
LEMMA ThroughStep ==
  ASSUME IInv, \A n \in Node : ReliableInv(n), Step, NEW k \in Node,
         NumbersInv(k), GotInv(k), SuccessInv(k),
         ~ \E t \in Task : SendBegin(t) /\ Home[t] = k,
         Last(k) > 0, CleanBefore(k, Last(k)),
         NEW j \in Nat, Through(k, j),
         NEW d \in {0, 1}, NEW f, LineStep(k, d, f),
         f.type = "ack" => AckOfLast(k, f),
         NEW i \in Nat, j <= i + d
  PROVE  Through(k, i)'
<1> DEFINE L == Last(k)
<1>1. Last(k)' = L /\ L \in Nat
  BY RecordedAt
<1>2. CurrentSeq(k)' = CurrentSeq(k)
  BY FlagSteps DEF CurrentSeq
<1>3. Arrived(k, L)'
  BY <1>1, ArrivedStep DEF Through
<1>4. \A m \in OnWay(k)' : m >= L
  BY <1>1, OnWayStep DEF Through
<1>5. ASSUME NEW q \in 1..Len(wire'[k]), i < q, wire'[k][q].type = "ack"
      PROVE  AckOfLast(k, wire'[k][q])
  <2>1. CASE q + d \in 1..Len(wire[k]) /\ wire'[k][q] = wire[k][q + d]
    <3>1. j < q + d
      BY <1>5
    <3> QED BY <1>5, <2>1, <3>1 DEF Through
  <2>2. CASE wire'[k][q] = f
    BY <1>5, <2>2
  <2> QED BY <2>1, <2>2 DEF LineStep
<1>6. Arrived(k, Last(k))'
  BY <1>1, <1>3
<1> QED BY <1>1, <1>2, <1>4, <1>5, <1>6 DEF Through, AckOfLast

LEMMA FlowBegin ==
  ASSUME EverySendAsks, IInv, NEW k \in Node, NumbersInv(k), FlowInv(k),
         NEW t \in Task, SendBegin(t), Home[t] = k
  PROVE  FlowInv(k)'
<1> DEFINE L == Last(k)
           p == Peer(k)
<1>0. /\ tx \in [Task -> Sender] /\ sequence \in [Node -> Seqs] /\ p \in Node
      /\ sequence[k] \in Seqs
  BY Peers DEF IInv, TypeOK
<1>1. /\ L \in Nat /\ Last(k)' = L + 1 /\ L + 1 <= MaxSends[k]
      /\ sent'[k][L + 1].res = "pending" /\ ~ sent'[k][L + 1].got
      /\ \A j \in 1..L : sent'[k][j] = sent[k][j]
  BY Begun
<1>2. /\ wire' = wire /\ rx' = rx /\ acked' = acked
      /\ currentAckedSeq' = currentAckedSeq
  BY DEF SendBegin
<1>3. OnWay(k)' = OnWay(k)
  BY <1>2 DEF OnWay, FramesTo
<1>4. AtClear(k)'
  <2>1. L + 1 \in Reliable[k]
    BY <1>1, ConstantsAssumption DEF EverySendAsks
  <2>2. tx'[t] = [at |-> "clear", msg |-> L + 1, tries |-> RetryTimes]
    BY <1>0, <2>1 DEF SendBegin, Last
  <2> QED BY <2>2 DEF AtClear
<1>5. CurrentSeq(k)' # CurrentSeq(k)
  <2>1. sequence'[k] = NextSeq(sequence[k])
    BY <1>0 DEF SendBegin
  <2> QED BY <1>0, <2>1, Current DEF CurrentSeq
<1>6. ~ Flagged(k)' /\ L + 1 \notin OnWay(k)
  BY <1>1, <1>4, OnWayIsSent DEF Flagged
<1>7. ASSUME \A j \in 1..L : sent'[k][j].res = "ok"
      PROVE  /\ \A m \in OnWay(k) : m >= L
             /\ rx[k].at # "flag"
             /\ \A i \in 1..Len(wire[k]) : ~ AckOfLast(k, wire[k][i])'
  <2>1. CASE L = 0
    <3>1. rx[k].at # "flag" /\ \A i \in 1..Len(wire[k]) : wire[k][i].type # "ack"
      BY <2>1 DEF FlowInv
    <3>2. \A m \in OnWay(k) : m \in 1..0
      BY <2>1, OnWayIsSent
    <3>3. \A i \in 1..Len(wire[k]) : ~ AckOfLast(k, wire[k][i])'
      BY <1>2, <3>1 DEF AckOfLast
    <3> QED BY <3>1, <3>2, <3>3
  <2>2. CASE L > 0
    <3>1. CleanBefore(k, L) /\ sent[k][L].res = "ok"
      BY <1>1, <1>7, <2>2 DEF CleanBefore
    <3>2. Through(k, 0) /\ currentAckedSeq[k] = CurrentSeq(k)
          /\ (rx[k].at = "flag" => currentAckedSeq[k] # CurrentSeq(k))
      BY <2>2, <3>1 DEF FlowInv
    <3>3. \A i \in 1..Len(wire[k]) : ~ AckOfLast(k, wire[k][i])'
      BY <1>2, <1>5, <3>2 DEF Through, AckOfLast
    <3> QED BY <3>2, <3>3 DEF Through
  <2> QED BY <1>1, <2>1, <2>2
<1>8. Last(k)' # 0 /\ Last(k)' - 1 = L
  BY <1>1
<1>9. ASSUME CleanBefore(k, Last(k))'
      PROVE  /\ \A m \in OnWay(k)' : m >= Last(k)' - 1
             /\ AtClear(k)' => Last(k)' \notin OnWay(k)' /\ ~ sent'[k][Last(k)'].got
             /\ \A i \in 1..Len(wire'[k]) : ~ AckOfLast(k, wire[k][i])'
             /\ rx'[k].at # "flag"
             /\ ~ Flagged(k)'
             /\ sent'[k][Last(k)'].res # "ok"
  <2>1. \A j \in 1..L : sent'[k][j].res = "ok"
    BY <1>1, <1>9 DEF CleanBefore
  <2> QED BY <1>1, <1>2, <1>3, <1>6, <1>7, <1>8, <2>1
<1> QED BY <1>8, <1>9 DEF FlowInv

\* Before the first message nothing is acknowledged.
LEMMA FlowNone ==
  ASSUME IInv, \A n \in Node : ReliableInv(n), Step, NEW k \in Node, FlowInv(k),
         ~ \E t \in Task : SendBegin(t) /\ Home[t] = k, Last(k) = 0
  PROVE  FlowInv(k)'
<1> DEFINE p == Peer(k)
<1>0. p \in Node /\ Peer(p) = k /\ Last(k)' = 0
      /\ wire[k] \in Seq(Frame)
  BY Peers, RecordedAt, Domains DEF IInv
<1>1. rx[k].at # "flag" /\ \A i \in 1..Len(wire[k]) : wire[k][i].type # "ack"
  BY DEF FlowInv
<1>2. rx'[k].at # "flag"
  <2>1. ~ FlagRises(k)
    <3> SUFFICES ASSUME FlagRises(k) PROVE FALSE
      OBVIOUS
    <3>1. ReceiveAck(k) /\ Receive(k, "ack") /\ (rx' = rx \/ Busy(k, "flag"))
      BY DEF FlagRises, ReceiveAck
    <3>2. 1 \in 1..Len(wire[k]) /\ wire[k][1].type = "ack"
      BY <3>1, Taking DEF IInv
    <3> QED BY <1>1, <3>2
  <2> QED BY <1>1, <2>1, FlagSteps DEF FlagSet, FlagSame
<1>3. ASSUME NEW i \in 1..Len(wire'[k])
      PROVE  wire'[k][i].type # "ack"
  <2>1. PICK d \in {0, 1}, f \in Frame :
           /\ LineStep(k, d, f)
           /\ \/ f = AtRest.frame
              \/ \E t \in Task : Home[t] = p /\ WriteFrame(t) /\ f = PacketOf(t)
              \/ /\ WriteReply(p)
                 /\ f = Control(IF rx[p].frame.type = "data" THEN "ack" ELSE "nack",
                                rx[p].frame.seq)
    BY LineSteps
  <2>2. ~ (WriteReply(p) /\ rx[p].frame.type = "data")
    BY <1>0, ReplyNames, OnWayIsSent
  <2>3. f.type # "ack"
    BY <2>1, <2>2 DEF AtRest, Control, PacketOf, DataFrame
  <2> QED BY <1>1, <2>1, <2>3 DEF LineStep
<1> QED BY <1>0, <1>2, <1>3 DEF FlowInv

\* A later message: its frames and acknowledgements follow those of a message
\* that is through.
LEMMA FlowLater ==
  ASSUME IInv, \A n \in Node : ReliableInv(n), Step, NEW k \in Node,
         NumbersInv(k), GotInv(k), FlowInv(k), SuccessInv(k),
         ~ \E t \in Task : SendBegin(t) /\ Home[t] = k, Last(k) > 0
  PROVE  FlowInv(k)'
<1> DEFINE L == Last(k)
           p == Peer(k)
           c == CurrentSeq(k)
<1>0. /\ p \in Node /\ Peer(p) = k /\ wire[k] \in Seq(Frame)
      /\ L \in Nat /\ L \in 1..L /\ Last(k)' = L
  BY Peers, RecordedAt, Domains DEF IInv
<1>1. CurrentSeq(k)' = c
  BY FlagSteps DEF CurrentSeq
<1> SUFFICES ASSUME CleanBefore(k, L)
             PROVE  /\ \A m \in OnWay(k)' : m >= L - 1
                    /\ AtClear(k)' => L \notin OnWay(k)' /\ ~ sent'[k][L].got
                    /\ \A i \in 1..Len(wire'[k]) :
                         AckOfLast(k, wire[k][i])' => Through(k, i)'
                    /\ rx'[k].at = "flag" => /\ Through(k, 0)'
                                             /\ rx'[k].frame.seq = c
                                             /\ currentAckedSeq'[k] # c
                    /\ Flagged(k)' => Through(k, 0)' /\ currentAckedSeq'[k] = c
                    /\ sent'[k][L].res = "ok" => Flagged(k)'
  <2>1. CleanBefore(k, Last(k))' => CleanBefore(k, L)
    <3> SUFFICES ASSUME CleanBefore(k, Last(k))', NEW j \in 1..(L - 1)
                 PROVE  sent[k][j].res = "ok"
      BY DEF CleanBefore
    <3>1. j \in 1..L /\ j # L /\ sent'[k][j].res = "ok"
      BY <1>0 DEF CleanBefore
    <3> QED BY <3>1, RecordedAt
  <2> QED BY <1>0, <1>1, <2>1 DEF FlowInv
<1>2. /\ \A m \in OnWay(k) : m >= L - 1
      /\ AtClear(k) => L \notin OnWay(k) /\ ~ sent[k][L].got
      /\ \A i \in 1..Len(wire[k]) : AckOfLast(k, wire[k][i]) => Through(k, i)
      /\ rx[k].at = "flag" => /\ Through(k, 0)
                              /\ rx[k].frame.seq = c
                              /\ currentAckedSeq[k] # c
      /\ Flagged(k) => Through(k, 0) /\ currentAckedSeq[k] = c
      /\ sent[k][L].res = "ok" => Flagged(k)
  BY <1>0 DEF FlowInv
<1>3. PICK d \in {0, 1}, f \in Frame :
           /\ LineStep(k, d, f)
           /\ \/ f = AtRest.frame
              \/ \E t \in Task : Home[t] = p /\ WriteFrame(t) /\ f = PacketOf(t)
              \/ /\ WriteReply(p)
                 /\ f = Control(IF rx[p].frame.type = "data" THEN "ack" ELSE "nack",
                                rx[p].frame.seq)
  BY LineSteps
\* A new acknowledgement is one of the last message or of the one before it.
<1>4. ASSUME f.type = "ack"
      PROVE  LET m == rx[p].frame.msg IN
             /\ WriteReply(p) /\ rx[p].frame.type = "data"
             /\ m \in {L - 1, L} /\ f.seq = sent[k][m].seq
             /\ m = L <=> AckOfLast(k, f)
  <2>1. WriteReply(p) /\ rx[p].frame.type = "data" /\ f.seq = rx[p].frame.seq
    BY <1>3, <1>4 DEF AtRest, Control, PacketOf, DataFrame
  <2>2. LET m == rx[p].frame.msg IN
        m \in 1..L /\ m \in OnWay(k) /\ f.seq = sent[k][m].seq
    BY <2>1, ReplyNames, OnWayIsSent
  <2>3. rx[p].frame.msg \in {L - 1, L}
    BY <1>0, <1>2, <2>2
  <2>4. rx[p].frame.msg = L => AckOfLast(k, f)
    BY <1>4, <2>2 DEF AckOfLast, NumbersInv
  <2>5. rx[p].frame.msg = L - 1 => ~ AckOfLast(k, f)
    <3>1. rx[p].frame.msg = L - 1 => L > 1
      BY <1>0, <2>2
    <3>2. L > 1 => sent[k][L - 1].seq # sent[k][L].seq
      BY <1>0 DEF NumbersInv
    <3> QED BY <2>2, <3>1, <3>2 DEF AckOfLast, NumbersInv
  <2> QED BY <1>0, <2>1, <2>2, <2>3, <2>4, <2>5
<1>5. ASSUME NEW j \in Nat, Through(k, j)
      PROVE  f.type = "ack" => AckOfLast(k, f)
  <2> SUFFICES ASSUME f.type = "ack" PROVE AckOfLast(k, f)
    OBVIOUS
  <2>1. rx[p].frame.msg \in OnWay(k)
    BY <1>4, ReplyNames
  <2>2. rx[p].frame.msg >= L
    BY <1>5, <2>1 DEF Through
  <2> QED BY <1>0, <1>4, <2>2
<1>6. ASSUME NEW j \in Nat, Through(k, j), NEW i \in Nat, j <= i + d
      PROVE  Through(k, i)'
  BY <1>3, <1>5, <1>6, ThroughStep
<1>7. Through(k, 0) => Through(k, 0)'
  BY <1>6
<1>8. \A m \in OnWay(k)' : m >= L - 1
  BY <1>0, <1>2, OnWayStep
<1>9. ASSUME AtClear(k)'
      PROVE  L \notin OnWay(k)' /\ ~ sent'[k][L].got
  <2>1. AtClear(k) /\ L \notin OnWay(k) /\ ~ sent[k][L].got
    BY <1>2, <1>9, ClearSteps
  <2>2. ASSUME NEW t \in Task, Home[t] = k, WriteFrame(t)
        PROVE  FALSE
    <3>1. PICK u \in Task : Home[u] = k /\ tx[u].at = "clear"
      BY <2>1 DEF AtClear
    <3>2. tx[t].at = "write"
      BY <2>2 DEF WriteFrame
    <3> QED BY <2>2, <3>1, <3>2, OneCall
  <2>3. L \notin OnWay(k)'
    BY <2>1, <2>2, OnWayStep
  <2>4. ~ (Accept(p) /\ L = rx[p].frame.msg)
    <3> SUFFICES ASSUME Accept(p), L = rx[p].frame.msg PROVE FALSE
      OBVIOUS
    <3>1. rx[p].frame.type = "data"
      BY <1>0, HeldIsData DEF Accept
    <3> QED BY <2>1, <3>1 DEF OnWay, FramesTo
  <2> QED BY <1>0, <2>1, <2>3, <2>4, RecordedAt
<1>10. ASSUME NEW i \in 1..Len(wire'[k]), AckOfLast(k, wire[k][i])'
       PROVE  Through(k, i)'
  <2>0. AckOfLast(k, wire'[k][i])
    BY <1>1, <1>10 DEF AckOfLast
  <2>1. CASE i + d \in 1..Len(wire[k]) /\ wire'[k][i] = wire[k][i + d]
    <3>1. Through(k, i + d)
      BY <1>2, <2>0, <2>1
    <3> QED BY <1>6, <3>1
  <2>2. CASE d = 0 /\ i = Len(wire[k]) + 1 /\ wire'[k][i] = f
    <3>1. WriteReply(p) /\ rx[p].frame.type = "data" /\ rx[p].frame.msg = L
      BY <1>4, <2>0, <2>2 DEF AckOfLast
    <3>2. Arrived(k, Last(k))'
      BY <1>0, <3>1, ReplyNames DEF Arrived
    <3>3. \A m \in OnWay(k)' : m >= L
      BY <1>0, <3>1, ReplyNames, OnWayStep
    <3>4. ~ \E q \in 1..Len(wire'[k]) : i < q
      <4>1. Len(wire[k]) \in Nat
        BY <1>0
      <4> QED BY <1>3, <2>2, <4>1 DEF LineStep
    <3> QED BY <1>0, <3>2, <3>3, <3>4 DEF Through
  <2> QED BY <1>3, <2>1, <2>2 DEF LineStep
<1>11. ASSUME rx'[k].at = "flag"
       PROVE  Through(k, 0)' /\ rx'[k].frame.seq = c /\ currentAckedSeq'[k] # c
  <2>1. CASE FlagRises(k)
    <3>1. /\ 1 \in 1..Len(wire[k]) /\ wire[k][1] = Head(wire[k])
          /\ wire[k][1].type = "ack" /\ LineStep(k, 1, AtRest.frame)
      <4>1. ReceiveAck(k) /\ Receive(k, "ack") /\ (rx' = rx \/ Busy(k, "flag"))
        BY <2>1 DEF FlagRises, ReceiveAck
      <4>2. 1 \in 1..Len(wire[k]) /\ wire[k][1].type = "ack"
            /\ LineStep(k, 1, AtRest.frame)
        BY <4>1, Taking DEF IInv
      <4> QED BY <1>0, <4>2
    <3>2. AckOfLast(k, wire[k][1]) /\ currentAckedSeq[k] # c
      BY <2>1, <3>1 DEF FlagRises, AckCounts, AckOfLast
    <3>3. Through(k, 1)
      BY <1>2, <3>1, <3>2
    <3>4. AtRest.frame.type # "ack"
      BY DEF AtRest, Control
    <3>5. Through(k, 0)'
      BY <1>0, <3>1, <3>3, <3>4, ThroughStep
    <3> QED BY <2>1, <3>1, <3>2, <3>5 DEF FlagRises, AckOfLast
  <2>2. CASE FlagSame(k)
    BY <1>2, <1>7, <1>11, <2>2 DEF FlagSame
  <2> QED BY <1>11, <2>1, <2>2, FlagSteps DEF FlagSet
<1>12. ASSUME Flagged(k)'
       PROVE  Through(k, 0)' /\ currentAckedSeq'[k] = c
  <2>1. CASE FlagSet(k)
    BY <1>2, <1>7, <2>1 DEF FlagSet
  <2>2. CASE ~ FlagSet(k)
    <3>1. acked'[k] = acked[k]
      BY <1>12, <2>2, FlagSteps, ClearSteps DEF FlagRises, Flagged
    <3>2. Flagged(k)
      BY <1>12, <3>1, ClearSteps DEF Flagged
    <3>3. currentAckedSeq'[k] = currentAckedSeq[k]
      BY <2>2, FlagSteps DEF FlagRises, FlagSame
    <3> QED BY <1>2, <1>7, <3>2, <3>3
  <2> QED BY <2>1, <2>2
<1>13. ASSUME sent'[k][L].res = "ok"
       PROVE  Flagged(k)'
  <2>1. Flagged(k) /\ ~ \E t \in Task : ClearAcked(t) /\ Home[t] = k
    <3>1. CASE sent[k][L].res = "ok"
      <4>1. ASSUME NEW t \in Task, ClearAcked(t), Home[t] = k
            PROVE  FALSE
        BY <3>1, <4>1 DEF NumbersInv, ClearAcked
      <4> QED BY <1>2, <3>1, <4>1
    <3>2. CASE sent[k][L].res # "ok"
      <4>1. PICK t \in Task : Home[t] = k /\ CheckAcked(t) /\ acked[k]
        BY <1>0, <1>13, <3>2, RecordedAt
      <4>2. ASSUME NEW u \in Task, ClearAcked(u), Home[u] = k
            PROVE  FALSE
        BY <4>1, <4>2, OneCall DEF CheckAcked, ClearAcked
      <4> QED BY <4>1, <4>2, FlagSeen
    <3> QED BY <3>1, <3>2
  <2>2. acked'[k]
    BY <2>1, FlagSteps DEF Flagged, FlagRises, FlagSet
  <2> QED BY <2>1, <2>2, ClearSteps DEF Flagged
<1> QED BY <1>8, <1>9, <1>10, <1>11, <1>12, <1>13

LEMMA HistoryInit == Init => HistoryInv
<1> SUFFICES ASSUME Init, NEW n \in Node
             PROVE  /\ ReliableInv(n) /\ NumbersInv(n) /\ GotInv(n)
                    /\ FlowInv(n) /\ SuccessInv(n)
  BY DEF HistoryInv
<1>1. /\ Last(n) = 0 /\ wire[n] = <<>> /\ rx[n] = AtRest
      /\ lastRecvSeq[Peer(n)] = -1 /\ \A t \in Task : tx[t].at = "idle"
  BY EmptySeq, Peers DEF Init, Last, Resting
<1>2. Len(wire[n]) = 0
  BY <1>1, EmptySeq
<1> QED BY <1>1, <1>2
       DEF ReliableInv, NumbersInv, GotInv, FlowInv, SuccessInv, FramesTo, AtRest, Control

LEMMA HistoryStep ==
  OnlyLosses /\ IInv /\ HistoryInv /\ [Next]_vars => HistoryInv'
<1> SUFFICES ASSUME OnlyLosses, IInv, HistoryInv, [Next]_vars, NEW k \in Node
             PROVE  /\ ReliableInv(k)' /\ NumbersInv(k)' /\ GotInv(k)'
                    /\ FlowInv(k)' /\ SuccessInv(k)'
  BY DEF HistoryInv
<1>1. /\ Step /\ EverySendAsks /\ \A n \in Node : ReliableInv(n)
      /\ NumbersInv(k) /\ GotInv(k) /\ FlowInv(k) /\ SuccessInv(k)
  BY Steps DEF OnlyLosses, HistoryInv
<1>2. ReliableInv(k)'
  BY <1>1, ReliableStep
<1>3. NumbersInv(k)'
  BY <1>1, NumbersStep
<1>4. GotInv(k)'
  BY <1>1, GotStep
<1>5. FlowInv(k)'
  <2>1. Last(k) = 0 \/ Last(k) > 0
    BY Domains DEF IInv, Last
  <2> QED BY <1>1, <2>1, FlowBegin, FlowNone, FlowLater
<1>6. SuccessInv(k)'
  BY <1>1, SuccessStep
<1> QED BY <1>2, <1>3, <1>4, <1>5, <1>6

\* A send that returns 0 was delivered, as long as the sends before it were: if
\* all are reliable and the line only loses frames, an acknowledgement that is
\* taken for that of the message under way never speaks for another message,
\* although the numbers wrap around and the one before may still be repeated.
THEOREM SuccessIsDelivery == OnlyLosses => (Spec => []SuccessAfterCleanHistory)
<1> SUFFICES ASSUME OnlyLosses PROVE Spec => []SuccessAfterCleanHistory
  OBVIOUS
<1>1. IInv /\ HistoryInv => SuccessAfterCleanHistory
  <2> SUFFICES ASSUME IInv, HistoryInv, NEW n \in Node, NEW i \in DOMAIN sent[n],
                      sent[n][i].res = "ok",
                      \A j \in 1..(i - 1) : sent[n][j].rel => sent[n][j].res = "ok"
               PROVE  Arrived(n, i)
    BY DEF SuccessAfterCleanHistory
  <2>1. i \in 1..Last(n) /\ Last(n) \in Nat
    BY Domains DEF IInv, Last
  <2>2. CleanBefore(n, i)
    BY <2>1 DEF HistoryInv, ReliableInv, CleanBefore
  <2> QED BY <2>1, <2>2 DEF HistoryInv, SuccessInv
<1> QED BY <1>1, HistoryInit, HistoryStep, InOrder, PTL DEF Spec


-----------------------------------------------------------------------------
(* A timeout means waiting                                                 *)

\* Without damage nothing is answered with a nack.
LEMMA NoJunk ==
  ASSUME IInv, NEW k \in Node, KindsInv(k)
  PROVE  ~ ReceiveNack(k) /\ ~ ReceiveJunk(k)
<1> SUFFICES ASSUME ReceiveNack(k) \/ ReceiveJunk(k) PROVE FALSE
  OBVIOUS
<1>1. PICK kind \in {"nack", "junk"} : Receive(k, kind)
  BY DEF ReceiveNack, ReceiveJunk
<1>2. (\E place : Busy(k, place)) \/ rx' = rx
  BY DEF ReceiveNack, ReceiveJunk
<1>3. 1 \in 1..Len(wire[k]) /\ wire[k][1].type = kind
  BY <1>1, <1>2, Taking DEF IInv
<1> QED BY <1>1, <1>3 DEF KindsInv

\* What the protocol thread is about to answer is a frame it has taken up.
LEMMA AnswerSteps ==
  ASSUME IInv, Step, NEW k \in Node, KindsInv(k), rx'[k].at \in {"lock", "write"}
  PROVE  rx'[k].frame.type = "data"
<1>0. rx \in [Node -> Parser] /\ TypeOK
  BY DEF IInv, TypeOK
<1>1. rx'[k] = rx[k] => rx'[k].frame.type = "data"
  BY DEF KindsInv
<1>2. ASSUME NEW t \in Task, SendBegin(t) \/ SendStep(t)
      PROVE  rx' = rx
  BY <1>2 DEF SendBegin, SendStep, ClearAcked, LockWrite, WriteFrame, WaitBreak,
              WaitTimeout, CheckAcked
<1>3. ASSUME NEW n \in Node, n # k, ParseStep(n)
      PROVE  rx'[k] = rx[k]
  BY <1>0, <1>3 DEF ParseStep, ReceiveAck, ReceiveNack, ReceiveData, ReceiveJunk, Busy,
                    SetAcked, Break, LockReply, WriteReply, Accept
<1>4. ASSUME SetAcked(k) \/ Break(k) \/ WriteReply(k) \/ Accept(k)
      PROVE  FALSE
  BY <1>0, <1>4 DEF SetAcked, Break, WriteReply, Accept, AtRest, Parser
<1>5. ASSUME LockReply(k)
      PROVE  rx'[k].frame = rx[k].frame /\ rx[k].at = "lock"
  BY <1>0, <1>5 DEF LockReply, Parser
<1>6. ASSUME ReceiveAck(k) \/ ReceiveNack(k)
      PROVE  rx' = rx
  BY <1>0, <1>6 DEF ReceiveAck, ReceiveNack, Busy
<1>7. ASSUME ReceiveData(k)
      PROVE  rx'[k].frame.type = "data"
  BY <1>0, <1>7 DEF ReceiveData, Receive, Busy
<1>8. ~ ReceiveJunk(k)
  BY NoJunk
<1>9. (\E n \in Node : Lose(n)) \/ UNCHANGED vars => rx' = rx
  BY DEF Lose, vars
<1>10. CASE ParseStep(k)
  BY <1>1, <1>4, <1>5, <1>6, <1>7, <1>8, <1>10 DEF ParseStep, KindsInv
<1> QED BY <1>1, <1>2, <1>3, <1>9, <1>10 DEF Step

LEMMA KindsStep ==
  ASSUME IInv, Step, NEW k \in Node, KindsInv(k), KindsInv(Peer(k))
  PROVE  KindsInv(k)'
<1> DEFINE p == Peer(k)
<1>1. WriteReply(p) => rx[p].frame.type = "data"
  BY DEF WriteReply, KindsInv
<1>2. ASSUME NEW i \in 1..Len(wire'[k])
      PROVE  wire'[k][i].type \in {"data", "ack"}
  <2>1. PICK d \in {0, 1}, f \in Frame :
           /\ LineStep(k, d, f)
           /\ \/ f = AtRest.frame /\ Len(wire'[k]) <= Len(wire[k])
              \/ \E t \in Task : Home[t] = p /\ WriteFrame(t) /\ f = PacketOf(t)
              \/ /\ WriteReply(p)
                 /\ f = Control(IF rx[p].frame.type = "data" THEN "ack" ELSE "nack",
                                rx[p].frame.seq)
    BY LineSteps
  <2>2. Len(wire[k]) \in Nat
    BY Domains DEF IInv
  <2>3. CASE i + d \in 1..Len(wire[k]) /\ wire'[k][i] = wire[k][i + d]
    BY <2>3 DEF KindsInv
  <2>4. CASE wire'[k][i] = f /\ i = Len(wire[k]) + 1
    <3>1. ~ Len(wire'[k]) <= Len(wire[k])
      BY <2>2, <2>4
    <3> QED BY <1>1, <2>1, <2>4, <3>1 DEF PacketOf, DataFrame, Control
  <2> QED BY <2>1, <2>3, <2>4 DEF LineStep
<1>3. rx'[k].at \in {"lock", "write"} => rx'[k].frame.type = "data"
  BY AnswerSteps
<1> QED BY <1>2, <1>3 DEF KindsInv

LEMMA NamesBegin ==
  ASSUME IInv, NEW k \in Node, MaxSends[k] <= SeqMod, NamesInv(k),
         NEW t \in Task, SendBegin(t), Home[t] = k
  PROVE  NamesInv(k)'
<1> DEFINE L == Last(k)
<1>0. /\ sequence \in [Node -> Seqs] /\ SeqMod \in Nat /\ SeqMod > 1
      /\ MaxSends[k] \in Nat /\ Peer(k) \in Node
  BY ConstantsAssumption, Peers DEF IInv, TypeOK
<1>1. /\ L \in Nat /\ Last(k)' = L + 1 /\ L + 1 <= MaxSends[k]
      /\ sent'[k][L + 1].seq = sequence[k] /\ sent'[k][L + 1].breaks = 0
      /\ \A j \in 1..L : sent'[k][j] = sent[k][j]
  BY Begun
<1>2. sequence[k] = L /\ sequence'[k] = NextSeq(L) /\ L \in Seqs
  <2>1. L < SeqMod
    BY <1>0, <1>1
  <2>2. sequence[k] = L
    BY <2>1 DEF NamesInv
  <2> QED BY <1>0, <1>1, <2>1, <2>2 DEF SendBegin, Seqs
<1>3. wire' = wire /\ rx' = rx
  BY DEF SendBegin
<1>4. FramesTo(k)' = FramesTo(k) /\ OnWay(k)' = OnWay(k)
  BY <1>3 DEF FramesTo, OnWay
<1>5. CurrentSeq(k)' = L
  BY <1>2, Current DEF CurrentSeq
<1>6. \A i \in 1..(L + 1) : sent'[k][i].seq = i - 1
  BY <1>1, <1>2 DEF NamesInv
<1>7. L + 1 < SeqMod => sequence'[k] = L + 1
  BY <1>0, <1>1, <1>2 DEF NextSeq
<1>8. \A f \in FramesTo(k) : f.type = "ack" => f.seq < L
  BY DEF NamesInv
<1>9. \A f \in FramesTo(k) : f.type = "ack" => f.seq < L + 1 /\ f.seq # L
  <2> SUFFICES ASSUME NEW f \in FramesTo(k), f.type = "ack"
               PROVE  f.seq < L + 1 /\ f.seq # L
    OBVIOUS
  <2>1. f.seq \in Nat
    <3>1. f \in Frame
      BY <1>0, Domains, ElementOfSeq DEF FramesTo, IInv, TypeOK, Parser
    <3> QED BY <1>0, <3>1 DEF Frame, Seqs
  <2> QED BY <1>1, <1>8, <2>1
<1>10. L + 1 \notin OnWay(k)
  <2>1. L + 1 \in OnWay(k) => L + 1 \in 1..L
    BY OnWayIsSent
  <2> QED BY <1>1, <2>1
<1>11. AtClear(k)' => /\ Last(k)' \notin OnWay(k)'
                      /\ sent'[k][Last(k)'].breaks = 0
                      /\ \A f \in FramesTo(k)' : ~ AckOfLast(k, f)'
  BY <1>1, <1>4, <1>5, <1>9, <1>10 DEF AckOfLast
<1>12. KindsInv(k)'
  BY <1>3 DEF NamesInv, KindsInv
<1> QED BY <1>1, <1>4, <1>6, <1>7, <1>9, <1>11, <1>12 DEF NamesInv

LEMMA NamesStep ==
  ASSUME IInv, Step, NEW k \in Node, NumbersInv(k),
         NamesInv(k), NamesInv(Peer(k)),
         ~ \E t \in Task : SendBegin(t) /\ Home[t] = k
  PROVE  NamesInv(k)'
<1> DEFINE L == Last(k)
           p == Peer(k)
<1>0. /\ p \in Node /\ Peer(p) = k /\ Last(k)' = L /\ L \in Nat
      /\ sequence'[k] = sequence[k] /\ CurrentSeq(k)' = CurrentSeq(k)
  BY Peers, RecordedHere, SequenceSteps DEF CurrentSeq
<1>1. \A i \in 1..L : sent'[k][i].seq = sent[k][i].seq
  BY <1>0, RecordedHere
<1>2. WriteReply(p) => rx[p].frame.type = "data"
  BY DEF WriteReply, NamesInv, KindsInv
<1>3. WriteReply(p) => /\ rx[p].frame.msg \in OnWay(k) /\ rx[p].frame.msg \in 1..L
                       /\ rx[p].frame.seq = rx[p].frame.msg - 1
  <2> SUFFICES ASSUME WriteReply(p)
               PROVE  /\ rx[p].frame.msg \in OnWay(k) /\ rx[p].frame.msg \in 1..L
                      /\ rx[p].frame.seq = rx[p].frame.msg - 1
    OBVIOUS
  <2>1. /\ rx[p].frame.msg \in OnWay(k)
        /\ rx[p].frame.seq = sent[k][rx[p].frame.msg].seq
    BY <1>0, <1>2, ReplyNames
  <2>2. rx[p].frame.msg \in 1..L
    BY <2>1, OnWayIsSent
  <2> QED BY <2>1, <2>2 DEF NamesInv
<1>4. ASSUME NEW g \in FramesTo(k)', g \notin FramesTo(k), g.type = "ack"
      PROVE  WriteReply(p) /\ g.seq = rx[p].frame.seq
  <2>1. \/ g = AtRest.frame
        \/ \E t \in Task : Home[t] = p /\ WriteFrame(t) /\ g = PacketOf(t)
        \/ /\ WriteReply(p)
           /\ g = Control(IF rx[p].frame.type = "data" THEN "ack" ELSE "nack",
                          rx[p].frame.seq)
    BY <1>4, NewFrames
  <2> QED BY <1>4, <2>1 DEF AtRest, Control, PacketOf, DataFrame
<1>5. ASSUME NEW g \in FramesTo(k)', g.type = "ack"
      PROVE  g.seq < L
  <2>1. CASE g \in FramesTo(k)
    BY <1>5, <2>1 DEF NamesInv
  <2>2. CASE g \notin FramesTo(k)
    BY <1>0, <1>3, <1>4, <1>5, <2>2
  <2> QED BY <2>1, <2>2
<1>6. KindsInv(k)'
  BY <1>0, KindsStep DEF NamesInv
<1>8. ASSUME AtClear(k)'
      PROVE  /\ L \notin OnWay(k)'
             /\ sent'[k][L].breaks = 0
             /\ \A f \in FramesTo(k)' : ~ (f.type = "ack" /\ f.seq = CurrentSeq(k))
  <2>1. AtClear(k)
    BY <1>8, ClearSteps
  <2>2. PICK u \in Task : Home[u] = k /\ tx[u].at = "clear"
    BY <2>1 DEF AtClear
  <2>3. L > 0 /\ L \in 1..L
    BY <1>0, <2>2, OneCall
  <2>4. CurrentSeq(k) = L - 1
    BY <2>3 DEF NumbersInv, NamesInv
  <2>5. L \notin OnWay(k)'
    <3>1. ~ \E t \in Task : Home[t] = k /\ WriteFrame(t)
      BY <2>2, OneCall DEF WriteFrame
    <3> QED BY <2>1, <3>1, OnWayStep DEF NamesInv
  <2>6. ~ (ReceiveAck(k) /\ AckCounts(k, Head(wire[k]).seq))
    <3> SUFFICES ASSUME ReceiveAck(k), AckCounts(k, Head(wire[k]).seq) PROVE FALSE
      OBVIOUS
    <3>1. Receive(k, "ack") /\ (rx' = rx \/ Busy(k, "flag")) /\ wire[k] # <<>>
      BY DEF ReceiveAck, Receive
    <3>2. 1 \in 1..Len(wire[k]) /\ wire[k][1].type = "ack"
      BY <3>1, Taking DEF IInv
    <3>3. wire[k][1] = Head(wire[k])
      BY <3>1, Domains, EmptySeq DEF IInv
    <3> QED BY <2>1, <3>2, <3>3 DEF NamesInv, AckCounts, AckOfLast, FramesTo
  <2>7. sent'[k][L].breaks = 0
    <3>1. sent[k][L].breaks = 0
      BY <2>1 DEF NamesInv
    <3> QED BY <2>3, <2>6, <3>1, RecordedHere
  <2>8. ASSUME NEW f \in FramesTo(k)', f.type = "ack", f.seq = CurrentSeq(k)
        PROVE  FALSE
    <3>1. f \notin FramesTo(k)
      BY <2>1, <2>8 DEF NamesInv, AckOfLast
    <3>2. rx[p].frame.msg = L
      BY <1>0, <1>3, <1>4, <2>4, <2>8, <3>1
    <3> QED BY <1>3, <1>4, <2>1, <2>8, <3>1, <3>2 DEF NamesInv
  <2> QED BY <2>5, <2>7, <2>8
<1>9. /\ L <= MaxSends[k] /\ \A i \in 1..L : sent[k][i].seq = i - 1
      /\ L < SeqMod => sequence[k] = L
  BY DEF NamesInv
<1>10. AtClear(k)' => /\ Last(k)' \notin OnWay(k)'
                      /\ sent'[k][Last(k)'].breaks = 0
                      /\ \A f \in FramesTo(k)' : ~ AckOfLast(k, f)'
  BY <1>0, <1>8 DEF AckOfLast
<1> QED BY <1>0, <1>1, <1>5, <1>6, <1>9, <1>10 DEF NamesInv


\* A break more is one that is counted; a break less is taken by a sleep.
Slept(k) == \E t \in Task : Home[t] = k /\ WaitBreak(t)

LEMMA BreakSteps ==
  ASSUME IInv, \A n \in Node : ReliableInv(n), Step, NEW k \in Node, NamesInv(k)
  PROVE  /\ BreaksLeft(k) \in Nat
         /\ \/ FlagRises(k) /\ tx' = tx /\ BreaksLeft(k)' = BreaksLeft(k) + 1
            \/ Slept(k) /\ BreaksLeft(k)' = BreaksLeft(k) - 1
            \/ ~ FlagRises(k) /\ ~ Slept(k) /\ BreaksLeft(k)' = BreaksLeft(k)
<1> DEFINE Held == rx[k].at \in {"flag", "break"}
           Goal == \/ FlagRises(k) /\ tx' = tx /\ BreaksLeft(k)' = BreaksLeft(k) + 1
                   \/ Slept(k) /\ BreaksLeft(k)' = BreaksLeft(k) - 1
                   \/ ~ FlagRises(k) /\ ~ Slept(k) /\ BreaksLeft(k)' = BreaksLeft(k)
<1>0. /\ rx \in [Node -> Parser] /\ interruptSem \in [Node -> Nat] /\ TypeOK
      /\ \A t \in Task : Home[t] \in Node
  BY ConstantsAssumption DEF IInv, TypeOK
<1>1. BreaksLeft(k) \in Nat
  <2>1. interruptSem[k] \in Nat
    BY <1>0
  <2> QED BY <2>1 DEF BreaksLeft
<1>2. ASSUME interruptSem'[k] = interruptSem[k], rx'[k] = rx[k], ~ Slept(k)
      PROVE  Goal
  <2>1. ~ FlagRises(k)
    BY <1>2 DEF FlagRises
  <2> QED BY <1>2, <2>1 DEF BreaksLeft
<1>3. ASSUME interruptSem'[k] = interruptSem[k], ~ Slept(k), ~ FlagRises(k),
             rx[k].at \notin {"flag", "break"}, rx'[k].at \notin {"flag", "break"}
      PROVE  Goal
  BY <1>3 DEF BreaksLeft
<1>4. ASSUME NEW t \in Task, SendBegin(t) \/ SendStep(t)
      PROVE  Goal
  <2>1. rx' = rx
    BY <1>4 DEF SendBegin, SendStep, ClearAcked, LockWrite, WriteFrame, WaitBreak,
                WaitTimeout, CheckAcked
  <2>2. CASE WaitBreak(t) /\ Home[t] = k
    <3>1. interruptSem'[k] = interruptSem[k] - 1 /\ Slept(k)
      BY <1>0, <2>2 DEF WaitBreak, Taken, Slept
    <3> QED BY <1>0, <2>1, <3>1 DEF BreaksLeft
  <2>3. CASE ~ (WaitBreak(t) /\ Home[t] = k)
    <3>1. interruptSem'[k] = interruptSem[k]
      <4>1. CASE WaitBreak(t)
        BY <1>0, <2>3, <4>1 DEF WaitBreak
      <4>2. CASE ~ WaitBreak(t)
        BY <1>4, <4>2 DEF SendBegin, SendStep, ClearAcked, LockWrite, WriteFrame,
                          WaitTimeout, CheckAcked, protocolVars
      <4> QED BY <4>1, <4>2
    <3>2. ~ Slept(k)
      <4> SUFFICES ASSUME NEW u \in Task, Home[u] = k, WaitBreak(u) PROVE FALSE
        BY DEF Slept
      <4>1. interruptSem'[k] = interruptSem[k] - 1 /\ interruptSem[k] \in Nat
        BY <1>0 DEF WaitBreak, Taken
      <4> QED BY <3>1, <4>1
    <3> QED BY <1>2, <2>1, <3>1, <3>2
  <2> QED BY <2>2, <2>3
<1>5. ASSUME NEW n \in Node, ParseStep(n) \/ Lose(n)
      PROVE  tx' = tx
  BY <1>5 DEF ParseStep, ReceiveAck, ReceiveNack, ReceiveData, ReceiveJunk, SetAcked,
              Break, LockReply, WriteReply, Accept, Lose
<1>6. tx' = tx => ~ Slept(k)
  <2> SUFFICES ASSUME tx' = tx, NEW u \in Task, WaitBreak(u) PROVE FALSE
    BY DEF Slept
  <2>1. tx[u].at = "wait" /\ tx'[u].at = "check"
    BY <1>0 DEF WaitBreak, TypeOK, Sender
  <2> QED BY <2>1
<1>7. ASSUME NEW n \in Node, n # k, ParseStep(n)
      PROVE  Goal
  <2>1. rx'[k] = rx[k] /\ interruptSem'[k] = interruptSem[k]
    BY <1>0, <1>7
       DEF ParseStep, ReceiveAck, ReceiveNack, ReceiveData, ReceiveJunk, Busy, SetAcked,
           Break, LockReply, WriteReply, Accept, protocolVars
  <2> QED BY <1>2, <1>5, <1>6, <1>7, <2>1
<1>8. ASSUME ParseStep(k)
      PROVE  Goal
  <2>0. tx' = tx /\ ~ Slept(k)
    BY <1>5, <1>6, <1>8
  <2>1. ASSUME ReceiveAck(k)
        PROVE  Goal
    <3>1. interruptSem' = interruptSem /\ rx[k].at = "idle"
      BY <2>1 DEF ReceiveAck, Receive, protocolVars
    <3>2. CASE AckCounts(k, Head(wire[k]).seq)
      <4>1. FlagRises(k) /\ rx'[k].at = "flag"
        BY <2>1, <3>2, FlagSteps DEF FlagRises
      <4>2. interruptSem[k] \in Nat
        BY <1>0
      <4> QED BY <2>0, <3>1, <4>1, <4>2 DEF BreaksLeft
    <3>3. CASE ~ AckCounts(k, Head(wire[k]).seq)
      BY <1>2, <2>0, <2>1, <3>1, <3>3 DEF ReceiveAck
    <3> QED BY <3>2, <3>3
  <2>2. ASSUME SetAcked(k)
        PROVE  Goal
    <3>1. /\ rx[k].at = "flag" /\ rx'[k].at = "break"
          /\ interruptSem' = interruptSem
      BY <1>0, <2>2 DEF SetAcked, Parser
    <3> QED BY <2>0, <3>1 DEF BreaksLeft, FlagRises
  <2>3. ASSUME Break(k)
        PROVE  Goal
    <3>1. /\ rx[k].at = "break" /\ rx'[k].at = "idle"
          /\ interruptSem'[k] = interruptSem[k] + 1 /\ interruptSem[k] \in Nat
      BY <1>0, <2>3 DEF Break, AtRest
    <3> QED BY <2>0, <3>1 DEF BreaksLeft, FlagRises
  <2>4. ASSUME ReceiveNack(k) \/ ReceiveJunk(k)
        PROVE  FALSE
    BY <2>4, NoJunk DEF NamesInv
  <2>5. ASSUME ReceiveData(k) \/ LockReply(k) \/ WriteReply(k) \/ Accept(k)
        PROVE  Goal
    <3>1. /\ rx[k].at \in {"idle", "lock", "write", "accept"}
          /\ interruptSem' = interruptSem
      BY <2>5 DEF ReceiveData, Receive, LockReply, WriteReply, Accept, protocolVars
    <3>2. rx'[k].at \in {"idle", "lock", "write", "accept"}
      <4>1. CASE ReceiveData(k)
        BY <1>0, <4>1 DEF ReceiveData, Busy
      <4>2. CASE LockReply(k)
        BY <1>0, <4>2 DEF LockReply, Parser
      <4>3. CASE WriteReply(k)
        BY <1>0, <4>3 DEF WriteReply, AtRest, Parser
      <4>4. CASE Accept(k)
        BY <1>0, <4>4 DEF Accept, AtRest
      <4> QED BY <2>5, <4>1, <4>2, <4>3, <4>4
    <3>3. ~ FlagRises(k)
      BY <3>2 DEF FlagRises
    <3> QED BY <1>3, <2>0, <3>1, <3>2, <3>3
  <2> HIDE DEF Goal
  <2> QED BY <1>8, <2>1, <2>2, <2>3, <2>4, <2>5 DEF ParseStep
<1>9. ASSUME (\E n \in Node : Lose(n)) \/ UNCHANGED vars
      PROVE  Goal
  <2>1. tx' = tx /\ rx' = rx /\ interruptSem' = interruptSem
    BY <1>9 DEF Lose, vars, protocolVars
  <2> QED BY <1>2, <1>6, <2>1
<1>10. Goal
  <2> HIDE DEF Goal
  <2> QED BY <1>4, <1>7, <1>8, <1>9 DEF Step
<1> QED BY <1>1, <1>10


\* An acknowledgement that counts is recorded with the last message.
LEMMA CountedStep ==
  ASSUME IInv, NEW k \in Node, NamesInv(k), FlagRises(k)
  PROVE  /\ Last(k) > 0
         /\ sent'[k][Last(k)].breaks = sent[k][Last(k)].breaks + 1
<1> DEFINE L == Last(k)
           e == [sent[k][L] EXCEPT !.breaks = @ + 1]
<1>0. sent \in [Node -> Seq(Entry)] /\ L \in Nat /\ TypeOK
  BY Domains DEF IInv, TypeOK, Last
<1>1. ReceiveAck(k) /\ AckCounts(k, Head(wire[k]).seq)
  BY DEF FlagRises
<1>2. L > 0
  <2>1. Receive(k, "ack") /\ ((\E place : Busy(k, place)) \/ rx' = rx)
    BY <1>1 DEF ReceiveAck
  <2>2. 1 \in 1..Len(wire[k]) /\ wire[k][1].type = "ack"
    BY <1>0, <2>1, Taking
  <2>3. wire[k][1].seq < L
    BY <2>2 DEF NamesInv, FramesTo
  <2>4. wire[k][1].seq \in Nat
    <3>1. wire[k] \in Seq(Frame)
      BY <1>0 DEF TypeOK
    <3>2. wire[k][1] \in Frame
      BY <2>2, <3>1, ElementOfSeq
    <3> QED BY <3>2, ConstantsAssumption DEF Frame, Seqs
  <2> QED BY <1>0, <2>3, <2>4
<1>3. sent' = [sent EXCEPT ![k] = [sent[k] EXCEPT ![L] = e]]
  BY <1>1 DEF ReceiveAck, Last
<1>4. Overwritten(k, L, e)
  BY <1>0, <1>3, EntryWritten
<1>5. e.breaks = sent[k][L].breaks + 1
  <2>1. sent[k][L] \in Entry
    BY <1>0, <1>2, ElementOfSeq DEF Last
  <2> QED BY <2>1, Fields
<1>6. L \in 1..L
  BY <1>0, <1>2
<1> HIDE DEF e
<1> QED BY <1>2, <1>4, <1>5, <1>6 DEF Overwritten

\* So is a timeout its sender sleeps through.
LEMMA WaitedStep ==
  ASSUME IInv, NEW t \in Task, WaitTimeout(t)
  PROVE  LET k == Home[t] IN
         sent'[k][Last(k)].waits = sent[k][Last(k)].waits + 1
<1> DEFINE k == Home[t]
           L == Last(k)
           e == [sent[k][L] EXCEPT !.waits = @ + 1]
<1>0. /\ sent \in [Node -> Seq(Entry)] /\ k \in Node
      /\ L \in Nat /\ L > 0 /\ tx[t].msg = L
  BY OneCall, Domains, ConstantsAssumption DEF WaitTimeout, IInv, TypeOK, Last
<1>1. sent' = [sent EXCEPT ![k] = [sent[k] EXCEPT ![L] = e]]
  BY <1>0 DEF WaitTimeout
<1>2. Overwritten(k, L, e)
  BY <1>0, <1>1, EntryWritten
<1>3. e.waits = sent[k][L].waits + 1
  <2>1. sent[k][L] \in Entry
    BY <1>0, ElementOfSeq DEF Last
  <2> QED BY <2>1, Fields
<1>4. L \in 1..L
  BY <1>0
<1> HIDE DEF e
<1> QED BY <1>0, <1>2, <1>3, <1>4 DEF Overwritten

\* How a step changes a call in progress: a sleep that is broken is one more
\* cut short, and only a call that looks at the flag returns.
LEMMA CutSteps ==
  ASSUME IInv, \A n \in Node : ReliableInv(n), Step, NEW k \in Node,
         ~ \E u \in Task : SendBegin(u) /\ Home[u] = k,
         NEW t \in Task, Home[t] = k, tx[t].at # "idle"
  PROVE  /\ CutShort(t) \in Int
         /\ \/ /\ Slept(k) /\ tx'[t].at = "check"
               /\ CutShort(t)' = CutShort(t) + 1
            \/ /\ ~ Slept(k) /\ tx'[t].at # "idle"
               /\ CutShort(t)' = CutShort(t)
               /\ tx'[t].at = "check" =>
                    tx[t].at = "check" \/ (interruptSem[k] = 0 /\ ~ FlagRises(k))
            \/ ~ Slept(k) /\ tx[t].at = "check" /\ tx'[t].at = "idle"
<1> DEFINE L == Last(k)
<1>0. /\ tx \in [Task -> Sender] /\ tx[t] \in Sender /\ tx[t].msg = L
      /\ L \in Nat /\ L \in 1..L /\ Last(k)' = L /\ RetryTimes \in Nat
      /\ sent[k][L] \in Entry
  BY OneCall, RecordedAt, ConstantsAssumption DEF IInv, TypeOK
<1>a. /\ tx[t].tries \in Int /\ sent[k][L].waits \in Int
      /\ CutShort(t) = RetryTimes - tx[t].tries + (IF tx[t].at = "check" THEN 1 ELSE 0)
                         - sent[k][L].waits
      /\ tx'[t].msg = L =>
           CutShort(t)' = RetryTimes - tx'[t].tries
                            + (IF tx'[t].at = "check" THEN 1 ELSE 0)
                            - sent'[k][L].waits
  BY <1>0 DEF CutShort, Sender, Entry
<1>1. CutShort(t) \in Int
  BY <1>0, <1>a
<1>2. (~ \E u \in Task : Home[u] = k /\ WaitTimeout(u))
         => sent'[k][L].waits = sent[k][L].waits
  BY <1>0, RecordedAt
<1>3. ASSUME NEW u \in Task, Home[u] = k, WaitBreak(u) \/ WaitTimeout(u)
      PROVE  u = t /\ tx[t].at = "wait"
  BY <1>3, OneCall DEF WaitBreak, WaitTimeout
<1>4. ASSUME tx'[t] = tx[t]
      PROVE  ~ Slept(k) /\ CutShort(t)' = CutShort(t)
  <2>1. ~ (WaitBreak(t) \/ WaitTimeout(t))
    BY <1>0, <1>4 DEF WaitBreak, WaitTimeout, Sender
  <2> QED BY <1>0, <1>a, <1>2, <1>3, <1>4, <2>1 DEF Slept
<1>5. ASSUME ClearAcked(t) \/ LockWrite(t) \/ WriteFrame(t)
      PROVE  ~ Slept(k) /\ CutShort(t)' = CutShort(t) /\ tx'[t].at \notin {"idle", "check"}
  <2>1. tx[t].at \notin {"wait", "check"}
    BY <1>5 DEF ClearAcked, LockWrite, WriteFrame
  <2>2. /\ tx'[t].msg = L /\ tx'[t].tries = tx[t].tries
        /\ tx'[t].at \in {"lock", "write", "wait"}
    <3>1. CASE ClearAcked(t)
      BY <1>0, <3>1 DEF ClearAcked, Sender
    <3>2. CASE LockWrite(t)
      BY <1>0, <3>2 DEF LockWrite, Sender
    <3>3. CASE WriteFrame(t)
      <4>1. PacketOf(t).rel
        BY <1>0 DEF ReliableInv, PacketOf, DataFrame
      <4>2. tx' = [tx EXCEPT ![t].at = "wait"]
        BY <3>3, <4>1 DEF WriteFrame
      <4> QED BY <1>0, <4>2 DEF Sender
    <3> QED BY <1>5, <3>1, <3>2, <3>3
  <2>3. ~ Slept(k) /\ sent'[k][L].waits = sent[k][L].waits
    BY <1>2, <1>3, <2>1 DEF Slept
  <2> QED BY <1>0, <1>a, <2>1, <2>2, <2>3
<1>6. ASSUME WaitBreak(t)
      PROVE  Slept(k) /\ tx'[t].at = "check" /\ CutShort(t)' = CutShort(t) + 1
  <2>1. /\ tx[t].at = "wait" /\ tx'[t].msg = L /\ tx'[t].tries = tx[t].tries
        /\ tx'[t].at = "check" /\ sent' = sent
    BY <1>0, <1>6 DEF WaitBreak, Sender
  <2> QED BY <1>0, <1>a, <1>6, <2>1 DEF Slept
<1>7. ASSUME WaitTimeout(t)
      PROVE  /\ ~ Slept(k) /\ tx'[t].at = "check" /\ CutShort(t)' = CutShort(t)
             /\ interruptSem[k] = 0 /\ ~ FlagRises(k)
  <2>1. /\ tx[t].at = "wait" /\ tx'[t].msg = L /\ tx'[t].tries = tx[t].tries
        /\ tx'[t].at = "check" /\ interruptSem[k] = 0 /\ rx' = rx
    BY <1>0, <1>7 DEF WaitTimeout, Sender
  <2>2. sent'[k][L].waits = sent[k][L].waits + 1
    BY <1>7, WaitedStep
  <2>3. ~ Slept(k) /\ ~ FlagRises(k)
    <3>1. ~ WaitBreak(t)
      BY <1>7 DEF WaitBreak, WaitTimeout
    <3> QED BY <1>3, <2>1, <3>1 DEF Slept, FlagRises
  <2> QED BY <1>0, <1>a, <2>1, <2>2, <2>3
<1>8. ASSUME CheckAcked(t)
      PROVE  /\ ~ Slept(k)
             /\ \/ tx[t].at = "check" /\ tx'[t].at = "idle"
                \/ tx'[t].at = "lock" /\ CutShort(t)' = CutShort(t)
  <2>1. /\ tx[t].at = "check"
        /\ \/ tx' = [tx EXCEPT ![t] = Resting]
           \/ tx' = [tx EXCEPT ![t].at = "lock", ![t].tries = OneTryLess(@)]
    BY <1>8 DEF CheckAcked, Return
  <2>2. ~ Slept(k) /\ sent'[k][L].waits = sent[k][L].waits
    BY <1>2, <1>3, <2>1 DEF Slept
  <2>3. CASE tx' = [tx EXCEPT ![t] = Resting]
    BY <1>0, <2>1, <2>2, <2>3 DEF Resting
  <2>4. CASE tx' = [tx EXCEPT ![t].at = "lock", ![t].tries = OneTryLess(@)]
    <3>1. /\ tx'[t].at = "lock" /\ tx'[t].msg = L
          /\ tx'[t].tries = tx[t].tries - 1
      BY <1>0, <2>4 DEF Sender, OneTryLess
    <3> QED BY <1>0, <1>a, <2>1, <2>2, <3>1
  <2> QED BY <2>1, <2>3, <2>4
<1>9. tx'[t] # tx[t] => SendStep(t)
  BY CallSteps
<1>10. CASE tx'[t] = tx[t]
  BY <1>1, <1>4, <1>10
<1>11. CASE tx'[t] # tx[t]
  BY <1>1, <1>5, <1>6, <1>7, <1>8, <1>9, <1>11 DEF SendStep
<1> QED BY <1>10, <1>11


LEMMA LeftBegin ==
  ASSUME IInv, NEW k \in Node, BreakInv(k), NamesInv(k), LeftInv(k),
         NEW t \in Task, SendBegin(t), Home[t] = k
  PROVE  LeftInv(k)'
<1> DEFINE L == Last(k)
<1>0. /\ tx \in [Task -> Sender] /\ RetryTimes \in Nat /\ interruptSem[k] \in Nat
      /\ L \in Nat /\ Last(k)' = L + 1
      /\ sent'[k][L + 1].breaks = 0 /\ sent'[k][L + 1].waits = 0
  BY ConstantsAssumption, Begun DEF IInv, TypeOK
<1>1. \A u \in Task : Home[u] = k => tx[u].at = "idle"
  BY ConstantsAssumption DEF SendBegin, Free, IInv, SendersInv
<1>2. BreaksLeft(k)' = BreaksLeft(k)
  BY DEF SendBegin, BreaksLeft
<1>3. BreaksLeft(k) <= 2 /\ BreaksLeft(k) \in Nat
  <2>1. CASE L = 0
    BY <2>1 DEF LeftInv
  <2>2. CASE L # 0
    <3>1. sent[k][L].breaks <= 1 /\ BreaksLeft(k) <= 1 + sent[k][L].breaks
      BY <1>0, <1>1, <2>2 DEF LeftInv, BreakInv
    <3>2. sent[k][L] \in Entry
      BY <1>0, <2>2, Domains, ElementOfSeq DEF IInv, Last
    <3>3. sent[k][L].breaks \in Nat /\ BreaksLeft(k) \in Nat
      BY <1>0, <3>2 DEF Entry, BreaksLeft
    <3> QED BY <3>1, <3>3
  <2> QED BY <2>1, <2>2
<1>4. ASSUME NEW u \in Task, Home[u] = k, tx'[u].at # "idle"
      PROVE  CutShort(u)' = 0 /\ tx'[u].at # "check"
  <2>1. u = t
    BY <1>0, <1>1, <1>4 DEF SendBegin
  <2>2. /\ tx'[t].msg = L + 1 /\ tx'[t].tries = RetryTimes
        /\ tx'[t].at \in {"clear", "lock"}
    BY <1>0 DEF SendBegin, Last
  <2> QED BY <1>0, <2>1, <2>2 DEF CutShort
<1>5. \E u \in Task : Home[u] = k /\ tx'[u].at # "idle"
  <2>1. tx'[t].at \in {"clear", "lock"}
    BY <1>0 DEF SendBegin
  <2> QED BY <2>1
<1> QED BY <1>0, <1>2, <1>3, <1>4, <1>5 DEF LeftInv

LEMMA LeftStep ==
  ASSUME IInv, \A n \in Node : ReliableInv(n), Step, NEW k \in Node,
         NamesInv(k), LeftInv(k),
         ~ \E t \in Task : SendBegin(t) /\ Home[t] = k
  PROVE  LeftInv(k)'
<1> DEFINE L == Last(k)
           b == sent[k][L].breaks
           a == sent'[k][L].breaks
           B == BreaksLeft(k)
           A == BreaksLeft(k)'
<1>0. tx \in [Task -> Sender] /\ L \in Nat /\ Last(k)' = L
  BY RecordedAt DEF IInv, TypeOK
<1>1. FlagRises(k) => ~ Slept(k)
  BY <1>0 DEF FlagRises, ReceiveAck, Slept, WaitBreak, Sender
<1>2. ASSUME NEW t \in Task, Home[t] = k, tx[t].at # "idle"
      PROVE  L > 0
  BY <1>2, OneCall
<1>3. Slept(k) => \E t \in Task : Home[t] = k /\ tx[t].at = "wait"
  BY DEF Slept, WaitBreak
<1>4. CASE L = 0
  <2>1. ~ FlagRises(k)
    BY <1>4, CountedStep
  <2>2. ~ Slept(k)
    BY <1>2, <1>3, <1>4
  <2> QED BY <1>0, <1>4, <2>1, <2>2, BreakSteps DEF LeftInv
<1>5. CASE L > 0
  <2>1. b \in Nat /\ B \in Nat
    BY <1>0, <1>5, RecordedAt, BreakSteps DEF Entry
  <2>2. \/ FlagRises(k) /\ ~ Slept(k) /\ A = B + 1 /\ a = b + 1
        \/ ~ FlagRises(k) /\ Slept(k) /\ A = B - 1 /\ a = b
        \/ ~ FlagRises(k) /\ ~ Slept(k) /\ A = B /\ a = b
    <3>1. CASE FlagRises(k)
      BY <1>1, <3>1, BreakSteps, CountedStep
    <3>2. CASE ~ FlagRises(k)
      <4>1. a = b
        <5>1. ~ (ReceiveAck(k) /\ AckCounts(k, Head(wire[k]).seq))
          BY <3>2, FlagSteps
        <5> QED BY <1>0, <1>5, <5>1, RecordedAt
      <4> QED BY <3>2, <4>1, BreakSteps
    <3> QED BY <3>1, <3>2
  <2>3. a = 1 => rx'[k].at = "flag" \/ acked'[k]
    <3>1. CASE FlagRises(k)
      BY <3>1 DEF FlagRises
    <3>2. CASE ~ FlagRises(k)
      <4> SUFFICES ASSUME b = 1 PROVE rx'[k].at = "flag" \/ acked'[k]
        BY <2>2, <3>2
      <4>1. rx[k].at = "flag" \/ acked[k]
        BY <1>5 DEF LeftInv
      <4>2. ASSUME NEW t \in Task, ClearAcked(t), Home[t] = k
            PROVE  FALSE
        <5>1. AtClear(k)
          BY <4>2 DEF ClearAcked, AtClear
        <5> QED BY <5>1 DEF NamesInv
      <4> QED BY <3>2, <4>1, <4>2, FlagSteps DEF FlagSet, FlagSame
    <3> QED BY <3>1, <3>2
  <2>4. ASSUME NEW t \in Task, Home[t] = k, tx[t].at # "idle"
        PROVE  /\ CutShort(t) >= 0 /\ B + CutShort(t) <= 2 + b
               /\ tx[t].at = "check" /\ CutShort(t) = 0 => B <= 1 + b
    BY <1>5, <2>4 DEF LeftInv
  <2>5. ASSUME \A t \in Task : Home[t] = k => tx'[t].at = "idle"
        PROVE  A <= 1 + a
    <3>1. CASE \A t \in Task : Home[t] = k => tx[t].at = "idle"
      <4>1. B <= 1 + b
        BY <1>5, <3>1 DEF LeftInv
      <4>2. ~ Slept(k)
        BY <1>3, <3>1
      <4> HIDE DEF A, B, a, b
      <4> QED BY <2>1, <2>2, <4>1, <4>2
    <3>2. CASE ~ \A t \in Task : Home[t] = k => tx[t].at = "idle"
      <4>1. PICK t \in Task : Home[t] = k /\ tx[t].at # "idle"
        BY <3>2
      <4>2. tx'[t].at = "idle"
        BY <2>5, <4>1
      <4>3. ~ Slept(k) /\ tx[t].at = "check" /\ CutShort(t) \in Int
        BY <4>1, <4>2, CutSteps
      <4>4. B <= 1 + b
        <5> DEFINE C == CutShort(t)
        <5>1. C \in Int /\ C >= 0 /\ B + C <= 2 + b /\ (C = 0 => B <= 1 + b)
          BY <2>4, <4>1, <4>3
        <5> HIDE DEF B, b, C
        <5> QED BY <2>1, <5>1
      <4> HIDE DEF A, B, a, b
      <4> QED BY <2>1, <2>2, <4>3, <4>4
    <3> QED BY <3>1, <3>2
  <2>6. ASSUME NEW t \in Task, Home[t] = k, tx'[t].at # "idle"
        PROVE  /\ CutShort(t)' >= 0
               /\ A + CutShort(t)' <= 2 + a
               /\ tx'[t].at = "check" /\ CutShort(t)' = 0 => A <= 1 + a
    <3> DEFINE C == CutShort(t)
               D == CutShort(t)'
    <3>1. tx[t].at # "idle"
      <4>1. SendStep(t) => tx[t].at # "idle"
        BY DEF SendStep, ClearAcked, LockWrite, WriteFrame, WaitBreak, WaitTimeout, CheckAcked
      <4>2. tx'[t] # tx[t] => SendStep(t)
        BY <2>6, CallSteps
      <4> QED BY <2>6, <4>1, <4>2
    <3>2. C \in Int /\ C >= 0 /\ B + C <= 2 + b
          /\ (tx[t].at = "check" /\ C = 0 => B <= 1 + b)
      BY <2>4, <2>6, <3>1, CutSteps
    <3>3. CASE Slept(k)
      <4>1. D = C + 1
        BY <2>6, <3>1, <3>3, CutSteps
      <4>3. D >= 0 /\ A + D <= 2 + a /\ (tx'[t].at = "check" /\ D = 0 => A <= 1 + a)
        <5> HIDE DEF A, B, a, b, C, D
        <5> QED BY <2>1, <2>2, <3>2, <3>3, <4>1
      <4> QED BY <4>3
    <3>4. CASE ~ Slept(k)
      <4>1. D = C /\ (tx'[t].at = "check" =>
                        tx[t].at = "check" \/ (interruptSem[k] = 0 /\ ~ FlagRises(k)))
        BY <2>6, <3>1, <3>4, CutSteps
      <4>2. interruptSem[k] = 0 => B <= 1
        BY DEF BreaksLeft
      <4>3. D >= 0 /\ A + D <= 2 + a /\ (tx'[t].at = "check" /\ D = 0 => A <= 1 + a)
        <5> HIDE DEF A, B, a, b, C, D
        <5> QED BY <2>1, <2>2, <3>2, <3>4, <4>1, <4>2
      <4> QED BY <4>3
    <3> QED BY <3>3, <3>4
  <2> QED BY <1>0, <1>5, <2>3, <2>5, <2>6 DEF LeftInv
<1> QED BY <1>0, <1>4, <1>5

LEMMA WaitsStep ==
  ASSUME IInv, \A n \in Node : ReliableInv(n), Step, NEW k \in Node,
         BreakInv(k), LeftInv(k), WaitsInv(k)
  PROVE  WaitsInv(k)'
<1> DEFINE L == Last(k)
<1>1. CASE \E t \in Task : SendBegin(t) /\ Home[t] = k
  <2>1. /\ L \in Nat /\ Last(k)' = L + 1 /\ sent'[k][L + 1].res = "pending"
        /\ \A j \in 1..L : sent'[k][j] = sent[k][j]
    BY <1>1, Begun
  <2>2. ASSUME NEW i \in 1..(L + 1), sent'[k][i].res = "timeout"
        PROVE  sent'[k][i].waits >= RetryTimes - 1
    <3>1. i \in 1..L
      BY <2>1, <2>2
    <3> QED BY <2>1, <2>2, <3>1 DEF WaitsInv
  <2> QED BY <2>1, <2>2 DEF WaitsInv
<1>2. CASE ~ \E t \in Task : SendBegin(t) /\ Home[t] = k
  <2>0. Last(k)' = L /\ L \in Nat /\ RetryTimes \in Nat
    BY <1>2, RecordedAt, ConstantsAssumption
  <2> SUFFICES ASSUME NEW i \in 1..L, sent'[k][i].res = "timeout"
               PROVE  sent'[k][i].waits >= RetryTimes - 1
    BY <2>0 DEF WaitsInv
  <2>1. /\ sent[k][i].waits \in Nat /\ sent'[k][i].waits \in Nat
        /\ sent'[k][i].waits >= sent[k][i].waits
    <3>1. sent[k][i] \in Entry
      BY <1>2, RecordedAt
    <3>2. sent[k][i].waits \in Nat
      BY <3>1 DEF Entry
    <3>3. sent'[k][i].waits = sent[k][i].waits
          \/ sent'[k][i].waits = sent[k][i].waits + 1
      BY <1>2, RecordedAt
    <3> QED BY <3>2, <3>3
  <2>2. CASE sent[k][i].res = "timeout"
    <3>1. sent[k][i].waits >= RetryTimes - 1
      BY <2>2 DEF WaitsInv
    <3> QED BY <2>0, <2>1, <3>1
  <2>3. CASE sent[k][i].res # "timeout"
    <3>1. PICK t \in Task : /\ Home[t] = k /\ i = L /\ CheckAcked(t)
                            /\ ~ acked[k] /\ ~ TriesLeft(tx[t].tries)
      BY <1>2, <2>3, RecordedAt
    <3> DEFINE b == sent[k][L].breaks
               B == BreaksLeft(k)
               C == CutShort(t)
               w == sent[k][L].waits
    <3>2. tx[t].at = "check" /\ tx[t].msg = L /\ L > 0
      BY <3>1, OneCall DEF CheckAcked
    <3>3. tx[t].tries = 0
      <4>1. tx[t].tries \in 0..RetryTimes
        BY DEF IInv, TypeOK, Sender
      <4> QED BY <2>0, <3>1, <4>1 DEF TriesLeft
    <3>4. C = RetryTimes - 0 + 1 - w
      BY <3>1, <3>2, <3>3 DEF CutShort
    <3>5. B + C <= 2 + b /\ (b = 1 => rx[k].at = "flag" \/ acked[k])
      BY <3>1, <3>2 DEF LeftInv
    <3>6. b \in Nat /\ b <= 1 /\ w \in Nat
      <4>1. sent[k][L] \in Entry
        BY <1>2, <3>1, RecordedAt
      <4> QED BY <3>1, <4>1 DEF Entry, BreakInv
    <3>7. B \in Nat /\ (rx[k].at = "flag" => B >= 1)
      <4>1. interruptSem[k] \in Nat
        BY DEF IInv, TypeOK
      <4> QED BY <4>1 DEF BreaksLeft
    <3>8. w >= RetryTimes - 1
      <4>1. B >= b
        <5> HIDE DEF B, b
        <5> QED BY <3>1, <3>5, <3>6, <3>7
      <4> HIDE DEF B, b, C, w
      <4> QED BY <2>0, <3>4, <3>5, <3>6, <3>7, <4>1
    <3> QED BY <2>0, <2>1, <3>1, <3>8
  <2> QED BY <2>2, <2>3
<1> QED BY <1>1, <1>2


LEMMA TimeoutInit == Init => TimeoutInv
<1> SUFFICES ASSUME Init, NEW n \in Node
             PROVE  NamesInv(n) /\ LeftInv(n) /\ WaitsInv(n)
  BY DEF TimeoutInv
<1>1. /\ Last(n) = 0 /\ wire[n] = <<>> /\ rx[n] = AtRest /\ sequence[n] = 0
      /\ interruptSem[n] = 0 /\ \A t \in Task : tx[t].at = "idle"
      /\ MaxSends[n] \in Nat
  BY EmptySeq, ConstantsAssumption DEF Init, Last, Resting
<1>2. Len(wire[n]) = 0
  BY <1>1, EmptySeq
<1> QED BY <1>1, <1>2
       DEF NamesInv, KindsInv, LeftInv, WaitsInv, FramesTo, AtRest, Control, AtClear, BreaksLeft

LEMMA CallsStep ==
  OnlyLosses /\ EnoughNumbers /\ IInv /\ CallsInv /\ [Next]_vars => CallsInv'
<1> SUFFICES ASSUME OnlyLosses, EnoughNumbers, IInv, CallsInv, [Next]_vars
             PROVE  OneBreakInv' /\ HistoryInv' /\ TimeoutInv'
  BY DEF CallsInv
<1>1. OneBreakInv' /\ HistoryInv'
  BY OneBreakStep, HistoryStep DEF CallsInv
<1>2. ASSUME NEW k \in Node
      PROVE  NamesInv(k)' /\ LeftInv(k)' /\ WaitsInv(k)'
  <2>1. /\ Step /\ \A n \in Node : ReliableInv(n)
        /\ BreakInv(k) /\ NumbersInv(k)
        /\ NamesInv(k) /\ NamesInv(Peer(k)) /\ LeftInv(k) /\ WaitsInv(k)
        /\ MaxSends[k] <= SeqMod
    BY Steps, Peers DEF OnlyLosses, CallsInv, OneBreakInv, HistoryInv, TimeoutInv, EnoughNumbers
  <2> QED BY <2>1, NamesBegin, NamesStep, LeftBegin, LeftStep, WaitsStep
<1> QED BY <1>1, <1>2 DEF TimeoutInv

\* The invariant behind the theorems about OnlyLosses: how far an acknowledgement,
\* its flag and its break may outlive the send they are meant for.
THEOREM Calls == OnlyLosses /\ EnoughNumbers => (Spec => []CallsInv)
<1> SUFFICES ASSUME OnlyLosses, EnoughNumbers PROVE Spec => []CallsInv
  OBVIOUS
<1>1. Init => CallsInv
  BY OneBreakInit, HistoryInit, TimeoutInit DEF CallsInv
<1> QED BY <1>1, CallsStep, InOrder, PTL DEF Spec

\* A send that gives up has slept through WAIT_ACK_TIMEOUT_MSEC for all of its
\* writes but two at most: of the breaks the semaphore can hold, the sends
\* before it leave one behind and a late acknowledgement one more.  The numbers
\* must not have wrapped around, so that an acknowledgement names one message.
THEOREM TimeoutIsWaiting ==
  OnlyLosses /\ EnoughNumbers => (Spec => []TimeoutMeansMostWaits)
<1> SUFFICES ASSUME OnlyLosses, EnoughNumbers PROVE Spec => []TimeoutMeansMostWaits
  OBVIOUS
<1>1. IInv /\ CallsInv => TimeoutMeansMostWaits
  <2> SUFFICES ASSUME IInv, CallsInv, NEW n \in Node, NEW e \in Entries(n),
                      e.res = "timeout"
               PROVE  e.waits >= RetryTimes - 1
    BY DEF TimeoutMeansMostWaits
  <2>1. PICK i \in DOMAIN sent[n] : e = sent[n][i]
    BY DEF Entries
  <2>2. i \in 1..Last(n)
    BY <2>1, Domains DEF IInv, Last
  <2> QED BY <2>1, <2>2 DEF CallsInv, TimeoutInv, WaitsInv
<1> QED BY <1>1, Calls, InOrder, PTL


-----------------------------------------------------------------------------
(* Prompt answers                                                          *)

\* How a question moves on: into the peer's hands, into those of its sender, and
\* from the flag to the break.
LEMMA HandSteps ==
  ASSUME IInv, Step, NEW k \in Node, KindsInv(k)
  PROVE  /\ rx'[k].at \in {"lock", "write"} =>
              \/ rx[k].at \in {"lock", "write"} /\ rx'[k].frame = rx[k].frame
              \/ ReceiveData(k) /\ Head(wire[k]).rel /\ rx'[k].frame = Head(wire[k])
         /\ rx'[k].at = "flag" => rx[k].at = "flag" \/ ReceiveAck(k)
         /\ rx'[k].at = "break" => rx[k].at = "break" \/ SetAcked(k)
         /\ WriteReply(k) => rx'[k].at = "accept"
         /\ Break(k) => rx'[k].at = "idle"
<1> DEFINE Goal ==
      /\ rx'[k].at \in {"lock", "write"} =>
           \/ rx[k].at \in {"lock", "write"} /\ rx'[k].frame = rx[k].frame
           \/ ReceiveData(k) /\ Head(wire[k]).rel /\ rx'[k].frame = Head(wire[k])
      /\ rx'[k].at = "flag" => rx[k].at = "flag" \/ ReceiveAck(k)
      /\ rx'[k].at = "break" => rx[k].at = "break" \/ SetAcked(k)
<1>0. rx \in [Node -> Parser] /\ TypeOK
  BY DEF IInv, TypeOK
<1>1. rx'[k] = rx[k] => Goal
  OBVIOUS
<1>2. ASSUME NEW t \in Task, SendBegin(t) \/ SendStep(t)
      PROVE  rx' = rx
  BY <1>2 DEF SendBegin, SendStep, ClearAcked, LockWrite, WriteFrame, WaitBreak,
              WaitTimeout, CheckAcked
<1>3. ASSUME NEW n \in Node, n # k, ParseStep(n)
      PROVE  rx'[k] = rx[k]
  BY <1>0, <1>3 DEF ParseStep, ReceiveAck, ReceiveNack, ReceiveData, ReceiveJunk, Busy,
                    SetAcked, Break, LockReply, WriteReply, Accept
<1>4. WriteReply(k) => rx'[k].at = "accept"
  <2> SUFFICES ASSUME WriteReply(k) PROVE rx'[k].at = "accept"
    OBVIOUS
  <2>1. rx[k].frame.type = "data"
    BY DEF WriteReply, KindsInv
  <2> QED BY <1>0, <2>1 DEF WriteReply, Parser
<1>5. Break(k) \/ Accept(k) => rx'[k].at = "idle"
  BY <1>0 DEF Break, Accept, AtRest
<1>6. SetAcked(k) => rx'[k].at = "break"
  BY <1>0 DEF SetAcked, Parser
<1>7. LockReply(k) => /\ rx[k].at = "lock" /\ rx'[k].at = "write"
                      /\ rx'[k].frame = rx[k].frame
  BY <1>0 DEF LockReply, Parser
<1>8. ReceiveAck(k) => rx'[k].at = "flag" \/ rx'[k] = rx[k]
  BY <1>0 DEF ReceiveAck, Busy
<1>9. ReceiveData(k) => /\ rx'[k].frame = Head(wire[k])
                        /\ rx'[k].at = IF Head(wire[k]).rel THEN "lock" ELSE "accept"
  BY <1>0 DEF ReceiveData, Busy
<1>10. ParseStep(k) => Goal
  BY <1>1, <1>4, <1>5, <1>6, <1>7, <1>8, <1>9, NoJunk DEF ParseStep
<1>11. (\E n \in Node : Lose(n)) \/ UNCHANGED vars => rx' = rx
  BY DEF Lose, vars
<1>12. Goal
  <2>1. rx'[k] = rx[k] \/ ParseStep(k)
    BY <1>2, <1>3, <1>11 DEF Step
  <2> QED BY <1>1, <1>10, <2>1
<1> QED BY <1>4, <1>5, <1>12

\* The semaphore is posted by a break and taken by a sleep that is broken.
LEMMA SemSteps ==
  ASSUME IInv, Step, NEW k \in Node
  PROVE  /\ interruptSem[k] \in Nat
         /\ \/ interruptSem'[k] = interruptSem[k]
            \/ Break(k) /\ interruptSem'[k] = interruptSem[k] + 1
            \/ Slept(k) /\ interruptSem'[k] = interruptSem[k] - 1
         /\ Slept(k) => interruptSem'[k] = interruptSem[k] - 1
<1>0. interruptSem \in [Node -> Nat]
  BY DEF IInv, TypeOK
<1>1. ASSUME NEW t \in Task, WaitBreak(t)
      PROVE  interruptSem'[k] = IF Home[t] = k THEN interruptSem[k] - 1
                                               ELSE interruptSem[k]
  BY <1>0, <1>1 DEF WaitBreak, Taken
<1>2. ASSUME NEW n \in Node, Break(n)
      PROVE  interruptSem'[k] = IF n = k THEN interruptSem[k] + 1
                                         ELSE interruptSem[k]
  BY <1>0, <1>2 DEF Break
<1>3. ASSUME NEW t \in Task, SendBegin(t) \/ (SendStep(t) /\ ~ WaitBreak(t))
      PROVE  interruptSem'[k] = interruptSem[k]
  BY <1>3 DEF SendBegin, SendStep, ClearAcked, LockWrite, WriteFrame, WaitTimeout,
              CheckAcked, protocolVars
<1>4. ASSUME NEW n \in Node, (ParseStep(n) /\ ~ Break(n)) \/ Lose(n)
      PROVE  interruptSem'[k] = interruptSem[k]
  BY <1>4 DEF ParseStep, ReceiveAck, ReceiveNack, ReceiveData, ReceiveJunk, SetAcked,
              LockReply, WriteReply, Accept, Lose, protocolVars
<1>5. UNCHANGED vars => interruptSem'[k] = interruptSem[k]
  BY DEF vars, protocolVars
<1>6. Slept(k) => interruptSem'[k] = interruptSem[k] - 1
  BY <1>1 DEF Slept
<1>7. \/ interruptSem'[k] = interruptSem[k]
      \/ Break(k) /\ interruptSem'[k] = interruptSem[k] + 1
      \/ Slept(k) /\ interruptSem'[k] = interruptSem[k] - 1
  <2>1. ASSUME NEW t \in Task, WaitBreak(t)
        PROVE  \/ interruptSem'[k] = interruptSem[k]
               \/ Slept(k) /\ interruptSem'[k] = interruptSem[k] - 1
    BY <1>1, <2>1 DEF Slept
  <2> QED BY <1>2, <1>3, <1>4, <1>5, <2>1 DEF Step, SendStep
<1> QED BY <1>0, <1>6, <1>7

\* The questions on the line: the same, one place ahead at most, and the one that
\* is written.
LEMMA AsksStep ==
  ASSUME IInv, Step, NEW k \in Node
  PROVE  LET p == Peer(k) IN
         \/ \E d \in {0, 1} : \A i \in Asks(k)' :
              i + d \in Asks(k) /\ wire'[p][i] = wire[p][i + d]
         \/ \E t \in Task :
              /\ Home[t] = k /\ WriteFrame(t) /\ PacketOf(t).rel
              /\ \A i \in Asks(k)' :
                   \/ i \in Asks(k) /\ wire'[p][i] = wire[p][i]
                   \/ i = Len(wire[p]) + 1 /\ wire'[p][i] = PacketOf(t)
<1> DEFINE p == Peer(k)
<1>0. p \in Node /\ Peer(p) = k
  BY Peers
<1>1. PICK d \in {0, 1}, f \in Frame :
           /\ LineStep(p, d, f)
           /\ \/ f = AtRest.frame
              \/ \E t \in Task : Home[t] = k /\ WriteFrame(t) /\ f = PacketOf(t)
              \/ /\ WriteReply(k)
                 /\ f = Control(IF rx[k].frame.type = "data" THEN "ack" ELSE "nack",
                                rx[k].frame.seq)
  BY <1>0, LineSteps
<1>2. ASSUME NEW i \in Asks(k)'
      PROVE  \/ i + d \in Asks(k) /\ wire'[p][i] = wire[p][i + d]
             \/ /\ d = 0 /\ i = Len(wire[p]) + 1 /\ wire'[p][i] = f
                /\ f.type = "data" /\ f.rel
  <2>1. i \in 1..Len(wire'[p]) /\ wire'[p][i].type = "data" /\ wire'[p][i].rel
    BY <1>2 DEF Asks
  <2> QED BY <1>1, <2>1 DEF LineStep, Asks
<1>3. CASE f.type = "data" /\ f.rel /\ d = 0
  <2>1. PICK t \in Task : Home[t] = k /\ WriteFrame(t) /\ f = PacketOf(t)
    BY <1>1, <1>3 DEF AtRest, Control
  <2>2. \A i \in Asks(k)' : \/ i \in Asks(k) /\ wire'[p][i] = wire[p][i]
                            \/ i = Len(wire[p]) + 1 /\ wire'[p][i] = PacketOf(t)
    <3> SUFFICES ASSUME NEW i \in Asks(k)'
                 PROVE  \/ i \in Asks(k) /\ wire'[p][i] = wire[p][i]
                        \/ i = Len(wire[p]) + 1 /\ wire'[p][i] = PacketOf(t)
      OBVIOUS
    <3>1. i + 0 = i
      BY DEF Asks
    <3> QED BY <1>2, <1>3, <2>1, <3>1
  <2> QED BY <1>3, <2>1, <2>2
<1>4. CASE ~ (f.type = "data" /\ f.rel /\ d = 0)
  BY <1>2, <1>4
<1> QED BY <1>3, <1>4

LEMMA AsksTaken ==
  ASSUME IInv, NEW k \in Node, \A i, j \in Asks(k) : i = j,
         ReceiveData(Peer(k)), Head(wire[Peer(k)]).rel
  PROVE  Asks(k) # {} /\ Asks(k)' = {} /\ \E i \in Asks(k) : Head(wire[Peer(k)]) = wire[Peer(k)][i]
<1> DEFINE p == Peer(k)
<1>0. p \in Node /\ wire[p] # <<>>
  BY Peers DEF ReceiveData, Receive
<1>1. /\ LineStep(p, 1, AtRest.frame) /\ 1 \in 1..Len(wire[p])
      /\ wire[p][1].type = "data"
  <2>1. Receive(p, "data") /\ \E place : Busy(p, place)
    BY DEF ReceiveData
  <2> QED BY <1>0, <2>1, Taking DEF IInv
<1>2. wire[p][1] = Head(wire[p])
  BY <1>0, Domains, EmptySeq DEF IInv
<1>3. 1 \in Asks(k)
  BY <1>1, <1>2 DEF Asks
<1>4. ASSUME NEW i \in Asks(k)'
      PROVE  FALSE
  <2>1. i \in 1..Len(wire'[p]) /\ wire'[p][i].type = "data" /\ wire'[p][i].rel
    BY <1>4 DEF Asks
  <2>2. i + 1 \in Asks(k)
    BY <1>1, <2>1 DEF LineStep, Asks
  <2>3. i + 1 = 1
    BY <1>3, <2>2
  <2>4. i \in Nat /\ i >= 1
    BY <2>1
  <2> QED BY <2>3, <2>4
<1> QED BY <1>2, <1>3, <1>4

LEMMA AnswersStep ==
  ASSUME IInv, Step, NEW k \in Node
  PROVE  \/ \E d \in {0, 1} : \A i \in Answers(k)' : i + d \in Answers(k)
         \/ /\ WriteReply(Peer(k)) /\ rx[Peer(k)].frame.type = "data"
            /\ \A i \in Answers(k)' : i \in Answers(k) \/ i = Len(wire[k]) + 1
<1> DEFINE p == Peer(k)
<1>0. p \in Node /\ Peer(p) = k
  BY Peers
<1>1. PICK d \in {0, 1}, f \in Frame :
           /\ LineStep(k, d, f)
           /\ \/ f = AtRest.frame
              \/ \E t \in Task : Home[t] = p /\ WriteFrame(t) /\ f = PacketOf(t)
              \/ /\ WriteReply(p)
                 /\ f = Control(IF rx[p].frame.type = "data" THEN "ack" ELSE "nack",
                                rx[p].frame.seq)
  BY <1>0, LineSteps
<1>2. ASSUME NEW i \in Answers(k)'
      PROVE  \/ i + d \in Answers(k)
             \/ d = 0 /\ i = Len(wire[k]) + 1 /\ f.type = "ack"
  <2>1. i \in 1..Len(wire'[k]) /\ wire'[k][i].type = "ack"
    BY <1>2 DEF Answers
  <2> QED BY <1>1, <2>1 DEF LineStep, Answers
<1>3. CASE f.type = "ack" /\ d = 0
  <2>1. WriteReply(p) /\ rx[p].frame.type = "data"
    BY <1>1, <1>3 DEF AtRest, Control, PacketOf, DataFrame
  <2>2. \A i \in Answers(k)' : i \in Answers(k) \/ i = Len(wire[k]) + 1
    <3> SUFFICES ASSUME NEW i \in Answers(k)'
                 PROVE  i \in Answers(k) \/ i = Len(wire[k]) + 1
      OBVIOUS
    <3>1. i + 0 = i
      BY DEF Answers
    <3> QED BY <1>2, <1>3, <3>1
  <2> QED BY <2>1, <2>2
<1>4. CASE ~ (f.type = "ack" /\ d = 0)
  BY <1>2, <1>4
<1> QED BY <1>3, <1>4

LEMMA AnswersTaken ==
  ASSUME IInv, NEW k \in Node, \A i, j \in Answers(k) : i = j, ReceiveAck(k)
  PROVE  Answers(k) # {} /\ Answers(k)' = {}
<1>1. /\ LineStep(k, 1, AtRest.frame) /\ 1 \in 1..Len(wire[k])
      /\ wire[k][1].type = "ack"
  <2>1. Receive(k, "ack") /\ ((\E place : Busy(k, place)) \/ rx' = rx)
    BY DEF ReceiveAck
  <2> QED BY <2>1, Taking DEF IInv
<1>2. 1 \in Answers(k)
  BY <1>1 DEF Answers
<1>3. ASSUME NEW i \in Answers(k)'
      PROVE  FALSE
  <2>1. i \in 1..Len(wire'[k]) /\ wire'[k][i].type = "ack"
    BY <1>3 DEF Answers
  <2>2. i + 1 \in Answers(k)
    BY <1>1, <2>1 DEF LineStep, Answers
  <2>3. i + 1 = 1
    BY <1>2, <2>2
  <2>4. i \in Nat /\ i >= 1
    BY <2>1
  <2> QED BY <2>3, <2>4
<1> QED BY <1>2, <1>3


\* A sender that sleeps sleeps until its sleep ends.
LEMMA SleepSteps ==
  ASSUME IInv, Step, NEW t \in Task, tx[t].at = "wait",
         ~ WaitBreak(t), ~ WaitTimeout(t)
  PROVE  tx'[t] = tx[t]
<1>1. ~ SendBegin(t) /\ ~ SendStep(t)
  BY DEF SendBegin, SendStep, ClearAcked, LockWrite, WriteFrame, CheckAcked
<1> QED BY <1>1, CallSteps

LEMMA OneSleeps ==
  ASSUME IInv, NEW k \in Node, OneToken(k), UnderWay(k),
         NEW t \in Task, Home[t] = k, tx[t].at # "idle"
  PROVE  tx[t].at = "wait"
<1>1. PICK u \in Task : Home[u] = k /\ tx[u].at = "wait"
  BY DEF OneToken
<1>2. u = t
  BY <1>1, OneCall
<1> QED BY <1>1, <1>2

\* The first write of a reliable frame and every retry.
Asked(n) == \E t \in Task : Home[t] = n /\ WriteFrame(t) /\ PacketOf(t).rel

\* From one place to the next.
LEMMA PlaceSteps ==
  ASSUME IInv, Step, NEW k \in Node, KindsInv(k), KindsInv(Peer(k)), OneToken(k)
  PROVE  /\ Asked(k) => ~ UnderWay(k)
         /\ (Asks(k) # {})' => Asks(k) # {} \/ Asked(k)
         /\ AtWork(k)' => AtWork(k) \/ (Asks(k) # {} /\ Asks(k)' = {})
         /\ (Answers(k) # {})' => Answers(k) # {} \/ (AtWork(k) /\ ~ AtWork(k)')
         /\ Waking(k)' => Waking(k) \/ (Answers(k) # {} /\ Answers(k)' = {})
         /\ Woken(k)' => Woken(k) \/ (Waking(k) /\ ~ Waking(k)')
<1> DEFINE p == Peer(k)
<1>0. p \in Node /\ Peer(p) = k
  BY Peers
<1>1. Asked(k) => ~ UnderWay(k)
  <2> SUFFICES ASSUME NEW t \in Task, Home[t] = k, WriteFrame(t), UnderWay(k)
               PROVE  FALSE
    BY DEF Asked
  <2>1. tx[t].at = "write"
    BY DEF WriteFrame
  <2>2. tx[t].at = "wait"
    BY <2>1, OneSleeps
  <2> QED BY <2>1, <2>2
<1>2. (Asks(k) # {})' => Asks(k) # {} \/ Asked(k)
  BY AsksStep DEF Asked
<1>3. AtWork(k)' => AtWork(k) \/ (Asks(k) # {} /\ Asks(k)' = {})
  <2>1. AtWork(k)' => AtWork(k) \/ (ReceiveData(p) /\ Head(wire[p]).rel)
    BY <1>0, HandSteps DEF AtWork
  <2> QED BY <2>1, AsksTaken DEF OneToken
<1>4. (Answers(k) # {})' => Answers(k) # {} \/ (AtWork(k) /\ ~ AtWork(k)')
  <2>1. WriteReply(p) => AtWork(k) /\ ~ AtWork(k)'
    BY <1>0, HandSteps DEF AtWork, WriteReply
  <2> QED BY <2>1, AnswersStep
<1>5. Waking(k)' => Waking(k) \/ (Answers(k) # {} /\ Answers(k)' = {})
  <2>1. SetAcked(k) => Waking(k)
    BY DEF SetAcked, Waking
  <2>2. Waking(k)' => Waking(k) \/ ReceiveAck(k)
    BY <2>1, HandSteps DEF Waking
  <2> QED BY <2>2, AnswersTaken DEF OneToken
<1>6. Woken(k)' => Woken(k) \/ (Waking(k) /\ ~ Waking(k)')
  <2>1. Break(k) => Waking(k) /\ ~ Waking(k)'
    BY HandSteps DEF Break, Waking
  <2>2. interruptSem'[k] > 0 => interruptSem[k] > 0 \/ Break(k)
    BY SemSteps
  <2> QED BY <2>1, <2>2 DEF Woken
<1> QED BY <1>1, <1>2, <1>3, <1>4, <1>5, <1>6

LEMMA OneTokenStep ==
  ASSUME AckPrompt, IInv, Step, NEW k \in Node, KindsInv(k), KindsInv(Peer(k)),
         OneToken(k)
  PROVE  OneToken(k)'
<1> DEFINE p == Peer(k)
           waiter == \E t \in Task : Home[t] = k /\ tx[t].at = "wait"
<1>1. /\ Asks(k) # {} => ~ AtWork(k) /\ Answers(k) = {} /\ ~ Waking(k) /\ ~ Woken(k)
      /\ AtWork(k) => Answers(k) = {} /\ ~ Waking(k) /\ ~ Woken(k)
      /\ Answers(k) # {} => ~ Waking(k) /\ ~ Woken(k)
      /\ Waking(k) => ~ Woken(k)
  BY DEF OneToken
<1>2. /\ Asks(k)' # {} =>
           ~ AtWork(k)' /\ Answers(k)' = {} /\ ~ Waking(k)' /\ ~ Woken(k)'
      /\ AtWork(k)' => Answers(k)' = {} /\ ~ Waking(k)' /\ ~ Woken(k)'
      /\ Answers(k)' # {} => ~ Waking(k)' /\ ~ Woken(k)'
      /\ Waking(k)' => ~ Woken(k)'
  BY <1>1, PlaceSteps DEF UnderWay
<1>3. \A i, j \in Asks(k)' : i = j
  <2>1. ASSUME Asked(k), NEW i \in Asks(k)', NEW j \in Asks(k)',
               \A l \in Asks(k)' : l \in Asks(k) \/ l = Len(wire[p]) + 1
        PROVE  i = j
    <3>1. Asks(k) = {}
      BY <2>1, PlaceSteps DEF UnderWay
    <3> QED BY <2>1, <3>1
  <2>2. ASSUME NEW d \in {0, 1}, NEW i \in Asks(k)', NEW j \in Asks(k)',
               \A l \in Asks(k)' : l + d \in Asks(k)
        PROVE  i = j
    <3>1. i + d = j + d
      BY <2>2 DEF OneToken
    <3>2. i \in Nat /\ j \in Nat
      BY DEF Asks
    <3> QED BY <3>1, <3>2
  <2> QED BY <2>1, <2>2, AsksStep DEF Asked
<1>4. \A i, j \in Answers(k)' : i = j
  <2>1. ASSUME WriteReply(p), NEW i \in Answers(k)', NEW j \in Answers(k)',
               \A l \in Answers(k)' : l \in Answers(k) \/ l = Len(wire[k]) + 1
        PROVE  i = j
    <3>1. Answers(k) = {}
      BY <1>1, <2>1 DEF WriteReply, AtWork
    <3> QED BY <2>1, <3>1
  <2>2. ASSUME NEW d \in {0, 1}, NEW i \in Answers(k)', NEW j \in Answers(k)',
               \A l \in Answers(k)' : l + d \in Answers(k)
        PROVE  i = j
    <3>1. i + d = j + d
      BY <2>2 DEF OneToken
    <3>2. i \in Nat /\ j \in Nat
      BY DEF Answers
    <3> QED BY <3>1, <3>2
  <2> QED BY <2>1, <2>2, AnswersStep
<1>5. interruptSem'[k] <= 1
  <2>1. interruptSem[k] <= 1 /\ (Break(k) => ~ interruptSem[k] > 0)
    BY <1>1 DEF OneToken, Break, Waking, Woken
  <2> QED BY <2>1, SemSteps
<1>6. ASSUME UnderWay(k)'
      PROVE  waiter'
  <2>1. CASE Asked(k)
    <3>1. PICK t \in Task : Home[t] = k /\ WriteFrame(t) /\ PacketOf(t).rel
      BY <2>1 DEF Asked
    <3>2. tx'[t].at = "wait"
      <4>1. tx \in [Task -> Sender]
        BY DEF IInv, TypeOK
      <4> QED BY <3>1, <4>1 DEF WriteFrame, Sender
    <3> QED BY <3>1, <3>2
  <2>2. CASE ~ Asked(k)
    <3>1. UnderWay(k)
      BY <1>6, <2>2, PlaceSteps DEF UnderWay
    <3>2. PICK t \in Task : Home[t] = k /\ tx[t].at = "wait"
      BY <3>1 DEF OneToken
    <3>3. ~ WaitTimeout(t)
      <4> SUFFICES ASSUME WaitTimeout(t) PROVE FALSE
        OBVIOUS
      <4>1. Quiet /\ interruptSem[k] = 0
        BY <3>2 DEF WaitTimeout
      <4>2. /\ wire[k] = <<>> /\ wire[p] = <<>>
            /\ rx[k].at = "idle" /\ rx[p].at = "idle"
        BY <4>1, Peers DEF Quiet
      <4>3. Len(wire[k]) = 0 /\ Len(wire[p]) = 0
        BY <4>2, EmptySeq
      <4>4. Asks(k) = {} /\ Answers(k) = {}
        BY <4>3 DEF Asks, Answers
      <4> QED BY <3>1, <4>1, <4>2, <4>4 DEF UnderWay, AtWork, Waking, Woken
    <3>4. ~ WaitBreak(t)
      <4> SUFFICES ASSUME WaitBreak(t) PROVE FALSE
        OBVIOUS
      <4>1. Slept(k) /\ Woken(k)
        BY <3>2 DEF WaitBreak, Slept, Woken
      <4>2. interruptSem'[k] = interruptSem[k] - 1 /\ interruptSem[k] \in Nat
        BY <4>1, SemSteps
      <4>3. ~ Woken(k)'
        BY <4>2 DEF OneToken, Woken
      <4> QED BY <1>1, <1>6, <2>2, <4>1, <4>3, PlaceSteps DEF UnderWay
    <3>5. tx'[t].at = "wait"
      BY <3>2, <3>3, <3>4, SleepSteps
    <3> QED BY <3>2, <3>5
  <2> QED BY <2>1, <2>2
<1> QED BY <1>2, <1>3, <1>4, <1>5, <1>6 DEF OneToken


\* The flag is set by the protocol thread and cleared before the first write.
LEMMA AckedSteps ==
  ASSUME IInv, Step, NEW k \in Node
  PROVE  /\ \/ acked'[k] = acked[k]
            \/ SetAcked(k) /\ acked'[k]
            \/ \E t \in Task : ClearAcked(t) /\ Home[t] = k
         /\ SetAcked(k) => acked'[k]
         /\ \A t \in Task : ClearAcked(t) /\ Home[t] = k => ~ acked'[k]
<1>0. acked \in [Node -> BOOLEAN]
  BY DEF IInv, TypeOK
<1>1. ASSUME NEW t \in Task, ClearAcked(t)
      PROVE  acked'[k] = IF Home[t] = k THEN FALSE ELSE acked[k]
  BY <1>0, <1>1 DEF ClearAcked, FlagAtStart
<1>2. ASSUME NEW n \in Node, SetAcked(n)
      PROVE  acked'[k] = IF n = k THEN TRUE ELSE acked[k]
  BY <1>0, <1>2 DEF SetAcked
<1>3. ASSUME NEW t \in Task, SendBegin(t) \/ (SendStep(t) /\ ~ ClearAcked(t))
      PROVE  acked'[k] = acked[k]
  BY <1>3 DEF SendBegin, SendStep, LockWrite, WriteFrame, WaitBreak, WaitTimeout,
              CheckAcked, protocolVars
<1>4. ASSUME NEW n \in Node, (ParseStep(n) /\ ~ SetAcked(n)) \/ Lose(n)
      PROVE  acked'[k] = acked[k]
  BY <1>4 DEF ParseStep, ReceiveAck, ReceiveNack, ReceiveData, ReceiveJunk, Break,
              LockReply, WriteReply, Accept, Lose, protocolVars
<1>5. UNCHANGED vars => acked'[k] = acked[k]
  BY DEF vars, protocolVars
<1>6. \A t \in Task : ClearAcked(t) /\ Home[t] = k => ~ acked'[k]
  BY <1>1
<1>7. SetAcked(k) => acked'[k]
  BY <1>2
<1>8. \/ acked'[k] = acked[k]
      \/ SetAcked(k) /\ acked'[k]
      \/ \E t \in Task : ClearAcked(t) /\ Home[t] = k
  <2>1. ASSUME NEW t \in Task, ClearAcked(t), Home[t] # k
        PROVE  acked'[k] = acked[k]
    BY <1>1, <2>1
  <2>2. ASSUME NEW n \in Node, SetAcked(n), n # k
        PROVE  acked'[k] = acked[k]
    BY <1>2, <2>2
  <2> QED BY <1>3, <1>4, <1>5, <1>7, <2>1, <2>2 DEF Step, SendStep
<1> QED BY <1>6, <1>7, <1>8

\* What a step does to a call that goes on.
LEMMA TurnSteps ==
  ASSUME IInv, Step, NEW t \in Task, tx[t].at # "idle", tx'[t].at # "idle"
  PROVE  \/ tx'[t] = tx[t] /\ ~ ClearAcked(t) /\ ~ WaitTimeout(t)
         \/ /\ ClearAcked(t) \/ LockWrite(t) \/ (WriteFrame(t) /\ PacketOf(t).rel)
            /\ tx'[t].tries = tx[t].tries
            /\ tx'[t].at = CASE ClearAcked(t) -> "lock"
                             [] LockWrite(t) -> "write"
                             [] OTHER -> "wait"
            /\ ~ WaitTimeout(t)
         \/ /\ WaitBreak(t) \/ WaitTimeout(t)
            /\ tx'[t].tries = tx[t].tries /\ tx'[t].at = "check"
            /\ ~ ClearAcked(t)
         \/ /\ CheckAcked(t) /\ ~ acked[Home[t]] /\ tx'[t].at = "lock"
            /\ tx'[t].tries = tx[t].tries - 1
            /\ ~ ClearAcked(t) /\ ~ WaitTimeout(t)
<1>0. /\ tx \in [Task -> Sender] /\ tx[t] \in Sender
      /\ Resting.at = "idle"
  BY DEF IInv, TypeOK, Resting
<1>1. tx'[t] = tx[t] \/ SendStep(t)
  BY CallSteps DEF SendBegin
<1>2. CASE tx'[t] = tx[t]
  BY <1>0, <1>2 DEF ClearAcked, WaitTimeout, Sender
<1>3. CASE ClearAcked(t)
  <2>1. ~ LockWrite(t) /\ ~ WaitTimeout(t)
    BY <1>3 DEF ClearAcked, LockWrite, WaitTimeout
  <2>2. tx'[t].tries = tx[t].tries /\ tx'[t].at = "lock"
    BY <1>0, <1>3 DEF ClearAcked, Sender
  <2> QED BY <1>3, <2>1, <2>2
<1>4. CASE LockWrite(t)
  <2>1. ~ ClearAcked(t) /\ ~ WaitTimeout(t)
    BY <1>4 DEF ClearAcked, LockWrite, WaitTimeout
  <2>2. tx'[t].tries = tx[t].tries /\ tx'[t].at = "write"
    BY <1>0, <1>4 DEF LockWrite, Sender
  <2> QED BY <1>4, <2>1, <2>2
<1>5. CASE WriteFrame(t)
  <2>1. ~ ClearAcked(t) /\ ~ LockWrite(t) /\ ~ WaitTimeout(t)
    BY <1>5 DEF ClearAcked, LockWrite, WriteFrame, WaitTimeout
  <2>2. PacketOf(t).rel
    BY <1>0, <1>5 DEF WriteFrame, Return
  <2>3. tx'[t].tries = tx[t].tries /\ tx'[t].at = "wait"
    BY <1>0, <1>5, <2>2 DEF WriteFrame, Sender
  <2> QED BY <1>5, <2>1, <2>2, <2>3
<1>6. CASE WaitBreak(t)
  <2>1. ~ ClearAcked(t)
    BY <1>6 DEF WaitBreak, ClearAcked
  <2>2. tx'[t].tries = tx[t].tries /\ tx'[t].at = "check"
    BY <1>0, <1>6 DEF WaitBreak, Sender
  <2> QED BY <1>6, <2>1, <2>2
<1>7. CASE WaitTimeout(t)
  <2>1. ~ ClearAcked(t)
    BY <1>7 DEF WaitTimeout, ClearAcked
  <2>2. tx'[t].tries = tx[t].tries /\ tx'[t].at = "check"
    BY <1>0, <1>7 DEF WaitTimeout, Sender
  <2> QED BY <1>7, <2>1, <2>2
<1>8. CASE CheckAcked(t)
  <2>1. ~ ClearAcked(t) /\ ~ WaitTimeout(t)
    BY <1>8 DEF ClearAcked, CheckAcked, WaitTimeout
  <2>2. /\ ~ acked[Home[t]]
        /\ tx' = [tx EXCEPT ![t].at = "lock", ![t].tries = OneTryLess(@)]
    BY <1>0, <1>8 DEF CheckAcked, Return
  <2>3. tx'[t].at = "lock" /\ tx'[t].tries = tx[t].tries - 1
    BY <1>0, <2>2 DEF Sender, OneTryLess
  <2> QED BY <1>8, <2>1, <2>2, <2>3
<1> QED BY <1>1, <1>2, <1>3, <1>4, <1>5, <1>6, <1>7, <1>8 DEF SendStep


LEMMA AllWaitsBegin ==
  ASSUME IInv, NEW k \in Node, OneToken(k), AllWaitsInv(k),
         NEW t \in Task, SendBegin(t), Home[t] = k
  PROVE  AllWaitsInv(k)'
<1> DEFINE L == Last(k)
<1>0. /\ tx \in [Task -> Sender] /\ RetryTimes \in Nat
      /\ L \in Nat /\ Last(k)' = L + 1
      /\ sent'[k][L + 1].res = "pending" /\ sent'[k][L + 1].waits = 0
      /\ \A j \in 1..L : sent'[k][j] = sent[k][j]
  BY ConstantsAssumption, Begun DEF IInv, TypeOK
<1>1. \A u \in Task : Home[u] = k => tx[u].at = "idle"
  BY ConstantsAssumption DEF SendBegin, Free, IInv, SendersInv
<1>2. rx'[k].at # "break" /\ ~ Woken(k)'
  <2>1. ~ UnderWay(k)
    BY <1>1 DEF OneToken
  <2> QED BY <2>1 DEF SendBegin, UnderWay, Waking, Woken
<1>3. ASSUME NEW u \in Task, Home[u] = k, tx'[u].at # "idle"
      PROVE  /\ sent'[k][L + 1].rel \/ tx'[u].at = "lock"
             /\ tx'[u].at # "check" /\ RetryTimes - tx'[u].tries = 0
  <2>1. u = t
    BY <1>0, <1>1, <1>3 DEF SendBegin
  <2>2. /\ tx'[t].tries = RetryTimes
        /\ tx'[t].at = IF L + 1 \in Reliable[k] THEN "clear" ELSE "lock"
    BY <1>0 DEF SendBegin, Last
  <2>3. sent'[k][L + 1].rel <=> L + 1 \in Reliable[k]
    BY Begun
  <2> QED BY <1>0, <2>1, <2>2, <2>3
<1>4. ASSUME NEW i \in 1..(L + 1), sent'[k][i].res = "timeout"
      PROVE  sent'[k][i].waits = RetryTimes + 1
  <2>1. i \in 1..L
    BY <1>0, <1>4
  <2> QED BY <1>0, <1>4, <2>1 DEF AllWaitsInv
<1> QED BY <1>0, <1>2, <1>3, <1>4 DEF AllWaitsInv

LEMMA AllWaitsStep ==
  ASSUME IInv, Step, NEW k \in Node, NumbersInv(k), KindsInv(k), OneToken(k),
         AllWaitsInv(k), ~ \E t \in Task : SendBegin(t) /\ Home[t] = k
  PROVE  AllWaitsInv(k)'
<1> DEFINE L == Last(k)
           w == sent[k][L].waits
<1>0. /\ tx \in [Task -> Sender] /\ RetryTimes \in Nat
      /\ L \in Nat /\ Last(k)' = L
  BY ConstantsAssumption, RecordedHere DEF IInv, TypeOK
<1>1. rx'[k].at = "break" \/ Woken(k)' => acked'[k]
  <2>1. rx'[k].at = "break" \/ Woken(k)'
           => rx[k].at = "break" \/ Woken(k) \/ SetAcked(k)
    <3>1. interruptSem'[k] > 0 => interruptSem[k] > 0 \/ Break(k)
      BY SemSteps
    <3> QED BY <3>1, HandSteps DEF Woken, Break
  <2>2. CASE SetAcked(k)
    BY <2>2, AckedSteps
  <2>3. CASE rx[k].at = "break" \/ Woken(k)
    <3>1. acked[k] /\ UnderWay(k)
      BY <2>3 DEF AllWaitsInv, UnderWay, Waking
    <3>2. ~ \E t \in Task : ClearAcked(t) /\ Home[t] = k
      BY <3>1, OneSleeps DEF ClearAcked
    <3> QED BY <3>1, <3>2, AckedSteps
  <2> QED BY <2>1, <2>2, <2>3
<1>2. ASSUME NEW t \in Task, Home[t] = k, tx'[t].at # "idle"
      PROVE  /\ sent'[k][L].rel \/ tx'[t].at \in {"lock", "write"}
             /\ IF tx'[t].at = "check"
                THEN acked'[k] \/ sent'[k][L].waits = RetryTimes - tx'[t].tries + 1
                ELSE sent'[k][L].waits = RetryTimes - tx'[t].tries
  <2>1. tx[t].at # "idle"
    <3>1. tx'[t] # tx[t] => SendStep(t)
      BY <1>2, CallSteps
    <3> QED BY <1>2, <3>1 DEF SendStep, ClearAcked, LockWrite, WriteFrame, WaitBreak,
                              WaitTimeout, CheckAcked
  <2>2. /\ L \in 1..L /\ tx[t].msg = L
        /\ sent[k][L] \in Entry /\ sent'[k][L].rel = sent[k][L].rel
    BY <1>0, <1>2, <2>1, OneCall, RecordedHere
  <2>3. /\ w \in Nat /\ tx[t].tries \in Nat
    BY <1>0, <2>2 DEF Entry, Sender
  <2>4. ~ WaitTimeout(t) => sent'[k][L].waits = w
    <3>1. ASSUME NEW u \in Task, Home[u] = k, WaitTimeout(u)
          PROVE  u = t
      BY <1>2, <2>1, <3>1, OneCall DEF WaitTimeout
    <3> QED BY <2>2, <3>1, RecordedHere
  <2>5. acked[k] /\ ~ ClearAcked(t) => acked'[k]
    <3>1. ASSUME NEW u \in Task, Home[u] = k, ClearAcked(u)
          PROVE  u = t
      BY <1>2, <2>1, <3>1, OneCall DEF ClearAcked
    <3> QED BY <3>1, AckedSteps
  <2>6. /\ sent[k][L].rel \/ tx[t].at \in {"lock", "write"}
        /\ IF tx[t].at = "check"
           THEN acked[k] \/ w = RetryTimes - tx[t].tries + 1
           ELSE w = RetryTimes - tx[t].tries
    BY <1>2, <2>1 DEF AllWaitsInv
  <2>7. CASE tx'[t] = tx[t] /\ ~ ClearAcked(t) /\ ~ WaitTimeout(t)
    BY <2>2, <2>4, <2>5, <2>6, <2>7
  <2>8. CASE /\ ClearAcked(t) \/ LockWrite(t) \/ (WriteFrame(t) /\ PacketOf(t).rel)
             /\ tx'[t].tries = tx[t].tries
             /\ tx'[t].at = CASE ClearAcked(t) -> "lock"
                              [] LockWrite(t) -> "write"
                              [] OTHER -> "wait"
             /\ ~ WaitTimeout(t)
    <3>1. tx[t].at # "check"
      BY <2>8 DEF ClearAcked, LockWrite, WriteFrame
    <3>2. tx'[t].at \in {"lock", "write", "wait"}
      BY <2>8
    <3>3. tx'[t].at = "wait" => PacketOf(t).rel
      BY <2>8
    <3>4. PacketOf(t).rel = sent[k][L].rel
      BY <1>2, <2>2 DEF PacketOf, DataFrame
    <3> QED BY <2>2, <2>4, <2>6, <2>8, <3>1, <3>2, <3>3, <3>4
  <2>9. CASE WaitBreak(t) /\ tx'[t].at = "check" /\ ~ ClearAcked(t)
    <3>1. tx[t].at = "wait" /\ acked[k]
      BY <1>2, <2>9 DEF WaitBreak, AllWaitsInv, Woken
    <3> QED BY <2>2, <2>5, <2>6, <2>9, <3>1
  <2>10. CASE WaitTimeout(t) /\ tx'[t].tries = tx[t].tries /\ tx'[t].at = "check"
    <3>1. tx[t].at = "wait"
      BY <2>10 DEF WaitTimeout
    <3>2. sent'[k][L].waits = w + 1
      BY <1>2, <2>10, WaitedStep
    <3> QED BY <2>2, <2>6, <2>10, <3>1, <3>2
  <2>11. CASE /\ CheckAcked(t) /\ ~ acked[Home[t]] /\ tx'[t].at = "lock"
              /\ tx'[t].tries = tx[t].tries - 1 /\ ~ WaitTimeout(t)
    <3>1. tx[t].at = "check"
      BY <2>11 DEF CheckAcked
    <3>2. w = RetryTimes - tx[t].tries + 1
      BY <1>2, <2>6, <2>11, <3>1
    <3>3. sent'[k][L].waits = RetryTimes - tx'[t].tries
      <4> HIDE DEF w
      <4> QED BY <1>0, <2>3, <2>4, <2>11, <3>2
    <3> QED BY <2>2, <2>6, <2>11, <3>1, <3>3
  <2> QED BY <1>2, <2>1, <2>7, <2>8, <2>9, <2>10, <2>11, TurnSteps
<1>3. ASSUME NEW i \in 1..L, sent'[k][i].res = "timeout"
      PROVE  sent'[k][i].waits = RetryTimes + 1
  <2>1. CASE sent[k][i].res = "timeout"
    <3>1. ~ \E t \in Task : Home[t] = k /\ i = L /\ WaitTimeout(t)
      BY <2>1 DEF NumbersInv, WaitTimeout
    <3>2. sent'[k][i].waits = sent[k][i].waits
      BY <3>1, RecordedHere
    <3> QED BY <2>1, <3>2 DEF AllWaitsInv
  <2>2. CASE sent[k][i].res # "timeout"
    <3>1. PICK t \in Task : /\ Home[t] = k /\ i = L /\ CheckAcked(t)
                            /\ ~ acked[k] /\ ~ TriesLeft(tx[t].tries)
      BY <1>3, <2>2, RecordedHere
    <3>2. tx[t].at = "check" /\ tx[t].tries = 0
      <4>1. tx[t].tries \in 0..RetryTimes
        BY <1>0 DEF Sender
      <4> QED BY <1>0, <3>1, <4>1 DEF CheckAcked, TriesLeft
    <3>3. w = RetryTimes - 0 + 1
      BY <3>1, <3>2 DEF AllWaitsInv
    <3>4. ~ \E u \in Task : Home[u] = k /\ WaitTimeout(u)
      BY <3>1, <3>2, OneCall DEF WaitTimeout
    <3>5. sent'[k][i].waits = w
      BY <3>1, <3>4, RecordedHere
    <3> QED BY <1>0, <3>3, <3>5
  <2> QED BY <2>1, <2>2
<1> QED BY <1>0, <1>1, <1>2, <1>3 DEF AllWaitsInv


LEMMA PromptInit == Init => PromptInv
<1> SUFFICES ASSUME Init, NEW n \in Node
             PROVE  NumbersInv(n) /\ KindsInv(n) /\ OneToken(n) /\ AllWaitsInv(n)
  BY DEF PromptInv
<1>1. /\ Last(n) = 0 /\ wire[n] = <<>> /\ wire[Peer(n)] = <<>>
      /\ rx[n] = AtRest /\ rx[Peer(n)] = AtRest /\ interruptSem[n] = 0
      /\ \A t \in Task : tx[t].at = "idle"
  BY EmptySeq, Peers DEF Init, Last, Resting
<1>2. Len(wire[n]) = 0 /\ Len(wire[Peer(n)]) = 0
  BY <1>1, EmptySeq
<1>3. NumbersInv(n) /\ KindsInv(n) /\ AllWaitsInv(n)
  BY <1>1, <1>2 DEF NumbersInv, KindsInv, AllWaitsInv, AtRest, Woken
<1>4. /\ Asks(n) = {} /\ Answers(n) = {} /\ interruptSem[n] <= 1
      /\ ~ AtWork(n) /\ ~ Waking(n) /\ ~ Woken(n)
  BY <1>1, <1>2 DEF Asks, Answers, AtWork, Waking, Woken, AtRest
<1> QED BY <1>3, <1>4 DEF OneToken, UnderWay

LEMMA PromptStep == Prompt /\ IInv /\ PromptInv /\ [Next]_vars => PromptInv'
<1> SUFFICES ASSUME Prompt, IInv, PromptInv, [Next]_vars, NEW k \in Node
             PROVE  (NumbersInv(k) /\ KindsInv(k) /\ OneToken(k) /\ AllWaitsInv(k))'
  BY DEF PromptInv
<1>1. /\ AckPrompt /\ Step /\ NumbersInv(k) /\ KindsInv(k) /\ KindsInv(Peer(k))
      /\ OneToken(k) /\ AllWaitsInv(k)
  BY Steps, Peers DEF Prompt, PromptInv
<1>2. AllWaitsInv(k)'
  BY <1>1, AllWaitsBegin, AllWaitsStep
<1> QED BY <1>1, <1>2, NumbersStep, KindsStep, OneTokenStep

\* With prompt answers, whatever else is sent, a break is used up by the send it
\* was posted for.
THEOREM PromptBreaks == Prompt => (Spec => []NoBreakLeftBehind)
<1> SUFFICES ASSUME Prompt PROVE Spec => []NoBreakLeftBehind
  OBVIOUS
<1>1. IInv /\ PromptInv => NoBreakLeftBehind
  <2> SUFFICES ASSUME IInv, PromptInv, NEW n \in Node,
                      \A t \in Task : Home[t] = n => tx[t].at \in {"idle", "clear"}
               PROVE  interruptSem[n] = 0
    BY DEF NoBreakLeftBehind
  <2>1. ~ Woken(n) /\ interruptSem[n] \in Nat
    BY DEF PromptInv, OneToken, UnderWay, IInv, TypeOK
  <2> QED BY <2>1 DEF Woken
<1> QED BY <1>1, PromptInit, PromptStep, InOrder, PTL DEF Spec

\* And a send that gives up has slept through WAIT_ACK_TIMEOUT_MSEC after its
\* first write and after every retry.
THEOREM PromptTimeouts == Prompt => (Spec => []TimeoutMeansAllWaits)
<1> SUFFICES ASSUME Prompt PROVE Spec => []TimeoutMeansAllWaits
  OBVIOUS
<1>1. IInv /\ PromptInv => TimeoutMeansAllWaits
  <2> SUFFICES ASSUME IInv, PromptInv, NEW n \in Node, NEW e \in Entries(n),
                      e.res = "timeout"
               PROVE  e.waits = RetryTimes + 1
    BY DEF TimeoutMeansAllWaits
  <2>1. PICK i \in DOMAIN sent[n] : e = sent[n][i]
    BY DEF Entries
  <2>2. i \in 1..Last(n)
    BY <2>1, Domains DEF IInv, Last
  <2> QED BY <2>1, <2>2 DEF PromptInv, AllWaitsInv
<1> QED BY <1>1, PromptInit, PromptStep, InOrder, PTL DEF Spec

\* A number that is repeated is that of a message the application has been given,
\* if numbers do not come round.
LEMMA NamedDuplicate ==
  ASSUME IInv, NEW k \in Node, GotInv(k), NamesInv(k), NEW i \in 1..Last(k),
         rx[Peer(k)].at = "accept", rx[Peer(k)].frame.msg = i,
         IsDuplicate(Peer(k), rx[Peer(k)].frame)
  PROVE  sent[k][i].got
<1> DEFINE p == Peer(k)
           l == Len(inbox[p])
<1>0. /\ p \in Node /\ Peer(p) = k /\ TypeOK /\ OrderInv
      /\ inbox[p] \in Seq(Nat) /\ l \in Nat
  BY Peers, Domains DEF IInv
<1>1. lastRecvSeq[p] = sent[k][i].seq /\ lastRecvSeq[p] # -1
  <2>1. rx[p].frame.type = "data" /\ rx[p].frame.seq \in Nat
    BY <1>0, HeldIsData, ConstantsAssumption DEF TypeOK, Parser, Frame, Seqs
  <2>2. rx[p].frame.seq = sent[k][i].seq
    BY <1>0, <2>1 DEF OrderInv, HeldInv, Genuine
  <2> QED BY <2>1, <2>2 DEF IsDuplicate
<1>2. inbox[p] # <<>>
  BY <1>1 DEF GotInv
<1>3. l \in 1..l
  BY <1>0, <1>2, EmptySeq
<1>4. /\ inbox[p][l] \in 1..Last(k)
      /\ lastRecvSeq[p] = sent[k][inbox[p][l]].seq
  <2>1. DOMAIN inbox[p] = 1..l
    BY <1>0, Domains
  <2> QED BY <1>0, <1>2, <1>3, <2>1 DEF OrderInv, InboxInv, Last
<1>5. inbox[p][l] = i
  <2>1. sent[k][i].seq = i - 1 /\ sent[k][inbox[p][l]].seq = inbox[p][l] - 1
    BY <1>4 DEF NamesInv
  <2>2. i - 1 = inbox[p][l] - 1
    BY <1>1, <1>4, <2>1
  <2>3. i \in Int /\ inbox[p][l] \in Int
    BY <1>4
  <2> HIDE DEF l, p
  <2> QED BY <2>2, <2>3
<1> QED BY <1>3, <1>5 DEF GotInv


LEMMA NamedArrived ==
  ASSUME IInv, Step, NEW k \in Node, GotInv(k), NamesInv(k),
         NEW i \in 1..Last(k), Arrived(k, i)
  PROVE  Arrived(k, i)'
BY NamedDuplicate, ArrivedKept

LEMMA AnswerBegin ==
  ASSUME IInv, Step, NEW k \in Node, OneToken(k), GotInv(k), NamesInv(k), AnswerInv(k),
         NEW t \in Task, SendBegin(t), Home[t] = k
  PROVE  AnswerInv(k)'
<1> DEFINE L == Last(k)
<1>0. /\ tx \in [Task -> Sender] /\ L \in Nat /\ Last(k)' = L + 1
      /\ sent'[k][L + 1].res = "pending"
      /\ sent'[k][L + 1].rel <=> L + 1 \in Reliable[k]
      /\ \A j \in 1..L : sent'[k][j] = sent[k][j]
  BY Begun DEF IInv, TypeOK
<1>1. \A u \in Task : Home[u] = k => tx[u].at = "idle"
  BY ConstantsAssumption DEF SendBegin, Free, IInv, SendersInv
<1>2. ~ UnderWay(k)
  BY <1>1 DEF OneToken
<1>3. Asks(k)' = {} /\ Answers(k)' = {} /\ ~ AtWork(k)' /\ ~ Waking(k)' /\ ~ Woken(k)'
  BY <1>2 DEF SendBegin, UnderWay, Asks, Answers, AtWork, Waking, Woken
<1>4. ASSUME NEW u \in Task, Home[u] = k, tx'[u].at \notin {"idle", "clear"}
      PROVE  ~ sent'[k][L + 1].rel
  <2>1. u = t
    BY <1>0, <1>1, <1>4 DEF SendBegin
  <2>2. tx'[t].at = IF L + 1 \in Reliable[k] THEN "clear" ELSE "lock"
    BY <1>0 DEF SendBegin, Last
  <2> QED BY <1>0, <1>4, <2>1, <2>2
<1>5. ASSUME NEW i \in 1..(L + 1), sent'[k][i].rel, sent'[k][i].res = "ok"
      PROVE  Arrived(k, i)'
  <2>1. i \in 1..L
    BY <1>0, <1>5
  <2>2. Arrived(k, i)
    BY <1>0, <1>5, <2>1 DEF AnswerInv
  <2> QED BY <2>1, <2>2, NamedArrived
<1> QED BY <1>0, <1>3, <1>4, <1>5 DEF AnswerInv

LEMMA AnswerStep ==
  ASSUME IInv, Step, NEW k \in Node, KindsInv(k), KindsInv(Peer(k)), OneToken(k),
         AllWaitsInv(k), GotInv(k), NamesInv(k), AnswerInv(k),
         ~ \E t \in Task : SendBegin(t) /\ Home[t] = k
  PROVE  AnswerInv(k)'
<1> DEFINE L == Last(k)
           p == Peer(k)
<1>0. p \in Node /\ Peer(p) = k /\ Last(k)' = L /\ L \in Nat
  BY Peers, RecordedHere
<1>1. ASSUME Arrived(k, L), L > 0
      PROVE  Arrived(k, L)'
  <2>1. PICK i \in 1..L : i = L
    BY <1>0, <1>1
  <2>2. Arrived(k, i)'
    BY <1>1, <2>1, NamedArrived
  <2> QED BY <1>0, <2>1, <2>2
<1>2. ASSUME NEW i \in Asks(k)'
      PROVE  wire'[p][i].msg = L
  <2>1. ASSUME NEW j \in Asks(k), wire'[p][i] = wire[p][j]
        PROVE  wire'[p][i].msg = L
    BY <2>1 DEF AnswerInv
  <2>2. ASSUME NEW t \in Task, Home[t] = k, WriteFrame(t), wire'[p][i] = PacketOf(t)
        PROVE  wire'[p][i].msg = L
    <3>1. tx[t].msg = L
      BY <2>2, OneCall DEF WriteFrame
    <3> QED BY <2>2, <3>1 DEF PacketOf, DataFrame
  <2> QED BY <2>1, <2>2, AsksStep
<1>3. ASSUME AtWork(k)'
      PROVE  rx'[p].frame.msg = L
  <2>1. CASE rx[p].at \in {"lock", "write"} /\ rx'[p].frame = rx[p].frame
    BY <2>1 DEF AnswerInv, AtWork
  <2>2. CASE ReceiveData(p) /\ Head(wire[p]).rel /\ rx'[p].frame = Head(wire[p])
    <3>1. PICK i \in Asks(k) : Head(wire[p]) = wire[p][i]
      BY <2>2, AsksTaken DEF OneToken
    <3> QED BY <2>2, <3>1 DEF AnswerInv
  <2> QED BY <1>0, <1>3, <2>1, <2>2, HandSteps DEF AtWork
<1>4. ASSUME Answers(k) # {} \/ Waking(k) \/ Woken(k)
      PROVE  Arrived(k, L) /\ Arrived(k, L)'
  <2>1. Arrived(k, L)
    BY <1>4 DEF AnswerInv
  <2>2. PICK t \in Task : Home[t] = k /\ tx[t].at = "wait"
    BY <1>4 DEF OneToken, UnderWay
  <2>3. L > 0
    BY <2>2, OneCall
  <2> QED BY <1>1, <2>1, <2>3
<1>5. ASSUME Answers(k)' # {} \/ Waking(k)' \/ Woken(k)'
      PROVE  Arrived(k, L)'
  <2>1. CASE Answers(k) # {} \/ Waking(k) \/ Woken(k)
    BY <1>4, <2>1
  <2>2. CASE ~ (Answers(k) # {} \/ Waking(k) \/ Woken(k))
    <3>1. Answers(k)' # {} /\ Answers(k) = {}
      BY <1>5, <2>2, PlaceSteps
    <3>2. WriteReply(p) /\ rx[p].frame.type = "data"
      BY <3>1, AnswersStep
    <3>3. rx'[p].at = "accept" /\ rx'[p].frame = rx[p].frame
      BY <3>2, ReplyNames
    <3>4. rx[p].frame.msg = L
      BY <3>2 DEF AnswerInv, AtWork, WriteReply
    <3> QED BY <1>0, <3>3, <3>4 DEF Arrived
  <2> QED BY <2>1, <2>2
<1>6. ASSUME NEW t \in Task, Home[t] = k, tx'[t].at \notin {"idle", "clear"},
             sent'[k][L].rel, acked'[k]
      PROVE  Arrived(k, L)'
  <2>1. tx[t].at # "idle"
    <3>1. tx'[t] # tx[t] => SendStep(t)
      BY <1>6, CallSteps
    <3> QED BY <1>6, <3>1 DEF SendStep, ClearAcked, LockWrite, WriteFrame, WaitBreak,
                              WaitTimeout, CheckAcked
  <2>2. L > 0 /\ L \in 1..L
    BY <1>0, <1>6, <2>1, OneCall
  <2>3. ~ ClearAcked(t)
    BY <1>6, AckedSteps
  <2>4. tx[t].at # "clear"
    <3>1. \/ LockWrite(t) \/ WriteFrame(t) \/ WaitBreak(t) \/ WaitTimeout(t)
          \/ CheckAcked(t)
          => tx[t].at # "clear"
      BY DEF LockWrite, WriteFrame, WaitBreak, WaitTimeout, CheckAcked
    <3> QED BY <1>6, <2>1, <2>3, <3>1, TurnSteps
  <2>5. CASE SetAcked(k)
    BY <1>4, <2>5 DEF SetAcked, Waking
  <2>6. CASE ~ SetAcked(k)
    <3>1. ~ \E u \in Task : ClearAcked(u) /\ Home[u] = k
      BY <1>6, AckedSteps
    <3>2. acked[k]
      BY <1>6, <2>6, <3>1, AckedSteps
    <3>3. sent[k][L].rel
      BY <1>6, <2>2, RecordedHere
    <3>4. Arrived(k, L)
      BY <1>6, <2>1, <2>4, <3>2, <3>3 DEF AnswerInv
    <3> QED BY <1>1, <2>2, <3>4
  <2> QED BY <2>5, <2>6
<1>7. ASSUME NEW i \in 1..L, sent'[k][i].rel, sent'[k][i].res = "ok"
      PROVE  Arrived(k, i)'
  <2>1. sent[k][i].rel
    BY <1>7, RecordedHere
  <2>2. CASE sent[k][i].res = "ok"
    <3>1. Arrived(k, i)
      BY <2>1, <2>2 DEF AnswerInv
    <3> QED BY <3>1, NamedArrived
  <2>3. CASE sent[k][i].res # "ok"
    <3>1. PICK t \in Task : Home[t] = k /\ i = L /\ CheckAcked(t) /\ acked[k]
      BY <1>7, <2>1, <2>3, RecordedHere
    <3>2. tx[t].at = "check"
      BY <3>1 DEF CheckAcked
    <3>3. Arrived(k, L)
      BY <2>1, <3>1, <3>2 DEF AnswerInv
    <3> QED BY <3>1, <3>3, NamedArrived
  <2> QED BY <2>2, <2>3
<1> QED BY <1>0, <1>2, <1>3, <1>5, <1>6, <1>7 DEF AnswerInv

LEMMA DeliveredInit == Init => DeliveredInv
<1> SUFFICES ASSUME Init, NEW n \in Node
             PROVE  GotInv(n) /\ NamesInv(n) /\ AnswerInv(n)
  BY DEF DeliveredInv
<1>1. Last(n) = 0 /\ lastRecvSeq[Peer(n)] = -1 /\ \A t \in Task : tx[t].at = "idle"
  BY EmptySeq, Peers DEF Init, Last, Resting
<1>2. GotInv(n)
  BY <1>1 DEF GotInv
<1>3. NamesInv(n)
  BY TimeoutInit DEF TimeoutInv
<1>4. ~ UnderWay(n)
  BY <1>1, PromptInit DEF PromptInv, OneToken
<1> QED BY <1>1, <1>2, <1>3, <1>4 DEF AnswerInv, UnderWay

LEMMA DeliveredStep ==
  /\ Prompt /\ EnoughNumbers /\ IInv /\ PromptInv /\ DeliveredInv /\ [Next]_vars
  => DeliveredInv'
<1> SUFFICES ASSUME Prompt, EnoughNumbers, IInv, PromptInv, DeliveredInv,
                    [Next]_vars, NEW k \in Node
             PROVE  (GotInv(k) /\ NamesInv(k) /\ AnswerInv(k))'
  BY DEF DeliveredInv
<1>1. /\ Step /\ NumbersInv(k) /\ KindsInv(k) /\ KindsInv(Peer(k)) /\ OneToken(k)
      /\ AllWaitsInv(k) /\ GotInv(k) /\ NamesInv(k) /\ NamesInv(Peer(k))
      /\ AnswerInv(k) /\ MaxSends[k] <= SeqMod
  BY Steps, Peers DEF Prompt, PromptInv, DeliveredInv, EnoughNumbers
<1>2. NamesInv(k)'
  BY <1>1, NamesBegin, NamesStep
<1>3. AnswerInv(k)'
  BY <1>1, AnswerBegin, AnswerStep
<1> QED BY <1>1, <1>2, <1>3, GotStep

\* With prompt answers and no number used twice, a reliable send that returns 0
\* was delivered, whatever became of the sends before it.
THEOREM PromptSuccess ==
  Prompt /\ EnoughNumbers => (Spec => []SuccessMeansDelivered)
<1> SUFFICES ASSUME Prompt, EnoughNumbers PROVE Spec => []SuccessMeansDelivered
  OBVIOUS
<1>1. IInv /\ DeliveredInv => SuccessMeansDelivered
  <2> SUFFICES ASSUME IInv, DeliveredInv, NEW n \in Node, NEW i \in DOMAIN sent[n],
                      sent[n][i].rel, sent[n][i].res = "ok"
               PROVE  Arrived(n, i)
    BY DEF SuccessMeansDelivered
  <2>1. i \in 1..Last(n)
    BY Domains DEF IInv, Last
  <2> QED BY <2>1 DEF DeliveredInv, AnswerInv
<1>2. Init => PromptInv /\ DeliveredInv
  BY PromptInit, DeliveredInit
<1>3. IInv /\ PromptInv /\ DeliveredInv /\ [Next]_vars => PromptInv' /\ DeliveredInv'
  BY PromptStep, DeliveredStep
<1> QED BY <1>1, <1>2, <1>3, InOrder, PTL DEF Spec


-----------------------------------------------------------------------------
(* Frames that are lost                                                    *)

\* The steps of CommBudget are steps of CommProtocol.
LEMMA BudgetSteps ==
  ASSUME Prompt, [BudgetNext]_budgetVars
  PROVE  [Next]_vars /\ Step
<1>1. [Next]_vars
  BY DEF BudgetNext, Next, budgetVars
<1> QED BY <1>1, Steps DEF Prompt

LEMMA LostGrows ==
  ASSUME [BudgetNext]_budgetVars, lost \in Nat
  PROVE  lost' \in Nat /\ lost' >= lost
BY DEF BudgetNext, budgetVars, Count

\* A call takes its steps itself, and so does a protocol thread.
LEMMA BudgetCall ==
  ASSUME IInv, [BudgetNext]_budgetVars, NEW t \in Task, tx'[t] # tx[t], tx[t].at # "idle"
  PROVE  SendStep(t) /\ Count(tx[t].at = "write" /\ Full(Home[t]))
<1>0. tx \in [Task -> Sender]
  BY DEF IInv, TypeOK
<1>1. ASSUME NEW u \in Task, SendBegin(u) \/ SendStep(u), u # t
      PROVE  FALSE
  BY <1>0, <1>1 DEF SendBegin, SendStep, ClearAcked, LockWrite, WriteFrame, WaitBreak,
                    WaitTimeout, CheckAcked, Return
<1>2. ~ SendBegin(t)
  BY DEF SendBegin
<1>3. ASSUME NEW n \in Node, ParseStep(n) \/ Lose(n)
      PROVE  FALSE
  BY <1>3 DEF ParseStep, ReceiveAck, ReceiveNack, ReceiveData, ReceiveJunk, SetAcked,
              Break, LockReply, WriteReply, Accept, Lose
<1>4. ~ Finished /\ ~ UNCHANGED budgetVars
  BY DEF Finished, budgetVars, vars
<1> QED BY <1>1, <1>2, <1>3, <1>4 DEF BudgetNext

LEMMA BudgetReply ==
  ASSUME IInv, [BudgetNext]_budgetVars, NEW n \in Node, rx'[n] # rx[n]
  PROVE  ParseStep(n) /\ Count(rx[n].at = "write" /\ Full(n))
<1>0. rx \in [Node -> Parser]
  BY DEF IInv, TypeOK
<1>1. ASSUME NEW t \in Task, SendBegin(t) \/ SendStep(t)
      PROVE  FALSE
  BY <1>1 DEF SendBegin, SendStep, ClearAcked, LockWrite, WriteFrame, WaitBreak,
              WaitTimeout, CheckAcked
<1>2. ASSUME NEW k \in Node, ParseStep(k), k # n
      PROVE  FALSE
  BY <1>0, <1>2 DEF ParseStep, ReceiveAck, ReceiveNack, ReceiveData, ReceiveJunk, Busy,
                    SetAcked, Break, LockReply, WriteReply, Accept
<1>3. ASSUME NEW k \in Node, Lose(k)
      PROVE  FALSE
  BY <1>3 DEF Lose
<1>4. ~ Finished /\ ~ UNCHANGED budgetVars
  BY DEF Finished, budgetVars, vars
<1> QED BY <1>1, <1>2, <1>3, <1>4 DEF BudgetNext

\* What a protocol thread is at work on stays until it is done with it.
LEMMA BusySteps ==
  ASSUME IInv, Step, NEW n \in Node, rx[n].at # "idle"
  PROVE  \/ rx'[n] = rx[n]
         \/ SetAcked(n) \/ Break(n) \/ LockReply(n) \/ WriteReply(n) \/ Accept(n)
<1>0. rx \in [Node -> Parser]
  BY DEF IInv, TypeOK
<1>1. ASSUME NEW t \in Task, SendBegin(t) \/ SendStep(t)
      PROVE  rx' = rx
  BY <1>1 DEF SendBegin, SendStep, ClearAcked, LockWrite, WriteFrame, WaitBreak,
              WaitTimeout, CheckAcked
<1>2. ASSUME NEW k \in Node, k # n, ParseStep(k)
      PROVE  rx'[n] = rx[n]
  BY <1>0, <1>2 DEF ParseStep, ReceiveAck, ReceiveNack, ReceiveData, ReceiveJunk, Busy,
                    SetAcked, Break, LockReply, WriteReply, Accept
<1>3. ~ ReceiveAck(n) /\ ~ ReceiveNack(n) /\ ~ ReceiveData(n) /\ ~ ReceiveJunk(n)
  BY DEF ReceiveAck, ReceiveNack, ReceiveData, ReceiveJunk, Receive
<1>4. ASSUME (\E k \in Node : Lose(k)) \/ UNCHANGED vars
      PROVE  rx' = rx
  BY <1>4 DEF Lose, vars
<1> QED BY <1>1, <1>2, <1>3, <1>4 DEF Step, ParseStep

\* The number that is remembered changes with the flag and with an unreliable
\* frame of the peer.
LEMMA MemorySteps ==
  ASSUME IInv, Step, NEW k \in Node
  PROVE  \/ currentAckedSeq'[k] = currentAckedSeq[k] /\ ~ SetAcked(k)
         \/ SetAcked(k) /\ currentAckedSeq'[k] = rx[k].frame.seq
         \/ currentAckedSeq'[k] = -1 /\ ~ SetAcked(k)
<1>0. currentAckedSeq \in [Node -> Seqs \cup {-1}] /\ rx \in [Node -> Parser]
  BY DEF IInv, TypeOK
<1>1. ASSUME NEW t \in Task, SendBegin(t) \/ SendStep(t)
      PROVE  currentAckedSeq' = currentAckedSeq /\ rx' = rx
  BY <1>1 DEF SendBegin, SendStep, ClearAcked, LockWrite, WriteFrame, WaitBreak,
              WaitTimeout, CheckAcked, protocolVars
<1>2. ASSUME NEW n \in Node, ParseStep(n), ~ SetAcked(n), ~ Accept(n)
      PROVE  currentAckedSeq' = currentAckedSeq
  BY <1>2 DEF ParseStep, ReceiveAck, ReceiveNack, ReceiveData, ReceiveJunk, Break,
              LockReply, WriteReply, protocolVars
<1>3. ASSUME NEW n \in Node, Accept(n)
      PROVE  currentAckedSeq'[k] \in {currentAckedSeq[k], -1}
  BY <1>0, <1>3 DEF Accept
<1>4. ASSUME NEW n \in Node, SetAcked(n)
      PROVE  currentAckedSeq'[k] = IF n = k THEN rx[k].frame.seq ELSE currentAckedSeq[k]
  BY <1>0, <1>4 DEF SetAcked
<1>5. ASSUME (\E n \in Node : Lose(n)) \/ UNCHANGED vars
      PROVE  currentAckedSeq' = currentAckedSeq
  BY <1>5 DEF Lose, vars, protocolVars
<1>6. currentAckedSeq'[k] \in {currentAckedSeq[k], -1} \/ SetAcked(k)
  <2>1. ASSUME NEW n \in Node, ParseStep(n)
        PROVE  currentAckedSeq'[k] \in {currentAckedSeq[k], -1} \/ SetAcked(k)
    <3>1. CASE Accept(n)
      BY <1>3, <3>1
    <3>2. CASE SetAcked(n)
      BY <1>4, <3>2
    <3> QED BY <1>2, <2>1, <3>1, <3>2
  <2> QED BY <1>1, <1>5, <2>1 DEF Step
<1> QED BY <1>4, <1>6


\* A call that ends has a result.
LEMMA ReturnSteps ==
  ASSUME IInv, Step, NEW t \in Task, tx[t].at # "idle", tx'[t].at = "idle"
  PROVE  sent'[Home[t]][Last(Home[t])].res \in {"ok", "timeout"}
<1> DEFINE n == Home[t]
           i == tx[t].msg
<1>0. /\ tx \in [Task -> Sender] /\ sent \in [Node -> Seq(Entry)] /\ n \in Node
      /\ i = Last(n) /\ i > 0
  BY OneCall, ConstantsAssumption DEF IInv, TypeOK
<1>1. SendStep(t)
  BY CallSteps DEF SendBegin
<1>2. PICK r \in {"ok", "timeout"} : sent' = [sent EXCEPT ![n][i].res = r]
  <2>1. ~ ClearAcked(t) /\ ~ LockWrite(t) /\ ~ WaitBreak(t) /\ ~ WaitTimeout(t)
    BY <1>0 DEF ClearAcked, LockWrite, WaitBreak, WaitTimeout, Sender
  <2>2. CASE WriteFrame(t)
    BY <1>0, <2>2 DEF WriteFrame, Return, Sender
  <2>3. CASE CheckAcked(t)
    BY <1>0, <2>3 DEF CheckAcked, Return, Sender
  <2> QED BY <1>1, <2>1, <2>2, <2>3 DEF SendStep
<1> DEFINE e == [sent[n][i] EXCEPT !.res = r]
<1>3. sent' = [sent EXCEPT ![n] = [sent[n] EXCEPT ![i] = e]]
  BY <1>2
<1>4. sent[n][i] \in Entry /\ i \in 1..Last(n)
  <2>1. sent[n] \in Seq(Entry) /\ Last(n) \in Nat
    BY <1>0, LenProperties DEF Last
  <2>2. i \in 1..Last(n)
    BY <1>0, <2>1
  <2> QED BY <2>1, <2>2, ElementOfSeq DEF Last
<1>5. e.res = r
  BY <1>4, Fields
<1>6. sent'[n][i] = e
  <2>1. Overwritten(n, i, e)
    BY <1>0, <1>3, EntryWritten
  <2> HIDE DEF e
  <2> QED BY <1>0, <1>4, <2>1 DEF Overwritten
<1> HIDE DEF e
<1> QED BY <1>0, <1>2, <1>5, <1>6

\* A frame on the line stays there, moves up, is received or is lost.
LEMMA FrameKept ==
  ASSUME Prompt, IInv, [BudgetNext]_budgetVars, NEW n \in Node, NEW i \in 1..Len(wire[n])
  PROVE  \/ \E j \in 1..Len(wire'[n]) : wire'[n][j] = wire[n][i]
         \/ i = 1 /\ (ReceiveAck(n) \/ ReceiveNack(n) \/ ReceiveData(n) \/ ReceiveJunk(n))
         \/ Count(TRUE)
<1> DEFINE Kept == \E j \in 1..Len(wire'[n]) : wire'[n][j] = wire[n][i]
<1>0. TypeOK /\ wire \in [Node -> Seq(Frame)] /\ wire[n] \in Seq(Frame) /\ Len(wire[n]) \in Nat
  BY Domains DEF IInv, TypeOK
<1>1. wire'[n] = wire[n] => Kept
  OBVIOUS
<1>2. ASSUME NEW f \in Frame, wire'[n] = Append(wire[n], f)
      PROVE  Kept
  <2>1. /\ Len(wire'[n]) = Len(wire[n]) + 1
        /\ \A j \in 1..Len(wire[n]) : wire'[n][j] = wire[n][j]
    BY <1>0, <1>2, AppendProperties
  <2>2. i \in 1..Len(wire'[n])
    BY <1>0, <2>1
  <2> QED BY <2>1, <2>2
<1>3. ASSUME wire[n] # <<>>, wire'[n] = Tail(wire[n]), i # 1
      PROVE  Kept
  <2>1. Len(wire'[n]) = Len(wire[n]) - 1
        /\ \A j \in 1..Len(wire'[n]) : wire'[n][j] = wire[n][j + 1]
    BY <1>0, <1>3, HeadTailProperties
  <2>2. i - 1 \in 1..Len(wire'[n]) /\ (i - 1) + 1 = i
    BY <1>0, <1>3, <2>1
  <2> QED BY <2>1, <2>2
<1>4. ASSUME NEW k \in Node, NEW f \in Frame, wire' = Put(wire, k, f)
      PROVE  Kept
  <2>1. wire'[k] = wire[k] /\ wire'[Peer(k)] \in {wire[Peer(k)], Append(wire[Peer(k)], f)}
    BY <1>0, <1>4, Putting
  <2>2. n = k \/ n = Peer(k)
    BY DEF Node, Peer
  <2> QED BY <1>1, <1>2, <2>1, <2>2
<1>5. ASSUME NEW t \in Task, SendBegin(t) \/ SendStep(t)
      PROVE  Kept
  <2>1. CASE WriteFrame(t)
    <3>1. wire' = Put(wire, Home[t], PacketOf(t)) /\ Home[t] \in Node
      BY <2>1, ConstantsAssumption DEF WriteFrame
    <3>2. PacketOf(t) \in Frame
      <4>1. tx[t].msg = Last(Home[t]) /\ Last(Home[t]) > 0 /\ Last(Home[t]) \in Nat
        BY <2>1, <3>1, OneCall, Domains DEF WriteFrame, IInv, Last
      <4>2. sent[Home[t]][tx[t].msg] \in Entry /\ tx[t].msg \in Nat
        BY <4>1, <3>1, <1>0, Domains, ElementOfSeq DEF Last
      <4> QED BY <4>2, Frames DEF PacketOf
    <3> QED BY <3>1, <3>2, <1>4
  <2>2. CASE ~ WriteFrame(t)
    BY <1>1, <1>5, <2>2 DEF SendBegin, SendStep, ClearAcked, LockWrite, WaitBreak, WaitTimeout,
                            CheckAcked
  <2> QED BY <2>1, <2>2
<1>6. ASSUME NEW k \in Node, ParseStep(k)
      PROVE  Kept \/ (i = 1 /\ (ReceiveAck(n) \/ ReceiveNack(n) \/ ReceiveData(n) \/ ReceiveJunk(n)))
  <2>1. CASE ReceiveAck(k) \/ ReceiveNack(k) \/ ReceiveData(k) \/ ReceiveJunk(k)
    <3>1. wire[k] # <<>> /\ wire'[k] = Tail(wire[k]) /\ (n # k => wire'[n] = wire[n])
      BY <1>0, <2>1 DEF ReceiveAck, ReceiveNack, ReceiveData, ReceiveJunk, Receive
    <3> QED BY <1>1, <1>3, <2>1, <3>1
  <2>2. CASE WriteReply(k)
    <3>1. \E f \in Frame : wire' = Put(wire, k, f)
      <4>1. rx[k].frame.seq \in Seqs
        BY <1>0 DEF TypeOK, Parser, Frame
      <4> QED BY <4>1, <2>2, Frames DEF WriteReply
    <3> QED BY <1>4, <3>1
  <2>3. CASE SetAcked(k) \/ Break(k) \/ LockReply(k) \/ Accept(k)
    BY <1>1, <2>3 DEF SetAcked, Break, LockReply, Accept
  <2> QED BY <1>6, <2>1, <2>2, <2>3 DEF ParseStep
<1>7. ASSUME Finished \/ UNCHANGED budgetVars
      PROVE  Kept
  BY <1>1, <1>7 DEF Finished, budgetVars, vars
<1> HIDE DEF Kept
<1>8. Kept \/ (i = 1 /\ (ReceiveAck(n) \/ ReceiveNack(n) \/ ReceiveData(n) \/ ReceiveJunk(n)))
        \/ Count(TRUE)
  BY <1>5, <1>6, <1>7 DEF BudgetNext
<1> QED BY <1>8 DEF Kept


\* What is under way for a sender stays under way until it has woken it, unless a
\* frame is lost: its acknowledgement is for the frame under way and counts.
LEMMA UnderWayKept ==
  ASSUME Prompt, IInv, [BudgetNext]_budgetVars, NEW k \in Node, InBudget,
         KindsInv(Peer(k)), OneToken(k), AllWaitsInv(k), TimelyInv(k), FreshInv(k),
         UnderWay(k)
  PROVE  UnderWay(k)' \/ Slept(k) \/ lost' = lost + 1
<1> DEFINE p == Peer(k)
           Fine == UnderWay(k)' \/ Slept(k) \/ lost' = lost + 1
<1>0. /\ p \in Node /\ Peer(p) = k /\ Step /\ TypeOK
      /\ rx \in [Node -> Parser] /\ interruptSem[k] \in Nat
  BY Peers, BudgetSteps DEF IInv, TypeOK
<1>1. Count(TRUE) => Fine
  BY DEF Count
<1>2. ASSUME Asks(k) # {}
      PROVE  Fine
  <2>1. PICK i \in 1..Len(wire[p]) : wire[p][i].type = "data" /\ wire[p][i].rel
    BY <1>2 DEF Asks
  <2>2. CASE \E j \in 1..Len(wire'[p]) : wire'[p][j] = wire[p][i]
    <3>1. Asks(k)' # {}
      BY <2>1, <2>2 DEF Asks
    <3> QED BY <3>1 DEF UnderWay
  <2>3. CASE i = 1 /\ (ReceiveAck(p) \/ ReceiveNack(p) \/ ReceiveData(p) \/ ReceiveJunk(p))
    <3>1. wire[p] # <<>>
      BY <2>3 DEF ReceiveAck, ReceiveNack, ReceiveData, ReceiveJunk, Receive
    <3>2. Head(wire[p]) = wire[p][i]
      BY <1>0, <2>3, <3>1, Domains, EmptySeq
    <3>3. ReceiveData(p)
      BY <2>1, <2>3, <3>2 DEF ReceiveAck, ReceiveNack, ReceiveJunk, Receive
    <3>4. rx'[p].at = "lock"
      BY <1>0, <2>1, <3>2, <3>3 DEF ReceiveData, Busy
    <3>5. AtWork(k)'
      BY <3>4 DEF AtWork
    <3> QED BY <3>5 DEF UnderWay
  <2> QED BY <1>0, <1>1, <2>2, <2>3, FrameKept
<1>3. ASSUME AtWork(k)
      PROVE  Fine
  <2>1. rx[p].at \in {"lock", "write"}
    BY <1>3 DEF AtWork
  <2>2. CASE rx'[p] = rx[p]
    <3>1. AtWork(k)'
      BY <2>1, <2>2 DEF AtWork
    <3> QED BY <3>1 DEF UnderWay
  <2>3. CASE LockReply(p)
    <3>1. rx'[p].at = "write"
      BY <1>0, <2>3 DEF LockReply, Parser
    <3>2. AtWork(k)'
      BY <3>1 DEF AtWork
    <3> QED BY <3>2 DEF UnderWay
  <2>4. CASE WriteReply(p)
    <3> DEFINE f == Control("ack", rx[p].frame.seq)
    <3>1. rx[p].frame.type = "data" /\ rx[p].at = "write"
      BY <2>1, <2>4 DEF KindsInv, WriteReply
    <3>2. wire' = Put(wire, p, f) /\ f \in Frame /\ f.type = "ack"
      <4>1. rx[p].frame.seq \in Seqs
        BY <1>0 DEF Parser, Frame
      <4>2. f \in Frame
        BY <4>1, Frames
      <4>3. wire' = Put(wire, p, f)
        BY <2>4, <3>1 DEF WriteReply
      <4> QED BY <4>2, <4>3 DEF Control
    <3>3. rx'[p] # rx[p]
      BY <1>0, <2>4, <3>1 DEF WriteReply, Parser
    <3>4. CASE Full(p)
      <4>1. Count(TRUE)
        BY <1>0, <3>1, <3>3, <3>4, BudgetReply DEF Count
      <4> QED BY <1>1, <4>1
    <3>5. CASE ~ Full(p)
      <4> HIDE DEF f
      <4>1. wire[k] \in Seq(Frame) /\ Len(wire[k]) \in Nat /\ WireCap \in Nat
        BY <1>0, Domains, ConstantsAssumption
      <4>2. wire'[k] = Append(wire[k], f)
        <5>1. Len(wire[k]) < WireCap
          BY <1>0, <3>5, <4>1 DEF Full
        <5>2. wire' = [wire EXCEPT ![k] = IF Len(wire[k]) < WireCap THEN Append(wire[k], f)
                                                                    ELSE wire[k]]
          BY <1>0, <3>2 DEF Put
        <5>3. wire \in [Node -> Seq(Frame)]
          BY <1>0 DEF TypeOK
        <5> QED BY <5>1, <5>2, <5>3
      <4>3. Len(wire[k]) + 1 \in 1..Len(wire'[k]) /\ wire'[k][Len(wire[k]) + 1] = f
        BY <3>2, <4>1, <4>2, AppendProperties
      <4>4. Answers(k)' # {}
        BY <3>2, <4>3 DEF Answers
      <4> QED BY <4>4 DEF UnderWay
    <3> QED BY <3>4, <3>5
  <2>5. ~ SetAcked(p) /\ ~ Break(p) /\ ~ Accept(p)
    BY <2>1 DEF SetAcked, Break, Accept
  <2> QED BY <1>0, <2>1, <2>2, <2>3, <2>4, <2>5, BusySteps
<1>4. ASSUME Answers(k) # {}
      PROVE  Fine
  <2>1. PICK i \in Answers(k) : i \in 1..Len(wire[k]) /\ wire[k][i].type = "ack"
    BY <1>4 DEF Answers
  <2>2. CASE \E j \in 1..Len(wire'[k]) : wire'[k][j] = wire[k][i]
    <3>1. Answers(k)' # {}
      BY <2>1, <2>2 DEF Answers
    <3> QED BY <3>1 DEF UnderWay
  <2>3. CASE i = 1 /\ (ReceiveAck(k) \/ ReceiveNack(k) \/ ReceiveData(k) \/ ReceiveJunk(k))
    <3>1. wire[k] # <<>>
      BY <2>3 DEF ReceiveAck, ReceiveNack, ReceiveData, ReceiveJunk, Receive
    <3>2. Head(wire[k]) = wire[k][i]
      BY <1>0, <2>3, <3>1, Domains, EmptySeq
    <3>3. ReceiveAck(k)
      BY <2>1, <2>3, <3>2 DEF ReceiveData, ReceiveNack, ReceiveJunk, Receive
    <3>4. AckCounts(k, Head(wire[k]).seq)
      <4>1. PICK t \in Task : Home[t] = k /\ tx[t].at = "wait"
        BY DEF OneToken
      <4>2. sent[k][Last(k)].rel
        BY <4>1 DEF AllWaitsInv
      <4>3. ~ Waking(k) /\ ~ Woken(k)
        BY <1>4 DEF OneToken
      <4>4. currentAckedSeq[k] # CurrentSeq(k)
        BY <4>1, <4>2, <4>3 DEF FreshInv, Waking
      <4>5. Head(wire[k]).seq = CurrentSeq(k)
        BY <2>1, <3>2 DEF TimelyInv
      <4> QED BY <4>4, <4>5 DEF AckCounts
    <3>5. rx'[k].at = "flag"
      BY <1>0, <3>3, <3>4 DEF ReceiveAck, Busy
    <3>6. Waking(k)'
      BY <3>5 DEF Waking
    <3> QED BY <3>6 DEF UnderWay
  <2> QED BY <1>0, <1>1, <2>1, <2>2, <2>3, FrameKept
<1>5. ASSUME Waking(k)
      PROVE  Fine
  <2>1. rx[k].at \in {"flag", "break"}
    BY <1>5 DEF Waking
  <2>2. CASE rx'[k] = rx[k]
    <3>1. Waking(k)'
      BY <2>1, <2>2 DEF Waking
    <3> QED BY <3>1 DEF UnderWay
  <2>3. CASE SetAcked(k)
    <3>1. rx'[k].at = "break"
      BY <1>0, <2>3 DEF SetAcked, Parser
    <3>2. Waking(k)'
      BY <3>1 DEF Waking
    <3> QED BY <3>2 DEF UnderWay
  <2>4. CASE Break(k)
    <3>1. interruptSem'[k] = interruptSem[k] + 1
      BY <1>0, <2>4 DEF Break, TypeOK
    <3>2. Woken(k)'
      BY <1>0, <3>1 DEF Woken
    <3> QED BY <3>2 DEF UnderWay
  <2>5. ~ LockReply(k) /\ ~ WriteReply(k) /\ ~ Accept(k)
    BY <2>1 DEF LockReply, WriteReply, Accept
  <2> QED BY <1>0, <2>1, <2>2, <2>3, <2>4, <2>5, BusySteps
<1>6. ASSUME Woken(k)
      PROVE  Fine
  <2>1. CASE Slept(k)
    BY <2>1
  <2>2. CASE ~ Slept(k)
    <3>1. interruptSem'[k] > 0
      BY <1>0, <1>6, <2>2, SemSteps DEF Woken
    <3>2. Woken(k)'
      BY <3>1 DEF Woken
    <3> QED BY <3>2 DEF UnderWay
  <2> QED BY <2>1, <2>2
<1> QED BY <1>2, <1>3, <1>4, <1>5, <1>6 DEF UnderWay



\* At the beginning of a call nothing is on its way.
LEMMA NothingBefore ==
  ASSUME IInv, NEW k \in Node, OneToken(k), NEW t \in Task, SendBegin(t), Home[t] = k
  PROVE  ~ InCall(k) /\ ~ UnderWay(k)
<1>1. \A u \in Task : Home[u] = k => tx[u].at = "idle"
  BY ConstantsAssumption DEF SendBegin, Free, IInv, SendersInv
<1> QED BY <1>1 DEF InCall, OneToken

LEMMA EntriesStep ==
  ASSUME IInv, Step, NEW k \in Node, OneToken(k), EntriesInv(k)
  PROVE  EntriesInv(k)'
<1> DEFINE L == Last(k)
<1>1. CASE \E t \in Task : SendBegin(t) /\ Home[t] = k
  <2>1. PICK t \in Task : SendBegin(t) /\ Home[t] = k
    BY <1>1
  <2>2. /\ Last(k)' = L + 1 /\ L \in Nat
        /\ sent'[k][L + 1].rel <=> L + 1 \in Reliable[k]
        /\ \A j \in 1..L : sent'[k][j] = sent[k][j]
    BY <2>1, Begun
  <2>3. InCall(k)'
    <3>1. tx \in [Task -> Sender]
      BY DEF IInv, TypeOK
    <3>2. tx'[t].at # "idle"
      BY <2>1, <3>1 DEF SendBegin
    <3> QED BY <2>1, <3>2 DEF InCall
  <2>4. ASSUME NEW i \in 1..(L + 1)
        PROVE  /\ sent'[k][i].rel <=> i \in Reliable[k]
               /\ sent'[k][i].res = "pending" => i = L + 1
    <3>1. CASE i \in 1..L
      <4>1. ~ InCall(k)
        BY <2>1, NothingBefore
      <4> QED BY <2>2, <3>1, <4>1 DEF EntriesInv
    <3>2. CASE i \notin 1..L
      <4>1. i = L + 1
        BY <2>2, <3>2
      <4> QED BY <2>2, <4>1
    <3> QED BY <3>1, <3>2
  <2> QED BY <2>2, <2>3, <2>4 DEF EntriesInv
<1>2. CASE ~ \E t \in Task : SendBegin(t) /\ Home[t] = k
  <2>1. Last(k)' = L
    BY <1>2, RecordedHere
  <2>2. ASSUME NEW i \in 1..L
        PROVE  /\ sent'[k][i].rel = sent[k][i].rel
               /\ sent'[k][i].res = "pending" => sent[k][i].res = "pending"
    BY <1>2, <2>2, RecordedHere
  <2>3. ASSUME NEW i \in 1..L, sent'[k][i].res = "pending"
        PROVE  i = L /\ InCall(k)'
    <3>1. i = L /\ InCall(k)
      BY <2>2, <2>3 DEF EntriesInv
    <3>2. PICK t \in Task : Home[t] = k /\ tx[t].at # "idle"
      BY <3>1 DEF InCall
    <3>3. tx'[t].at # "idle"
      BY <2>3, <3>1, <3>2, ReturnSteps
    <3> QED BY <3>1, <3>2, <3>3 DEF InCall
  <2> QED BY <2>1, <2>2, <2>3 DEF EntriesInv
<1> QED BY <1>1, <1>2

LEMMA TimelyStep ==
  ASSUME IInv, Step, NEW k \in Node, NumbersInv(k), OneToken(k), AnswerInv(k),
         TimelyInv(k)
  PROVE  TimelyInv(k)'
<1> DEFINE p == Peer(k)
<1>0. /\ p \in Node /\ Peer(p) = k /\ OrderInv /\ TypeOK
      /\ rx \in [Node -> Parser]
  BY Peers DEF IInv, TypeOK
<1>1. CASE \E t \in Task : SendBegin(t) /\ Home[t] = k
  <2>1. PICK t \in Task : SendBegin(t) /\ Home[t] = k
    BY <1>1
  <2>2. Answers(k) = {} /\ ~ Waking(k)
    BY <2>1, NothingBefore DEF UnderWay
  <2>3. wire' = wire /\ rx' = rx
    BY <2>1 DEF SendBegin
  <2>4. Answers(k)' = {} /\ rx'[k].at # "flag"
    BY <2>2, <2>3 DEF Answers, Waking
  <2> QED BY <2>4 DEF TimelyInv
<1>2. CASE ~ \E t \in Task : SendBegin(t) /\ Home[t] = k
  <2>1. CurrentSeq(k)' = CurrentSeq(k)
    <3>1. sequence'[k] = sequence[k]
      BY <1>2, SequenceSteps
    <3> QED BY <3>1 DEF CurrentSeq
  <2>2. ASSUME NEW i \in Answers(k)'
        PROVE  wire'[k][i].seq = CurrentSeq(k)
    <3>0. i \in 1..Len(wire'[k]) /\ wire'[k][i].type = "ack"
      BY <2>2 DEF Answers
    <3>1. PICK d \in {0, 1}, f \in Frame :
               /\ LineStep(k, d, f)
               /\ \/ f = AtRest.frame
                  \/ \E t \in Task : Home[t] = p /\ WriteFrame(t) /\ f = PacketOf(t)
                  \/ /\ WriteReply(p)
                     /\ f = Control(IF rx[p].frame.type = "data" THEN "ack" ELSE "nack",
                                    rx[p].frame.seq)
      BY LineSteps
    <3>2. CASE i + d \in 1..Len(wire[k]) /\ wire'[k][i] = wire[k][i + d]
      <4>1. i + d \in Answers(k)
        BY <3>0, <3>2 DEF Answers
      <4> QED BY <3>2, <4>1 DEF TimelyInv
    <3>3. CASE wire'[k][i] = f
      <4>1. WriteReply(p) /\ rx[p].frame.type = "data" /\ f.seq = rx[p].frame.seq
        BY <3>0, <3>1, <3>3 DEF AtRest, Control, PacketOf, DataFrame
      <4>2. rx[p].frame.msg = Last(k)
        BY <4>1 DEF AnswerInv, AtWork, WriteReply
      <4>3. rx[p].frame.msg \in 1..Last(k) /\ rx[p].frame.seq = sent[k][rx[p].frame.msg].seq
        BY <1>0, <4>1 DEF OrderInv, HeldInv, Genuine, Last
      <4>4. Last(k) > 0
        BY <4>2, <4>3
      <4> QED BY <3>3, <4>1, <4>2, <4>3, <4>4 DEF NumbersInv
    <3> QED BY <3>0, <3>1, <3>2, <3>3 DEF LineStep
  <2>3. ASSUME rx'[k].at = "flag"
        PROVE  rx'[k].frame.seq = CurrentSeq(k)
    <3>1. CASE rx[k].at = "idle"
      <4>1. rx'[k] # rx[k]
        BY <2>3, <3>1
      <4>2. ReceiveAck(k)
        <5>1. ASSUME NEW t \in Task, SendBegin(t) \/ SendStep(t)
              PROVE  FALSE
          BY <4>1, <5>1 DEF SendBegin, SendStep, ClearAcked, LockWrite, WriteFrame, WaitBreak,
                            WaitTimeout, CheckAcked
        <5>2. ASSUME NEW n \in Node, n # k, ParseStep(n)
              PROVE  FALSE
          BY <1>0, <4>1, <5>2 DEF ParseStep, ReceiveAck, ReceiveNack, ReceiveData, ReceiveJunk,
                                  Busy, SetAcked, Break, LockReply, WriteReply, Accept
        <5>3. ~ ((\E n \in Node : Lose(n)) \/ UNCHANGED vars)
          BY <4>1 DEF Lose, vars
        <5>4. ~ (ReceiveNack(k) \/ ReceiveData(k) \/ ReceiveJunk(k))
          BY <1>0, <2>3, <3>1 DEF ReceiveNack, ReceiveData, ReceiveJunk, Busy
        <5>5. ~ (SetAcked(k) \/ Break(k) \/ LockReply(k) \/ WriteReply(k) \/ Accept(k))
          BY <3>1 DEF SetAcked, Break, LockReply, WriteReply, Accept
        <5> QED BY <5>1, <5>2, <5>3, <5>4, <5>5 DEF Step, ParseStep
      <4> QED BY <1>0, <4>1, <4>2 DEF ReceiveAck, AckCounts, Busy
    <3>2. CASE rx[k].at # "idle"
      <4>1. rx'[k] = rx[k]
        <5>1. ~ SetAcked(k) /\ ~ Break(k) /\ ~ LockReply(k) /\ ~ WriteReply(k) /\ ~ Accept(k)
          <6>1. SetAcked(k) => rx'[k].at = "break"
            BY <1>0 DEF SetAcked, Parser
          <6>2. Break(k) \/ Accept(k) => rx'[k].at = "idle"
            BY <1>0 DEF Break, Accept, AtRest
          <6>3. LockReply(k) => rx'[k].at = "write"
            BY <1>0 DEF LockReply, Parser
          <6>4. WriteReply(k) => rx'[k].at \in {"accept", "idle"}
            BY <1>0 DEF WriteReply, Parser, AtRest
          <6> QED BY <2>3, <6>1, <6>2, <6>3, <6>4
        <5> QED BY <3>2, <5>1, BusySteps
      <4> QED BY <2>3, <4>1 DEF TimelyInv
    <3> QED BY <3>1, <3>2
  <2> QED BY <2>1, <2>2, <2>3 DEF TimelyInv
<1> QED BY <1>1, <1>2


\* The number of the last message, if numbers do not come round.
LEMMA LastNumber ==
  ASSUME IInv, NEW k \in Node, NumbersInv(k), NamesInv(k), Last(k) > 0
  PROVE  CurrentSeq(k) = Last(k) - 1 /\ Last(k) \in 1..Last(k)
<1>1. Last(k) \in 1..Last(k)
  BY Domains DEF IInv, Last
<1>2. sent[k][Last(k)].seq = Last(k) - 1
  BY <1>1 DEF NamesInv
<1> QED BY <1>1, <1>2 DEF NumbersInv

\* An acknowledgement that sets the flag is one of the last message.
LEMMA FlagOfLast ==
  ASSUME IInv, Step, NEW k \in Node, NumbersInv(k), NamesInv(k), OneToken(k), TimelyInv(k),
         SetAcked(k)
  PROVE  /\ currentAckedSeq'[k] = Last(k) - 1 /\ Last(k) \in 1..Last(k)
         /\ Waking(k) /\ Last(k)' = Last(k)
<1>1. rx[k].at = "flag" /\ Waking(k)
  BY DEF SetAcked, Waking
<1>2. PICK t \in Task : Home[t] = k /\ tx[t].at = "wait"
  BY <1>1 DEF OneToken, UnderWay
<1>3. Last(k) > 0
  BY <1>2, OneCall
<1>4. rx[k].frame.seq = CurrentSeq(k)
  BY <1>1 DEF TimelyInv
<1>5. currentAckedSeq'[k] = rx[k].frame.seq
  BY DEF SetAcked, IInv, TypeOK
<1>6. Last(k)' = Last(k)
  BY DEF SetAcked, Last
<1> QED BY <1>1, <1>3, <1>4, <1>5, <1>6, LastNumber

LEMMA MemoryStep ==
  ASSUME IInv, Step, NEW k \in Node, NumbersInv(k), NamesInv(k), OneToken(k), AllWaitsInv(k),
         TimelyInv(k), MemoryInv(k)
  PROVE  MemoryInv(k)'
<1> DEFINE L == Last(k)
           c == currentAckedSeq[k]
           d == currentAckedSeq'[k]
           Unheard == c = NoAckedSeq /\ \A i \in 1..L : sent[k][i].rel => sent[k][i].res # "ok"
<1>0. /\ tx \in [Task -> Sender] /\ L \in Nat /\ c \in Int /\ c >= -1
  BY Domains, ConstantsAssumption DEF IInv, TypeOK, Last, Seqs
<1>1. /\ c < L \/ Unheard
      /\ \A t \in Task : /\ Home[t] = k /\ tx[t].at \notin {"idle", "clear"}
                         /\ sent[k][L].rel /\ acked[k]
                         => c < L
  BY DEF MemoryInv
<1>2. \/ d = c /\ ~ SetAcked(k)
      \/ SetAcked(k) /\ d < L /\ Last(k)' = L
      \/ d = -1 /\ ~ SetAcked(k)
  <2>1. SetAcked(k) => d < L /\ Last(k)' = L
    <3> SUFFICES ASSUME SetAcked(k) PROVE d < L /\ Last(k)' = L
      OBVIOUS
    <3>1. d = L - 1 /\ Last(k)' = L
      BY FlagOfLast
    <3> HIDE DEF d, L
    <3> QED BY <1>0, <3>1
  <2> QED BY <2>1, MemorySteps
<1>3. CASE \E t \in Task : SendBegin(t) /\ Home[t] = k
  <2>1. PICK t \in Task : SendBegin(t) /\ Home[t] = k
    BY <1>3
  <2>2. /\ Last(k)' = L + 1 /\ sent'[k][L + 1].res = "pending"
        /\ sent'[k][L + 1].rel <=> L + 1 \in Reliable[k]
        /\ \A j \in 1..L : sent'[k][j] = sent[k][j]
    BY <2>1, Begun
  <2>3. d = c
    BY <2>1 DEF SendBegin
  <2>4. d < L + 1 \/ (d = NoAckedSeq
          /\ \A i \in 1..(L + 1) : sent'[k][i].rel => sent'[k][i].res # "ok")
    <3>1. CASE c < L
      <4> HIDE DEF c, d, L
      <4> QED BY <1>0, <2>3, <3>1
    <3>2. CASE Unheard
      <4> SUFFICES ASSUME NEW i \in 1..(L + 1), sent'[k][i].rel
                   PROVE  sent'[k][i].res # "ok"
        BY <2>3, <3>2
      <4>1. i \in 1..L \/ i = L + 1
        BY <1>0
      <4> QED BY <2>2, <3>2, <4>1
    <3> QED BY <1>1, <3>1, <3>2
  <2>5. ASSUME NEW u \in Task, Home[u] = k, tx'[u].at \notin {"idle", "clear"},
               sent'[k][L + 1].rel
        PROVE  FALSE
    <3>1. ~ InCall(k)
      BY <2>1, NothingBefore
    <3>2. u = t
      BY <1>0, <2>1, <2>5, <3>1 DEF SendBegin, InCall
    <3>3. tx'[t].at = IF L + 1 \in Reliable[k] THEN "clear" ELSE "lock"
      BY <1>0, <2>1 DEF SendBegin, Last
    <3> QED BY <2>2, <2>5, <3>2, <3>3
  <2> QED BY <2>2, <2>4, <2>5 DEF MemoryInv
<1>4. CASE ~ \E t \in Task : SendBegin(t) /\ Home[t] = k
  <2>1. Last(k)' = L
    BY <1>4, RecordedHere
  <2>2. c < L => d < L
    <3> HIDE DEF c, d, L
    <3> QED BY <1>0, <1>2
  <2>3. ASSUME Unheard, ~ (d < L), NEW i \in 1..L, sent'[k][i].rel
        PROVE  sent'[k][i].res # "ok"
    <3>1. sent[k][i].rel
      BY <1>4, <2>3, RecordedHere
    <3>2. ASSUME NEW t \in Task, Home[t] = k, i = L, CheckAcked(t), acked[k]
          PROVE  FALSE
      <4>1. tx[t].at = "check"
        BY <3>2 DEF CheckAcked
      <4>2. c < L
        BY <1>1, <3>1, <3>2, <4>1
      <4> QED BY <2>2, <2>3, <4>2
    <3> QED BY <1>4, <2>3, <3>1, <3>2, RecordedHere
  <2>4. d < L \/ (d = NoAckedSeq /\ \A i \in 1..L : sent'[k][i].rel => sent'[k][i].res # "ok")
    <3>1. CASE c < L
      BY <2>2, <3>1
    <3>2. CASE Unheard
      <4>1. d = c \/ d < L
        <5> HIDE DEF c, d, L
        <5> QED BY <1>0, <1>2
      <4> QED BY <2>3, <3>2, <4>1
    <3> QED BY <1>1, <3>1, <3>2
  <2>5. ASSUME NEW t \in Task, Home[t] = k, tx'[t].at \notin {"idle", "clear"},
               sent'[k][L].rel, acked'[k]
        PROVE  d < L
    <3>1. tx[t].at # "idle" /\ L \in 1..L
      <4>1. tx[t].at # "idle"
        <5>1. tx'[t] # tx[t] => SendStep(t)
          BY <1>4, <2>5, CallSteps
        <5>2. SendStep(t) => tx[t].at # "idle"
          BY DEF SendStep, ClearAcked, LockWrite, WriteFrame, WaitBreak, WaitTimeout, CheckAcked
        <5> QED BY <2>5, <5>1, <5>2
      <4> QED BY <1>0, <2>5, <4>1, OneCall
    <3>2. sent[k][L].rel
      BY <1>4, <2>5, <3>1, RecordedHere
    <3>3. ~ (\E u \in Task : ClearAcked(u) /\ Home[u] = k)
      BY <2>5, AckedSteps
    <3>4. CASE SetAcked(k)
      BY <1>2, <3>4
    <3>5. CASE ~ SetAcked(k)
      <4>1. acked[k]
        BY <2>5, <3>3, <3>5, AckedSteps
      <4>2. tx[t].at # "clear"
        <5> SUFFICES ASSUME tx[t].at = "clear" PROVE FALSE
          OBVIOUS
        <5>1. tx'[t] # tx[t]
          BY <2>5
        <5>2. SendStep(t)
          BY <1>4, <2>5, <5>1, CallSteps
        <5>3. ClearAcked(t)
          BY <5>2 DEF SendStep, LockWrite, WriteFrame, WaitBreak, WaitTimeout, CheckAcked
        <5> QED BY <2>5, <3>3, <5>3
      <4>3. c < L
        BY <1>1, <2>5, <3>1, <3>2, <4>1, <4>2
      <4> QED BY <2>2, <4>3
    <3> QED BY <3>4, <3>5
  <2> QED BY <2>1, <2>4, <2>5 DEF MemoryInv
<1> QED BY <1>3, <1>4


LEMMA FreshBegin ==
  ASSUME EnoughNumbers, FirstCounts, IInv, Step, NEW k \in Node, OneToken(k), NumbersInv(k)',
         NamesInv(k)', IInv', EntriesInv(k), MemoryInv(k), NoTimeout(k),
         NEW u \in Task, SendBegin(u), Home[u] = k
  PROVE  FreshInv(k)'
<1> DEFINE L == Last(k)
           c == currentAckedSeq[k]
<1>0. tx \in [Task -> Sender] /\ L \in Nat /\ c \in Int /\ ~ InCall(k)
  <2>1. tx \in [Task -> Sender] /\ currentAckedSeq \in [Node -> Seqs \cup {-1}]
    BY DEF IInv, TypeOK
  <2>2. c \in Int
    BY <2>1, ConstantsAssumption DEF Seqs
  <2>3. L \in Nat
    BY Domains DEF IInv, Last
  <2> QED BY <2>1, <2>2, <2>3, NothingBefore
<1>1. /\ Last(k)' = L + 1
      /\ sent'[k][L + 1].rel <=> L + 1 \in Reliable[k]
      /\ currentAckedSeq'[k] = c
  BY Begun DEF SendBegin
<1>2. CurrentSeq(k)' = L
  <2>1. L + 1 \in 1..Last(k)' /\ Last(k)' > 0
    BY <1>0, <1>1
  <2>2. sent'[k][L + 1].seq = (L + 1) - 1
    BY <2>1 DEF NamesInv
  <2>3. CurrentSeq(k)' = sent'[k][L + 1].seq
    BY <1>1, <2>1 DEF NumbersInv
  <2> QED BY <1>0, <2>2, <2>3
<1>3. ASSUME L + 1 \in Reliable[k]
      PROVE  c # L
  <2>1. CASE c < L
    <3> HIDE DEF c, L
    <3> QED BY <1>0, <2>1
  <2>2. CASE c = NoAckedSeq /\ \A i \in 1..L : sent[k][i].rel => sent[k][i].res # "ok"
    <3> SUFFICES ASSUME c = L PROVE FALSE
      OBVIOUS
    <3>1. NoAckedSeq = L
      BY <2>2
    <3>2. PICK i \in 1..L : i \in Reliable[k]
      BY <1>3, <3>1 DEF FirstCounts
    <3>3. sent[k][i].rel /\ sent[k][i].res # "pending"
      BY <1>0, <3>2 DEF EntriesInv
    <3>4. sent[k][i].res # "timeout"
      BY <3>2 DEF NoTimeout
    <3>5. sent[k][i].res \in {"pending", "ok", "timeout"}
      <4>1. sent[k] \in Seq(Entry)
        BY Domains DEF IInv
      <4>2. sent[k][i] \in Entry
        BY <3>2, <4>1, ElementOfSeq DEF Last
      <4> QED BY <4>2 DEF Entry
    <3> QED BY <2>2, <3>2, <3>3, <3>4, <3>5
  <2>3. c < L \/ (c = NoAckedSeq /\ \A i \in 1..L : sent[k][i].rel => sent[k][i].res # "ok")
    BY DEF MemoryInv
  <2> QED BY <2>1, <2>2, <2>3
<1>4. ASSUME currentAckedSeq'[k] = CurrentSeq(k)', sent'[k][Last(k)'].rel
      PROVE  FALSE
  BY <1>1, <1>2, <1>3, <1>4
<1> QED BY <1>4 DEF FreshInv

LEMMA FreshStep ==
  ASSUME IInv, Step, NEW k \in Node, NumbersInv(k), NamesInv(k), OneToken(k),
         AllWaitsInv(k), TimelyInv(k), FreshInv(k),
         ~ \E t \in Task : SendBegin(t) /\ Home[t] = k
  PROVE  FreshInv(k)'
<1> DEFINE L == Last(k)
<1>0. /\ tx \in [Task -> Sender] /\ rx \in [Node -> Parser] /\ L \in Nat /\ Last(k)' = L
      /\ acked \in [Node -> BOOLEAN]
  BY RecordedHere DEF IInv, TypeOK
<1>1. CurrentSeq(k)' = CurrentSeq(k)
  <2>1. sequence'[k] = sequence[k]
    BY SequenceSteps
  <2> QED BY <2>1 DEF CurrentSeq
<1> SUFFICES ASSUME NEW t \in Task, Home[t] = k, tx'[t].at # "idle", sent'[k][L].rel,
                    currentAckedSeq'[k] = CurrentSeq(k)
             PROVE  /\ acked'[k] /\ tx'[t].at \in {"wait", "check"}
                    /\ tx'[t].at = "wait" => rx'[k].at = "break" \/ Woken(k)'
  BY <1>0, <1>1 DEF FreshInv
<1>2. tx[t].at # "idle" /\ L \in 1..L
  <2>1. tx'[t] # tx[t] => SendStep(t)
    BY CallSteps
  <2>2. SendStep(t) => tx[t].at # "idle"
    BY DEF SendStep, ClearAcked, LockWrite, WriteFrame, WaitBreak, WaitTimeout, CheckAcked
  <2>3. tx[t].at # "idle"
    BY <2>1, <2>2
  <2> QED BY <1>0, <2>3, OneCall
<1>3. sent[k][L].rel
  BY <1>2, RecordedHere
<1>4. CASE SetAcked(k)
  <2>1. Waking(k)
    BY <1>4, FlagOfLast
  <2>2. tx[t].at = "wait"
    BY <1>2, <2>1, OneSleeps DEF UnderWay
  <2>3. tx' = tx /\ acked'[k] /\ rx'[k].at = "break"
    BY <1>0, <1>4 DEF SetAcked, Parser
  <2> QED BY <2>2, <2>3
<1>5. CASE currentAckedSeq'[k] = -1
  <2>1. CurrentSeq(k) = L - 1 /\ L > 0
    BY <1>0, <1>2, LastNumber
  <2>2. CurrentSeq(k) = -1
    BY <1>5
  <2>3. FALSE
    <3> HIDE DEF L
    <3> QED BY <1>0, <2>1, <2>2
  <2> QED BY <2>3
<1>6. CASE currentAckedSeq'[k] = currentAckedSeq[k] /\ ~ SetAcked(k)
  <2>1. /\ acked[k] /\ tx[t].at \in {"wait", "check"}
        /\ tx[t].at = "wait" => rx[k].at = "break" \/ Woken(k)
    BY <1>2, <1>3, <1>6 DEF FreshInv
  <2>2. acked'[k]
    <3>1. ASSUME NEW u \in Task, ClearAcked(u), Home[u] = k
          PROVE  FALSE
      <4>1. tx[u].at = "clear"
        BY <3>1 DEF ClearAcked
      <4>2. u = t
        BY <1>2, <3>1, <4>1, OneCall
      <4> QED BY <2>1, <4>1, <4>2
    <3> QED BY <1>6, <2>1, <3>1, AckedSteps
  <2>3. CASE tx'[t] = tx[t]
    <3>1. ASSUME tx[t].at = "wait"
          PROVE  rx'[k].at = "break" \/ Woken(k)'
      <4>1. ~ Slept(k)
        <5> SUFFICES ASSUME NEW u \in Task, Home[u] = k, WaitBreak(u) PROVE FALSE
          BY DEF Slept
        <5>1. u = t
          BY <3>1, OneCall DEF WaitBreak
        <5>2. tx'[t].at = "check"
          BY <1>0, <5>1 DEF WaitBreak, Sender
        <5> QED BY <2>3, <3>1, <5>2
      <4>2. CASE rx[k].at = "break"
        <5>1. rx'[k] = rx[k] \/ Break(k)
          <6>1. ~ SetAcked(k) /\ ~ LockReply(k) /\ ~ WriteReply(k) /\ ~ Accept(k)
            BY <4>2 DEF SetAcked, LockReply, WriteReply, Accept
          <6> QED BY <4>2, <6>1, BusySteps
        <5>2. CASE Break(k)
          <6>1. interruptSem \in [Node -> Nat]
            BY DEF IInv, TypeOK
          <6>2. interruptSem'[k] = interruptSem[k] + 1 /\ interruptSem[k] \in Nat
            BY <5>2, <6>1 DEF Break
          <6> QED BY <6>2 DEF Woken
        <5> QED BY <4>2, <5>1, <5>2
      <4>3. CASE Woken(k)
        BY <4>1, <4>3, SemSteps DEF Woken
      <4> QED BY <2>1, <3>1, <4>2, <4>3
    <3> QED BY <2>1, <2>2, <2>3, <3>1
  <2>4. CASE tx'[t] # tx[t]
    <3>1. WaitBreak(t) \/ WaitTimeout(t)
      <4>1. ~ CheckAcked(t)
        <5> SUFFICES ASSUME CheckAcked(t) PROVE FALSE
          OBVIOUS
        <5>1. tx' = [tx EXCEPT ![t] = Resting]
          BY <2>1 DEF CheckAcked, Return
        <5> QED BY <1>0, <5>1 DEF Resting
      <4> QED BY <2>1, <2>4, <4>1, CallSteps
              DEF SendBegin, SendStep, ClearAcked, LockWrite, WriteFrame
    <3>2. tx'[t].at = "check"
      BY <1>0, <3>1 DEF WaitBreak, WaitTimeout, Sender
    <3> QED BY <2>2, <3>2
  <2> QED BY <2>3, <2>4
<1> QED BY <1>4, <1>5, <1>6, MemorySteps




\* A write to a line that is not full puts the question there.
LEMMA AskedUnlessFull ==
  ASSUME IInv, NEW t \in Task, WriteFrame(t), PacketOf(t).rel, ~ Full(Home[t])
  PROVE  UnderWay(Home[t])'
<1> DEFINE k == Home[t]
           p == Peer(k)
           f == PacketOf(t)
<1>0. /\ k \in Node /\ p \in Node /\ wire \in [Node -> Seq(Frame)]
      /\ wire[p] \in Seq(Frame) /\ Len(wire[p]) \in Nat
  BY Peers, Domains, ConstantsAssumption DEF IInv, TypeOK
<1>1. f \in Frame /\ f.type = "data"
  <2>1. tx[t].msg = Last(k) /\ Last(k) > 0 /\ Last(k) \in Nat
    BY <1>0, OneCall, Domains DEF WriteFrame, IInv, Last
  <2>2. sent[k][tx[t].msg] \in Entry /\ tx[t].msg \in Nat
    BY <1>0, <2>1, Domains, ElementOfSeq DEF Last, IInv, TypeOK
  <2> QED BY <2>2, Frames DEF PacketOf, DataFrame
<1>2. wire'[p] = Append(wire[p], f)
  <2>1. Len(wire[p]) < WireCap
    BY <1>0, ConstantsAssumption DEF Full
  <2>2. wire' = [wire EXCEPT ![p] = IF Len(wire[p]) < WireCap THEN Append(wire[p], f)
                                                               ELSE wire[p]]
    BY <1>0 DEF WriteFrame, Put
  <2> QED BY <1>0, <2>1, <2>2
<1>3. Len(wire'[p]) = Len(wire[p]) + 1 /\ wire'[p][Len(wire[p]) + 1] = f
  BY <1>0, <1>1, <1>2, AppendProperties
<1>4. Len(wire[p]) + 1 \in 1..Len(wire'[p])
  BY <1>0, <1>3
<1>5. Len(wire[p]) + 1 \in Asks(k)'
  BY <1>1, <1>3, <1>4 DEF Asks
<1> QED BY <1>5 DEF UnderWay

\* A timeout is slept through only when nothing is under way.
LEMMA TimeoutAlone ==
  ASSUME Prompt, NEW k \in Node, NEW t \in Task, Home[t] = k, WaitTimeout(t)
  PROVE  ~ UnderWay(k)
<1>1. Quiet /\ interruptSem[k] = 0
  BY DEF WaitTimeout, Prompt
<1>2. /\ wire[k] = <<>> /\ wire[Peer(k)] = <<>>
      /\ rx[k].at = "idle" /\ rx[Peer(k)].at = "idle"
  BY <1>1, Peers DEF Quiet
<1>3. Len(wire[k]) = 0 /\ Len(wire[Peer(k)]) = 0
  BY <1>2, EmptySeq
<1>4. Asks(k) = {} /\ Answers(k) = {}
  BY <1>3 DEF Asks, Answers
<1> QED BY <1>1, <1>2, <1>4 DEF UnderWay, AtWork, Waking, Woken

LEMMA PaidBegin ==
  ASSUME IInv, [BudgetNext]_budgetVars, Step, lost \in Nat, NEW k \in Node, OneToken(k),
         NEW u \in Task, SendBegin(u), Home[u] = k
  PROVE  PaidInv(k)'
<1>0. tx \in [Task -> Sender] /\ lost' \in Nat
  BY LostGrows DEF IInv, TypeOK
<1>1. Last(k)' = Last(k) + 1 /\ sent'[k][Last(k) + 1].waits = 0
  BY Begun
<1>2. ASSUME NEW t \in Task, Home[t] = k, tx'[t].at # "idle"
      PROVE  tx'[t].at # "wait"
  <2>1. tx[t].at = "idle"
    BY <1>2, NothingBefore DEF InCall
  <2>2. t = u
    BY <1>0, <1>2, <2>1 DEF SendBegin
  <2> QED BY <1>0, <2>2 DEF SendBegin, Sender
<1>3. ASSUME NEW t \in Task, Home[t] = k, tx'[t].at # "idle"
      PROVE  sent'[k][Last(k)'].waits
               + (IF tx'[t].at = "wait" /\ ~ UnderWay(k)' THEN 1 ELSE 0) <= lost'
  <2>1. tx'[t].at # "wait" /\ sent'[k][Last(k)'].waits = 0
    BY <1>1, <1>2, <1>3
  <2> QED BY <1>0, <2>1
<1> QED BY <1>3 DEF PaidInv

LEMMA PaidStep ==
  ASSUME Prompt, IInv, [BudgetNext]_budgetVars, Step, lost \in Nat, InBudget, NEW k \in Node,
         KindsInv(Peer(k)), OneToken(k), AllWaitsInv(k), TimelyInv(k), FreshInv(k),
         PaidInv(k), ~ \E t \in Task : SendBegin(t) /\ Home[t] = k
  PROVE  PaidInv(k)'
<1> DEFINE L == Last(k)
           w == sent[k][L].waits
           v == sent'[k][L].waits
<1>0. /\ tx \in [Task -> Sender] /\ L \in Nat /\ Last(k)' = L
      /\ lost' \in Nat /\ lost' >= lost
  BY RecordedHere, LostGrows DEF IInv, TypeOK
<1> SUFFICES ASSUME NEW t \in Task, Home[t] = k, tx'[t].at # "idle"
             PROVE  v + (IF tx'[t].at = "wait" /\ ~ UnderWay(k)' THEN 1 ELSE 0) <= lost'
  BY <1>0 DEF PaidInv
<1>1. /\ tx[t].at # "idle" /\ L \in 1..L
      /\ tx'[t] # tx[t] => SendStep(t)
  <2>1. tx'[t] # tx[t] => SendStep(t)
    BY CallSteps
  <2>2. SendStep(t) => tx[t].at # "idle"
    BY DEF SendStep, ClearAcked, LockWrite, WriteFrame, WaitBreak, WaitTimeout, CheckAcked
  <2>3. tx[t].at # "idle"
    BY <2>1, <2>2
  <2> QED BY <1>0, <2>1, <2>3, OneCall
<1>2. w \in Nat
  <2>1. sent[k][L] \in Entry
    BY <1>1, RecordedHere
  <2> QED BY <2>1 DEF Entry
<1>3. w + (IF tx[t].at = "wait" /\ ~ UnderWay(k) THEN 1 ELSE 0) <= lost
  BY <1>1 DEF PaidInv
<1>4. w <= lost /\ (tx[t].at = "wait" /\ ~ UnderWay(k) => w + 1 <= lost)
  <2>1. w <= lost
    <3> HIDE DEF w
    <3> QED BY <1>2, <1>3
  <2> QED BY <1>3, <2>1
<1>5. CASE WaitTimeout(t)
  <2>1. tx[t].at = "wait" /\ ~ UnderWay(k)
    BY <1>5, TimeoutAlone DEF WaitTimeout
  <2>2. v = w + 1
    BY <1>5, WaitedStep
  <2>3. tx'[t].at = "check"
    BY <1>0, <1>5 DEF WaitTimeout, Sender
  <2>4. v <= lost'
    <3> HIDE DEF v, w
    <3> QED BY <1>0, <1>2, <1>4, <2>1, <2>2
  <2>5. v \in Nat
    BY <1>2, <2>2
  <2> HIDE DEF v
  <2> QED BY <2>3, <2>4, <2>5
<1>6. CASE ~ WaitTimeout(t)
  <2>1. v = w
    <3>1. ASSUME NEW u \in Task, Home[u] = k, WaitTimeout(u)
          PROVE  u = t
      BY <1>1, <3>1, OneCall DEF WaitTimeout
    <3> QED BY <1>1, <1>6, <3>1, RecordedHere
  <2>2. ASSUME tx'[t].at = "wait", ~ UnderWay(k)'
        PROVE  w + 1 <= lost'
    <3>1. CASE tx'[t] = tx[t]
      <4>1. ASSUME UnderWay(k)
            PROVE  lost' = lost + 1
        <5>1. ~ Slept(k)
          <6> SUFFICES ASSUME NEW u \in Task, Home[u] = k, WaitBreak(u) PROVE FALSE
            BY DEF Slept
          <6>1. u = t
            BY <1>1, OneCall DEF WaitBreak
          <6>2. tx'[t].at = "check"
            BY <1>0, <6>1 DEF WaitBreak, Sender
          <6> QED BY <2>2, <6>2
        <5> QED BY <2>2, <4>1, <5>1, UnderWayKept
      <4>2. ~ UnderWay(k) => w + 1 <= lost
        BY <1>4, <2>2, <3>1
      <4> HIDE DEF w
      <4> QED BY <1>0, <1>2, <1>4, <4>1, <4>2
    <3>2. CASE tx'[t] # tx[t]
      <4>1. WriteFrame(t) /\ PacketOf(t).rel
        <5>1. tx'[t].at # "lock" /\ tx'[t].at # "check" /\ tx'[t].at # "write"
          BY <2>2
        <5> QED BY <1>0, <1>1, <2>2, <3>2, <5>1, TurnSteps
      <4>2. Full(k)
        BY <2>2, <4>1, AskedUnlessFull
      <4>3. Count(tx[t].at = "write" /\ Full(k))
        BY <1>1, <3>2, BudgetCall
      <4>4. lost' = lost + 1
        BY <4>1, <4>2, <4>3 DEF WriteFrame, Count
      <4> HIDE DEF w
      <4> QED BY <1>0, <1>2, <1>4, <4>4
    <3> QED BY <3>1, <3>2
  <2>3. v <= lost'
    <3> HIDE DEF v, w
    <3> QED BY <1>0, <1>2, <1>4, <2>1
  <2> HIDE DEF v, w
  <2> QED BY <1>2, <2>1, <2>2, <2>3
<1> QED BY <1>5, <1>6

\* A call that gives up has slept through RetryTimes + 1 timeouts, and that many
\* frames have not been lost.
LEMMA NoTimeoutStep ==
  ASSUME IInv, Step, lost \in Nat, InBudget, NEW k \in Node, AllWaitsInv(k), PaidInv(k),
         NoTimeout(k), ~ \E t \in Task : SendBegin(t) /\ Home[t] = k
  PROVE  NoTimeout(k)'
<1> DEFINE L == Last(k)
           w == sent[k][L].waits
<1>0. L \in Nat /\ Last(k)' = L /\ RetryTimes \in Nat /\ tx \in [Task -> Sender]
  BY RecordedHere, ConstantsAssumption DEF IInv, TypeOK
<1> SUFFICES ASSUME NEW i \in 1..L, sent'[k][i].res = "timeout"
             PROVE  FALSE
  BY <1>0 DEF NoTimeout
<1>1. sent[k][i].res # "timeout"
  BY DEF NoTimeout
<1>2. PICK t \in Task : /\ Home[t] = k /\ i = L /\ CheckAcked(t)
                        /\ ~ acked[k] /\ ~ TriesLeft(tx[t].tries)
  BY <1>1, RecordedHere
<1>3. tx[t].at = "check" /\ tx[t].tries = 0
  <2>1. tx[t].tries \in 0..RetryTimes
    BY <1>0 DEF Sender
  <2> QED BY <1>0, <1>2, <2>1 DEF CheckAcked, TriesLeft
<1>4. w = RetryTimes - 0 + 1
  BY <1>2, <1>3 DEF AllWaitsInv
<1>5. w + 0 <= lost
  <2>1. w + (IF tx[t].at = "wait" /\ ~ UnderWay(k) THEN 1 ELSE 0) <= lost
    BY <1>2, <1>3 DEF PaidInv
  <2> QED BY <1>3, <2>1
<1>6. lost <= RetryTimes
  BY DEF InBudget
<1> HIDE DEF w
<1> QED BY <1>0, <1>4, <1>5, <1>6

LEMMA NoTimeoutBegin ==
  ASSUME IInv, NEW k \in Node, NoTimeout(k), NEW u \in Task, SendBegin(u), Home[u] = k
  PROVE  NoTimeout(k)'
<1>1. /\ Last(k)' = Last(k) + 1 /\ Last(k) \in Nat
      /\ sent'[k][Last(k) + 1].res = "pending"
      /\ \A j \in 1..Last(k) : sent'[k][j] = sent[k][j]
  BY Begun
<1>2. ASSUME NEW i \in 1..(Last(k) + 1)
      PROVE  sent'[k][i].res # "timeout"
  <2>1. i \in 1..Last(k) \/ i = Last(k) + 1
    BY <1>1
  <2> QED BY <1>1, <2>1 DEF NoTimeout
<1> QED BY <1>1, <1>2 DEF NoTimeout


LEMMA BudgetStart == FirstCounts /\ BudgetInit => BudgetInv
<1> SUFFICES ASSUME FirstCounts, BudgetInit, NEW n \in Node
             PROVE  /\ EntriesInv(n) /\ TimelyInv(n) /\ MemoryInv(n)
                    /\ FreshInv(n) /\ PaidInv(n) /\ NoTimeout(n)
  BY DEF BudgetInv, BudgetInit
<1>1. /\ Last(n) = 0 /\ wire[n] = <<>> /\ rx[n] = AtRest
      /\ currentAckedSeq[n] = NoAckedSeq /\ \A t \in Task : tx[t].at = "idle"
  BY EmptySeq DEF BudgetInit, Init, Last, Resting
<1>2. Len(wire[n]) = 0
  BY <1>1, EmptySeq
<1> QED BY <1>1, <1>2 DEF EntriesInv, TimelyInv, MemoryInv, FreshInv, PaidInv, NoTimeout,
                          Answers, AtRest

LEMMA BudgetStep ==
  /\ Prompt /\ EnoughNumbers /\ FirstCounts /\ IInv /\ IInv' /\ PromptInv /\ DeliveredInv
  /\ PromptInv' /\ DeliveredInv' /\ BudgetInv /\ [BudgetNext]_budgetVars
  => BudgetInv'
<1> SUFFICES ASSUME Prompt, EnoughNumbers, FirstCounts, IInv, IInv', PromptInv, DeliveredInv,
                    PromptInv', DeliveredInv', BudgetInv, [BudgetNext]_budgetVars
             PROVE  BudgetInv'
  OBVIOUS
<1>1. Step /\ lost \in Nat /\ lost' \in Nat /\ lost' >= lost
  BY BudgetSteps, LostGrows DEF BudgetInv
<1>2. InBudget' => InBudget
  BY <1>1, ConstantsAssumption DEF InBudget
<1>3. ASSUME NEW k \in Node
      PROVE  /\ EntriesInv(k)' /\ TimelyInv(k)' /\ MemoryInv(k)'
             /\ InBudget' => FreshInv(k)' /\ PaidInv(k)' /\ NoTimeout(k)'
  <2>1. /\ NumbersInv(k) /\ KindsInv(k) /\ KindsInv(Peer(k)) /\ OneToken(k)
        /\ AllWaitsInv(k) /\ NamesInv(k) /\ AnswerInv(k)
        /\ NumbersInv(k)' /\ NamesInv(k)'
        /\ EntriesInv(k) /\ TimelyInv(k) /\ MemoryInv(k)
        /\ InBudget => FreshInv(k) /\ PaidInv(k) /\ NoTimeout(k)
    BY Peers DEF PromptInv, DeliveredInv, BudgetInv
  <2>2. EntriesInv(k)' /\ TimelyInv(k)' /\ MemoryInv(k)'
    BY <1>1, <2>1, EntriesStep, TimelyStep, MemoryStep
  <2>3. CASE \E u \in Task : SendBegin(u) /\ Home[u] = k
    <3>1. PICK u \in Task : SendBegin(u) /\ Home[u] = k
      BY <2>3
    <3>2. InBudget => FreshInv(k)'
      BY <1>1, <2>1, <3>1, FreshBegin
    <3>3. PaidInv(k)'
      BY <1>1, <2>1, <3>1, PaidBegin
    <3>4. InBudget => NoTimeout(k)'
      BY <2>1, <3>1, NoTimeoutBegin
    <3> QED BY <1>2, <2>2, <3>2, <3>3, <3>4
  <2>4. CASE ~ \E u \in Task : SendBegin(u) /\ Home[u] = k
    <3>1. InBudget => FreshInv(k)'
      BY <1>1, <2>1, <2>4, FreshStep
    <3>2. InBudget => PaidInv(k)'
      BY <1>1, <2>1, <2>4, PaidStep
    <3>3. InBudget => NoTimeout(k)'
      BY <1>1, <2>1, <2>4, NoTimeoutStep
    <3> QED BY <1>2, <2>2, <3>1, <3>2, <3>3
  <2> QED BY <2>3, <2>4
<1> QED BY <1>1, <1>3 DEF BudgetInv

\* With prompt answers and no number used twice, no send reports a timeout while
\* the line has lost no more frames than a send has retries: each timeout a call
\* sleeps through is paid for with a frame of its own that was lost.
THEOREM NoTimeoutInBudget ==
  Prompt /\ EnoughNumbers /\ FirstCounts => (BudgetSpec => []NoFalseTimeout)
<1> SUFFICES ASSUME Prompt, EnoughNumbers, FirstCounts
             PROVE  BudgetSpec => []NoFalseTimeout
  OBVIOUS
<1>1. IInv /\ BudgetInv => NoFalseTimeout
  <2> SUFFICES ASSUME IInv, BudgetInv, InBudget, NEW n \in Node, NEW e \in Entries(n)
               PROVE  e.res # "timeout"
    BY DEF NoFalseTimeout
  <2>1. PICK i \in DOMAIN sent[n] : e = sent[n][i]
    BY DEF Entries
  <2>2. i \in 1..Last(n)
    BY <2>1, Domains DEF IInv, Last
  <2> QED BY <2>1, <2>2 DEF BudgetInv, NoTimeout
<1>2. BudgetInit => IInv /\ PromptInv /\ DeliveredInv /\ BudgetInv
  BY IInvInit, PromptInit, DeliveredInit, BudgetStart DEF BudgetInit
<1>3. /\ IInv /\ PromptInv /\ DeliveredInv /\ BudgetInv /\ [BudgetNext]_budgetVars
      => IInv' /\ PromptInv' /\ DeliveredInv' /\ BudgetInv'
  <2> SUFFICES ASSUME IInv, PromptInv, DeliveredInv, BudgetInv, [BudgetNext]_budgetVars
               PROVE  IInv' /\ PromptInv' /\ DeliveredInv' /\ BudgetInv'
    OBVIOUS
  <2>1. [Next]_vars
    BY BudgetSteps
  <2>2. IInv' /\ PromptInv' /\ DeliveredInv'
    BY <2>1, IInvStep, PromptStep, DeliveredStep
  <2> QED BY <2>2, BudgetStep
<1> QED BY <1>1, <1>2, <1>3, PTL DEF BudgetSpec

===============================================================================
