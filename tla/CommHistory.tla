------------------------------ MODULE CommHistory ------------------------------
(***************************************************************************)
(* What the return value of a send says about its message when no end is   *)
(* restarted and the line only loses frames.  If every send is reliable    *)
(* and answers may be late, an acknowledgement may outlive its send, and   *)
(* so may the break it posts: the invariants behind OneBreakPerSequence,   *)
(* SuccessAfterCleanHistory and TimeoutMeansMostWaits say how far.  If     *)
(* answers are prompt, none does, whatever else is sent: those behind      *)
(* NoBreakLeftBehind, TimeoutMeansAllWaits and SuccessMeansDelivered.      *)
(***************************************************************************)
EXTENDS CommProtocol

EverySendAsks == \A n \in Node : 1..MaxSends[n] \subseteq Reliable[n]
OnlyLosses == EverySendAsks /\ Restarts = {} /\ "corrupt" \notin Faults
EnoughNumbers == \A n \in Node : MaxSends[n] <= SeqMod

\* The number of n's last message, the one under way while a call is.
Last(n) == Len(sent[n])

\* The frames on their way to n, and the messages of n on their way.
FramesTo(n) == {wire[n][i] : i \in 1..Len(wire[n])} \cup {rx[n].frame}
OnWay(n) == {f.msg : f \in {g \in FramesTo(Peer(n)) : g.type = "data"}}

-----------------------------------------------------------------------------
(* One break for one sequence number                                       *)

\* Everything on its way asks for an acknowledgement, so that nothing makes an
\* end forget the number it last saw acknowledged.
ReliableInv(n) ==
  /\ \A i \in 1..Last(n) : sent[n][i].rel
  /\ \A f \in FramesTo(n) : f.type = "data" => f.rel

\* Once an acknowledgement of the last message has counted, its number is about
\* to be remembered or is remembered.
BreakInv(n) ==
  /\ \A i \in 1..Last(n) : sent[n][i].breaks <= 1
  /\ Last(n) > 0 /\ sent[n][Last(n)].breaks = 1 =>
       IF rx[n].at = "flag" THEN rx[n].frame.seq = CurrentSeq(n)
                            ELSE currentAckedSeq[n] = CurrentSeq(n)

OneBreakInv == \A n \in Node : ReliableInv(n) /\ BreakInv(n)

-----------------------------------------------------------------------------
(* Success means delivered                                                 *)

AtClear(n) == \E t \in Task : Home[t] = n /\ tx[t].at = "clear"

\* Neighbours have different numbers, and a call has not returned before it
\* returns.
NumbersInv(n) ==
  /\ Last(n) > 0 => CurrentSeq(n) = sent[n][Last(n)].seq
  /\ \A i \in 1..Last(n) : i > 1 => sent[n][i - 1].seq # sent[n][i].seq
  /\ \A t \in Task : Home[t] = n /\ tx[t].at # "idle"
                       => sent[n][Last(n)].res = "pending"

\* A message counts as given to the application when its inbox has it, and only
\* then is a number remembered as received.
GotInv(n) ==
  LET p == Peer(n) IN
  /\ \A i \in 1..Last(n) :
       sent[n][i].got <=> \E k \in 1..Len(inbox[p]) : inbox[p][k] = i
  /\ lastRecvSeq[p] # -1 => inbox[p] # <<>>

\* The calls before the one for message i have returned 0.
CleanBefore(n, i) == \A j \in 1..(i - 1) : sent[n][j].res = "ok"

\* An acknowledgement of the last message, ...
AckOfLast(n, f) == f.type = "ack" /\ f.seq = CurrentSeq(n)

\* ... the flag such a one has set, ...
Flagged(n) == acked[n] /\ ~ AtClear(n)

\* ... and what either of them says: the message is there, what is still on the
\* line repeats it, and so do the acknowledgements behind place k.
Through(n, k) ==
  /\ Arrived(n, Last(n))
  /\ \A m \in OnWay(n) : m >= Last(n)
  /\ \A i \in 1..Len(wire[n]) :
       k < i /\ wire[n][i].type = "ack" => AckOfLast(n, wire[n][i])

\* How far the last message has come.  Before the first nothing is answered;
\* later ones follow a message that is through.
FlowInv(n) ==
  IF Last(n) = 0
  THEN /\ rx[n].at # "flag"
       /\ \A i \in 1..Len(wire[n]) : wire[n][i].type # "ack"
  ELSE CleanBefore(n, Last(n)) =>
       /\ \A m \in OnWay(n) : m >= Last(n) - 1
       /\ AtClear(n) => Last(n) \notin OnWay(n) /\ ~ sent[n][Last(n)].got
       /\ \A i \in 1..Len(wire[n]) : AckOfLast(n, wire[n][i]) => Through(n, i)
       /\ rx[n].at = "flag" => /\ Through(n, 0)
                               /\ rx[n].frame.seq = CurrentSeq(n)
                               /\ currentAckedSeq[n] # CurrentSeq(n)
       /\ Flagged(n) => /\ Through(n, 0)
                        /\ currentAckedSeq[n] = CurrentSeq(n)
       /\ sent[n][Last(n)].res = "ok" => Flagged(n)

SuccessInv(n) ==
  \A i \in 1..Last(n) :
    CleanBefore(n, i) /\ sent[n][i].res = "ok" => Arrived(n, i)

HistoryInv ==
  \A n \in Node : /\ ReliableInv(n) /\ NumbersInv(n) /\ GotInv(n)
                  /\ FlowInv(n) /\ SuccessInv(n)

-----------------------------------------------------------------------------
(* A timeout means waiting                                                 *)

\* Without damage there are data frames and acknowledgements only.
KindsInv(n) ==
  /\ \A i \in 1..Len(wire[n]) : wire[n][i].type \in {"data", "ack"}
  /\ rx[n].at \in {"lock", "write"} => rx[n].frame.type = "data"

\* With no more messages than numbers, an acknowledgement names its message.
NamesInv(n) ==
  /\ Last(n) <= MaxSends[n]
  /\ \A i \in 1..Last(n) : sent[n][i].seq = i - 1
  /\ Last(n) < SeqMod => sequence[n] = Last(n)
  /\ \A f \in FramesTo(n) : f.type = "ack" => f.seq < Last(n)
  /\ KindsInv(n)
  /\ AtClear(n) =>
       /\ Last(n) \notin OnWay(n)
       /\ sent[n][Last(n)].breaks = 0
       /\ \A f \in FramesTo(n) : ~ AckOfLast(n, f)

\* The breaks posted or about to be, and how many sleeps of the call of t they
\* have ended.
BreaksLeft(n) == interruptSem[n] + IF rx[n].at \in {"flag", "break"} THEN 1 ELSE 0
CutShort(t) == RetryTimes - tx[t].tries + (IF tx[t].at = "check" THEN 1 ELSE 0)
                 - sent[Home[t]][tx[t].msg].waits

\* A call leaves at most one break behind, and one more comes when its
\* acknowledgement is late, so that the next has two to spend besides its own.
LeftInv(n) ==
  IF Last(n) = 0
  THEN BreaksLeft(n) = 0
  ELSE LET own == sent[n][Last(n)].breaks IN
       /\ own = 1 => rx[n].at = "flag" \/ acked[n]
       /\ (\A t \in Task : Home[t] = n => tx[t].at = "idle")
            => BreaksLeft(n) <= 1 + own
       /\ \A t \in Task : Home[t] = n /\ tx[t].at # "idle" =>
            /\ CutShort(t) >= 0
            /\ BreaksLeft(n) + CutShort(t) <= 2 + own
            /\ tx[t].at = "check" /\ CutShort(t) = 0 => BreaksLeft(n) <= 1 + own

WaitsInv(n) ==
  \A i \in 1..Last(n) :
    sent[n][i].res = "timeout" => sent[n][i].waits >= RetryTimes - 1

TimeoutInv == \A n \in Node : NamesInv(n) /\ LeftInv(n) /\ WaitsInv(n)

\* The three together are kept by every step under OnlyLosses and EnoughNumbers.
CallsInv == OneBreakInv /\ HistoryInv /\ TimeoutInv

-----------------------------------------------------------------------------
(* Prompt answers                                                          *)

\* The sends need not be reliable here.
Prompt == AckPrompt /\ Restarts = {} /\ "corrupt" \notin Faults

\* Where the question of a reliable send of n may be, or what came of it: on the
\* line to the peer, in its hands, on the way back, in n's hands, and posted.
Asks(n) == {i \in 1..Len(wire[Peer(n)]) :
              wire[Peer(n)][i].type = "data" /\ wire[Peer(n)][i].rel}
AtWork(n) == rx[Peer(n)].at \in {"lock", "write"}
Answers(n) == {i \in 1..Len(wire[n]) : wire[n][i].type = "ack"}
Waking(n) == rx[n].at \in {"flag", "break"}
Woken(n) == interruptSem[n] > 0
UnderWay(n) == Asks(n) # {} \/ AtWork(n) \/ Answers(n) # {} \/ Waking(n) \/ Woken(n)

\* It is in one of these places at most, and only while its sender waits.
OneToken(n) ==
  /\ \A i, j \in Asks(n) : i = j
  /\ \A i, j \in Answers(n) : i = j
  /\ interruptSem[n] <= 1
  /\ Asks(n) # {} => ~ AtWork(n) /\ Answers(n) = {} /\ ~ Waking(n) /\ ~ Woken(n)
  /\ AtWork(n) => Answers(n) = {} /\ ~ Waking(n) /\ ~ Woken(n)
  /\ Answers(n) # {} => ~ Waking(n) /\ ~ Woken(n)
  /\ Waking(n) => ~ Woken(n)
  /\ UnderWay(n) => \E t \in Task : Home[t] = n /\ tx[t].at = "wait"

\* A sleep that is broken finds the flag set, so that each look at the flag but
\* the last follows a timeout.
AllWaitsInv(n) ==
  /\ rx[n].at = "break" \/ Woken(n) => acked[n]
  /\ \A t \in Task : Home[t] = n /\ tx[t].at # "idle" =>
       /\ sent[n][Last(n)].rel \/ tx[t].at \in {"lock", "write"}
       /\ LET w == sent[n][Last(n)].waits IN
          IF tx[t].at = "check"
          THEN acked[n] \/ w = RetryTimes - tx[t].tries + 1
          ELSE w = RetryTimes - tx[t].tries
  /\ \A i \in 1..Last(n) :
       sent[n][i].res = "timeout" => sent[n][i].waits = RetryTimes + 1

\* What is asked is the last message, and what is answered has arrived.
AnswerInv(n) ==
  /\ \A i \in Asks(n) : wire[Peer(n)][i].msg = Last(n)
  /\ AtWork(n) => rx[Peer(n)].frame.msg = Last(n)
  /\ Answers(n) # {} \/ Waking(n) \/ Woken(n) => Arrived(n, Last(n))
  /\ \A t \in Task :
       /\ Home[t] = n /\ tx[t].at \notin {"idle", "clear"}
       /\ sent[n][Last(n)].rel /\ acked[n]
       => Arrived(n, Last(n))
  /\ \A i \in 1..Last(n) :
       sent[n][i].rel /\ sent[n][i].res = "ok" => Arrived(n, i)

PromptInv ==
  \A n \in Node : /\ NumbersInv(n) /\ KindsInv(n) /\ OneToken(n)
                  /\ AllWaitsInv(n)
DeliveredInv ==
  \A n \in Node : GotInv(n) /\ NamesInv(n) /\ AnswerInv(n)
================================================================================
