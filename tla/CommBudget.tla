------------------------------ MODULE CommBudget ------------------------------
(***************************************************************************)
(* CommProtocol with a count of the frames the line has lost.  One frame   *)
(* lost costs a send one try, and it has RetryTimes to spare: what the     *)
(* protocol owes its users while the line stays within that budget.        *)
(***************************************************************************)
EXTENDS CommHistory

VARIABLE lost  \* history: frames lost, counted up to one more than RetryTimes

budgetVars == <<vars, lost>>

InBudget == lost <= RetryTimes

BudgetInit == Init /\ lost = 0

Count(loses) == lost' = IF loses /\ InBudget THEN lost + 1 ELSE lost

\* A line that is full loses what is written to it.
Full(n) == Len(wire[Peer(n)]) >= WireCap

BudgetNext ==
  \/ \E t \in Task : SendBegin(t) /\ UNCHANGED lost
  \/ \E t \in Task : SendStep(t) /\ Count(tx[t].at = "write" /\ Full(Home[t]))
  \/ \E n \in Node : ParseStep(n) /\ Count(rx[n].at = "write" /\ Full(n))
  \/ \E n \in Node : Lose(n) /\ Count(TRUE)
  \/ Finished /\ UNCHANGED lost

BudgetSpec == BudgetInit /\ [][BudgetNext]_budgetVars /\ Fairness

-----------------------------------------------------------------------------
(* Properties: answers come in time (AckPrompt)                            *)

\* As long as the line has lost no more frames than a send has retries, no send
\* reports E_UNI_COMM_PAYLOAD_ACK_TIMEOUT: every try that fails is the work of
\* a lost frame of its own.
NoFalseTimeout == InBudget => \A n \in Node : \A e \in Entries(n) : e.res # "timeout"

\* ... and every message handed over with the reliable attribute reaches the
\* peer's application, whoever else is sending.
EveryMessageArrives ==
  \A n \in Node : \A i \in Reliable[n] :
    i <= Len(sent[n]) ~> (~ InBudget \/ (i <= Len(sent[n]) /\ sent[n][i].got))

-----------------------------------------------------------------------------
(* Why NoFalseTimeout holds                                                *)

\* The acknowledgement of number NoAckedSeq never counts while none has (:636,
\* :808): the message of that number is not the first reliable one.
FirstCounts ==
  \A n \in Node : NoAckedSeq + 1 \in Reliable[n] =>
    \E i \in 1..NoAckedSeq : i \in Reliable[n]

InCall(n) == \E t \in Task : Home[t] = n /\ tx[t].at # "idle"

\* A message is reliable if it is to be, and its call returns a result.
EntriesInv(n) ==
  \A i \in 1..Last(n) :
    /\ sent[n][i].rel <=> i \in Reliable[n]
    /\ sent[n][i].res = "pending" => i = Last(n) /\ InCall(n)

\* Every acknowledgement is one of the frame under way.
TimelyInv(n) ==
  /\ \A i \in Answers(n) : wire[n][i].seq = CurrentSeq(n)
  /\ rx[n].at = "flag" => rx[n].frame.seq = CurrentSeq(n)

\* The number that counted last is one of a message handed over, and while none
\* has, no reliable send has succeeded.
MemoryInv(n) ==
  /\ \/ currentAckedSeq[n] < Last(n)
     \/ /\ currentAckedSeq[n] = NoAckedSeq
        /\ \A i \in 1..Last(n) : sent[n][i].rel => sent[n][i].res # "ok"
  /\ \A t \in Task :
       /\ Home[t] = n /\ tx[t].at \notin {"idle", "clear"}
       /\ sent[n][Last(n)].rel /\ acked[n]
       => currentAckedSeq[n] < Last(n)

\* The first acknowledgement of a message counts: its number is remembered only
\* from then on, when the sleep of its sender is about to end for good.
FreshInv(n) ==
  \A t \in Task :
    /\ Home[t] = n /\ tx[t].at # "idle" /\ sent[n][Last(n)].rel
    /\ currentAckedSeq[n] = CurrentSeq(n)
    => /\ acked[n] /\ tx[t].at \in {"wait", "check"}
       /\ tx[t].at = "wait" => rx[n].at = "break" \/ Woken(n)

\* Each timeout a call has slept through, and the one it is about to, goes with a
\* frame that was lost.
PaidInv(n) ==
  \A t \in Task : Home[t] = n /\ tx[t].at # "idle" =>
    sent[n][Last(n)].waits + (IF tx[t].at = "wait" /\ ~ UnderWay(n) THEN 1 ELSE 0) <= lost

NoTimeout(n) == \A i \in 1..Last(n) : sent[n][i].res # "timeout"

BudgetInv ==
  /\ lost \in Nat
  /\ \A n \in Node :
       /\ EntriesInv(n) /\ TimelyInv(n) /\ MemoryInv(n)
       /\ InBudget => FreshInv(n) /\ PaidInv(n) /\ NoTimeout(n)
===============================================================================
