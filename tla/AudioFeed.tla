------------------------------- MODULE AudioFeed -------------------------------
(***************************************************************************)
(* sdk/channel/src/uni_channel.c: ChnlIotDeviceFeedAudioData asks the chip *)
(* how much room its audio buffer has, pushes that many bytes in fragments *)
(* of at most 512, and asks again when the credit is used up.  The chip's  *)
(* answer comes as a message of its own, handled by a worker thread that   *)
(* stores the number and signals sem_audio_len.                            *)
(*                                                                         *)
(* A send is reliable and returns (CommProtocol: SendReturns); it returns  *)
(* 0 only if the message arrived (SuccessMeansDelivered, for answers that  *)
(* come in time).  A send that fails and a wait that times out are counted *)
(* as troubles.  The chip is not part of the repository: it is modelled    *)
(* from what the code expects of it.                                       *)
(***************************************************************************)
EXTENDS Integers, Sequences

CONSTANTS
  ChipSize,    \* bytes the chip's audio buffer holds
  Fragment,    \* 512: the longest packet
  MaxTroubles  \* bound: failed sends and waits that time out

ASSUME FeedAssumption ==
  ChipSize \in Nat \ {0} /\ Fragment \in Nat \ {0} /\ MaxTroubles \in Nat

VARIABLES
  feeder,     \* where the call is, and how many bytes it has left
  credit,     \* static audio_buf_remain_len
  remainLen,  \* g_channel.audio_remain_len
  sem,        \* g_channel.sem_audio_len
  stored,     \* the worker has stored an answer it has not signalled yet
  asked,      \* queries the chip has not answered yet
  answers,    \* the chip's answers on their way to the worker
  used,       \* bytes in the chip's audio buffer
  troubles    \* history: sends that failed, waits that timed out

feedVars ==
  <<feeder, credit, remainLen, sem, stored, asked, answers, used, troubles>>

FeedInit ==
  /\ feeder = [at |-> "idle", remain |-> 0]
  /\ credit = 0 /\ remainLen = 0 /\ sem = 0 /\ stored = FALSE
  /\ asked = 0 /\ answers = <<>> /\ used = 0
  /\ troubles = 0

Trouble == troubles < MaxTroubles /\ troubles' = troubles + 1

Smaller(m, n) == IF m < n THEN m ELSE n

-----------------------------------------------------------------------------
(* ChnlIotDeviceFeedAudioData                                              *)

FeedBegin(len) ==
  /\ feeder.at = "idle"
  /\ feeder' = [at |-> "loop", remain |-> len]
  /\ UNCHANGED <<credit, remainLen, sem, stored, asked, answers, used, troubles>>

\* _get_audio_buf_remain_len sends a query, which may be lost on every retry.
Query ==
  /\ feeder.at = "loop" /\ feeder.remain > 0 /\ credit = 0
  /\ \/ /\ asked' = asked + 1
        /\ feeder' = [feeder EXCEPT !.at = "sent"]
        /\ UNCHANGED troubles
     \/ /\ Trouble
        /\ feeder' = [feeder EXCEPT !.at = "push"]
        /\ UNCHANGED asked
  /\ UNCHANGED <<credit, remainLen, sem, stored, answers, used>>

BugNoWait ==
  /\ feeder.at = "sent"
  /\ \/ feeder' = [feeder EXCEPT !.at = "read"] /\ UNCHANGED troubles
     \/ Trouble /\ feeder' = [feeder EXCEPT !.at = "push"]
  /\ UNCHANGED <<credit, remainLen, sem, stored, asked, answers, used>>

\* The send of a query that arrived returns 0, or fails if no acknowledgement
\* came back; then the credit is 0.
QueryReturns ==
  /\ feeder.at = "sent"
  /\ \/ feeder' = [feeder EXCEPT !.at = "wait"] /\ UNCHANGED troubles
     \/ Trouble /\ feeder' = [feeder EXCEPT !.at = "push"]
  /\ UNCHANGED <<credit, remainLen, sem, stored, asked, answers, used>>

GetToken ==
  /\ feeder.at = "wait" /\ sem > 0
  /\ sem' = sem - 1
  /\ feeder' = [feeder EXCEPT !.at = "read"]
  /\ UNCHANGED <<credit, remainLen, stored, asked, answers, used, troubles>>

\* uni_sem_wait returns the same whether it has got the token or timed out.
AnswerComes == asked > 0 \/ answers # <<>> \/ stored \/ sem > 0
TimeOut ==
  /\ feeder.at = "wait"
  /\ IF AnswerComes THEN Trouble ELSE UNCHANGED troubles
  /\ feeder' = [feeder EXCEPT !.at = "read"]
  /\ UNCHANGED <<credit, remainLen, sem, stored, asked, answers, used>>

ReadLen ==
  /\ feeder.at = "read"
  /\ credit' = remainLen
  /\ feeder' = [feeder EXCEPT !.at = "push"]
  /\ UNCHANGED <<remainLen, sem, stored, asked, answers, used, troubles>>

BugIgnoreCredit == Smaller(Fragment, feeder.remain)
PushLen == Smaller(Fragment, Smaller(credit, feeder.remain))

\* Also a packet of 0 bytes is sent.  The result of the send is only logged,
\* so that it makes no difference whether a packet was lost or not but for the
\* bytes the chip gets.
Push ==
  /\ \/ feeder.at = "push"
     \/ feeder.at = "loop" /\ feeder.remain > 0 /\ credit # 0
  /\ feeder' = [at |-> "loop", remain |-> feeder.remain - PushLen]
  /\ credit' = credit - PushLen
  /\ \/ used' = used + PushLen /\ UNCHANGED troubles
     \/ Trouble /\ UNCHANGED used
  /\ UNCHANGED <<remainLen, sem, stored, asked, answers>>

FeedReturn ==
  /\ feeder.at = "loop" /\ feeder.remain = 0
  /\ feeder' = [feeder EXCEPT !.at = "idle"]
  /\ UNCHANGED <<credit, remainLen, sem, stored, asked, answers, used, troubles>>

-----------------------------------------------------------------------------
(* _do_audio_len_ack                                                       *)

StoreLen ==
  /\ ~stored /\ answers # <<>>
  /\ remainLen' = Head(answers)
  /\ answers' = Tail(answers)
  /\ stored' = TRUE
  /\ UNCHANGED <<feeder, credit, sem, asked, used, troubles>>

SignalLen ==
  /\ stored
  /\ sem' = sem + 1
  /\ stored' = FALSE
  /\ UNCHANGED <<feeder, credit, remainLen, asked, answers, used, troubles>>

-----------------------------------------------------------------------------
(* The chip and the way back                                               *)

Room == IF used < ChipSize THEN ChipSize - used ELSE 0

\* The answer is a reliable message of the chip, which it too may lose.
Answer ==
  /\ asked > 0
  /\ asked' = asked - 1
  /\ \/ answers' = Append(answers, Room) /\ UNCHANGED troubles
     \/ Trouble /\ UNCHANGED answers
  /\ UNCHANGED <<feeder, credit, remainLen, sem, stored, used>>

Without(s, i) == SubSeq(s, 1, i - 1) \o SubSeq(s, i + 1, Len(s))

\* The i-th answer is dropped for want of memory.
LoseAnswer(i) ==
  /\ i \in DOMAIN answers
  /\ answers' = Without(answers, i)
  /\ troubles' = troubles + 1
  /\ UNCHANGED <<feeder, credit, remainLen, sem, stored, asked, used>>

\* The chip plays some of what it has.
Play ==
  /\ \E n \in 1..used : used' = used - n
  /\ UNCHANGED <<feeder, credit, remainLen, sem, stored, asked, answers, troubles>>

FeedNext ==
  \/ \E len \in Nat \ {0} : FeedBegin(len)
  \/ Query \/ QueryReturns \/ GetToken \/ TimeOut \/ ReadLen \/ Push \/ FeedReturn
  \/ StoreLen \/ SignalLen \/ Answer \/ Play
  \/ \E i \in DOMAIN answers : LoseAnswer(i)

FeedSpec == FeedInit /\ [][FeedNext]_feedVars
-----------------------------------------------------------------------------
(* Properties                                                              *)

FeedTypeOK ==
  /\ feeder \in [at : {"idle", "loop", "sent", "wait", "read", "push"}, remain : Nat]
  /\ credit \in Nat /\ remainLen \in Nat /\ sem \in Nat
  /\ stored \in BOOLEAN
  /\ asked \in Nat /\ answers \in Seq(Nat)
  /\ used \in Nat /\ troubles \in Nat

\* While no send has failed and no answer was late, the chip is never given
\* more than its buffer holds, although it answers for one moment, the credit
\* is spent later, and what is left of it goes into the next call.
NoOverrun == troubles = 0 => used <= ChipSize

-----------------------------------------------------------------------------
(* Why: an inductive invariant                                             *)

Asking == feeder.at \in {"sent", "wait"}

\* A query has one answer, wherever it is, and nothing is left of it later.
OneAnswer == asked + Len(answers) + (IF stored THEN 1 ELSE 0) + sem = (IF Asking THEN 1 ELSE 0)

\* What the chip has offered, wherever the offer is, fits into its buffer.
OffersFit ==
  /\ credit + used <= ChipSize
  /\ Asking \/ feeder.at = "read" => credit = 0
  /\ \A i \in DOMAIN answers : answers[i] + used <= ChipSize
  /\ stored \/ sem > 0 \/ feeder.at = "read" => remainLen + used <= ChipSize

FeedIInv == FeedTypeOK /\ (troubles = 0 => OneAnswer /\ OffersFit)
=============================================================================
