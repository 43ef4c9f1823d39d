-------------------------------- MODULE Channel --------------------------------
(***************************************************************************)
(* The channel of the device: ChannelDispatch and AudioFeed at work        *)
(* together.  The worker of the IoT events runs the application's callback,*)
(* which plays a sound by feeding audio data (app/src/main.c); the chip's  *)
(* answers to its queries come through the filters and the list of the     *)
(* ordinary events, among the other packets; the challenge is answered on  *)
(* a list of its own.                                                      *)
(***************************************************************************)
EXTENDS ChannelDispatch, AudioFeed

CONSTANTS
  Offered,      \* the commands the chip sends of itself
  MaxReceived,  \* bound: packets of these that arrive, a callback
                \* counting for two
  MaxFailures,  \* bound: failures of malloc
  MaxCalls,     \* bound: calls of ChnlIotDeviceFeedAudioData
  MaxFeed       \* bound: bytes of a call

ASSUME BoundsAssumption ==
  /\ Offered \subseteq Cmd \ {"AUDIO_LEN_ACK"}
  /\ MaxReceived \in Nat /\ MaxFailures \in Nat 
  /\ MaxCalls \in Nat /\ MaxFeed \in Nat

VARIABLES
  received,     \* how many packets have arrived but for answers
  failures,     \* how often malloc has failed
  calls,        \* how many calls the callbacks have made
  challengeSeq  \* static current_sequence of _do_challenge_pack

channelVars == <<received, failures, calls, challengeSeq>>
vars == <<dispatchVars, feedVars, channelVars>>

Init ==
  /\ DispatchInit /\ FeedInit
  /\ received = 0 /\ failures = 0 /\ calls = 0
  /\ challengeSeq = 1

LenAck == "AUDIO_LEN_ACK"

\* The answers that are past the protocol thread's entry but not stored yet.
LenAcksQueued ==
  Cardinality(Waiting(LenAck)) + One(hand[ListOf(LenAck)] = Holding("handle", LenAck))

-----------------------------------------------------------------------------
(* Packets arrive                                                          *)

ArriveOf(c) ==
  /\ received + (IF IsIotCmd(c) THEN 2 ELSE 1) <= MaxReceived
  /\ Receive(c)
  /\ received' = received + (IF IsIotCmd(c) THEN 2 ELSE 1)
  /\ UNCHANGED <<feedVars, failures, calls, challengeSeq>>

ArriveAnswer ==
  /\ LenAcksQueued < Len(answers)
  /\ Receive(LenAck)
  /\ UNCHANGED <<feedVars, channelVars>>

NoMemory ==
  /\ failures < MaxFailures
  /\ AllocFails
  /\ failures' = failures + 1
  /\ IF recv.cmd = LenAck THEN LoseAnswer(LenAcksQueued + 1) ELSE UNCHANGED feedVars
  /\ UNCHANGED <<received, calls, challengeSeq>>

ProtocolThread ==
  \/ /\ Filter \/ LoadUp \/ StoreUp \/ Mark \/ Add
     /\ UNCHANGED <<feedVars, channelVars>>
  \/ NoMemory

-----------------------------------------------------------------------------
(* The workers                                                             *)

Count(l) ==
  /\ Take(l) \/ ResetRasr(l) \/ LoadDown(l) \/ StoreDown(l)
  /\ UNCHANGED <<feedVars, channelVars>>

\* _do_audio_len_ack: the store, then the signal.
LenAckBegin(l) ==
  /\ hand[l].cmd = LenAck
  /\ Call(l) /\ StoreLen
  /\ UNCHANGED channelVars

LenAckEnd(l) ==
  /\ hand[l].cmd = LenAck
  /\ Return(l) /\ SignalLen
  /\ UNCHANGED channelVars

\* _cmd_to_iot_device_filter: the callback plays a sound, which it feeds in
\* one call after the other.
InCallback(l) == hand[l].at = "call" /\ IsIotCmd(hand[l].cmd)

Callback(l) ==
  /\ IsIotCmd(hand[l].cmd)
  /\ Call(l)
  /\ UNCHANGED <<feedVars, channelVars>>

CallbackFeeds(l) ==
  /\ InCallback(l)
  /\ calls < MaxCalls /\ calls' = calls + 1
  /\ \E len \in 1..MaxFeed : FeedBegin(len)
  /\ UNCHANGED <<dispatchVars, received, failures, challengeSeq>>

FeedRuns(l) ==
  /\ InCallback(l)
  /\ \/ Query \/ QueryReturns \/ GetToken \/ TimeOut \/ ReadLen \/ Push
     \/ FeedReturn
  /\ UNCHANGED <<dispatchVars, channelVars>>

CallbackEnd(l) ==
  /\ InCallback(l) /\ feeder.at = "idle"
  /\ Return(l)
  /\ UNCHANGED <<feedVars, channelVars>>

\* _do_challenge_pack: the number goes up when the send returns 0.
Challenge(l) ==
  /\ hand[l].cmd = "CHALLENGE_PACK"
  /\ Call(l)
  /\ UNCHANGED <<feedVars, channelVars>>

ChallengeEnd(l) ==
  /\ hand[l].cmd = "CHALLENGE_PACK"
  /\ Return(l)
  /\ challengeSeq' \in {challengeSeq, challengeSeq + 1}
  /\ UNCHANGED <<feedVars, received, failures, calls>>

Worker(l) ==
  \/ Count(l)
  \/ LenAckBegin(l) \/ LenAckEnd(l)
  \/ Callback(l) \/ CallbackFeeds(l) \/ FeedRuns(l) \/ CallbackEnd(l)
  \/ Challenge(l) \/ ChallengeEnd(l)

-----------------------------------------------------------------------------
ChipAnswers == Answer /\ UNCHANGED <<dispatchVars, channelVars>>
ChipPlays == Play /\ UNCHANGED <<dispatchVars, channelVars>>

\* Everything has arrived and been handled, and the chip has played it all.
Finished ==
  /\ recv.at = "idle" /\ received = MaxReceived
  /\ \A l \in List : hand[l].at = "idle" /\ queue[l] = <<>>
  /\ asked = 0 /\ answers = <<>> /\ used = 0
  /\ UNCHANGED vars

Next ==
  \/ \E c \in Offered : ArriveOf(c)
  \/ ArriveAnswer \/ ProtocolThread
  \/ \E l \in List : Worker(l)
  \/ ChipAnswers \/ ChipPlays \/ Finished

Spec == Init /\ [][Next]_vars

\* The threads keep running, and the chip answers.  It need not play.
FairSpec ==
  /\ Spec
  /\ WF_vars(ArriveAnswer \/ ProtocolThread)
  /\ \A l \in List : WF_vars(Worker(l))
  /\ WF_vars(ChipAnswers)
-----------------------------------------------------------------------------
(* Properties                                                              *)

IInv == DispatchIInv /\ FeedIInv

\* A START (STOP) that arrives is followed by the handling of a START (STOP),
\* although it may be skipped for an earlier one, unless memory ran out.
EveryRasrHandled ==
  \A c \in Rasr :
    (recv.at = "filter" /\ recv.cmd = c)
      ~> (failed[c] > 0 \/ \E l \in List : hand[l].at = "handle" /\ hand[l].cmd = c)

\* A challenge is answered even while the application's callback waits for a
\* chip that never plays.
ChallengeAnswered ==
  (recv.at = "filter" /\ recv.cmd = "CHALLENGE_PACK")
    ~> (failed["CHALLENGE_PACK"] > 0
        \/ \E l \in List : hand[l].at = "call" /\ hand[l].cmd = "CHALLENGE_PACK")

\* A call of ChnlIotDeviceFeedAudioData returns if the chip keeps emptying its
\* buffer: the answers it waits for do not wait for it.
FeedReturns ==
  []<>(used = 0) => (feeder.at # "idle" ~> feeder.at = "idle")
=============================================================================
