-------------------------------- MODULE Startup --------------------------------
(***************************************************************************)
(* The start of the program, app/src/main.c and app.c: main starts the     *)
(* UART threads first and then sets up what they use, one store after the  *)
(* other and without a lock, while the chip may already be sending.        *)
(*   - The main thread is at one of the stores of main.                    *)
(*   - The protocol thread takes the frames from the line and finds of     *)
(*     each thing what main has stored by then: inited, the receive        *)
(*     handler, the event list of the packet.                              *)
(*   - A worker thread hands the packets of its list to their handlers.    *)
(*   - The chip, at the other end, sends its messages one at a time, the   *)
(*     reliable ones again until they are acknowledged.                    *)
(* Nothing is damaged or lost on the line; CommProtocol has that, and what *)
(* else ChnlReceiveCommProtocolPacket and the workers do is in Channel.    *)
(***************************************************************************)
EXTENDS Naturals, Sequences

CONSTANTS
  Talks,       \* what the chip may have to say, a set of sequences of messages
  RetryTimes,  \* TRY_RESEND_TIMES of the chip
  WireCap      \* bound: frames on the line; the chip waits for room

List == {"event", "non_block", "iot_events"}

ASSUME TalksAssumption ==
  /\ Talks \subseteq Seq([list : List, rel : BOOLEAN])
  /\ RetryTimes \in Nat /\ WireCap \in Nat \ {0}

VARIABLES
  talk,     \* the messages of the chip; a message is known by its place
  done,     \* the stores main has made
  opened,   \* UartInitialize succeeded, its threads run
  chip,     \* where the chip is, its message and the retries it has left
  wire,     \* the messages whose frames are on the line
  rx,       \* where the protocol thread is, and the message of its frame
  lastRecv, \* last_recv_packet_seq, 0 when there is none
  queue,    \* the packets on each event list
  crashed,  \* EventListAdd was called with NULL
  acked,    \* messages an acknowledgement of which was written
  handled,  \* messages a handler, or the callback, was called with
  dropped   \* messages a worker threw away because there was no callback

vars == <<talk, done, opened, chip, wire, rx, lastRecv, queue, crashed, acked, handled,
          dropped>>
mainVars == <<done, opened>>
chipVars == <<chip, wire>>
threadVars == <<rx, lastRecv, queue, crashed, acked, handled, dropped>>

-----------------------------------------------------------------------------
(* The main thread                                                         *)

BugInitedFirst == <<"interrupt", "inited", "write_lock", "app_lock">>
protocol_business_init == <<"interrupt", "write_lock", "app_lock", "inited">>
CommProtocolInit == protocol_business_init \o <<"on_write", "on_recv">>

ChnlInit == <<"sem_audio_len", "event", "non_block", "iot_events", "callback", "chnl_inited">>

main == <<"uart", "hooks">> \o CommProtocolInit \o ChnlInit

Stored(part) == \E i \in 1..done : main[i] = part

Ready == opened /\ done = Len(main)

Idle == [at |-> "idle", msg |-> 0]

Init ==
  /\ talk \in Talks
  /\ done = 0 /\ opened = FALSE
  /\ chip = [at |-> "idle", msg |-> 0, tries |-> 0] /\ wire = <<>>
  /\ rx = Idle /\ lastRecv = 0
  /\ queue = [l \in List |-> <<>>]
  /\ crashed = FALSE
  /\ acked = {} /\ handled = {} /\ dropped = {}

\* When the device cannot be opened main goes on as if it had been.
UartInitialize ==
  /\ done = 0 /\ done' = 1
  /\ opened' \in BOOLEAN
  /\ UNCHANGED <<talk, chipVars, threadVars>>

Store ==
  /\ ~ crashed
  /\ done \in 1..(Len(main) - 1) /\ done' = done + 1
  /\ UNCHANGED <<talk, opened, chipVars, threadVars>>

-----------------------------------------------------------------------------
(* The chip                                                                *)

\* Without an open UART the bytes are gone.
Transmit(m) ==
  /\ opened => Len(wire) < WireCap
  /\ wire' = IF opened THEN Append(wire, m) ELSE wire

Say ==
  /\ ~ crashed
  /\ chip.at = "idle" /\ chip.msg < Len(talk)
  /\ LET m == chip.msg + 1 IN
     /\ Transmit(m)
     /\ chip' = [at |-> IF talk[m].rel THEN "wait" ELSE "idle",
                 msg |-> m, tries |-> RetryTimes]
  /\ UNCHANGED <<talk, mainVars, threadVars>>

Waiting == ~ crashed /\ chip.at = "wait"

SayAgain ==
  /\ Waiting /\ chip.tries > 0
  /\ Transmit(chip.msg)
  /\ chip' = [chip EXCEPT !.tries = @ - 1]
  /\ UNCHANGED <<talk, mainVars, threadVars>>

\* It is told that the message arrived, or gives up.
SayNoMore ==
  /\ Waiting /\ (chip.msg \in acked \/ chip.tries = 0)
  /\ chip' = [chip EXCEPT !.at = "idle"]
  /\ UNCHANGED <<talk, wire, mainVars, threadVars>>

-----------------------------------------------------------------------------
(* The protocol thread: CommProtocolReceiveUartData on what has arrived,   *)
(* which need not be a whole frame                                         *)

Go(place) == rx' = [rx EXCEPT !.at = place]

TakeFirstPart ==
  /\ ~ crashed /\ opened
  /\ rx.at = "idle" /\ wire # <<>>
  /\ rx' = [at |-> IF Stored("inited") THEN "rest" ELSE "skip", msg |-> Head(wire)]
  /\ wire' = Tail(wire)
  /\ UNCHANGED <<talk, mainVars, chip, lastRecv, queue, crashed, acked, handled, dropped>>

\* Before inited is set the bytes are thrown away, and half a frame is none.
TakeRest ==
  /\ ~ crashed
  /\ \/ rx.at = "rest" /\ Go("frame")
     \/ rx.at = "skip" /\ Go("idle")
  /\ UNCHANGED <<talk, mainVars, chipVars, lastRecv, queue, crashed, acked, handled, dropped>>

\* _one_protocol_frame_process: "when application not register hook, ignore all".
\* The duplicate filter is not told either.
BugFilterFirst == lastRecv' = rx.msg
NotTold == UNCHANGED lastRecv

NobodyListens == ~ Stored("on_recv")

Ignore ==
  /\ ~ crashed /\ rx.at = "frame"
  /\ NobodyListens
  /\ Go("idle")
  /\ NotTold
  /\ UNCHANGED <<talk, mainVars, chipVars, queue, crashed, acked, handled, dropped>>

\* _do_ack
Acknowledge ==
  /\ ~ crashed /\ rx.at = "frame"
  /\ ~ NobodyListens
  /\ Go("accept")
  /\ acked' = IF talk[rx.msg].rel /\ Stored("on_write") THEN acked \cup {rx.msg} ELSE acked
  /\ UNCHANGED <<talk, mainVars, chipVars, lastRecv, queue, crashed, handled, dropped>>

BugDropIt == Go("idle") /\ UNCHANGED <<queue, crashed>>
NoList == crashed' = TRUE /\ UNCHANGED <<rx, queue>>

\* _is_duplicate_frame, and ChnlReceiveCommProtocolPacket on a packet that is new:
\* its list is used without a look whether it has been created.
Accept ==
  /\ ~ crashed /\ rx.at = "accept"
  /\ lastRecv' = rx.msg
  /\ LET l == talk[rx.msg].list IN
     \/ /\ lastRecv = rx.msg
        /\ Go("idle") /\ UNCHANGED <<queue, crashed>>
     \/ /\ lastRecv # rx.msg /\ Stored(l)
        /\ Go("idle") /\ queue' = [queue EXCEPT ![l] = Append(@, rx.msg)] /\ UNCHANGED crashed
     \/ lastRecv # rx.msg /\ ~ Stored(l) /\ NoList
  /\ UNCHANGED <<talk, mainVars, chipVars, acked, handled, dropped>>

-----------------------------------------------------------------------------
(* The worker of list l: _event_handle                                     *)

Handle(l) ==
  /\ ~ crashed /\ queue[l] # <<>>
  /\ queue' = [queue EXCEPT ![l] = Tail(@)]
  /\ LET m == Head(queue[l]) IN
     IF l = "iot_events" /\ ~ Stored("callback")
     THEN dropped' = dropped \cup {m} /\ UNCHANGED handled
     ELSE handled' = handled \cup {m} /\ UNCHANGED dropped
  /\ UNCHANGED <<talk, mainVars, chipVars, rx, lastRecv, crashed, acked>>

-----------------------------------------------------------------------------

Main == UartInitialize \/ Store
Chip == Say \/ SayAgain \/ SayNoMore
Parse == TakeFirstPart \/ TakeRest \/ Ignore \/ Acknowledge \/ Accept

Next == Main \/ Chip \/ Parse \/ \E l \in List : Handle(l)

Spec == Init /\ [][Next]_vars

\* The threads get their turn, and the chip's timeout ends its wait.  That an
\* acknowledgement reaches the chip is not supposed.
Fairness ==
  /\ WF_vars(Main)
  /\ WF_vars(Parse)
  /\ WF_vars(SayAgain)
  /\ \A l \in List : WF_vars(Handle(l))

FairSpec == Spec /\ Fairness

-----------------------------------------------------------------------------
(* Properties                                                              *)

Messages == 1..Len(talk)

TypeOK ==
  /\ talk \in Talks
  /\ done \in 0..Len(main) /\ opened \in BOOLEAN
  /\ chip \in [at : {"idle", "wait"}, msg : {0} \cup Messages, tries : 0..RetryTimes]
  /\ wire \in Seq(Messages)
  /\ rx \in [at : {"idle", "skip", "rest", "frame", "accept"}, msg : {0} \cup Messages]
  /\ lastRecv \in {0} \cup Messages
  /\ queue \in [List -> Seq(Messages)]
  /\ crashed \in BOOLEAN
  /\ acked \subseteq Messages /\ handled \subseteq Messages /\ dropped \subseteq Messages

\* The order of the stores is all that protects the other threads: what they use
\* while they are where they are has been stored.  The assembler uses the memory
\* hooks (:580), an acknowledgement the locks and the write handler (:449), an
\* acknowledgement that arrives the interruptable sleep (:641), and the handler of
\* the buffer length its semaphore (uni_channel.c:196).
SetUpBeforeUse ==
  /\ rx.at \in {"rest", "frame"} => Stored("hooks") /\ Stored("write_lock")
  /\ rx.at = "accept" =>
       \A part \in {"hooks", "interrupt", "write_lock", "app_lock", "on_write", "on_recv"} :
         Stored(part)
  /\ \A l \in List : queue[l] # <<>> => Stored(l) /\ Stored("sem_audio_len")

\* Only what has been given to the channel, or is about to be, is acknowledged
\* (:661 before :671): until somebody listens the chip goes on sending.
Kept(m) ==
  \/ m \in handled \cup dropped
  \/ \E l \in List : \E i \in 1..Len(queue[l]) : queue[l][i] = m

Given(m) == Kept(m) \/ (rx.at = "accept" /\ rx.msg = m)

AcknowledgedIsGiven == \A m \in acked : Given(m)

\* The duplicate filter remembers a packet that is in the hands of the channel, so
\* that the copy it throws away is not the only one.
RememberedIsKept == crashed \/ lastRecv = 0 \/ Kept(lastRecv)

SomeMessage ==
  /\ chip.at = "wait" => chip.msg # 0
  /\ rx.at # "idle" => rx.msg # 0

IInv == TypeOK /\ SomeMessage /\ SetUpBeforeUse /\ RememberedIsKept

\* A message of which the chip has a try left when everything is set up reaches its
\* handler, whatever was ignored before: frames nobody listened to have left no
\* trace in the duplicate filter.  A packet that a worker threw away is the exception.
StillTrying(m) == chip.at = "wait" /\ chip.msg = m /\ chip.tries > 0

RetriedIsHandled ==
  \A m \in 1..2 : (Ready /\ StillTrying(m) /\ m \notin dropped) ~> (m \in handled)

\* uni_channel_common.h:56: every message above CHNL_MSG_HBM_IOT_DEVICE_BASE is one
\* that the IoT side has to hear of.  Those it has acknowledged are neither thrown
\* away nor die with the program.
IotIsHeard ==
  \A m \in acked : talk[m].list = "iot_events" => m \notin dropped /\ ~ crashed
================================================================================
