---------------------------- MODULE ChannelDispatch ----------------------------
(***************************************************************************)
(* sdk/channel/src/uni_channel.c, from the protocol thread to the worker   *)
(* threads: ChnlReceiveCommProtocolPacket filters a packet, copies it and  *)
(* puts it on one of three event lists; the worker of each list handles    *)
(* its packets one at a time.  The counters of the filters are changed by  *)
(* the protocol thread and by a worker without a lock: ++ and -- are a     *)
(* load and a store.                                                       *)
(*                                                                         *)
(* All packets have one priority, for which EventList is a queue.  What    *)
(* arrives, and what the handlers do beyond the counters, is in Channel.   *)
(***************************************************************************)
EXTENDS Naturals, Sequences, FiniteSets

CONSTANTS
  MaxCached,  \* 16: the ADPCM packets that may wait
  CntMod      \* 256: adpcm_packet_cnt is a uint8_t

ASSUME CountsAssumption ==
  MaxCached \in Nat \ {0} /\ CntMod \in Nat /\ MaxCached < CntMod

VARIABLES
  adpcmCnt,  \* g_channel.adpcm_packet_cnt
  rasrCnt,   \* g_channel.rasr_start_cnt and rasr_stop_cnt, by command
  recv,      \* where the protocol thread is, its packet, the count it loaded
  queue,     \* the packets on each event list
  hand,      \* the same as recv for the worker of each list
  torn,      \* history: a store undid a change made since its load
  failed     \* history: packets lost because malloc failed, by command

dispatchVars == <<adpcmCnt, rasrCnt, recv, queue, hand, torn, failed>>

Rasr == {"RASR_START", "RASR_STOP"}
Adpcm == "RASR_DATA_FEED"
Cmd == Rasr \cup {Adpcm, "CHALLENGE_PACK", "AUDIO_LEN_ACK", "ASR_RESULT"}

IsNonBlockCmd(c) == c = "CHALLENGE_PACK"
IsIotCmd(c) == c = "ASR_RESULT"

List == {"iot_events", "non_block", "event"}
BugOneList(c) == IF IsNonBlockCmd(c) THEN "non_block" ELSE "iot_events"
BugNoNonBlockList(c) == IF c \in Rasr \cup {Adpcm, "AUDIO_LEN_ACK"} THEN "event" ELSE "iot_events"
ListOf(c) == IF IsIotCmd(c) THEN "iot_events"
             ELSE IF IsNonBlockCmd(c) THEN "non_block" ELSE "event"

Idle == [at |-> "idle", cmd |-> "none", seen |-> 0]
Holding(place, c) == [at |-> place, cmd |-> c, seen |-> 0]

DispatchInit ==
  /\ adpcmCnt = 0
  /\ rasrCnt = [c \in Rasr |-> 0]
  /\ recv = Idle
  /\ queue = [l \in List |-> <<>>]
  /\ hand = [l \in List |-> Idle]
  /\ torn = FALSE
  /\ failed = [c \in Cmd |-> 0]

-----------------------------------------------------------------------------
(* ChnlReceiveCommProtocolPacket, on the protocol thread                   *)

Receive(c) ==
  /\ recv.at = "idle"
  /\ recv' = Holding("filter", c)
  /\ UNCHANGED <<adpcmCnt, rasrCnt, queue, hand, torn, failed>>

BugOneFlag(c) ==
  \/ c = Adpcm /\ adpcmCnt >= MaxCached
  \/ c \in Rasr /\ \E d \in Rasr : rasrCnt[d] # 0
BugNeverSkipped(c) == c = Adpcm /\ adpcmCnt >= MaxCached

\* _is_memory_cost_packet_limited and _need_skiped_rasr_event.
Skipped(c) ==
  \/ c = Adpcm /\ adpcmCnt >= MaxCached
  \/ c \in Rasr /\ rasrCnt[c] # 0

Filter ==
  /\ recv.at = "filter"
  /\ recv' = IF Skipped(recv.cmd) THEN Idle
             ELSE Holding(IF recv.cmd = Adpcm THEN "load"
                          ELSE IF recv.cmd \in Rasr THEN "mark" ELSE "alloc",
                          recv.cmd)
  /\ UNCHANGED <<adpcmCnt, rasrCnt, queue, hand, torn, failed>>

\* adpcm_packet_cnt++
LoadUp ==
  /\ recv.at = "load"
  /\ recv' = [recv EXCEPT !.at = "store", !.seen = adpcmCnt]
  /\ UNCHANGED <<adpcmCnt, rasrCnt, queue, hand, torn, failed>>

StoreUp ==
  /\ recv.at = "store"
  /\ adpcmCnt' = (recv.seen + 1) % CntMod
  /\ torn' = (torn \/ adpcmCnt # recv.seen)
  /\ recv' = Holding("alloc", recv.cmd)
  /\ UNCHANGED <<rasrCnt, queue, hand, failed>>

\* rasr_start_cnt = 1, rasr_stop_cnt = 1
Mark ==
  /\ recv.at = "mark"
  /\ rasrCnt' = [rasrCnt EXCEPT ![recv.cmd] = 1]
  /\ recv' = Holding("alloc", recv.cmd)
  /\ UNCHANGED <<adpcmCnt, queue, hand, torn, failed>>

\* The copy of the packet and EventListAdd.
Add ==
  /\ recv.at = "alloc"
  /\ queue' = [queue EXCEPT ![ListOf(recv.cmd)] = Append(@, recv.cmd)]
  /\ recv' = Idle
  /\ UNCHANGED <<adpcmCnt, rasrCnt, hand, torn, failed>>

\* No memory: the packet is given up, the filters have counted it.
AllocFails ==
  /\ recv.at = "alloc"
  /\ failed' = [failed EXCEPT ![recv.cmd] = @ + 1]
  /\ recv' = Idle
  /\ UNCHANGED <<adpcmCnt, rasrCnt, queue, hand, torn>>

-----------------------------------------------------------------------------
(* _event_handle, on the worker of each list                               *)

Take(l) ==
  /\ hand[l].at = "idle" /\ queue[l] # <<>>
  /\ hand' = [hand EXCEPT ![l] = Holding("handle", Head(queue[l]))]
  /\ queue' = [queue EXCEPT ![l] = Tail(@)]
  /\ UNCHANGED <<adpcmCnt, rasrCnt, recv, torn, failed>>

\* _do_iot_device_rasr_start, _do_iot_device_rasr_stop
ResetRasr(l) ==
  /\ hand[l].at = "handle" /\ hand[l].cmd \in Rasr
  /\ rasrCnt' = [rasrCnt EXCEPT ![hand[l].cmd] = 0]
  /\ hand' = [hand EXCEPT ![l] = Idle]
  /\ UNCHANGED <<adpcmCnt, recv, queue, torn, failed>>

\* _do_iot_rasr_adpcm_data: adpcm_packet_cnt--
LoadDown(l) ==
  /\ hand[l].at = "handle" /\ hand[l].cmd = Adpcm
  /\ hand' = [hand EXCEPT ![l].at = "store", ![l].seen = adpcmCnt]
  /\ UNCHANGED <<adpcmCnt, rasrCnt, recv, queue, torn, failed>>

StoreDown(l) ==
  /\ hand[l].at = "store"
  /\ adpcmCnt' = (hand[l].seen + CntMod - 1) % CntMod
  /\ torn' = (torn \/ adpcmCnt # hand[l].seen)
  /\ hand' = [hand EXCEPT ![l] = Idle]
  /\ UNCHANGED <<rasrCnt, recv, queue, failed>>

\* The other handlers touch no counter; Channel says what they do.
Call(l) ==
  /\ hand[l].at = "handle" /\ hand[l].cmd \notin Rasr \cup {Adpcm}
  /\ hand' = [hand EXCEPT ![l].at = "call"]
  /\ UNCHANGED <<adpcmCnt, rasrCnt, recv, queue, torn, failed>>

Return(l) ==
  /\ hand[l].at = "call"
  /\ hand' = [hand EXCEPT ![l] = Idle]
  /\ UNCHANGED <<adpcmCnt, rasrCnt, recv, queue, torn, failed>>

DispatchNext ==
  \/ \E c \in Cmd : Receive(c)
  \/ Filter \/ LoadUp \/ StoreUp \/ Mark \/ Add \/ AllocFails
  \/ \E l \in List : \/ Take(l) \/ ResetRasr(l) \/ LoadDown(l) \/ StoreDown(l)
                     \/ Call(l) \/ Return(l)

DispatchSpec == DispatchInit /\ [][DispatchNext]_dispatchVars
-----------------------------------------------------------------------------
(* Properties                                                              *)

DispatchTypeOK ==
  /\ adpcmCnt \in 0..(CntMod - 1)
  /\ rasrCnt \in [Rasr -> {0, 1}]
  /\ recv \in [at : {"idle", "filter", "load", "store", "mark", "alloc"},
               cmd : Cmd \cup {"none"}, seen : 0..(CntMod - 1)]
  /\ queue \in [List -> Seq(Cmd)]
  /\ hand \in [List -> [at : {"idle", "handle", "store", "call"},
                        cmd : Cmd \cup {"none"}, seen : 0..(CntMod - 1)]]
  /\ torn \in BOOLEAN
  /\ failed \in [Cmd -> Nat]

One(p) == IF p THEN 1 ELSE 0
Waiting(c) == {i \in DOMAIN queue[ListOf(c)] : queue[ListOf(c)][i] = c}

\* The packets of command c that wait or are in the hands of a worker, and
\* with them the one that has just passed the filter.
Cached(c) == Cardinality(Waiting(c)) + One(hand[ListOf(c)].cmd = c)
UnderWay(c) == Cached(c) + One(recv.at = "alloc" /\ recv.cmd = c)

\* The flags of START and STOP count, without a lock, the packets between the
\* filter and the handler; a failed malloc occupies one for ever.  So at most
\* one START and one STOP wait.  The ADPCM count does the same as long as no
\* store has undone a change of the other thread.
CountsMatchPackets ==
  /\ \A c \in Rasr : rasrCnt[c] = UnderWay(c) + failed[c]
  /\ ~torn => adpcmCnt = UnderWay(Adpcm) + failed[Adpcm]

\* No more ADPCM packets are cached than the limit allows (:62).
AdpcmLimit == Cached(Adpcm) <= MaxCached

-----------------------------------------------------------------------------
(* Why the counts match: an inductive invariant                            *)

\* A packet is only ever where its command leads it.
PlacesInv ==
  /\ recv.at = "idle" <=> recv.cmd = "none"
  /\ recv.at \in {"load", "store"} => recv.cmd = Adpcm
  /\ recv.at = "mark" => recv.cmd \in Rasr /\ rasrCnt[recv.cmd] = 0
  /\ \A l \in List :
       /\ hand[l].at = "idle" <=> hand[l].cmd = "none"
       /\ hand[l].at = "store" => hand[l].cmd = Adpcm
       /\ hand[l].at = "call" => hand[l].cmd \notin Rasr \cup {Adpcm}
       /\ hand[l].cmd # "none" => ListOf(hand[l].cmd) = l
       /\ \A i \in DOMAIN queue[l] : ListOf(queue[l][i]) = l

\* What the protocol thread counts has room: the worker only counts down.
RoomInv == ~torn /\ recv.at \in {"load", "store"} => adpcmCnt < MaxCached

DispatchIInv == DispatchTypeOK /\ PlacesInv /\ RoomInv /\ CountsMatchPackets
=============================================================================
