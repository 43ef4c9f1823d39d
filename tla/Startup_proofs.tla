----------------------------- MODULE Startup_proofs -----------------------------
(***************************************************************************)
(* Proofs about Startup, for whatever the chip has to say and however often *)
(* it says it.                                                             *)
(***************************************************************************)
EXTENDS Startup, TLAPS

\* What concatenation puts where.
LEMMA Appended ==
  ASSUME NEW S, NEW s \in Seq(S), NEW t \in Seq(S)
  PROVE  /\ s \o t \in Seq(S) /\ Len(s \o t) = Len(s) + Len(t)
         /\ \A i \in 1..Len(s) : (s \o t)[i] = s[i]
         /\ \A i \in 1..Len(t) : (s \o t)[Len(s) + i] = t[i]
OBVIOUS

Part == {"uart", "hooks", "interrupt", "write_lock", "app_lock", "inited", "on_write",
         "on_recv", "sem_audio_len", "event", "non_block", "iot_events", "callback",
         "chnl_inited"}

\* The order of the stores.
LEMMA Order ==
  /\ Len(main) = 14
  /\ main[1] = "uart" /\ main[2] = "hooks" /\ main[3] = "interrupt" /\ main[4] = "write_lock"
  /\ main[5] = "app_lock" /\ main[6] = "inited" /\ main[7] = "on_write" /\ main[8] = "on_recv"
  /\ main[9] = "sem_audio_len" /\ main[10] = "event" /\ main[11] = "non_block"
  /\ main[12] = "iot_events" /\ main[13] = "callback" /\ main[14] = "chnl_inited"
<1> DEFINE a == <<"uart", "hooks">>
           b == CommProtocolInit
           c == ChnlInit
<1>1. a \in Seq(Part) /\ Len(a) = 2 /\ a[1] = "uart" /\ a[2] = "hooks"
  <2>1. a \in Seq(Part)
    BY DEF Part
  <2>2. Len(a) = 2 /\ a[1] = "uart" /\ a[2] = "hooks"
    OBVIOUS
  <2> QED
    BY <2>1, <2>2
<1>2. /\ b \in Seq(Part) /\ Len(b) = 6 /\ b[1] = "interrupt" /\ b[2] = "write_lock"
      /\ b[3] = "app_lock" /\ b[4] = "inited" /\ b[5] = "on_write" /\ b[6] = "on_recv"
  <2> DEFINE p == protocol_business_init
             q == <<"on_write", "on_recv">>
  <2>1. p \in Seq(Part) /\ q \in Seq(Part)
    BY DEF Part, protocol_business_init
  <2>2. /\ Len(p) = 4 /\ p[1] = "interrupt" /\ p[2] = "write_lock"
        /\ p[3] = "app_lock" /\ p[4] = "inited"
    BY DEF protocol_business_init
  <2>3. Len(q) = 2 /\ q[1] = "on_write" /\ q[2] = "on_recv"
    OBVIOUS
  <2>4. b = p \o q
    BY DEF CommProtocolInit
  <2> HIDE DEF p, q, b
  <2>5. /\ p \o q \in Seq(Part) /\ Len(p \o q) = Len(p) + Len(q)
        /\ \A i \in 1..Len(p) : (p \o q)[i] = p[i]
        /\ \A i \in 1..Len(q) : (p \o q)[Len(p) + i] = q[i]
    BY ONLY <2>1, Appended
  <2>6. 1 \in 1..4 /\ 2 \in 1..4 /\ 3 \in 1..4 /\ 4 \in 1..4 /\ 1 \in 1..2 /\ 2 \in 1..2
    OBVIOUS
  <2> QED
    BY ONLY <2>2, <2>3, <2>4, <2>5, <2>6
<1>3. /\ c \in Seq(Part) /\ Len(c) = 6 /\ c[1] = "sem_audio_len" /\ c[2] = "event"
      /\ c[3] = "non_block" /\ c[4] = "iot_events" /\ c[5] = "callback" /\ c[6] = "chnl_inited"
  <2>1. c \in Seq(Part)
    BY DEF Part, ChnlInit
  <2>2. /\ Len(c) = 6 /\ c[1] = "sem_audio_len" /\ c[2] = "event" /\ c[3] = "non_block"
        /\ c[4] = "iot_events" /\ c[5] = "callback" /\ c[6] = "chnl_inited"
    BY DEF ChnlInit
  <2> QED
    BY <2>1, <2>2
<1>4. main = (a \o b) \o c
  BY DEF main
<1> HIDE DEF a, b, c
<1>5. /\ a \o b \in Seq(Part) /\ Len(a \o b) = Len(a) + Len(b)
      /\ \A i \in 1..Len(a) : (a \o b)[i] = a[i]
      /\ \A i \in 1..Len(b) : (a \o b)[Len(a) + i] = b[i]
  <2>1. a \in Seq(Part) /\ b \in Seq(Part)
    BY <1>1, <1>2
  <2> QED
    BY ONLY <2>1, Appended
<1> DEFINE d == a \o b
<1>6. 1 \in 1..2 /\ 2 \in 1..2 /\ 1 \in 1..6 /\ 2 \in 1..6 /\ 3 \in 1..6 /\ 4 \in 1..6
      /\ 5 \in 1..6 /\ 6 \in 1..6
  OBVIOUS
<1> HIDE DEF d
<1>7. /\ d \in Seq(Part) /\ Len(d) = 8 /\ d[1] = "uart" /\ d[2] = "hooks"
      /\ d[3] = "interrupt" /\ d[4] = "write_lock" /\ d[5] = "app_lock"
      /\ d[6] = "inited" /\ d[7] = "on_write" /\ d[8] = "on_recv"
  BY <1>1, <1>2, <1>5, <1>6 DEF d
<1>8. /\ d \o c \in Seq(Part) /\ Len(d \o c) = Len(d) + Len(c)
      /\ \A i \in 1..Len(d) : (d \o c)[i] = d[i]
      /\ \A i \in 1..Len(c) : (d \o c)[Len(d) + i] = c[i]
  <2>1. d \in Seq(Part) /\ c \in Seq(Part)
    BY <1>3, <1>7
  <2> QED
    BY ONLY <2>1, Appended
<1>9. main = d \o c
  BY <1>4 DEF d
<1> DEFINE e == d \o c
<1> HIDE DEF e
<1>10. /\ Len(e) = 14 /\ \A i \in 1..8 : e[i] = d[i]
       /\ \A i \in 1..6 : e[8 + i] = c[i]
  <2>1. Len(e) = Len(d) + Len(c) /\ \A i \in 1..Len(d) : e[i] = d[i]
    BY <1>8 DEF e
  <2>2. \A i \in 1..Len(c) : e[Len(d) + i] = c[i]
    BY <1>8 DEF e
  <2>3. Len(d) = 8 /\ Len(c) = 6
    BY <1>3, <1>7
  <2> QED
    BY ONLY <2>1, <2>2, <2>3
<1>11. main = e
  BY <1>9 DEF e
<1>12. /\ 1 \in 1..8 /\ 2 \in 1..8 /\ 3 \in 1..8 /\ 4 \in 1..8 /\ 5 \in 1..8 /\ 6 \in 1..8
       /\ 7 \in 1..8 /\ 8 \in 1..8
  OBVIOUS
<1>13. /\ e[9] = c[1] /\ e[10] = c[2] /\ e[11] = c[3] /\ e[12] = c[4] /\ e[13] = c[5]
       /\ e[14] = c[6]
  BY <1>6, <1>10
<1> QED
  BY ONLY <1>3, <1>7, <1>10, <1>11, <1>12, <1>13

\* What has been stored when something else has.
LEMMA Before ==
  ASSUME done \in 0..Len(main)
  PROVE  /\ Stored("inited") => Stored("hooks") /\ Stored("write_lock")
         /\ Stored("on_recv") =>
              \A part \in {"hooks", "interrupt", "write_lock", "app_lock", "on_write",
                           "on_recv"} : Stored(part)
         /\ \A l \in List : Stored(l) => Stored("sem_audio_len")
<1>1. Len(main) = 14 /\ done \in 0..14
  BY Order
<1>2. \A i \in 1..14 : i \in {1, 2, 3, 4, 5, 6, 7, 8, 9, 10, 11, 12, 13, 14}
  OBVIOUS
<1>3. ASSUME NEW part, NEW k \in 1..14, main[k] = part, done >= k
      PROVE  Stored(part)
  BY <1>1, <1>3 DEF Stored
<1>4. ASSUME NEW part, NEW k \in 1..14, Stored(part), \A i \in 1..14 : main[i] = part => i >= k
      PROVE  done >= k
  <2>1. PICK i \in 1..done : main[i] = part
    BY <1>4 DEF Stored
  <2>2. i \in 1..14 /\ done >= i
    BY <1>1
  <2> QED
    BY <1>1, <1>4, <2>1, <2>2
<1>5. /\ done >= 2 => Stored("hooks")
      /\ done >= 3 => Stored("interrupt")
      /\ done >= 4 => Stored("write_lock")
      /\ done >= 5 => Stored("app_lock")
      /\ done >= 7 => Stored("on_write")
      /\ done >= 8 => Stored("on_recv")
      /\ done >= 9 => Stored("sem_audio_len")
  <2>1. /\ 2 \in 1..14 /\ 3 \in 1..14 /\ 4 \in 1..14 /\ 5 \in 1..14 /\ 7 \in 1..14
        /\ 8 \in 1..14 /\ 9 \in 1..14
    OBVIOUS
  <2> QED
    BY <1>3, <2>1, Order
<1>6. Stored("inited") => done >= 6
  <2>1. \A i \in 1..14 : main[i] = "inited" => i >= 6
    BY <1>2, Order
  <2>2. 6 \in 1..14
    OBVIOUS
  <2> QED
    BY ONLY <1>4, <2>1, <2>2
<1>7. Stored("on_recv") => done >= 8
  <2>1. \A i \in 1..14 : main[i] = "on_recv" => i >= 8
    BY <1>2, Order
  <2>2. 8 \in 1..14
    OBVIOUS
  <2> QED
    BY ONLY <1>4, <2>1, <2>2
<1>8. ASSUME NEW l \in List, Stored(l) PROVE done >= 9
  <2>1. \A i \in 1..14 : main[i] = l => i >= 9
    BY <1>2, Order DEF List
  <2>2. 9 \in 1..14
    OBVIOUS
  <2> QED
    BY ONLY <1>4, <1>8, <2>1, <2>2
<1>9. done \in Nat
  BY <1>1
<1>10. /\ done >= 6 => done >= 2 /\ done >= 4
       /\ done >= 8 => done >= 2 /\ done >= 3 /\ done >= 4 /\ done >= 5 /\ done >= 7
  BY <1>9
<1> QED
  BY <1>5, <1>6, <1>7, <1>8, <1>10

-----------------------------------------------------------------------------
(* The types                                                               *)

LEMMA TalkType ==
  ASSUME TypeOK
  PROVE  /\ Len(talk) \in Nat
         /\ \A m \in Messages : talk[m].list \in List
<1> DEFINE M == [list : List, rel : BOOLEAN]
<1>1. talk \in Seq(M)
  BY TalksAssumption DEF TypeOK
<1>2. \A m \in M : m.list \in List
  OBVIOUS
<1> HIDE DEF M
<1>3. Len(talk) \in Nat /\ \A m \in 1..Len(talk) : talk[m] \in M
  BY <1>1
<1> QED
  BY <1>2, <1>3 DEF Messages

LEMMA Sent ==
  ASSUME TypeOK, NEW m \in Messages, Transmit(m)
  PROVE  wire' \in Seq(Messages)
<1>1. wire \in Seq(Messages)
  BY DEF TypeOK
<1>2. wire' = Append(wire, m) \/ wire' = wire
  BY DEF Transmit
<1>3. Append(wire, m) \in Seq(Messages)
  BY <1>1
<1> QED
  BY <1>1, <1>2, <1>3

LEMMA TypeStep ==
  ASSUME TypeOK, SomeMessage, [Next]_vars
  PROVE  TypeOK' /\ SomeMessage'
<1> USE DEF SomeMessage
<1>0. Len(main) = 14 /\ Len(talk) \in Nat /\ RetryTimes \in Nat
  BY Order, TalkType, TalksAssumption
<1>1. CASE UNCHANGED vars
  BY <1>1 DEF TypeOK, Messages, vars
<1>2. ASSUME Main PROVE TypeOK' /\ SomeMessage'
  <2>1. UNCHANGED <<talk, chipVars, threadVars>>
    BY <1>2 DEF Main, UartInitialize, Store
  <2>2. done' \in 0..Len(main) /\ opened' \in BOOLEAN
    <3>1. CASE UartInitialize
      BY <1>0, <3>1 DEF UartInitialize
    <3>2. CASE Store
      <4>1. done \in 1..13 /\ done' = done + 1 /\ opened' = opened
        BY <1>0, <3>2 DEF Store
      <4>2. done' \in 0..14
        BY <4>1
      <4> QED
        BY <1>0, <4>1, <4>2 DEF TypeOK
    <3> QED
      BY <1>2, <3>1, <3>2 DEF Main
  <2> QED
    BY <2>1, <2>2 DEF TypeOK, Messages, chipVars, threadVars
<1>3. ASSUME Chip PROVE TypeOK' /\ SomeMessage'
  <2>1. UNCHANGED <<talk, mainVars, threadVars>>
    BY <1>3 DEF Chip, Say, SayAgain, SayNoMore
  <2>2. wire' \in Seq(Messages) /\ chip'.msg \in {0} \cup Messages /\ chip'.tries \in 0..RetryTimes
        /\ chip'.at \in {"idle", "wait"} /\ (chip'.at = "wait" => chip'.msg # 0)
        /\ chip' = [at |-> chip'.at, msg |-> chip'.msg, tries |-> chip'.tries]
    <3>0. /\ chip.at \in {"idle", "wait"} /\ chip.msg \in {0} \cup Messages
          /\ chip.tries \in 0..RetryTimes
          /\ chip = [at |-> chip.at, msg |-> chip.msg, tries |-> chip.tries]
      BY DEF TypeOK
    <3>1. CASE Say
      <4> DEFINE m == chip.msg + 1
      <4>1. m \in Messages /\ m # 0
        BY <1>0, <3>0, <3>1 DEF Say, Messages
      <4>2. Transmit(m) /\ chip' = [at |-> IF talk[m].rel THEN "wait" ELSE "idle",
                                    msg |-> m, tries |-> RetryTimes]
        BY <3>1 DEF Say
      <4>3. wire' \in Seq(Messages)
        BY <4>1, <4>2, Sent
      <4> HIDE DEF m
      <4> QED
        BY <1>0, <4>1, <4>2, <4>3
    <3>2. CASE SayAgain
      <4>1. chip.at = "wait" /\ chip.tries > 0 /\ Transmit(chip.msg)
            /\ chip' = [chip EXCEPT !.tries = @ - 1]
        BY <3>2 DEF SayAgain, Waiting
      <4>2. chip.msg \in Messages
        BY <3>0, <4>1
      <4>3. wire' \in Seq(Messages)
        BY <4>1, <4>2, Sent
      <4>4. chip' = [at |-> chip.at, msg |-> chip.msg, tries |-> chip.tries - 1]
        BY <3>0, <4>1
      <4>5. chip.tries - 1 \in 0..RetryTimes
        BY <1>0, <3>0, <4>1
      <4> QED
        BY <3>0, <4>1, <4>2, <4>3, <4>4, <4>5
    <3>3. CASE SayNoMore
      <4>1. wire' = wire /\ chip' = [chip EXCEPT !.at = "idle"]
        BY <3>3 DEF SayNoMore
      <4>2. chip' = [at |-> "idle", msg |-> chip.msg, tries |-> chip.tries]
        BY <3>0, <4>1
      <4> QED
        BY <3>0, <4>1, <4>2 DEF TypeOK
    <3> QED
      BY <1>3, <3>1, <3>2, <3>3 DEF Chip
  <2>3. Messages' = Messages
    BY <2>1 DEF Messages
  <2>4. chip' \in [at : {"idle", "wait"}, msg : {0} \cup Messages, tries : 0..RetryTimes]
    BY <2>2
  <2>5. SomeMessage'
    BY <2>1, <2>2 DEF threadVars
  <2> QED
    BY <2>1, <2>2, <2>3, <2>4, <2>5 DEF TypeOK, mainVars, threadVars
<1>4. ASSUME Parse PROVE TypeOK' /\ SomeMessage'
  <2>0. UNCHANGED <<talk, mainVars, chip>> /\ Messages' = Messages
    BY <1>4 DEF Parse, TakeFirstPart, TakeRest, Ignore, Acknowledge, Accept, Messages, chipVars
  <2> DEFINE RxType(r) ==
        /\ r \in [at : {"idle", "skip", "rest", "frame", "accept"}, msg : {0} \cup Messages]
        /\ r.at # "idle" => r.msg # 0
  <2>1. RxType(rx)
    BY DEF TypeOK
  <2>2. ASSUME NEW place \in {"idle", "frame", "accept"}, rx.at # "idle", Go(place)
        PROVE  RxType(rx')
    <3>1. rx' = [at |-> place, msg |-> rx.msg]
      BY <2>1, <2>2 DEF Go
    <3> QED
      BY <2>1, <2>2, <3>1
  <2>3. ASSUME RxType(rx'), UNCHANGED <<talk, mainVars, chip>>, Messages' = Messages,
               wire' \in Seq(Messages), lastRecv' \in {0} \cup Messages,
               queue' \in [List -> Seq(Messages)], crashed' \in BOOLEAN,
               acked' \subseteq Messages, UNCHANGED <<handled, dropped>>
        PROVE  TypeOK' /\ SomeMessage'
    BY <2>3 DEF TypeOK, mainVars
  <2> HIDE DEF RxType
  <2>4. CASE TakeFirstPart
    <3>1. wire \in Seq(Messages) /\ wire # <<>>
      BY <2>4 DEF TakeFirstPart, TypeOK
    <3>2. wire' \in Seq(Messages) /\ Head(wire) \in Messages
      BY <2>4, <3>1 DEF TakeFirstPart
    <3>3. Head(wire) # 0
      BY <3>2 DEF Messages
    <3>4. RxType(rx')
      BY <2>4, <3>2, <3>3 DEF TakeFirstPart, RxType
    <3>5. UNCHANGED <<lastRecv, queue, crashed, acked, handled, dropped>>
      BY <2>4 DEF TakeFirstPart
    <3> QED
      BY <2>0, <2>3, <3>2, <3>4, <3>5 DEF TypeOK
  <2>5. CASE TakeRest
    <3>1. RxType(rx')
      BY <2>2, <2>5 DEF TakeRest
    <3>2. UNCHANGED <<wire, lastRecv, queue, crashed, acked, handled, dropped>>
      BY <2>5 DEF TakeRest, chipVars
    <3> QED
      BY <2>0, <2>3, <3>1, <3>2 DEF TypeOK
  <2>6. CASE Ignore
    <3>1. RxType(rx')
      BY <2>2, <2>6 DEF Ignore
    <3>2. UNCHANGED <<wire, lastRecv, queue, crashed, acked, handled, dropped>>
      BY <2>6 DEF Ignore, chipVars, NotTold
    <3> QED
      BY <2>0, <2>3, <3>1, <3>2 DEF TypeOK
  <2>7. CASE Acknowledge
    <3>1. RxType(rx')
      BY <2>2, <2>7 DEF Acknowledge
    <3>2. UNCHANGED <<wire, lastRecv, queue, crashed, handled, dropped>>
      BY <2>7 DEF Acknowledge, chipVars
    <3>3. rx.msg \in Messages
      BY <2>1, <2>7 DEF RxType, Acknowledge
    <3>4. acked' \subseteq Messages
      BY <2>7, <3>3 DEF Acknowledge, TypeOK
    <3> QED
      BY <2>0, <2>3, <3>1, <3>2, <3>4 DEF TypeOK
  <2>8. CASE Accept
    <3>1. UNCHANGED <<wire, acked, handled, dropped>> /\ lastRecv' = rx.msg
      BY <2>8 DEF Accept, chipVars
    <3>2. rx.msg \in Messages /\ rx.at # "idle"
      BY <2>1, <2>8 DEF RxType, Accept
    <3>3. RxType(rx') /\ crashed' \in BOOLEAN
      <4>1. \/ Go("idle") /\ UNCHANGED crashed
            \/ UNCHANGED rx /\ crashed' = TRUE
        BY <2>8, Zenon DEF Accept, NoList
      <4> QED
        BY <2>1, <2>2, <3>2, <4>1 DEF TypeOK
    <3>4. queue' \in [List -> Seq(Messages)]
      <4> DEFINE l == talk[rx.msg].list
      <4>1. l \in List
        BY <3>2, TalkType
      <4>2. queue' = queue \/ queue' = [queue EXCEPT ![l] = Append(queue[l], rx.msg)]
        BY <2>8 DEF Accept, NoList
      <4> HIDE DEF l
      <4>3. queue \in [List -> Seq(Messages)]
        BY DEF TypeOK
      <4>4. Append(queue[l], rx.msg) \in Seq(Messages)
        BY <3>2, <4>1, <4>3
      <4> QED
        BY ONLY <4>1, <4>2, <4>3, <4>4
    <3> QED
      BY <2>0, <2>3, <3>1, <3>2, <3>3, <3>4 DEF TypeOK
  <2> QED
    BY <1>4, <2>4, <2>5, <2>6, <2>7, <2>8 DEF Parse
<1>5. ASSUME NEW l \in List, Handle(l) PROVE TypeOK' /\ SomeMessage'
  <2>0. UNCHANGED <<talk, mainVars, chipVars, rx, lastRecv, crashed, acked>>
    BY <1>5 DEF Handle
  <2>1. queue \in [List -> Seq(Messages)] /\ queue[l] # <<>>
        /\ queue' = [queue EXCEPT ![l] = Tail(queue[l])]
    BY <1>5 DEF Handle, TypeOK
  <2>2. queue[l] \in Seq(Messages)
    BY <2>1
  <2>3. Head(queue[l]) \in Messages /\ Tail(queue[l]) \in Seq(Messages)
    BY <2>1, <2>2
  <2>4. queue' \in [List -> Seq(Messages)]
    BY ONLY <2>1, <2>3
  <2>5. handled' \subseteq Messages /\ dropped' \subseteq Messages
    BY <1>5, <2>3 DEF Handle, TypeOK
  <2>6. Messages' = Messages
    BY <2>0 DEF Messages
  <2> QED
    BY <2>0, <2>4, <2>5, <2>6 DEF TypeOK, mainVars, chipVars
<1> QED
  BY <1>1, <1>2, <1>3, <1>4, <1>5 DEF Next

-----------------------------------------------------------------------------
(* What is used has been set up                                            *)

LEMMA StaysStored ==
  ASSUME TypeOK, TypeOK', [Next]_vars, NEW part, Stored(part)
  PROVE  Stored(part)'
<1>1. done' = done \/ done' = done + 1 \/ (done = 0 /\ done' = 1)
  BY DEF Next, Main, UartInitialize, Store, Chip, Say, SayAgain, SayNoMore, Parse,
         TakeFirstPart, TakeRest, Ignore, Acknowledge, Accept, Handle, vars, mainVars
<1>2. done \in Nat /\ done' \in Nat
  BY Order DEF TypeOK
<1>3. PICK i \in 1..done : main[i] = part
  BY DEF Stored
<1>4. i \in 1..done'
  BY <1>1, <1>2, <1>3
<1> QED
  BY <1>3, <1>4 DEF Stored

\* Where the protocol thread goes, and what is put on a list.
LEMMA Moves ==
  ASSUME TypeOK, [Next]_vars
  PROVE  /\ rx'.at \in {"rest", "frame"} => rx.at \in {"rest", "frame"} \/ Stored("inited")
         /\ rx'.at = "accept" => rx.at = "accept" \/ (rx.at = "frame" /\ Stored("on_recv"))
         /\ \A l \in List : queue'[l] # <<>> => queue[l] # <<>> \/ Stored(l)
<1>0. /\ rx = [at |-> rx.at, msg |-> rx.msg]
      /\ queue \in [List -> Seq(Messages)]
  BY DEF TypeOK
<1>1. CASE UNCHANGED <<rx, queue>>
  BY <1>1
<1>2. CASE TakeFirstPart
  BY <1>2 DEF TakeFirstPart
<1>3. CASE TakeRest
  <2>1. \/ rx.at = "rest" /\ rx' = [at |-> "frame", msg |-> rx.msg]
        \/ rx' = [at |-> "idle", msg |-> rx.msg]
    BY <1>0, <1>3 DEF TakeRest, Go
  <2>2. queue' = queue
    BY <1>3 DEF TakeRest
  <2> QED
    BY <2>1, <2>2
<1>4. CASE Ignore
  <2>1. rx' = [at |-> "idle", msg |-> rx.msg] /\ queue' = queue
    BY <1>0, <1>4 DEF Ignore, Go
  <2> QED
    BY <2>1
<1>5. CASE Acknowledge
  <2>1. /\ rx.at = "frame" /\ Stored("on_recv")
        /\ rx' = [at |-> "accept", msg |-> rx.msg] /\ queue' = queue
    BY <1>0, <1>5 DEF Acknowledge, Go, NobodyListens
  <2> QED
    BY <2>1
<1>6. CASE Accept
  <2>1. rx' = rx \/ rx' = [at |-> "idle", msg |-> rx.msg]
    BY <1>0, <1>6, Zenon DEF Accept, NoList, Go
  <2>2. rx.at = "accept"
    BY <1>6 DEF Accept
  <2> DEFINE k == talk[rx.msg].list
  <2>3. \/ queue' = queue
        \/ Stored(k) /\ queue' = [queue EXCEPT ![k] = Append(queue[k], rx.msg)]
    BY <1>6 DEF Accept, NoList
  <2> HIDE DEF k
  <2>4. ASSUME NEW l \in List, queue'[l] # <<>> PROVE queue[l] # <<>> \/ Stored(l)
    BY <1>0, <2>3, <2>4
  <2> QED
    BY <2>1, <2>2, <2>4
<1>7. ASSUME NEW k \in List, Handle(k)
      PROVE  rx' = rx /\ \A l \in List : queue'[l] # <<>> => queue[l] # <<>>
  BY <1>0, <1>7 DEF Handle
<1> QED
  <2>1. Main \/ Chip \/ UNCHANGED vars => UNCHANGED <<rx, queue>>
    BY DEF Main, UartInitialize, Store, Chip, Say, SayAgain, SayNoMore, vars, threadVars
  <2> QED
    BY <1>1, <1>2, <1>3, <1>4, <1>5, <1>6, <1>7, <2>1 DEF Next, Parse

LEMMA SetUpStep ==
  ASSUME TypeOK, TypeOK', SetUpBeforeUse, [Next]_vars
  PROVE  SetUpBeforeUse'
<1>0. done \in 0..Len(main)
  BY DEF TypeOK
<1>1. ASSUME rx'.at \in {"rest", "frame"}
      PROVE  Stored("hooks")' /\ Stored("write_lock")'
  <2>1. rx.at \in {"rest", "frame"} \/ Stored("inited")
    BY <1>1, Moves
  <2>2. Stored("hooks") /\ Stored("write_lock")
    BY <1>0, <2>1, Before DEF SetUpBeforeUse
  <2> QED
    BY <2>2, StaysStored
<1>2. ASSUME rx'.at = "accept", NEW part \in {"hooks", "interrupt", "write_lock", "app_lock",
                                              "on_write", "on_recv"}
      PROVE  Stored(part)'
  <2>1. rx.at = "accept" \/ Stored("on_recv")
    BY <1>2, Moves
  <2>2. Stored(part)
    BY <1>0, <2>1, Before DEF SetUpBeforeUse
  <2> QED
    BY <2>2, StaysStored
<1>3. ASSUME NEW l \in List, queue'[l] # <<>>
      PROVE  Stored(l)' /\ Stored("sem_audio_len")'
  <2>1. queue[l] # <<>> \/ Stored(l)
    BY <1>3, Moves
  <2>2. Stored(l) /\ Stored("sem_audio_len")
    BY <1>0, <2>1, Before DEF SetUpBeforeUse
  <2> QED
    BY <2>2, StaysStored
<1> QED
  BY <1>1, <1>2, <1>3 DEF SetUpBeforeUse

-----------------------------------------------------------------------------
(* Nothing that was given to the channel gets lost                         *)

LEMMA OthersLeaveLists ==
  ASSUME [Next]_vars, ~ Accept, \A l \in List : ~ Handle(l)
  PROVE  UNCHANGED <<queue, handled, dropped, lastRecv, crashed>>
BY DEF Next, Main, UartInitialize, Store, Chip, Say, SayAgain, SayNoMore, Parse,
       TakeFirstPart, TakeRest, Ignore, NotTold, Acknowledge, vars, threadVars

\* What Accept does with the packet of its frame.
LEMMA Accepted ==
  ASSUME TypeOK, SomeMessage, Accept
  PROVE  /\ rx.msg \in Messages /\ lastRecv' = rx.msg
         /\ UNCHANGED <<handled, dropped>>
         /\ ~ crashed
         /\ \/ lastRecv = rx.msg /\ UNCHANGED <<queue, crashed>>
            \/ /\ queue' = [queue EXCEPT ![talk[rx.msg].list] =
                                           Append(queue[talk[rx.msg].list], rx.msg)]
               /\ UNCHANGED crashed
            \/ UNCHANGED <<rx, queue>> /\ crashed'
BY DEF TypeOK, SomeMessage, Accept, NoList

LEMMA Appending ==
  ASSUME NEW S, NEW q \in Seq(S), NEW e \in S
  PROVE  /\ Len(q) + 1 \in 1..Len(Append(q, e)) /\ Append(q, e)[Len(q) + 1] = e
         /\ \A i \in 1..Len(q) : i \in 1..Len(Append(q, e)) /\ Append(q, e)[i] = q[i]
OBVIOUS

LEMMA Shifting ==
  ASSUME NEW S, NEW q \in Seq(S), q # <<>>
  PROVE  \A i \in 1..Len(q) : \/ q[i] = Head(q)
                              \/ i - 1 \in 1..Len(Tail(q)) /\ Tail(q)[i - 1] = q[i]
OBVIOUS

LEMMA KeptStep ==
  ASSUME TypeOK, SomeMessage, [Next]_vars, NEW m, Kept(m)
  PROVE  Kept(m)'
<1>0. queue \in [List -> Seq(Messages)]
  BY DEF TypeOK
<1>1. CASE UNCHANGED <<queue, handled, dropped>>
  BY <1>1 DEF Kept
<1>2. CASE Accept /\ ~ UNCHANGED queue
  <2> DEFINE k == talk[rx.msg].list
  <2>1. /\ rx.msg \in Messages /\ k \in List
        /\ UNCHANGED <<handled, dropped>>
        /\ queue' = [queue EXCEPT ![k] = Append(queue[k], rx.msg)]
    BY <1>2, Accepted, TalkType
  <2> HIDE DEF k
  <2>2. CASE m \in handled \cup dropped
    BY <2>1, <2>2 DEF Kept
  <2>3. ASSUME NEW l \in List, NEW i \in 1..Len(queue[l]), queue[l][i] = m PROVE Kept(m)'
    <3>1. CASE l # k
      <4>1. queue'[l] = queue[l]
        BY <1>0, <2>1, <3>1
      <4> QED
        BY <2>3, <4>1 DEF Kept
    <3>2. CASE l = k
      <4>1. queue'[l] = Append(queue[l], rx.msg)
        BY <1>0, <2>1, <3>2
      <4>2. queue[l] \in Seq(Messages)
        BY <1>0
      <4>3. i \in 1..Len(Append(queue[l], rx.msg)) /\ Append(queue[l], rx.msg)[i] = m
        BY <2>1, <2>3, <4>2, Appending
      <4> QED
        BY <4>1, <4>3 DEF Kept
    <3> QED
      BY <3>1, <3>2
  <2> QED
    BY <2>2, <2>3 DEF Kept
<1>3. ASSUME NEW k \in List, Handle(k) PROVE Kept(m)'
  <2>1. /\ queue[k] \in Seq(Messages) /\ queue[k] # <<>>
        /\ queue' = [queue EXCEPT ![k] = Tail(queue[k])]
        /\ handled' \cup dropped' = handled \cup dropped \cup {Head(queue[k])}
    BY <1>0, <1>3 DEF Handle
  <2>2. CASE m \in handled \cup dropped
    BY <2>1, <2>2 DEF Kept
  <2>3. ASSUME NEW l \in List, NEW i \in 1..Len(queue[l]), queue[l][i] = m PROVE Kept(m)'
    <3>1. CASE l # k
      <4>1. queue'[l] = queue[l]
        BY <1>0, <2>1, <3>1
      <4> QED
        BY <2>3, <4>1 DEF Kept
    <3>2. CASE l = k
      <4>1. queue'[l] = Tail(queue[l])
        BY <1>0, <2>1, <3>2
      <4>2. \/ m = Head(queue[l])
            \/ i - 1 \in 1..Len(Tail(queue[l])) /\ Tail(queue[l])[i - 1] = m
        BY <2>1, <2>3, <3>2, Shifting
      <4> QED
        BY <2>1, <3>2, <4>1, <4>2 DEF Kept
    <3> QED
      BY <3>1, <3>2
  <2> QED
    BY <2>2, <2>3 DEF Kept
<1> QED
  BY <1>1, <1>2, <1>3, OthersLeaveLists, Accepted

\* After Accept the packet is in the hands of the channel, or the program is dead.
LEMMA AcceptKeeps ==
  ASSUME TypeOK, SomeMessage, RememberedIsKept, Accept, NEW m, m = rx.msg
  PROVE  Kept(m)' \/ (crashed' /\ UNCHANGED rx)
<1>0. [Next]_vars
  BY DEF Next, Parse
<1>1. m \in Messages /\ m # 0 /\ ~ crashed
  BY Accepted DEF Messages
<1>2. CASE lastRecv = m
  <2>1. Kept(m)
    BY <1>1, <1>2 DEF RememberedIsKept
  <2> QED
    BY <1>0, <2>1, KeptStep
<1>3. CASE queue' = [queue EXCEPT ![talk[m].list] = Append(queue[talk[m].list], m)]
  <2> DEFINE k == talk[m].list
  <2>1. k \in List /\ queue \in [List -> Seq(Messages)]
    BY <1>1, TalkType DEF TypeOK
  <2>2. queue[k] \in Seq(Messages)
    BY <2>1
  <2> HIDE DEF k
  <2>3. queue'[k] = Append(queue[k], m)
    BY <1>3, <2>1 DEF k
  <2>4. /\ Len(queue[k]) + 1 \in 1..Len(Append(queue[k], m))
        /\ Append(queue[k], m)[Len(queue[k]) + 1] = m
    BY <1>1, <2>2, Appending
  <2> QED
    BY <2>1, <2>3, <2>4 DEF Kept
<1> QED
  BY <1>2, <1>3, Accepted

LEMMA RememberStep ==
  ASSUME TypeOK, SomeMessage, RememberedIsKept, [Next]_vars
  PROVE  RememberedIsKept'
<1>1. CASE Accept
  <2>1. Kept(lastRecv)' \/ crashed'
    <3>1. PICK m : m = rx.msg
      OBVIOUS
    <3>2. lastRecv' = m /\ (Kept(m)' \/ crashed')
      BY <1>1, <3>1, Accepted, AcceptKeeps
    <3> QED
      BY <3>2 DEF Kept
  <2> QED
    BY <2>1 DEF RememberedIsKept
<1>2. CASE ~ Accept
  <2>1. lastRecv' = lastRecv /\ crashed' = crashed
    BY <1>2, OthersLeaveLists DEF Handle
  <2>2. CASE crashed \/ lastRecv = 0
    BY <2>1, <2>2 DEF RememberedIsKept
  <2>3. CASE Kept(lastRecv)
    <3>1. PICK m : m = lastRecv
      OBVIOUS
    <3>2. Kept(m)'
      BY <2>3, <3>1, KeptStep
    <3>3. lastRecv' = m
      BY <2>1, <3>1
    <3> QED
      BY <3>2, <3>3 DEF Kept, RememberedIsKept
  <2> QED
    BY <2>2, <2>3 DEF RememberedIsKept
<1> QED
  BY <1>1, <1>2

LEMMA GivenStep ==
  ASSUME TypeOK, SomeMessage, RememberedIsKept, AcknowledgedIsGiven, [Next]_vars
  PROVE  AcknowledgedIsGiven'
<1> SUFFICES ASSUME NEW m, m \in acked'
             PROVE  Kept(m)' \/ (rx'.at = "accept" /\ rx'.msg = m)
  BY DEF AcknowledgedIsGiven, Given, Kept
<1>0. rx = [at |-> rx.at, msg |-> rx.msg]
  BY DEF TypeOK
<1>1. CASE m \in acked /\ Kept(m)
  BY <1>1, KeptStep
<1>2. CASE m \in acked /\ ~ Kept(m)
  <2>1. rx.at = "accept" /\ rx.msg = m
    BY <1>2 DEF AcknowledgedIsGiven, Given
  <2>2. CASE Accept
    BY <2>1, <2>2, AcceptKeeps
  <2>3. CASE ~ Accept
    <3>1. UNCHANGED rx
      BY <2>1, <2>3 DEF Next, Main, UartInitialize, Store, Chip, Say, SayAgain, SayNoMore,
                        Parse, TakeFirstPart, TakeRest, Ignore, Acknowledge, Handle, vars,
                        threadVars
    <3> QED
      BY <2>1, <3>1
  <2> QED
    BY <2>2, <2>3
<1>3. CASE m \notin acked
  <2>1. Acknowledge
    BY <1>3 DEF Next, Main, UartInitialize, Store, Chip, Say, SayAgain, SayNoMore, Parse,
                TakeFirstPart, TakeRest, Ignore, Accept, Handle, vars, threadVars
  <2>2. rx' = [at |-> "accept", msg |-> rx.msg] /\ m = rx.msg
    BY <1>0, <1>3, <2>1 DEF Acknowledge, Go
  <2> QED
    BY <2>2
<1> QED
  BY <1>1, <1>2, <1>3

-----------------------------------------------------------------------------

LEMMA Initially == Init => IInv /\ AcknowledgedIsGiven
<1> SUFFICES ASSUME Init PROVE IInv /\ AcknowledgedIsGiven
  OBVIOUS
<1>1. Len(main) = 14 /\ RetryTimes \in Nat
  BY Order, TalksAssumption
<1>2. TypeOK
  <2>1. \A l \in List : <<>> \in Seq(Messages)
    OBVIOUS
  <2>2. queue \in [List -> Seq(Messages)]
    BY <2>1 DEF Init
  <2>3. wire \in Seq(Messages)
    BY DEF Init
  <2>4. /\ chip \in [at : {"idle", "wait"}, msg : {0} \cup Messages, tries : 0..RetryTimes]
        /\ rx \in [at : {"idle", "skip", "rest", "frame", "accept"}, msg : {0} \cup Messages]
        /\ done \in 0..Len(main)
    BY <1>1 DEF Init, Idle
  <2> QED
    BY <2>2, <2>3, <2>4 DEF Init, TypeOK
<1>3. SomeMessage /\ SetUpBeforeUse /\ RememberedIsKept /\ AcknowledgedIsGiven
  BY DEF Init, Idle, SomeMessage, SetUpBeforeUse, RememberedIsKept, AcknowledgedIsGiven
<1> QED
  BY <1>2, <1>3 DEF IInv

\* Whenever the chip speaks while main is still at its stores (main.c:86-100,
\* uni_communication.c:816-825), no thread uses what has not been stored yet, with the
\* one exception of the event lists, where the program dies (NoList); and the duplicate
\* filter remembers only what the channel has in its hands.
THEOREM Invariant == Spec => []IInv
<1>1. Init => IInv
  BY Initially
<1>2. IInv /\ [Next]_vars => IInv'
  BY TypeStep, SetUpStep, RememberStep DEF IInv
<1> QED
  BY <1>1, <1>2, PTL DEF Spec

\* Whatever is acknowledged during the start (uni_communication.c:661 before :671) is in
\* the hands of the channel, or of the thread that is about to give it to the channel.
THEOREM AcknowledgedGiven == Spec => []AcknowledgedIsGiven
<1>1. Init => AcknowledgedIsGiven
  BY Initially
<1>2. IInv /\ AcknowledgedIsGiven /\ [Next]_vars => AcknowledgedIsGiven'
  BY GivenStep DEF IInv
<1> QED
  BY <1>1, <1>2, Invariant, PTL DEF Spec

================================================================================
