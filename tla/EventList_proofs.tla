--------------------------- MODULE EventList_proofs ---------------------------
(***************************************************************************)
(* Proofs about EventList, for any threads and any number of calls.        *)
(***************************************************************************)
EXTENDS EventList, SequenceTheorems, TLAPS

-----------------------------------------------------------------------------
(* Lemmas about the data                                                   *)

\* What a list, a record of a consumer and one of an adder may hold.
LEMMA Shapes ==
  ASSUME TypeOK
  PROVE  /\ \A p \in Prio : list[p] \in Seq(Event) /\ Len(list[p]) \in Nat
         /\ \A c \in Consumer : con[c] \in Step
         /\ \A t \in Task : adder[t] \in Call
BY LenProperties DEF TypeOK

\* Consumers and adders are different threads, and None is nobody.
LEMMA Names ==
  /\ \A t \in Task : t \notin Consumer /\ t # None
  /\ \A c \in Consumer : c # None
  /\ None \notin Event
BY ConstantsAssumption

\* The object starts with everything empty and the worker at the top of its
\* loop.
LEMMA InitInv == Init => IInv
<1> SUFFICES ASSUME Init PROVE IInv
  OBVIOUS
<1> USE DEF Init, At
<1>1. TypeOK
  BY ConstantsAssumption DEF TypeOK, Step, Place, Call, Prio, Consumer
<1>2. PlacesInv
  BY DEF PlacesInv, Places, Consuming, Consumer
<1>3. CountInv
  BY DEF CountInv, Begun, Consumer, Prio
<1>4. LifeInv
  BY DEF LifeInv, InUse, Consuming, Consumer
<1>5. NoLostWakeup
  BY DEF NoLostWakeup
<1> QED BY <1>1, <1>2, <1>3, <1>4, <1>5 DEF IInv

-----------------------------------------------------------------------------
(* EventListAdd                                                            *)

LEMMA AddBeginInv ==
  ASSUME IInv, NEW t \in Task, AddBegin(t)
  PROVE  IInv'
<1> USE DEF IInv
<1>0. PICK p \in Prio :
        adder' = [adder EXCEPT ![t] =
          [at |-> "lock", n |-> adder[t].n + 1,
           event |-> [by |-> t, n |-> adder[t].n + 1, prio |-> p]]]
  BY DEF AddBegin
<1>1. [by |-> t, n |-> adder[t].n + 1, prio |-> p] \in Event
      /\ adder[t].n + 1 \in 0..MaxAdds
  BY Shapes, ConstantsAssumption DEF AddBegin, Call, Event
<1>2. TypeOK'
  <2>1. adder' \in [Task -> Call]
    BY <1>0, <1>1 DEF TypeOK, Call
  <2> QED BY <2>1 DEF AddBegin, TypeOK, locks, object
<1>3. PlacesInv'
  BY <1>0, <1>1 DEF PlacesInv, AddBegin, TypeOK, locks
<1>4. CountInv'
  BY <1>0 DEF CountInv, Begun, AddBegin, TypeOK
<1>5. LifeInv'
  BY DEF LifeInv, InUse, At, AddBegin, locks, object
<1>6. NoLostWakeup'
  BY <1>0 DEF NoLostWakeup, At, AddBegin, TypeOK, locks
<1> QED BY <1>2, <1>3, <1>4, <1>5, <1>6

\* An EventListAdd in progress: the object is in use.
LEMMA AddStepInv ==
  ASSUME IInv, NEW t \in Task, AddStep(t)
  PROVE  IInv'
<1> USE DEF IInv
<1>0. adder[t].at # "idle" /\ adder[t] \in Call /\ InUse /\ adder[t].event \in Event
  BY Shapes DEF AddStep, AddLock, AddLink, AddCount, AddSignal, Posted, LifeInv, PlacesInv
<1>1. CASE AddLock(t)
  <2> USE <1>1 DEF AddLock
  <2>1. TypeOK'
    BY DEF TypeOK, Call, object
  <2>2. PlacesInv'
    BY Names DEF PlacesInv, TypeOK, Free
  <2>3. CountInv'
    BY DEF CountInv, Begun, TypeOK
  <2>4. LifeInv' /\ NoLostWakeup'
    BY <1>0 DEF LifeInv, NoLostWakeup, InUse, At, object, TypeOK
  <2> QED BY <2>1, <2>2, <2>3, <2>4
<1>2. CASE AddLink(t)
  <2> USE <1>2 DEF AddLink
  <2> DEFINE e == adder[t].event
  <2>0. e.prio \in Prio /\ mutex = t
    BY <1>0 DEF Event, PlacesInv
  <2>1. list' \in [Prio -> Seq(Event)]
        /\ Len(list'[e.prio]) = Len(list[e.prio]) + 1
        /\ \A q \in Prio : q # e.prio => list'[q] = list[q]
    BY <1>0, <2>0, AppendProperties DEF TypeOK
  <2>2. TypeOK'
    BY <2>1 DEF TypeOK, Call, locks, object
  <2>3. PlacesInv'
    BY <1>0 DEF PlacesInv, TypeOK, locks
  <2>4. CountInv'
    <3>1. \A c \in Consumer : con[c].at # "uncount"
      BY <2>0, Names DEF PlacesInv
    <3>2. \A u \in Task : u # t => adder[u].at # "count"
      BY <2>0 DEF PlacesInv
    <3>3. \A q \in Prio : Begun(q) = 0
      BY <3>1, <3>2 DEF Begun
    <3>4. \A q \in Prio : Begun(q)' = IF q = e.prio THEN -1 ELSE 0
      BY <3>1, <3>2 DEF Begun, TypeOK
    <3> QED BY <2>1, <3>3, <3>4, Shapes DEF CountInv, TypeOK
  <2>5. LifeInv'
    BY <1>0, <2>1 DEF LifeInv, InUse, At, Consuming, TypeOK, locks, object
  <2>6. NoLostWakeup'
    BY <1>0 DEF NoLostWakeup, TypeOK
  <2> QED BY <2>2, <2>3, <2>4, <2>5, <2>6
<1>3. CASE AddCount(t)
  <2> USE <1>3 DEF AddCount
  <2> DEFINE e == adder[t].event
  <2>0. e.prio \in Prio /\ mutex = t
    BY <1>0 DEF Event, PlacesInv
  <2>1. TypeOK'
    <3>1. cnt' \in [Prio -> Nat]
      BY <2>0 DEF TypeOK
    <3>2. adder' \in [Task -> Call]
      BY <1>0 DEF TypeOK, Call
    <3> QED BY <3>1, <3>2 DEF TypeOK, object
  <2>2. PlacesInv'
    BY <1>0, <2>0, Names DEF PlacesInv, TypeOK
  <2>3. CountInv'
    <3>1. \A c \in Consumer : con[c].at # "uncount"
      BY <2>0, Names DEF PlacesInv
    <3>2. \A u \in Task : u # t => adder[u].at # "count"
      BY <2>0 DEF PlacesInv
    <3>3. \A q \in Prio : Begun(q) = IF q = e.prio THEN -1 ELSE 0
      BY <3>1, <3>2 DEF Begun
    <3>4. \A q \in Prio : Begun(q)' = 0
      BY <3>1, <3>2 DEF Begun, TypeOK
    <3> QED BY <2>0, <3>3, <3>4, Shapes DEF CountInv, TypeOK
  <2>4. LifeInv' /\ NoLostWakeup'
    BY <1>0 DEF LifeInv, NoLostWakeup, InUse, At, object, TypeOK
  <2> QED BY <2>1, <2>2, <2>3, <2>4
<1>4. CASE AddSignal(t)
  <2> USE <1>4 DEF AddSignal, Posted
  <2>0. /\ adder' \in [Task -> Call]
        /\ adder'[t].at = "idle" /\ \A u \in Task : u # t => adder'[u] = adder[u]
    BY <1>0 DEF TypeOK, Call
  <2>1. TypeOK'
    BY <2>0 DEF TypeOK, object
  <2>2. PlacesInv'
    BY <2>0 DEF PlacesInv, TypeOK
  <2>3. CountInv'
    <3>1. \A u \in Task : adder'[u].at = "count" <=> adder[u].at = "count"
      BY <2>0
    <3>2. \A q \in Prio : Begun(q)' = Begun(q)
      BY <2>0, <3>1 DEF Begun
    <3> QED BY <3>2 DEF CountInv
  <2>4. LifeInv' /\ NoLostWakeup'
    BY <1>0 DEF LifeInv, NoLostWakeup, InUse, At, object, TypeOK
  <2> QED BY <2>1, <2>2, <2>3, <2>4
<1> QED BY <1>1, <1>2, <1>3, <1>4 DEF AddStep
-----------------------------------------------------------------------------
(* _consume_one_list                                                       *)

\* Another consumer than c and its place are not affected by a step of c.
Moves(c) == con' \in [Consumer -> Step] /\ \A d \in Consumer \ {c} : con'[d] = con[d]

\* What Go does to the record of a consumer.
LEMMA Gone ==
  ASSUME TypeOK, NEW c \in Consumer, NEW x \in Place, Go(c, x)
  PROVE  /\ Moves(c) /\ con'[c].at = x /\ con'[c].event = con[c].event
         /\ con'[c].prio = con[c].prio
<1>1. con'[c] = [con[c] EXCEPT !.at = x] /\ con[c] \in Step
      /\ \A d \in Consumer \ {c} : con'[d] = con[d]
  BY DEF Go, TypeOK
<1>2. con'[c] \in Step /\ con'[c].at = x /\ con'[c].event = con[c].event
      /\ con'[c].prio = con[c].prio
  BY <1>1 DEF Step
<1> QED BY <1>1, <1>2 DEF Moves, Go, TypeOK

LEMMA LockInv ==
  ASSUME IInv, NEW c \in Consumer, Lock(c)
  PROVE  IInv'
<1> USE DEF IInv, Lock
<1>0. /\ Moves(c) /\ con'[c].at = "look" /\ con'[c].event = con[c].event
      /\ con'[c].prio = con[c].prio /\ con[c].at = "lock"
  BY Gone DEF At, Place
<1>1. TypeOK'
  BY <1>0 DEF TypeOK, Moves, object
<1>2. PlacesInv'
  <2>1. "look" \in Places(c)
    BY DEF Places, Consuming, Consumer
  <2>2. \A t \in Task : adder[t].at \notin {"link", "count"}
    BY Names DEF PlacesInv, Free
  <2>3. \A d \in Consumer : con[d].at \notin {"look", "uncount", "leave"}
    BY Names DEF PlacesInv, Free
  <2> QED BY <1>0, <2>1, <2>2, <2>3 DEF PlacesInv, Moves
<1>3. CountInv'
  <2>1. \A d \in Consumer : con'[d].at # "uncount" /\ con[d].at # "uncount"
    BY <1>0, Names DEF Moves, PlacesInv, Free
  <2>2. \A q \in Prio : Begun(q)' = Begun(q)
    BY <2>1 DEF Begun
  <2> QED BY <2>2 DEF CountInv
<1>4. LifeInv'
  BY <1>0 DEF LifeInv, InUse, At, Moves, Consumer, Consuming, object
<1>5. NoLostWakeup'
  BY <1>0 DEF NoLostWakeup, At, Moves, Consumer
<1> QED BY <1>1, <1>2, <1>3, <1>4, <1>5

LEMMA LookInv ==
  ASSUME IInv, NEW c \in Consumer, Look(c)
  PROVE  IInv'
<1> USE DEF IInv
<1> DEFINE p == con[c].prio
<1>0. p \in Prio /\ con[c] \in Step /\ mutex = c /\ con[c].event = None
  BY Shapes DEF Look, At, Step, PlacesInv
<1>a. (\A d \in Consumer \ {c} : con[d].at # "uncount")
      /\ (\A t \in Task : adder[t].at # "count")
  BY <1>0, Names DEF PlacesInv
<1>1. CASE UNCHANGED list /\ Go(c, "leave") /\ (c # "worker" => list[p] = <<>>)
  <2>0. /\ Moves(c) /\ con'[c].at = "leave" /\ con'[c].event = con[c].event
        /\ con'[c].prio = con[c].prio /\ con[c].at = "look"
    BY <1>1, Gone DEF Look, At, Place
  <2>1. TypeOK'
    BY <1>1, <2>0 DEF Look, TypeOK, Moves, locks, object
  <2>2. PlacesInv'
    <3>1. "leave" \in Places(c)
      BY DEF Places, Consuming, Consumer
    <3> QED BY <1>0, <2>0, <3>1 DEF Look, PlacesInv, Moves, locks
  <2>3. CountInv'
    <3>1. \A d \in Consumer : con'[d].at # "uncount" /\ con[d].at # "uncount"
      BY <1>a, <2>0 DEF Moves
    <3>2. \A q \in Prio : Begun(q)' = Begun(q)
      BY <3>1 DEF Look, Begun
    <3> QED BY <1>1, <3>2 DEF Look, CountInv
  <2>4. LifeInv'
    <3>1. CASE c = "destroy"
      BY <1>1, <2>0, <3>1
         DEF Look, LifeInv, InUse, At, Moves, Consumer, Consuming, locks, object
    <3>2. CASE c # "destroy"
      BY <1>1, <2>0, <3>2
         DEF Look, LifeInv, InUse, At, Moves, Consumer, Consuming, locks, object
    <3> QED BY <3>1, <3>2
  <2>5. NoLostWakeup'
    BY <1>1, <2>0 DEF Look, NoLostWakeup, At, Moves, Consumer, locks
  <2> QED BY <2>1, <2>2, <2>3, <2>4, <2>5
<1>2. CASE /\ list[p] # <<>>
           /\ list' = [list EXCEPT ![p] = Tail(list[p])]
           /\ con' = [con EXCEPT ![c].at = "uncount", ![c].event = Head(list[p])]
  <2>1. Head(list[p]) \in Event /\ Tail(list[p]) \in Seq(Event)
        /\ Len(Tail(list[p])) = Len(list[p]) - 1
    BY <1>0, <1>2, Shapes, HeadTailProperties
  <2>2. con'[c] = [con[c] EXCEPT !.at = "uncount", !.event = Head(list[p])]
        /\ \A d \in Consumer \ {c} : con'[d] = con[d]
    BY <1>2 DEF TypeOK
  <2>3. con'[c] \in Step /\ con'[c].at = "uncount" /\ con'[c].prio = p
        /\ con'[c].event = Head(list[p])
    BY <1>0, <2>1, <2>2 DEF Step, Place
  <2>4. Moves(c)
    BY <1>2, <2>2, <2>3 DEF Moves, TypeOK
  <2>5. list' \in [Prio -> Seq(Event)] /\ list'[p] = Tail(list[p])
        /\ \A q \in Prio \ {p} : list'[q] = list[q]
    BY <1>0, <1>2, <2>1 DEF TypeOK
  <2>6. TypeOK'
    BY <2>4, <2>5 DEF Look, TypeOK, Moves, locks, object
  <2>7. PlacesInv'
    <3>1. "uncount" \in Places(c)
      BY DEF Places, Consuming, Consumer
    <3>2. Head(list[p]) # None
      BY <2>1, Names
    <3> QED BY <1>0, <2>3, <2>4, <3>1, <3>2 DEF Look, PlacesInv, Moves, locks
  <2>8. CountInv'
    <3>1. \A q \in Prio : Begun(q) = 0
      BY <1>a DEF Look, At, Begun
    <3>2. \A q \in Prio : Begun(q)' = IF q = p THEN 1 ELSE 0
      BY <1>a, <2>3, <2>4 DEF Look, Begun, Moves
    <3>3. cnt' = cnt /\ cnt[p] \in Nat /\ Len(list[p]) \in Nat
          /\ \A q \in Prio : cnt[q] = Len(list[q])
      BY <1>0, <3>1, Shapes DEF Look, CountInv, TypeOK
    <3>4. cnt'[p] = Len(list'[p]) + 1
      BY <2>1, <2>5, <3>3, <1>0
    <3>5. \A q \in Prio \ {p} : cnt'[q] = Len(list'[q]) + 0
      BY <2>5, <3>3, Shapes
    <3> QED BY <3>2, <3>4, <3>5 DEF CountInv
  <2>9. LifeInv'
    <3>1. \A q \in Prio : list[q] = <<>> => list'[q] = list[q]
      BY <1>2, <2>5
    <3> QED BY <1>2, <2>3, <2>4, <3>1
            DEF Look, LifeInv, InUse, At, Moves, Consumer, Consuming, locks, object
  <2>10. NoLostWakeup'
    <3>1. \A q \in Prio : list[q] = <<>> => list'[q] = list[q]
      BY <1>2, <2>5
    <3> QED BY <2>3, <2>4, <3>1 DEF Look, NoLostWakeup, At, Moves, Consumer, locks
  <2> QED BY <2>6, <2>7, <2>8, <2>9, <2>10
<1> QED BY <1>1, <1>2 DEF Look, Interrupted, DelOldest

LEMMA UncountInv ==
  ASSUME IInv, NEW c \in Consumer, Uncount(c)
  PROVE  IInv'
<1> USE DEF IInv, Uncount
<1> DEFINE p == con[c].prio
<1>0. p \in Prio /\ con[c] \in Step /\ mutex = c
  BY Shapes DEF At, Step, PlacesInv
<1>a. (\A d \in Consumer \ {c} : con[d].at # "uncount")
      /\ (\A t \in Task : adder[t].at # "count")
  BY <1>0, Names DEF PlacesInv
<1>b. /\ Moves(c) /\ con'[c].at = "deliver" /\ con'[c].event = con[c].event
      /\ con'[c].prio = p /\ con[c].at = "uncount"
  BY Gone DEF At, Place
<1>c. (\A q \in Prio : Begun(q) = IF q = p THEN 1 ELSE 0)
      /\ (\A q \in Prio : Begun(q)' = 0)
  BY <1>a, <1>b DEF Begun, Moves
<1>d. cnt' \in [Prio -> Nat] /\ cnt'[p] = cnt[p] - 1
      /\ \A q \in Prio \ {p} : cnt'[q] = cnt[q]
  <2>1. cnt[p] = Len(list[p]) + 1
    BY <1>0, <1>c DEF CountInv
  <2>2. cnt[p] - 1 \in Nat
    BY <1>0, <2>1, Shapes
  <2> QED BY <1>0, <2>2 DEF TypeOK
<1>1. TypeOK'
  BY <1>b, <1>d DEF TypeOK, Moves, object
<1>2. PlacesInv'
  <2>1. "deliver" \in Places(c)
    BY DEF Places, Consuming, Consumer
  <2> QED BY <1>0, <1>b, <2>1, Names DEF PlacesInv, Moves
<1>3. CountInv'
  BY <1>0, <1>c, <1>d, Shapes DEF CountInv, TypeOK
<1>4. LifeInv'
  BY <1>b DEF LifeInv, InUse, At, Moves, Consumer, Consuming, object
<1>5. NoLostWakeup'
  BY <1>b DEF NoLostWakeup, At, Moves, Consumer
<1> QED BY <1>1, <1>2, <1>3, <1>4, <1>5

LEMMA DeliverInv ==
  ASSUME IInv, NEW c \in Consumer, Deliver(c)
  PROVE  IInv'
<1> USE DEF IInv
<1>0. con[c] \in Step /\ con[c].event \in Event /\ con[c].at = "deliver"
  BY Shapes DEF Deliver, At, Step, PlacesInv
<1>a. con' = [con EXCEPT ![c] = [con[c] EXCEPT !.at = "lock", !.event = None]]
  BY DEF Deliver
<1>b. con'[c] \in Step /\ con'[c].at = "lock" /\ con'[c].prio = con[c].prio
      /\ con'[c].event = None /\ \A d \in Consumer \ {c} : con'[d] = con[d]
  BY <1>0, <1>a DEF Step, Place, TypeOK
<1>c. Moves(c)
  BY <1>a, <1>b DEF Moves, TypeOK
<1>1. TypeOK'
  <2>1. handled' \in Seq(Event)
    BY <1>0, AppendProperties DEF Deliver, TypeOK
  <2> QED BY <1>c, <2>1 DEF Deliver, TypeOK, Moves, locks, object
<1>2. PlacesInv'
  <2>1. "lock" \in Places(c)
    BY DEF Places, Consuming, Consumer
  <2> QED BY <1>b, <1>c, <2>1 DEF Deliver, PlacesInv, Moves, locks
<1>3. CountInv'
  <2>1. \A d \in Consumer : con'[d].at = "uncount" <=> con[d].at = "uncount"
    BY <1>b, <1>c DEF Deliver, Moves, At
  <2>2. \A q \in Prio : Begun(q)' = Begun(q)
    BY <1>b, <1>c, <2>1 DEF Deliver, Begun, Moves
  <2> QED BY <2>2 DEF Deliver, CountInv
<1>4. LifeInv'
  BY <1>b, <1>c DEF Deliver, LifeInv, InUse, At, Moves, Consumer, Consuming, locks, object
<1>5. NoLostWakeup'
  BY <1>b, <1>c DEF Deliver, NoLostWakeup, At, Moves, Consumer, locks
<1> QED BY <1>1, <1>2, <1>3, <1>4, <1>5

LEMMA LeaveInv ==
  ASSUME IInv, NEW c \in Consumer, Leave(c)
  PROVE  IInv'
<1> USE DEF IInv
<1> DEFINE p == con[c].prio
<1>0. p \in Prio /\ con[c] \in Step /\ mutex = c /\ con[c].event = None
      /\ con[c].at = "leave"
  BY Shapes DEF Leave, At, Step, PlacesInv
<1>a. con' = [con EXCEPT ![c] = IF p = 4
                THEN [con[c] EXCEPT !.at = After(c), !.prio = 1]
                ELSE [con[c] EXCEPT !.at = "lock", !.prio = 2 * p]]
  BY DEF Leave
<1>b. After(c) \in Places(c) \cap {"peek", "idle", "free"} /\ "lock" \in Places(c)
      /\ (c = "worker" => After(c) = "peek") /\ (c = "destroy" => After(c) = "free")
      /\ (c = "clear" => After(c) = "idle")
  BY DEF Places, Consuming, Consumer, After
<1>c. /\ con'[c] \in Step /\ con'[c].event = None
      /\ con'[c].at = IF p = 4 THEN After(c) ELSE "lock"
      /\ con'[c].prio = IF p = 4 THEN 1 ELSE 2 * p
  <2>1. p # 4 => 2 * p \in Prio
    BY <1>0 DEF Prio
  <2>2. After(c) \in {"peek", "idle", "free"} /\ 1 \in Prio
    BY <1>b DEF Prio
  <2>3. CASE p = 4
    BY <1>0, <1>a, <2>2, <2>3 DEF Step, Place, TypeOK
  <2>4. CASE p # 4
    BY <1>0, <1>a, <2>1, <2>4 DEF Step, Place, TypeOK
  <2> QED BY <2>3, <2>4
<1>d. Moves(c)
  BY <1>a, <1>c DEF Moves, TypeOK
<1>1. TypeOK'
  BY <1>d DEF Leave, TypeOK, Moves, object
<1>2. PlacesInv'
  BY <1>0, <1>b, <1>c, <1>d, Names DEF Leave, PlacesInv, Moves
<1>3. CountInv'
  <2>1. \A d \in Consumer : con'[d].at # "uncount" /\ con[d].at # "uncount"
    <3>1. \A d \in Consumer \ {c} : con[d].at # "uncount"
      BY <1>0 DEF PlacesInv
    <3>2. con'[c].at # "uncount"
      BY <1>b, <1>c
    <3> QED BY <1>0, <1>d, <3>1, <3>2 DEF Moves
  <2>2. \A q \in Prio : Begun(q)' = Begun(q)
    BY <2>1 DEF Leave, Begun
  <2> QED BY <2>2 DEF Leave, CountInv
<1>4. LifeInv'
  <2>1. CASE c = "destroy"
    <3>1. \A q \in Prio : q < p \/ q = p => list[q] = <<>>
      BY <1>0, <2>1 DEF LifeInv, At, Consuming
    <3>2. \A q \in Prio : p = 4 \/ q < 2 * p => q < p \/ q = p
      BY <1>0 DEF Prio
    <3> QED BY <1>b, <1>c, <1>d, <2>1, <3>1, <3>2
            DEF Leave, LifeInv, InUse, At, Moves, Consumer, Consuming, object
  <2>2. CASE c # "destroy"
    BY <1>b, <1>c, <1>d, <2>2
       DEF Leave, LifeInv, InUse, At, Moves, Consumer, Consuming, object
  <2> QED BY <2>1, <2>2
<1>5. NoLostWakeup'
  BY <1>b, <1>c, <1>d DEF Leave, NoLostWakeup, At, Moves, Consumer
<1> QED BY <1>1, <1>2, <1>3, <1>4, <1>5

LEMMA ConsumeInv ==
  ASSUME IInv, NEW c \in Consumer, Consume(c)
  PROVE  IInv'
BY LockInv, LookInv, UncountInv, DeliverInv, LeaveInv DEF Consume
-----------------------------------------------------------------------------
(* The worker's loop, EventListClear and EventListDestroy                  *)

\* A consumer that goes from one place outside the critical sections to
\* another, with no event in hand, changes no counter that somebody is about
\* to change and takes the mutex from nobody.
Outside == {"idle", "top", "lock", "peek", "recheck", "sleep", "exit", "gone",
            "signal", "join", "reset", "free"}

LEMMA OutsideInv ==
  ASSUME IInv, NEW c \in Consumer, Moves(c),
         con[c].at \in Outside, con'[c].at \in Outside \cap Places(c),
         con'[c].event = con[c].event,
         UNCHANGED <<list, cnt, mutex, adder>>
  PROVE  PlacesInv' /\ CountInv'
<1>1. PlacesInv'
  BY DEF IInv, PlacesInv, Moves, Outside
<1>2. /\ con'[c].at # "uncount" /\ con[c].at # "uncount"
      /\ \A d \in Consumer \ {c} : con'[d] = con[d]
  BY DEF Moves, Outside
<1>3. \A q \in Prio : Begun(q)' = Begun(q)
  BY <1>2 DEF Begun
<1>4. CountInv'
  BY <1>3 DEF IInv, CountInv
<1> QED BY <1>1, <1>4

LEMMA WorkerInv ==
  ASSUME IInv, Top \/ Peek \/ Recheck \/ Wake \/ Exit
  PROVE  IInv'
<1> DEFINE w == "worker"
<1> USE DEF IInv
<1>0. w \in Consumer /\ con[w] \in Step
      /\ {"top", "lock", "peek", "recheck", "sleep", "exit", "gone"}
           \subseteq Outside \cap Places(w) \cap Place
  BY Shapes DEF Consumer, Outside, Places, Consuming, Place
<1>1. CASE Top
  <2>0. /\ Moves(w) /\ con'[w].at = (IF isRunning THEN "lock" ELSE "exit")
        /\ con'[w].event = con[w].event /\ con[w].at = "top"
    BY <1>0, <1>1, Gone DEF Top, At
  <2>1. TypeOK'
    BY <1>1, <2>0 DEF Top, TypeOK, Moves, locks, object
  <2>2. PlacesInv' /\ CountInv'
    BY <1>0, <1>1, <2>0, OutsideInv DEF Top, locks
  <2>3. LifeInv' /\ NoLostWakeup'
    BY <1>1, <2>0 DEF Top, LifeInv, NoLostWakeup, InUse, At, Moves, Consumer,
                      Consuming, locks, object
  <2> QED BY <2>1, <2>2, <2>3
<1>2. CASE Peek
  <2>0. /\ con'[w] \in Step /\ con'[w].at \in {"top", "recheck", "peek"}
        /\ con'[w].event = con[w].event
        /\ \A d \in Consumer \ {w} : con'[d] = con[d]
    <3> DEFINE s == con[w]
    <3>1. /\ con[w].at = "peek" /\ s.prio \in Prio /\ 1 \in Prio
          /\ cnt[s.prio] \in Nat /\ (s.prio # 4 => 2 * s.prio \in Prio)
      BY <1>0, <1>2 DEF Peek, At, Step, Prio, TypeOK
    <3>2. con'[w] \in {[s EXCEPT !.at = "top", !.prio = 1],
                       [s EXCEPT !.at = "recheck", !.prio = 1],
                       [s EXCEPT !.prio = 2 * s.prio]}
          /\ (s.prio = 4 => con'[w] # [s EXCEPT !.prio = 2 * s.prio])
          /\ \A d \in Consumer \ {w} : con'[d] = con[d]
      <4>1. CASE cnt[s.prio] # 0
        <5>1. con' = [con EXCEPT ![w] = [s EXCEPT !.at = "top", !.prio = 1]]
          BY <1>2, <4>1 DEF Peek
        <5> QED BY <1>0, <3>1, <5>1 DEF TypeOK, Step, Prio
      <4>2. CASE cnt[s.prio] = 0 /\ s.prio = 4
        <5>1. con' = [con EXCEPT ![w] = [s EXCEPT !.at = "recheck", !.prio = 1]]
          BY <1>2, <4>2 DEF Peek
        <5> QED BY <1>0, <3>1, <5>1 DEF TypeOK, Step, Prio
      <4>3. CASE cnt[s.prio] = 0 /\ s.prio # 4
        <5>1. con' = [con EXCEPT ![w] = [s EXCEPT !.prio = 2 * s.prio]]
          BY <1>2, <4>3 DEF Peek
        <5> QED BY <1>0, <3>1, <4>3, <5>1 DEF TypeOK, Step, Prio
      <4> QED BY <4>1, <4>2, <4>3
    <3> QED BY <1>0, <3>1, <3>2 DEF Step, Place, Prio
  <2>1. Moves(w) /\ con[w].at = "peek"
    BY <1>2, <2>0 DEF Peek, At, Moves, TypeOK
  <2>2. TypeOK'
    BY <1>2, <2>1 DEF Peek, TypeOK, Moves, locks, object
  <2>3. PlacesInv' /\ CountInv'
    BY <1>0, <1>2, <2>0, <2>1, OutsideInv DEF Peek, locks
  <2>4. LifeInv' /\ NoLostWakeup'
    BY <1>2, <2>0, <2>1 DEF Peek, LifeInv, NoLostWakeup, InUse, At, Moves,
                            Consumer, Consuming, locks, object
  <2> QED BY <2>2, <2>3, <2>4
<1>3. CASE Recheck
  <2>0. /\ Moves(w) /\ con'[w].at = (IF AllListEmpty THEN "sleep" ELSE "top")
        /\ con'[w].event = con[w].event /\ con[w].at = "recheck"
    BY <1>0, <1>3, Gone DEF Recheck, At
  <2>1. TypeOK'
    BY <1>3, <2>0 DEF Recheck, TypeOK, Moves, locks, object
  <2>2. PlacesInv' /\ CountInv'
    BY <1>0, <1>3, <2>0, OutsideInv DEF Recheck, locks
  <2>3. LifeInv'
    BY <1>3, <2>0 DEF Recheck, LifeInv, InUse, At, Moves, Consumer,
                      Consuming, locks, object
  <2>4. AllListEmpty => \A p \in Prio : list[p] = <<>>
    <3>1. \A p \in Prio : Begun(p) = 0
      BY <1>3, Names DEF Recheck, Free, PlacesInv, Begun
    <3>2. \A p \in Prio : cnt[p] = Len(list[p])
      BY <3>1, Shapes DEF CountInv
    <3> QED BY <3>2, Shapes, EmptySeq DEF AllListEmpty
  <2>5. NoLostWakeup'
    BY <1>3, <2>0, <2>4 DEF Recheck, NoLostWakeup, At, locks
  <2> QED BY <2>1, <2>2, <2>3, <2>5
<1>4. CASE Wake
  <2>0. /\ Moves(w) /\ con'[w].at = "top"
        /\ con'[w].event = con[w].event /\ con[w].at = "sleep"
    BY <1>0, <1>4, Gone DEF Wake, At
  <2>1. TypeOK'
    BY <1>4, <2>0 DEF Wake, TypeOK, Moves, object
  <2>2. PlacesInv' /\ CountInv'
    BY <1>0, <1>4, <2>0, OutsideInv DEF Wake
  <2>3. LifeInv' /\ NoLostWakeup'
    BY <1>4, <2>0 DEF Wake, LifeInv, NoLostWakeup, InUse, At, Moves, Consumer,
                      Consuming, object
  <2> QED BY <2>1, <2>2, <2>3
<1>5. CASE Exit
  <2>0. /\ Moves(w) /\ con'[w].at = "gone"
        /\ con'[w].event = con[w].event /\ con[w].at = "exit"
    BY <1>0, <1>5, Gone DEF Exit, At
  <2>1. TypeOK'
    BY <1>5, <2>0 DEF Exit, TypeOK, Moves, object
  <2>2. PlacesInv' /\ CountInv'
    BY <1>0, <1>5, <2>0, OutsideInv DEF Exit
  <2>3. LifeInv' /\ NoLostWakeup'
    BY <1>5, <2>0 DEF Exit, LifeInv, NoLostWakeup, InUse, At, Moves, Consumer,
                      Consuming, object
  <2> QED BY <2>1, <2>2, <2>3
<1> QED BY <1>1, <1>2, <1>3, <1>4, <1>5

LEMMA ClearBeginInv ==
  ASSUME IInv, ClearBegin
  PROVE  IInv'
<1> DEFINE c == "clear"
<1> USE DEF IInv
<1>0. /\ Moves(c) /\ con'[c].at = "lock" /\ con'[c].event = con[c].event
      /\ con[c].at = "idle" /\ c \in Consumer
  BY Gone DEF ClearBegin, At, Consumer, Place
<1>1. TypeOK'
  BY <1>0 DEF ClearBegin, TypeOK, Moves, locks, object
<1>2. PlacesInv' /\ CountInv'
  BY <1>0, OutsideInv DEF ClearBegin, locks, Outside, Places, Consuming
<1>3. LifeInv' /\ NoLostWakeup'
  BY <1>0 DEF ClearBegin, LifeInv, NoLostWakeup, InUse, At, Moves, Consumer,
              Consuming, locks, object
<1> QED BY <1>1, <1>2, <1>3

LEMMA DestroyInv ==
  ASSUME IInv,
         DestroyBegin \/ DestroySignal \/ DestroyJoin \/ DestroyReset \/ DestroyFree
  PROVE  IInv'
<1> DEFINE c == "destroy"
<1> USE DEF IInv
<1>0. c \in Consumer
      /\ {"idle", "signal", "join", "reset", "lock", "free", "gone"}
           \subseteq Outside \cap Places(c) \cap Place
  BY DEF Consumer, Outside, Places, Consuming, Place
<1>1. CASE DestroyBegin
  <2>0. /\ Moves(c) /\ con'[c].at = "signal" /\ con'[c].event = con[c].event
        /\ con[c].at = "idle" /\ con'[c].prio = con[c].prio
    BY <1>0, <1>1, Gone DEF DestroyBegin, InUse, At
  <2>1. TypeOK'
    BY <1>1, <2>0 DEF DestroyBegin, TypeOK, Moves, locks
  <2>2. PlacesInv' /\ CountInv'
    BY <1>0, <1>1, <2>0, OutsideInv DEF DestroyBegin, locks
  <2>3. LifeInv' /\ NoLostWakeup'
    BY <1>1, <2>0 DEF DestroyBegin, LifeInv, NoLostWakeup, InUse, At, Moves,
                      Consumer, Consuming, locks
  <2> QED BY <2>1, <2>2, <2>3
<1>2. CASE DestroySignal
  <2>0. /\ Moves(c) /\ con'[c].at = "join" /\ con'[c].event = con[c].event
        /\ con[c].at = "signal" /\ con'[c].prio = con[c].prio
    BY <1>0, <1>2, Gone DEF DestroySignal, At
  <2>1. TypeOK'
    BY <1>2, <2>0 DEF DestroySignal, Signalled, TypeOK, Moves, object
  <2>2. PlacesInv' /\ CountInv'
    BY <1>0, <1>2, <2>0, OutsideInv DEF DestroySignal
  <2>3. LifeInv' /\ NoLostWakeup'
    BY <1>2, <2>0 DEF DestroySignal, Signalled, LifeInv, NoLostWakeup, InUse, At,
                      Moves, Consumer, Consuming, object, TypeOK
  <2> QED BY <2>1, <2>2, <2>3
<1>3. CASE DestroyJoin
  <2>0. /\ Moves(c) /\ con'[c].at = "reset" /\ con'[c].event = con[c].event
        /\ con[c].at = "join" /\ con'[c].prio = con[c].prio
    BY <1>0, <1>3, Gone DEF DestroyJoin, At
  <2>1. TypeOK'
    BY <1>3, <2>0 DEF DestroyJoin, WorkerLeft, TypeOK, Moves, object
  <2>2. PlacesInv' /\ CountInv'
    BY <1>0, <1>3, <2>0, OutsideInv DEF DestroyJoin
  <2>3. LifeInv' /\ NoLostWakeup'
    BY <1>3, <2>0 DEF DestroyJoin, WorkerLeft, LifeInv, NoLostWakeup, InUse, At,
                      Moves, Consumer, Consuming, object
  <2> QED BY <2>1, <2>2, <2>3
<1>4. CASE DestroyReset
  <2>0. /\ Moves(c) /\ con'[c].at = "lock" /\ con'[c].event = con[c].event
        /\ con[c].at = "reset" /\ con'[c].prio = con[c].prio
    BY <1>0, <1>4, Gone DEF DestroyReset, At
  <2>1. TypeOK'
    BY <1>4, <2>0 DEF DestroyReset, TypeOK, Moves, locks
  <2>2. PlacesInv' /\ CountInv'
    BY <1>0, <1>4, <2>0, OutsideInv DEF DestroyReset, locks
  <2>3. LifeInv' /\ NoLostWakeup'
    BY <1>4, <2>0 DEF DestroyReset, LifeInv, NoLostWakeup, InUse, At,
                      Moves, Consumer, Consuming, locks, Prio
  <2> QED BY <2>1, <2>2, <2>3
<1>5. CASE DestroyFree
  <2>0. /\ Moves(c) /\ con'[c].at = "gone" /\ con'[c].event = con[c].event
        /\ con[c].at = "free"
    BY <1>0, <1>5, Gone DEF DestroyFree, At
  <2>1. TypeOK'
    BY <1>5, <2>0 DEF DestroyFree, TypeOK, Moves, locks
  <2>2. PlacesInv' /\ CountInv'
    BY <1>0, <1>5, <2>0, OutsideInv DEF DestroyFree, locks
  <2>3. LifeInv' /\ NoLostWakeup'
    BY <1>5, <2>0 DEF DestroyFree, LifeInv, NoLostWakeup, InUse, At,
                      Moves, Consumer, Consuming, locks
  <2> QED BY <2>1, <2>2, <2>3
<1> QED BY <1>1, <1>2, <1>3, <1>4, <1>5

-----------------------------------------------------------------------------
(* The theorems                                                            *)

LEMMA NextInv == IInv /\ [Next]_vars => IInv'
<1> SUFFICES ASSUME IInv, [Next]_vars PROVE IInv'
  OBVIOUS
<1>1. ASSUME NEW t \in Task, AddBegin(t) \/ AddStep(t) PROVE IInv'
  BY <1>1, AddBeginInv, AddStepInv
<1>2. CASE WorkerStep
  BY <1>2, ConsumeInv, WorkerInv DEF WorkerStep, Consumer
<1>3. CASE ClearBegin \/ ClearStep
  BY <1>3, ConsumeInv, ClearBeginInv DEF ClearStep, Consumer
<1>4. CASE DestroyBegin \/ DestroyStep
  BY <1>4, ConsumeInv, DestroyInv DEF DestroyStep, Consumer
<1>5. CASE UNCHANGED vars
  <2>1. UNCHANGED <<list, cnt, mutex, semNewEvent, semExit, isRunning, handlersSet,
                    allocated, con, adder, clears, handled>>
    BY <1>5 DEF vars, locks, object
  <2>2. TypeOK' /\ PlacesInv'
    BY <2>1 DEF IInv, TypeOK, PlacesInv
  <2>3. CountInv' /\ LifeInv' /\ NoLostWakeup'
    BY <2>1 DEF IInv, CountInv, Begun, LifeInv, NoLostWakeup, InUse, At
  <2> QED BY <2>2, <2>3 DEF IInv
<1> QED BY <1>1, <1>2, <1>3, <1>4, <1>5 DEF Next, Finished

\* The inductive invariant: the counters follow the lists, the object is
\* taken apart in order, and the worker never sleeps on events.
THEOREM Invariant == Spec => []IInv
BY InitInv, NextInv, PTL DEF Spec

\* The worker never sleeps while an event is waiting, unless its wake-up is
\* on its way, however the adds interleave with its unlocked look at the
\* counters.
THEOREM WakeUps == Spec => []NoLostWakeup
<1>1. IInv => NoLostWakeup
  BY DEF IInv
<1> QED BY <1>1, Invariant, PTL

\* Outside the critical sections the counters are the lengths of the lists.
THEOREM Counters == Spec => []CountsAgree
<1>1. IInv => CountsAgree
  <2> SUFFICES ASSUME IInv, mutex = None
               PROVE  \A p \in Prio : cnt[p] = Len(list[p])
    BY DEF CountsAgree
  <2>1. \A p \in Prio : Begun(p) = 0
    BY Names DEF IInv, PlacesInv, Begun
  <2> QED BY <2>1, Shapes DEF IInv, CountInv
<1> QED BY <1>1, Invariant, PTL

\* EventListDestroy frees the object when nobody uses it any more and its
\* lists are empty.
THEOREM SafeDestroy == Spec => []NoUseAfterFree
<1>1. IInv => NoUseAfterFree
  BY DEF IInv, LifeInv, NoUseAfterFree, Users, InUse, At, Consumer, Consuming
<1> QED BY <1>1, Invariant, PTL
-----------------------------------------------------------------------------
(* EventList implements PriorityQueue                                      *)

\* A step that leaves the lists, the worker's event and the history alone can
\* only begin or end a clearing or the destruction.
LEMMA QuietStep ==
  ASSUME con'["worker"].event = con["worker"].event, UNCHANGED <<list, handled>>
  PROVE  Queue!Next
BY DEF Queue!Next, Queue!Discard

LEMMA QueueInit == Init => Queue!Init
BY DEF Init, Queue!Init, At, Consumer

LEMMA QueueConsume ==
  ASSUME IInv, NEW c \in Consumer, Consume(c)
  PROVE  Queue!Next
<1> USE DEF IInv
<1> DEFINE w == "worker"
           p == con[c].prio
<1>0. p \in Prio /\ con[c] \in Step /\ w \in Consumer
  BY Shapes DEF Step, Consumer
<1>1. CASE Lock(c)
  <2>1. con'[w].event = con[w].event
    BY <1>0, <1>1, Gone DEF Lock, Moves, Place
  <2> QED BY <1>1, <2>1, QuietStep DEF Lock
<1>2. CASE Look(c)
  <2>1. CASE UNCHANGED list /\ Go(c, "leave")
    <3>1. con'[w].event = con[w].event
      BY <1>0, <2>1, Gone DEF Moves, Place
    <3> QED BY <1>2, <2>1, <3>1, QuietStep DEF Look
  <2>2. CASE /\ ~Interrupted(c, p) /\ list[p] # <<>>
             /\ list' = [list EXCEPT ![p] = Tail(list[p])]
             /\ con' = [con EXCEPT ![c].at = "uncount", ![c].event = Head(list[p])]
    <3>1. con'[c].event = Head(list[p]) /\ con'[c].at = "uncount"
          /\ (\A d \in Consumer \ {c} : con'[d] = con[d]) /\ con[c].at = "look"
          /\ con[c].event = None /\ mutex = c
      BY <1>0, <1>2, <2>2 DEF Look, At, Step, TypeOK, PlacesInv
    <3>2. CASE c = w
      <4>1. handlersSet
        BY <3>1, <3>2 DEF LifeInv, At
      <4>2. \A q \in Prio : Begun(q) = 0
        BY <3>1, Names DEF PlacesInv, Begun
      <4>3. \A q \in Prio : q < p => list[q] = <<>>
        <5> SUFFICES ASSUME NEW q \in Prio, q < p PROVE list[q] = <<>>
          OBVIOUS
        <5>1. cnt[q] = 0
          BY <2>2, <3>2, <4>1 DEF Interrupted, TypeOK
        <5>2. Len(list[q]) = 0
          BY <4>2, <5>1, Shapes DEF CountInv
        <5> QED BY <5>2, Shapes, EmptySeq
      <4>4. Queue!Foremost(p)
        BY <4>3 DEF Queue!Foremost
      <4>5. con[w].event = None /\ con'[w].event = Head(list[p])
        BY <3>1, <3>2
      <4>6. UNCHANGED <<handled, (At("clear", "idle")), (At("destroy", "idle"))>>
        BY <1>2, <3>1, <3>2 DEF Look, At, Consumer
      <4>7. Queue!Take(p)
        BY <2>2, <4>4, <4>5, <4>6 DEF Queue!Take
      <4> QED BY <1>0, <4>7 DEF Queue!Next
    <3>3. CASE c # w
      <4>1. con'[w] = con[w] /\ ~(At("clear", "idle") /\ At("destroy", "idle"))
            /\ ~(At("clear", "idle")' /\ At("destroy", "idle")')
        BY <1>0, <3>1, <3>3 DEF At, Consumer
      <4>2. Queue!Drop(p)
        BY <1>2, <2>2, <4>1 DEF Queue!Drop, Look
      <4> QED BY <1>0, <4>2 DEF Queue!Next
    <3> QED BY <3>2, <3>3
  <2> QED BY <1>2, <2>1, <2>2 DEF Look, DelOldest
<1>3. CASE Uncount(c)
  <2>1. con'[w].event = con[w].event
    BY <1>0, <1>3, Gone DEF Uncount, Moves, Place
  <2> QED BY <1>3, <2>1, QuietStep DEF Uncount
<1>4. CASE Deliver(c)
  <2>1. con'[c].event = None /\ con'[c].at = "lock" /\ con[c].at = "deliver"
        /\ (\A d \in Consumer \ {c} : con'[d] = con[d])
        /\ con[c].event # None
    BY <1>0, <1>4 DEF Deliver, At, Step, TypeOK, PlacesInv
  <2>2. CASE c = w /\ handlersSet /\ isRunning
    <3>1. Queue!Handle
      BY <1>4, <2>1, <2>2 DEF Queue!Handle, Deliver, At, Consumer
    <3> QED BY <3>1 DEF Queue!Next
  <2>3. CASE c = w /\ ~(handlersSet /\ isRunning)
    <3>1. ~At("destroy", "idle")
      BY <2>3 DEF LifeInv, InUse, At
    <3>2. Queue!Forgo
      BY <1>4, <2>1, <2>3, <3>1 DEF Queue!Forgo, Deliver, At, Consumer
    <3> QED BY <3>2 DEF Queue!Next
  <2>4. CASE c # w
    BY <1>0, <1>4, <2>1, <2>4, QuietStep DEF Deliver
  <2> QED BY <2>2, <2>3, <2>4
<1>5. CASE Leave(c)
  <2>1. con'[w].event = con[w].event
    <3>1. \A d \in Consumer \ {c} : con'[d] = con[d]
      BY <1>5 DEF Leave, TypeOK
    <3>2. con'[c].event = con[c].event
      BY <1>0, <1>5 DEF Leave, TypeOK, Step
    <3> QED BY <1>0, <3>1, <3>2
  <2> QED BY <1>5, <2>1, QuietStep DEF Leave
<1> QED BY <1>1, <1>2, <1>3, <1>4, <1>5 DEF Consume

LEMMA QueueNext ==
  ASSUME IInv, [Next]_vars
  PROVE  [Queue!Next]_Queue!vars
<1> DEFINE w == "worker"
<1>0. w \in Consumer /\ con[w] \in Step /\ con \in [Consumer -> Step] /\ TypeOK
  BY Shapes DEF IInv, TypeOK, Consumer
<1>1. ASSUME NEW t \in Task, AddBegin(t) \/ AddStep(t) PROVE Queue!Next
  <2>1. CASE AddLink(t)
    <3>1. adder[t].event \in Event
      BY <2>1 DEF AddLink, IInv, PlacesInv
    <3>2. Queue!Add(adder[t].event)
      BY <2>1 DEF AddLink, Queue!Add, At
    <3> QED BY <3>1, <3>2 DEF Queue!Next
  <2>2. CASE AddBegin(t) \/ AddLock(t) \/ AddCount(t) \/ AddSignal(t)
    BY <2>2, QuietStep DEF AddBegin, AddLock, AddCount, AddSignal
  <2> QED BY <1>1, <2>1, <2>2 DEF AddStep
<1>2. ASSUME NEW c \in Consumer, Consume(c) PROVE Queue!Next
  BY <1>2, QueueConsume
<1>3. CASE Top \/ Recheck \/ Wake \/ Exit
  <2>1. \E x \in Place : Go(w, x)
    BY <1>3 DEF Top, Recheck, Wake, Exit, Place
  <2>2. con'[w].event = con[w].event
    BY <1>0, <2>1, Gone DEF Moves
  <2> QED BY <1>3, <2>2, QuietStep DEF Top, Recheck, Wake, Exit
<1>4. CASE Peek
  <2>1. cnt[con[w].prio] \in Nat
    BY <1>0 DEF TypeOK, Step
  <2>2. con'[w].event = con[w].event
    BY <1>0, <1>4, <2>1 DEF Peek, Step
  <2> QED BY <1>4, <2>2, QuietStep DEF Peek
<1>5. CASE \/ ClearBegin \/ DestroyBegin \/ DestroySignal \/ DestroyJoin
           \/ DestroyReset \/ DestroyFree
  <2>1. \E c \in {"clear", "destroy"}, x \in Place : Go(c, x)
    BY <1>5 DEF ClearBegin, DestroyBegin, DestroySignal, DestroyJoin,
                DestroyReset, DestroyFree, Place
  <2>2. con'[w].event = con[w].event
    BY <1>0, <2>1, Gone DEF Moves, Consumer
  <2> QED BY <1>5, <2>2, QuietStep
          DEF ClearBegin, DestroyBegin, DestroySignal, DestroyJoin,
              DestroyReset, DestroyFree
<1>6. CASE UNCHANGED vars
  <2>1. UNCHANGED Queue!vars
    BY <1>6 DEF vars, Queue!vars, At
  <2> QED BY <2>1
<1>7. CASE Next
  BY <1>1, <1>2, <1>3, <1>4, <1>5, <1>6, <1>7
     DEF Next, Finished, WorkerStep, ClearStep, DestroyStep, Consumer
<1> QED BY <1>6, <1>7

\* Whatever the adders, the worker, EventListClear and EventListDestroy do at
\* the same time, events are handled in the order PriorityQueue allows.
THEOREM Refinement == Spec => QueueSpec
<1>1. IInv /\ [Next]_vars => [Queue!Next]_Queue!vars
  BY QueueNext
<1> QED BY <1>1, QueueInit, Invariant, PTL DEF Spec, QueueSpec, Queue!Spec
=============================================================================
