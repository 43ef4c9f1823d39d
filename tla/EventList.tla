------------------------------- MODULE EventList -------------------------------
(***************************************************************************)
(* utils/event_list/src/uni_event_list.c: three lists of events behind one *)
(* mutex, a worker thread that empties them from the highest priority to   *)
(* the lowest, and the threads that add events, clear the lists or destroy *)
(* the object.                                                             *)
(*                                                                         *)
(* The worker, EventListClear and EventListDestroy all run                 *)
(* _consume_one_list on one list after the other; they are the consumers   *)
(* below.  A list's counter is changed in the same critical section as the *)
(* list but not in the same step, and the worker looks at the counters     *)
(* without the mutex before it decides to sleep.                           *)
(***************************************************************************)
EXTENDS Integers, Sequences

CONSTANTS
  Task,       \* the threads that call EventListAdd
  None,       \* nobody holds the mutex; no event is in hand
  MaxAdds,    \* bound: calls of EventListAdd by each thread
  MaxClears,  \* bound: calls of EventListClear
  Destroys    \* whether EventListDestroy is called

\* EVENT_LIST_PRIORITY_HIGHEST, _MEDIUM and _LOWEST, 1 << 0, 1 << 1, 1 << 2.
Prio == {1, 2, 4}
Consumer == {"worker", "clear", "destroy"}
Event == [by : Task, n : 1..MaxAdds, prio : Prio]

ASSUME ConstantsAssumption ==
  /\ None \notin Task \cup Consumer \cup Event
  /\ Task \cap Consumer = {}
  /\ MaxAdds \in Nat /\ MaxClears \in Nat /\ Destroys \in BOOLEAN

VARIABLES
  list,        \* list[p]: highest_list, medium_list, lowest_list
  cnt,         \* cnt[p]: highest_cnt, medium_cnt, lowest_cnt
  mutex,       \* its holder, or None
  semNewEvent, \* the semaphore the worker sleeps on
  semExit,     \* sem_thread_exit_sync
  isRunning,   \* is_running
  handlersSet, \* the event and interrupt handlers have not been reset
  allocated,   \* the object has not been freed
  con,         \* con[c]: where consumer c is, its list, its event
  adder,       \* adder[t]: where thread t is in EventListAdd, its event
  clears,      \* calls of EventListClear so far
  handled      \* history: the events given to the event handler

locks == <<mutex, semNewEvent, semExit>>
object == <<isRunning, handlersSet, allocated>>
vars == <<list, cnt, locks, object, con, adder, clears, handled>>

Place == {"idle", "top", "lock", "look", "uncount", "deliver", "leave", "peek",
          "recheck", "sleep", "exit", "gone", "signal", "join", "reset", "free"}
Step == [at : Place, prio : Prio, event : Event \cup {None}]
Call == [at : {"idle", "lock", "link", "count", "signal"},
         event : Event \cup {None}, n : 0..MaxAdds]

At(c, place) == con[c].at = place
Go(c, place) == con' = [con EXCEPT ![c].at = place]

Init ==
  /\ list = [p \in Prio |-> <<>>]
  /\ cnt = [p \in Prio |-> 0]
  /\ mutex = None
  /\ semNewEvent = 0
  /\ semExit = 0
  /\ isRunning = TRUE
  /\ handlersSet = TRUE
  /\ allocated = TRUE
  /\ con = [c \in Consumer |->
              [at |-> IF c = "worker" THEN "top" ELSE "idle",
               prio |-> 1, event |-> None]]
  /\ adder = [t \in Task |-> [at |-> "idle", event |-> None, n |-> 0]]
  /\ clears = 0
  /\ handled = <<>>

BugAlwaysFree(lock) == TRUE
Free(lock) == lock = None

-----------------------------------------------------------------------------
(* EventListAdd.  When no memory is left it returns -1 and changes nothing. *)

\* The object may be used until EventListDestroy is called.
InUse == At("destroy", "idle")

AddBegin(t) ==
  /\ adder[t].at = "idle" /\ adder[t].n < MaxAdds
  /\ InUse
  /\ \E p \in Prio :
       adder' = [adder EXCEPT ![t] =
         [at |-> "lock", n |-> @.n + 1,
          event |-> [by |-> t, n |-> @.n + 1, prio |-> p]]]
  /\ UNCHANGED <<list, cnt, locks, object, con, clears, handled>>

AddLock(t) ==
  /\ adder[t].at = "lock"
  /\ Free(mutex)
  /\ mutex' = t
  /\ adder' = [adder EXCEPT ![t].at = "link"]
  /\ UNCHANGED <<list, cnt, semNewEvent, semExit, object, con, clears, handled>>

AddLink(t) ==
  LET e == adder[t].event IN
  /\ adder[t].at = "link"
  /\ list' = [list EXCEPT ![e.prio] = Append(@, e)]
  /\ adder' = [adder EXCEPT ![t].at = "count"]
  /\ UNCHANGED <<cnt, locks, object, con, clears, handled>>

\* ... and unlock the mutex.
AddCount(t) ==
  /\ adder[t].at = "count"
  /\ cnt' = [cnt EXCEPT ![adder[t].event.prio] = @ + 1]
  /\ mutex' = None
  /\ adder' = [adder EXCEPT ![t].at = "signal"]
  /\ UNCHANGED <<list, semNewEvent, semExit, object, con, clears, handled>>

BugPostedForFirst(t) ==
  IF cnt[adder[t].event.prio] = 1 THEN semNewEvent + 1 ELSE semNewEvent
Posted(t) == semNewEvent + 1
AddSignal(t) ==
  /\ adder[t].at = "signal"
  /\ semNewEvent' = Posted(t)
  /\ adder' = [adder EXCEPT ![t].at = "idle", ![t].event = None]
  /\ UNCHANGED <<list, cnt, mutex, semExit, object, con, clears, handled>>

AddStep(t) == AddLock(t) \/ AddLink(t) \/ AddCount(t) \/ AddSignal(t)

-----------------------------------------------------------------------------
(* _consume_event_list: _consume_one_list on each list in turn             *)

Lock(c) ==
  /\ At(c, "lock")
  /\ Free(mutex)
  /\ mutex' = c
  /\ Go(c, "look")
  /\ UNCHANGED <<list, cnt, semNewEvent, semExit, object, adder, clears, handled>>

\* The interrupt handlers: a list is left when one above it has events.
\* EventListClear passes none, EventListDestroy has reset them.
BugNotInterrupted(c, p) == FALSE
Interrupted(c, p) ==
  c = "worker" /\ handlersSet /\ \E q \in Prio : q < p /\ cnt[q] > 0

DelOldest(s) == Tail(s)

\* With the mutex held: leave the list, or take its first event.
Look(c) ==
  LET p == con[c].prio IN
  /\ At(c, "look")
  /\ IF Interrupted(c, p) \/ list[p] = <<>>
     THEN /\ Go(c, "leave")
          /\ UNCHANGED list
     ELSE /\ list' = [list EXCEPT ![p] = DelOldest(@)]
          /\ con' = [con EXCEPT ![c].at = "uncount",
                                ![c].event = Head(list[p])]
  /\ UNCHANGED <<cnt, locks, object, adder, clears, handled>>

\* ... and unlock the mutex.
Uncount(c) ==
  /\ At(c, "uncount")
  /\ cnt' = [cnt EXCEPT ![con[c].prio] = @ - 1]
  /\ mutex' = None
  /\ Go(c, "deliver")
  /\ UNCHANGED <<list, semNewEvent, semExit, object, adder, clears, handled>>

\* Call the handler if there is one and the object is still running, free the
\* item and go on with the same list.
Deliver(c) ==
  /\ At(c, "deliver")
  /\ handled' = IF c = "worker" /\ handlersSet /\ isRunning
                THEN Append(handled, con[c].event) ELSE handled
  /\ con' = [con EXCEPT ![c].at = "lock", ![c].event = None]
  /\ UNCHANGED <<list, cnt, locks, object, adder, clears>>

\* Where a consumer goes when it is through with the lowest list.
After(c) == CASE c = "worker"  -> "peek"
              [] c = "clear"   -> "idle"
              [] c = "destroy" -> "free"

\* Unlock the mutex and go on with the next list.
Leave(c) ==
  LET s == con[c] IN
  /\ At(c, "leave")
  /\ mutex' = None
  /\ con' = [con EXCEPT ![c] =
       IF s.prio = 4 THEN [s EXCEPT !.at = After(c), !.prio = 1]
                     ELSE [s EXCEPT !.at = "lock", !.prio = 2 * s.prio]]
  /\ UNCHANGED <<list, cnt, semNewEvent, semExit, object, adder, clears, handled>>

Consume(c) == Lock(c) \/ Look(c) \/ Uncount(c) \/ Deliver(c) \/ Leave(c)

-----------------------------------------------------------------------------
(* The worker: _event_handler and _try_sem_wait                            *)

Top ==
  /\ At("worker", "top")
  /\ Go("worker", IF isRunning THEN "lock" ELSE "exit")
  /\ UNCHANGED <<list, cnt, locks, object, adder, clears, handled>>

\* _all_list_empty without the mutex: one counter after the other.
Peek ==
  LET s == con["worker"] IN
  /\ At("worker", "peek")
  /\ con' = [con EXCEPT !["worker"] =
       CASE cnt[s.prio] # 0 -> [s EXCEPT !.at = "top", !.prio = 1]
         [] cnt[s.prio] = 0 /\ s.prio = 4 -> [s EXCEPT !.at = "recheck", !.prio = 1]
         [] cnt[s.prio] = 0 /\ s.prio # 4 -> [s EXCEPT !.prio = 2 * s.prio]]
  /\ UNCHANGED <<list, cnt, locks, object, adder, clears, handled>>

AllListEmpty == \A p \in Prio : cnt[p] = 0

\* The same with the mutex: lock, compare, unlock.
Recheck ==
  /\ At("worker", "recheck")
  /\ Free(mutex)
  /\ Go("worker", IF AllListEmpty THEN "sleep" ELSE "top")
  /\ UNCHANGED <<list, cnt, locks, object, adder, clears, handled>>

Wake ==
  /\ At("worker", "sleep")
  /\ semNewEvent > 0
  /\ semNewEvent' = semNewEvent - 1
  /\ Go("worker", "top")
  /\ UNCHANGED <<list, cnt, mutex, semExit, object, adder, clears, handled>>

Exit ==
  /\ At("worker", "exit")
  /\ semExit' = semExit + 1
  /\ Go("worker", "gone")
  /\ UNCHANGED <<list, cnt, mutex, semNewEvent, object, adder, clears, handled>>

WorkerStep == Consume("worker") \/ Top \/ Peek \/ Recheck \/ Wake \/ Exit

-----------------------------------------------------------------------------
(* EventListClear and EventListDestroy                                     *)

ClearBegin ==
  /\ At("clear", "idle") /\ clears < MaxClears
  /\ InUse
  /\ clears' = clears + 1
  /\ Go("clear", "lock")
  /\ UNCHANGED <<list, cnt, locks, object, adder, handled>>

\* Nobody may be using the object, and nobody uses it afterwards.
\* _worker_thread_exit: is_running = 0, ...
DestroyBegin ==
  /\ Destroys /\ InUse
  /\ At("clear", "idle") /\ \A t \in Task : adder[t].at = "idle"
  /\ isRunning' = FALSE
  /\ Go("destroy", "signal")
  /\ UNCHANGED <<list, cnt, locks, handlersSet, allocated, adder, clears, handled>>

\* ... wake the worker, ...
BugNoSignal(n) == n
Signalled(n) == n + 1
DestroySignal ==
  /\ At("destroy", "signal")
  /\ semNewEvent' = Signalled(semNewEvent)
  /\ Go("destroy", "join")
  /\ UNCHANGED <<list, cnt, mutex, semExit, object, adder, clears, handled>>

\* ... and wait until it has left its loop.
BugNoJoin == TRUE
WorkerLeft == semExit > 0
DestroyJoin ==
  /\ At("destroy", "join")
  /\ WorkerLeft
  /\ semExit' = semExit - 1
  /\ Go("destroy", "reset")
  /\ UNCHANGED <<list, cnt, mutex, semNewEvent, object, adder, clears, handled>>

\* _destroy_all: reset the handlers, empty the lists, free everything.
DestroyReset ==
  /\ At("destroy", "reset")
  /\ handlersSet' = FALSE
  /\ Go("destroy", "lock")
  /\ UNCHANGED <<list, cnt, locks, isRunning, allocated, adder, clears, handled>>

DestroyFree ==
  /\ At("destroy", "free")
  /\ allocated' = FALSE
  /\ Go("destroy", "gone")
  /\ UNCHANGED <<list, cnt, locks, isRunning, handlersSet, adder, clears, handled>>

ClearStep == Consume("clear")
DestroyStep == \/ Consume("destroy")
               \/ DestroySignal \/ DestroyJoin \/ DestroyReset \/ DestroyFree

\* Nothing is left to do: the worker sleeps for ever, or the object is gone.
Finished ==
  /\ (At("worker", "sleep") /\ semNewEvent = 0) \/ At("worker", "gone")
  /\ At("clear", "idle")
  /\ \A t \in Task : adder[t].at = "idle" /\ (adder[t].n = MaxAdds \/ ~InUse)
  /\ Destroys => At("destroy", "gone")
  /\ UNCHANGED vars

Next ==
  \/ \E t \in Task : AddBegin(t) \/ AddStep(t)
  \/ WorkerStep
  \/ ClearBegin \/ ClearStep
  \/ DestroyBegin \/ DestroyStep
  \/ Finished

Spec == Init /\ [][Next]_vars

\* A call that has begun goes on, and so does the worker unless it sleeps.
\* The event handler returns.
Fairness == /\ \A t \in Task : WF_vars(AddStep(t))
            /\ WF_vars(WorkerStep) /\ WF_vars(ClearStep) /\ WF_vars(DestroyStep)
FairSpec == Spec /\ Fairness
-----------------------------------------------------------------------------
(* Properties                                                              *)

\* Every variable keeps its shape; no counter is ever negative.
TypeOK ==
  /\ list \in [Prio -> Seq(Event)]
  /\ cnt \in [Prio -> Nat]
  /\ mutex \in Task \cup Consumer \cup {None}
  /\ semNewEvent \in Nat /\ semExit \in Nat
  /\ isRunning \in BOOLEAN /\ handlersSet \in BOOLEAN /\ allocated \in BOOLEAN
  /\ con \in [Consumer -> Step]
  /\ adder \in [Task -> Call]
  /\ clears \in Nat
  /\ handled \in Seq(Event)

\* Whenever nobody is in a critical section each counter says how many events
\* its list has; the decisions to sleep and to leave a list rest on it.
CountsAgree == mutex = None => \A p \in Prio : cnt[p] = Len(list[p])

\* The worker never sleeps on events: when it is about to wait for new events
\* while there are some, a signal is pending or its adder has yet to give it.
NoLostWakeup ==
  At("worker", "sleep") /\ (\E p \in Prio : list[p] # <<>>) =>
    semNewEvent > 0 \/ \E t \in Task : adder[t].at \in {"count", "signal"}

\* Who is somewhere in the code of the object.
Users == {c \in Consumer : con[c].at \notin {"idle", "gone"}}
         \cup {t \in Task : adder[t].at # "idle"}

\* Nobody touches the object after EventListDestroy has freed it, and it is
\* freed with its lists empty.
NoUseAfterFree ==
  ~allocated => Users = {} /\ \A p \in Prio : list[p] = <<>>

\* Each priority is handled first in, first out, and an event is only taken
\* while none of a higher priority is waiting: the counters, the interrupt
\* handlers and the mutex implement PriorityQueue.
Queue == INSTANCE PriorityQueue
           WITH inHand <- con["worker"].event,
                discarding <- ~At("clear", "idle") \/ ~At("destroy", "idle")
QueueSpec == Queue!Spec

Waiting(t, i) == \E p \in Prio : [by |-> t, n |-> i, prio |-> p] \in
                                   {list[p][k] : k \in DOMAIN list[p]}
Handled(t, i) == \E k \in DOMAIN handled : handled[k].by = t /\ handled[k].n = i

\* An event that was added is handled, unless somebody clears or destroys the
\* list.
EventuallyHandled ==
  \A t \in Task : \A i \in 1..MaxAdds :
    Waiting(t, i) ~> Handled(t, i) \/ clears > 0 \/ ~InUse

\* EventListDestroy returns, whatever the worker was doing when it was called.
DestroyReturns == ~InUse ~> At("destroy", "gone")

-----------------------------------------------------------------------------
(* Why they hold: an inductive invariant                                   *)

Consuming == {"lock", "look", "uncount", "deliver", "leave"}
Places(c) ==
  CASE c = "worker"  -> Consuming \cup {"top", "peek", "recheck", "sleep",
                                        "exit", "gone"}
    [] c = "clear"   -> Consuming \cup {"idle"}
    [] c = "destroy" -> Consuming \cup {"idle", "signal", "join", "reset",
                                        "free", "gone"}

\* Who is in a critical section holds the mutex, and who has taken an event
\* off a list still has it in hand.
PlacesInv ==
  /\ \A t \in Task :
       /\ adder[t].at \in {"link", "count"} => mutex = t
       /\ adder[t].at # "idle" => adder[t].event \in Event
  /\ \A c \in Consumer :
       /\ con[c].at \in Places(c)
       /\ con[c].at \in {"look", "uncount", "leave"} => mutex = c
       /\ con[c].at \in {"uncount", "deliver"} <=> con[c].event # None

\* A counter differs from its list by the change somebody has begun.
Begun(p) ==
  IF \E c \in Consumer : con[c].at = "uncount" /\ con[c].prio = p THEN 1
  ELSE IF \E t \in Task : adder[t].at = "count" /\ adder[t].event.prio = p
  THEN -1 ELSE 0
CountInv == \A p \in Prio : cnt[p] = Len(list[p]) + Begun(p)

\* The order of EventListDestroy: first nobody but the worker is left, then
\* the worker has left too, then the handlers are reset and list after list
\* is emptied, and only then the object is freed.
LifeInv ==
  /\ isRunning <=> InUse
  /\ ~InUse => At("clear", "idle") /\ \A t \in Task : adder[t].at = "idle"
  /\ con["destroy"].at \in {"idle", "signal", "join"} =>
       /\ handlersSet
       /\ semExit = (IF At("worker", "gone") THEN 1 ELSE 0)
  /\ con["destroy"].at \notin {"idle", "signal", "join"} => At("worker", "gone")
  /\ con["destroy"].at \in {"idle", "signal", "join", "reset"} =>
       con["destroy"].prio = 1
  /\ allocated <=> ~At("destroy", "gone")
  /\ \A p \in Prio :
       \/ con["destroy"].at \in Consuming /\ p < con["destroy"].prio
       \/ At("destroy", "leave") /\ p = con["destroy"].prio
       \/ con["destroy"].at \in {"free", "gone"}
       => list[p] = <<>>

IInv == TypeOK /\ PlacesInv /\ CountInv /\ LifeInv /\ NoLostWakeup
=============================================================================
