----------------------------- MODULE PriorityQueue -----------------------------
(***************************************************************************)
(* What utils/event_list promises its users, without counters, mutex or    *)
(* semaphores: events wait in one queue per priority and are handled one   *)
(* at a time; the one taken next is the oldest of the highest priority     *)
(* that has any.  Only while somebody clears or destroys the list may an   *)
(* event go unhandled.                                                     *)
(***************************************************************************)
EXTENDS Naturals, Sequences

CONSTANTS Prio,   \* the priorities, a smaller number being the higher one
          Event,  \* the events, each with its priority e.prio
          None    \* no event

VARIABLES list,       \* list[p]: the events of priority p that wait
          inHand,     \* the event taken off its list, or None
          handled,    \* the events given to the handler, in order
          discarding  \* somebody is clearing or destroying the list

vars == <<list, inHand, handled, discarding>>

Init == /\ list = [p \in Prio |-> <<>>]
        /\ inHand = None
        /\ handled = <<>>
        /\ discarding = FALSE

Add(e) == /\ list' = [list EXCEPT ![e.prio] = Append(@, e)]
          /\ UNCHANGED <<inHand, handled, discarding>>

\* No event of a higher priority than p is waiting.
Foremost(p) == \A q \in Prio : q < p => list[q] = <<>>

Take(p) == /\ inHand = None
           /\ list[p] # <<>> /\ Foremost(p)
           /\ inHand' = Head(list[p])
           /\ list' = [list EXCEPT ![p] = Tail(@)]
           /\ UNCHANGED <<handled, discarding>>

Handle == /\ inHand # None
          /\ handled' = Append(handled, inHand)
          /\ inHand' = None
          /\ UNCHANGED <<list, discarding>>

Discard == /\ discarding' \in BOOLEAN /\ UNCHANGED <<list, inHand, handled>>

Drop(p) == /\ discarding /\ list[p] # <<>>
           /\ list' = [list EXCEPT ![p] = Tail(@)]
           /\ UNCHANGED <<inHand, handled, discarding>>

Forgo == /\ discarding /\ inHand # None
         /\ inHand' = None
         /\ UNCHANGED <<list, handled, discarding>>

Next == \/ \E e \in Event : Add(e)
        \/ \E p \in Prio : Take(p) \/ Drop(p)
        \/ Handle \/ Discard \/ Forgo

Spec == Init /\ [][Next]_vars
=============================================================================
