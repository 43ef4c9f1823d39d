--------------------------- MODULE OrderedDelivery ---------------------------
(***************************************************************************)
(* What the frame protocol of sdk/channel promises the applications on the *)
(* two ends of the serial line, without sequence numbers, frames, locks or *)
(* threads: the messages of an end are numbered in the order in which its  *)
(* application handed them over, and the application of the other end is   *)
(* given a subset of them, each at most once and never out of order, for   *)
(* as long as it is not restarted.                                         *)
(***************************************************************************)
EXTENDS Naturals, Sequences

CONSTANTS Node,     \* the ends of the line
          Peer(_)   \* the end opposite to an end

VARIABLES issued,   \* issued[n]: how many messages n has handed over
          inbox     \* inbox[n]: the messages of Peer(n) given to n's application

vars == <<issued, inbox>>

Init == /\ issued = [n \in Node |-> 0]
        /\ inbox = [n \in Node |-> <<>>]

\* The application of n hands over its next message.
Issue(n) == /\ issued' = [issued EXCEPT ![n] = @ + 1]
            /\ UNCHANGED inbox

\* Message m of the peer is given to n: later than every message given before.
Deliver(n, m) == /\ \A i \in DOMAIN inbox[n] : inbox[n][i] < m
                 /\ inbox' = [inbox EXCEPT ![n] = Append(@, m)]
                 /\ UNCHANGED issued

\* End n starts again with no memory of what it was given.
Forget(n) == /\ inbox' = [inbox EXCEPT ![n] = <<>>]
             /\ UNCHANGED issued

Next == \E n \in Node : \/ Issue(n)
                        \/ \E m \in 1..issued[Peer(n)] : Deliver(n, m)
                        \/ Forget(n)

Spec == Init /\ [][Next]_vars
=============================================================================
