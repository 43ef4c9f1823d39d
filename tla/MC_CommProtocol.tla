---------------------------- MODULE MC_CommProtocol ----------------------------
(***************************************************************************)
(* Instances of CommProtocol for TLC.  The device is the end "dev", the    *)
(* chip the end "hbm".  Threads a and b run on dev, c on hbm.              *)
(***************************************************************************)
EXTENDS CommHistory

CONSTANTS a, b, c

MCHome == [t \in Task |-> IF t = c THEN "hbm" ELSE "dev"]

\* How much each end sends: as many messages as the names say.
DevOnly2 == [n \in Node |-> IF n = "dev" THEN 2 ELSE 0]
DevOnly3 == [n \in Node |-> IF n = "dev" THEN 3 ELSE 0]
Dev2Hbm1 == [n \in Node |-> IF n = "dev" THEN 2 ELSE 1]
Dev2Hbm2 == [n \in Node |-> 2]
Dev1Hbm1 == [n \in Node |-> 1]

\* Which messages ask for an acknowledgement.
AllReliable == [n \in Node |-> 1..MaxSends[n]]
OnlyDevReliable == [n \in Node |-> IF n = "dev" THEN 1..MaxSends[n] ELSE {}]
OnlySecond == [n \in Node |-> {2}]
Mixed == [n \in Node |-> IF n = "dev" THEN 1..MaxSends[n] ELSE {2}]

\* A state without the two counts in the history, for a run of which no property
\* looks at them: no step depends on them, so states that differ in nothing else
\* have the same future.
WithoutCounts ==
  <<protocolVars, lockVars, tx, rx, wire, restarts, inbox,
    [n \in Node |-> [i \in DOMAIN sent[n] |->
      LET e == sent[n][i] IN <<e.seq, e.rel, e.res, e.got>>]]>>
=============================================================================
