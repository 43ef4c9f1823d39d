----------------------------- MODULE MC_EventList -----------------------------
(***************************************************************************)
(* Instances of EventList for TLC.                                         *)
(***************************************************************************)
EXTENDS EventList

CONSTANTS a, b
=============================================================================
