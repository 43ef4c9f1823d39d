------------------------------ MODULE MC_Channel ------------------------------
(***************************************************************************)
(* Instances of Channel for TLC.                                           *)
(***************************************************************************)
EXTENDS Channel

AllKinds == Cmd \ {LenAck}
OnlyAdpcm == {Adpcm}
=============================================================================
