---------------------------- MODULE MC_RingBuffer ----------------------------
(***************************************************************************)
(* An instance of RingBuffer for TLC: five cells, chunks of one to three   *)
(* bytes and reads of one or two, so that chunks find no room and copies   *)
(* of both threads run over the end of the buffer.                         *)
(***************************************************************************)
EXTENDS RingBuffer
=============================================================================
