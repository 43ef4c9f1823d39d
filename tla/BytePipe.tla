------------------------------ MODULE BytePipe ------------------------------
(***************************************************************************)
(* What the two UART threads and the ring buffer between them promise,     *)
(* without cells, indices or threads: the bytes of the line are numbered   *)
(* as they arrive; they come in chunks, a chunk is kept whole or dropped   *)
(* whole, and it is dropped only when it would have filled the pipe; what  *)
(* is kept reaches the frame assembler once and in order.                  *)
(***************************************************************************)
EXTENDS Integers, Sequences

CONSTANTS Capacity, \* the pipe always holds fewer bytes than that
          MaxChunk  \* how many bytes arrive together at most

VARIABLES arrived, \* how many bytes have been kept or dropped
          pipe,    \* the bytes kept and not yet fed to the assembler
          fed      \* the bytes fed to the assembler

vars == <<arrived, pipe, fed>>

Init == arrived = 0 /\ pipe = <<>> /\ fed = <<>>

Keep(n) == /\ Len(pipe) + n < Capacity
           /\ arrived' = arrived + n
           /\ pipe' = pipe \o [i \in 1..n |-> arrived + i]
           /\ UNCHANGED fed

Drop(n) == /\ Len(pipe) + n >= Capacity
           /\ arrived' = arrived + n
           /\ UNCHANGED <<pipe, fed>>

Feed(n) == /\ n <= Len(pipe)
           /\ fed' = fed \o SubSeq(pipe, 1, n)
           /\ pipe' = SubSeq(pipe, n + 1, Len(pipe))
           /\ UNCHANGED arrived

Next == \/ \E n \in 1..MaxChunk : Keep(n) \/ Drop(n)
        \/ \E n \in 1..Capacity : Feed(n)

Spec == Init /\ [][Next]_vars
=============================================================================
