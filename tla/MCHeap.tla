------------------------------- MODULE MCHeap -------------------------------
(***************************************************************************)
(* A small heap for TLC: seven headers fit in it, so that a free chunk has *)
(* room to meet free neighbours on both sides between live blocks.         *)
(***************************************************************************)
EXTENDS Heap
=============================================================================
