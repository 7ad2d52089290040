----------------------------- MODULE MC_Salloc -----------------------------
(***************************************************************************)
(* A heap of 24 words that can grow once, with up to five allocations of   *)
(* 1, 3 or 6 words, of 19, which leave too little of a new heap for        *)
(* another block, or of 23, for which no block is big enough.              *)
(***************************************************************************)
EXTENDS Salloc
=============================================================================
