----------------------------- MODULE Allocator -----------------------------
(***************************************************************************)
(* What a shared memory allocator promises: every allocated region lies in *)
(* the memory, is at least as large as was asked for, and has no byte in   *)
(* common with another allocated region.  It promises nothing on memory    *)
(* that is corrupted.                                                      *)
(***************************************************************************)
EXTENDS Integers

CONSTANTS Words, Requests

VARIABLES
    live,       \* the allocated regions: first word and requested length
    corrupted   \* its own records are no longer right

Region == [start : 0 .. Words - 1, len : Requests]

Extent(r) == r.start .. r.start + r.len - 1

Disjoint(r, s) == Extent(r) \cap Extent(s) = {}

AllocInit == live = {}

Alloc ==
    \E r \in Region :
        /\ Extent(r) \subseteq 0 .. Words - 1
        /\ \A s \in live : Disjoint(r, s)
        /\ live' = live \cup {r}

Free == \E r \in live : live' = live \ {r}

AllocSpec == AllocInit /\ [][Alloc \/ Free \/ corrupted]_live
=============================================================================
