---------------------------- MODULE MC_Workloads ----------------------------
(* Two threads; lists and trees of up to four nodes with three values, and  *)
(* arrays that end on a cache line, in the middle of one and after one       *)
(* element of one.                                                           *)
EXTENDS Workloads

CONSTANTS t1, t2

MC_Thread == {t1, t2}
MC_ArraySizes == {5, 8, 10, 12}
=============================================================================
