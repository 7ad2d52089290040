---------------------------- MODULE MC_TestRun ----------------------------
(***************************************************************************)
(* A small instance of TestRun: tasks 1 and 2 share a process led by task  *)
(* 2 (the leader is the first task of its group in the file, and the task  *)
(* array is in reverse order of the file), task 3 is alone in its process. *)
(* Task 1 has two releases, task 2 none and an extra one, task 3 one and   *)
(* an extra one, and the batch has two runs.                               *)
(***************************************************************************)
EXTENDS TestRun

MC_NumTasks == 3
MC_Leader == <<2, 2, 3>>
MC_Period == <<2, 8, 3>>
MC_Utility == <<2, 1, 3>>
MC_RunTime == 4
=============================================================================
