-------------------------- MODULE MC_TaskInstance --------------------------
(***************************************************************************)
(* Three tasks that share mutexes by four tasksets: in a common order, in  *)
(* opposite orders as in "Task Sets/10t_5l", in a circle of three, and     *)
(* with a task that lists none.                                            *)
(***************************************************************************)
EXTENDS TaskInstance

MC_Task == 1 .. 3
MC_Lock == 1 .. 4

MC_LockLists ==
    {<<<<1, 2>>, <<2, 3>>, <<1, 3>>>>,
     <<<<1, 2>>, <<2, 1>>, <<3>>>>,
     <<<<1, 2>>, <<2, 4>>, <<4, 1>>>>,
     <<<<1, 3>>, <<>>,     <<3>>>>}
MC_Utility == <<1, 2, 3>>
MC_MaxReleases == <<2, 1, 0>>
MC_ExtraRelease == <<FALSE, FALSE, TRUE>>

\* Two tasks; the second uses no lock.
MC_TwoTasks == 1 .. 2
MC_one_without == {<<<<1>>, <<>>>>}
MC_TwoUtility == <<1, 2>>
MC_TwoReleases == <<1, 1>>
MC_TwoExtra == <<FALSE, FALSE>>
=============================================================================
