----------------------------- MODULE TaskStats -----------------------------
(***************************************************************************)
(* The execution statistics of a struct task (tester_types.h) and the ways *)
(* one job changes them at the end of task_instance() (task.c).            *)
(***************************************************************************)
EXTENDS Integers

\* new_task: the statistics of a new task struct
ClearedStats ==
    [num_releases |-> 0, num_aborted |-> 0, deadlines_met |-> 0,
     utility_accrued |-> 0, max_tardiness |-> 0]

\* clear_task_stats
clear_task_stats(s) ==
    [s EXCEPT !.num_releases = 0, !.num_aborted = 0, !.deadlines_met = 0,
              !.utility_accrued = 0, !.max_tardiness = 0]

\* The job has been aborted.
CountAborted(s) == [s EXCEPT !.num_aborted = @ + 1]

\* The job has met its deadline.
CountMet(s, utility) ==
    [s EXCEPT !.deadlines_met = @ + 1, !.utility_accrued = @ + utility]

\* Variant: lateness kept as a positive maximum.
CountLatePositive(s, tardiness) ==
    [s EXCEPT !.max_tardiness = IF -tardiness > @ THEN -tardiness ELSE @]

\* The job has ended late: tardiness is deadline - end_time, and negative.
CountLate(s, tardiness) ==
    [s EXCEPT !.max_tardiness = IF tardiness < @ THEN tardiness ELSE @]

\* t->num_releases++ of the loop in start_task
NextRelease(s) == [s EXCEPT !.num_releases = @ + 1]

\* The values of the statistics when no job is later than worst.
StatsType(worst) ==
    [num_releases : Nat, num_aborted : Nat, deadlines_met : Nat,
     utility_accrued : Nat, max_tardiness : -worst .. 0]
=============================================================================
