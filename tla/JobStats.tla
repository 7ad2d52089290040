----------------------------- MODULE JobStats ------------------------------
(***************************************************************************)
(* What the jobs of the tasks promise to the statistics: each counted job  *)
(* has exactly one outcome, and a task counts no more than max_releases    *)
(* jobs.  TestRun takes a job to be one such step; TaskInstance implements *)
(* it with the locks, the work and the abort flag of task_instance().      *)
(***************************************************************************)
EXTENDS TaskStats

CONSTANTS Task, Utility, MaxReleases, MaxLateness

VARIABLE stats

JobInit == stats = [t \in Task |-> ClearedStats]

\* The statistics of a task after one more job.
Outcomes(t) ==
    {CountAborted(stats[t]), CountMet(stats[t], Utility[t])}
        \cup {CountLate(stats[t], tardiness) :
                tardiness \in -MaxLateness .. -1}

Job(t) ==
    /\ stats[t].num_releases < MaxReleases[t]
    /\ \E outcome \in Outcomes(t) :
         stats' = [stats EXCEPT ![t] = NextRelease(outcome)]

JobSpec == JobInit /\ [][\E t \in Task : Job(t)]_stats
=============================================================================
