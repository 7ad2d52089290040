------------------------------ MODULE TestRun ------------------------------
(***************************************************************************)
(* One execution of sched_test_app after the taskset file has been read:   *)
(* run_test() and run() of tester.c in the main process, tgroup.c's fork   *)
(* and join of one process per thread group, and start_task_group() and    *)
(* start_task() of task.c in the threads of those processes.               *)
(*                                                                         *)
(* Memory.  The task structs and the barrier come from salloc() and are    *)
(* shared by all processes.  `static struct test tester' is not: after     *)
(* fork() every group process has a copy of its own, and with it its own   *)
(* tester.global_start_time.  task->tester points at that private copy.    *)
(*                                                                         *)
(* A job (task_instance) is one step here, with the outcomes that its      *)
(* statistics tell apart; module TaskInstance opens that step.             *)
(***************************************************************************)
EXTENDS Integers, FiniteSets, TaskStats

CONSTANTS
    NumTasks,     \* tester.num_tasks; tasks are named by their index + 1
    Leader,       \* task->group_leader
    Period,       \* task->period
    Utility,      \* task->utility
    RunTime,      \* options->run_time, in the unit of Period
    CpuUsage,     \* options->cpu_usage as given on the command line
    EndUsage,     \* options->end_usage
    Interval,     \* options->interval
    MaxClock,     \* bound on the readings of CLOCK_REALTIME
    MaxLateness,  \* bound on how late a job may be
    Faults        \* subset of {"fatal", "signal"}: what may go wrong

Task == 1 .. NumTasks
NULL == 0                    \* a null struct timespec pointer
Main == 0                    \* the main process

\* task.h: group_leader(task)
group_leader(t) == Leader[t] = t

Leaders == {t \in Task : group_leader(t)}
Process == {Main} \cup Leaders

ASSUME TasksAssumption == NumTasks \in Nat \ {0}
ASSUME LeaderAssumption ==
    /\ Leader \in [Task -> Task]
    /\ \A t \in Task : Leader[Leader[t]] = Leader[t]
ASSUME TimingAssumption ==
    /\ Period \in [Task -> Nat \ {0}]
    /\ Utility \in [Task -> Nat]
    /\ RunTime \in Nat
ASSUME BatchAssumption ==
    /\ CpuUsage \in Nat /\ EndUsage \in Nat /\ Interval \in Nat \ {0}
ASSUME BoundsAssumption ==
    /\ MaxClock \in Nat /\ MaxLateness \in Nat
    /\ Faults \subseteq {"fatal", "signal"}

VARIABLES
    mpc,                \* where the main process is in run_test() / run()
    i,                  \* the index of the loop of run() being executed
    cpu_usage,          \* options->cpu_usage
    sys,                \* the sys_* counters and max_tardiness of tester
    proc,               \* state of the process of each group leader
    pc,                 \* where the thread of each task is
    arrived,            \* threads that have entered pthread_barrier_wait
    global_start_time,  \* per process: the task whose local_start_time it points at
    local_start_time,   \* task->local_start_time
    clock,              \* the latest reading of CLOCK_REALTIME
    stats,              \* the execution statistics of each task struct
    workload_data,      \* task->workload_data is allocated
    workload_tg_data    \* task->workload_tg_data is allocated

mainVars == <<mpc, i, cpu_usage, sys>>
timeVars == <<global_start_time, local_start_time, clock>>
workVars == <<workload_data, workload_tg_data>>
vars == <<mainVars, proc, pc, arrived, timeVars, stats, workVars>>

-----------------------------------------------------------------------------
(* Definitions the actions are built from.                                 *)

\* task.c: calculate_releases
max_releases(t) == RunTime \div Period[t]
extra_release(t) == RunTime % Period[t] # 0

\* tester.c: clear_counters
ClearedCounters ==
    [total_release |-> 0, met_release |-> 0, total_util |-> 0,
     met_util |-> 0, abort_count |-> 0, max_tardiness |-> 0]

\* Variant: one arrival per group process instead of one per thread.
BarrierPerProcess == Cardinality(Leaders)

\* tester.c: the count handed to pthread_barrier_init
barrier_count == NumTasks

\* The threads of the process that task l leads (task.c: same_group).
Group(l) == {t \in Task : Leader[t] = l}

\* task.c: the threads a leader has still to pthread_create
Unspawned(l) == {t \in Group(l) \ {l} : pc[t] = "none"}

\* A thread's next program point.
Goto(t, label) == pc' = [pc EXCEPT ![t] = label]

\* Every thread of a process disappears, and its private memory with it.
EndProcess(l, how) ==
    /\ proc' = [proc EXCEPT ![l] = how]
    /\ pc' = [t \in Task |-> IF Leader[t] = l THEN "none" ELSE pc[t]]
    /\ workload_data' =
         [t \in Task |-> IF Leader[t] = l THEN FALSE ELSE workload_data[t]]
    /\ workload_tg_data' = [workload_tg_data EXCEPT ![l] = FALSE]

Init ==
    /\ mpc = IF CpuUsage <= EndUsage THEN "run" ELSE "done"
    /\ i = 1
    /\ cpu_usage = CpuUsage
    /\ sys = ClearedCounters
    /\ proc = [l \in Leaders |-> "none"]
    /\ pc = [t \in Task |-> "none"]
    /\ arrived = {}
    /\ global_start_time = [p \in Process |-> NULL]
    /\ local_start_time = [t \in Task |-> 0]
    /\ clock = 0
    /\ stats = [t \in Task |-> ClearedStats]
    /\ workload_data = [t \in Task |-> FALSE]
    /\ workload_tg_data = [t \in Task |-> FALSE]

-----------------------------------------------------------------------------
(* The main process.                                                       *)

\* run() up to the first fork: counters, barrier, task statistics and the
\* start time pointer of this process are reset.
PrepareRun ==
    /\ mpc = "run"
    /\ mpc' = "fork"
    /\ i' = 1
    /\ sys' = ClearedCounters
    /\ arrived' = {}
    /\ stats' = [t \in Task |-> clear_task_stats(stats[t])]
    /\ global_start_time' = [global_start_time EXCEPT ![Main] = NULL]
    /\ proc' = [l \in Leaders |-> "none"]
    /\ UNCHANGED <<cpu_usage, pc, local_start_time, clock, workVars>>

\* One turn of the fork loop.  The child starts with a copy of tester.
ForkNext ==
    /\ mpc = "fork" /\ i <= NumTasks
    /\ i' = i + 1
    /\ \/ /\ group_leader(i)
          /\ proc' = [proc EXCEPT ![i] = "live"]
          /\ Goto(i, "init_group")
          /\ global_start_time' =
               [global_start_time EXCEPT ![i] = global_start_time[Main]]
       \/ /\ ~group_leader(i)
          /\ UNCHANGED <<proc, pc, global_start_time>>
    /\ UNCHANGED <<mpc, cpu_usage, sys, arrived, local_start_time, clock,
                   stats, workVars>>

ForkDone ==
    /\ mpc = "fork" /\ i > NumTasks
    /\ mpc' = "join" /\ i' = 1
    /\ UNCHANGED <<cpu_usage, sys, proc, pc, arrived, timeVars, stats, workVars>>

\* Variant: waitpid does not wait.
JoinWithoutWaiting(l) == TRUE

\* waitpid has returned and tgroup_join has left `status' at 0.
JoinedWithZero(l) == proc[l] \in {"exited", "killed"}

\* One turn of the join loop: tgroup_join blocks in waitpid until the leader's
\* process is gone.  `status' is written only for a process that exited, so a
\* process killed by a signal is joined with the initial status 0.
JoinNext ==
    /\ mpc = "join" /\ i <= NumTasks
    /\ \/ /\ group_leader(i) /\ JoinedWithZero(i)
          /\ i' = i + 1
          /\ UNCHANGED mpc
       \/ /\ group_leader(i) /\ proc[i] \in {"failed", "unjoined"}
          /\ mpc' = "fatal"
          /\ UNCHANGED i
       \/ /\ ~group_leader(i)
          /\ i' = i + 1
          /\ UNCHANGED mpc
    /\ UNCHANGED <<cpu_usage, sys, proc, pc, arrived, timeVars, stats, workVars>>

JoinDone ==
    /\ mpc = "join" /\ i > NumTasks
    /\ mpc' = "accumulate" /\ i' = 1
    /\ UNCHANGED <<cpu_usage, sys, proc, pc, arrived, timeVars, stats, workVars>>

\* One turn of the loop that accumulates the statistics of the tasks.
AccumulateNext ==
    /\ mpc = "accumulate" /\ i <= NumTasks
    /\ sys' =
         [total_release |-> sys.total_release + max_releases(i),
          met_release   |-> sys.met_release + stats[i].deadlines_met,
          total_util    |-> sys.total_util + max_releases(i) * Utility[i],
          met_util      |-> sys.met_util + stats[i].utility_accrued,
          abort_count   |-> sys.abort_count + stats[i].num_aborted,
          max_tardiness |-> IF stats[i].max_tardiness < sys.max_tardiness
                            THEN stats[i].max_tardiness
                            ELSE sys.max_tardiness]
    /\ i' = i + 1
    /\ UNCHANGED <<mpc, cpu_usage, proc, pc, arrived, timeVars, stats, workVars>>

AccumulateDone ==
    /\ mpc = "accumulate" /\ i > NumTasks
    /\ mpc' = "report"
    /\ UNCHANGED <<i, cpu_usage, sys, proc, pc, arrived, timeVars, stats, workVars>>

\* Variant: the batch loop without its increment.
SameUsage == cpu_usage

\* options->cpu_usage += options->interval
NextUsage == cpu_usage + Interval

\* print_results() and pthread_barrier_destroy(), then the head of the batch
\* loop of run_test().
Report ==
    /\ mpc = "report"
    /\ cpu_usage' = NextUsage
    /\ mpc' = IF NextUsage <= EndUsage THEN "run" ELSE "done"
    /\ UNCHANGED <<i, sys, proc, pc, arrived, timeVars, stats, workVars>>

\* sched_setscheduler, sched_setaffinity, set_scheduler or fork fails, or the
\* tgroup_join of a leader returns an error.
MainFatal ==
    /\ "fatal" \in Faults
    /\ \/ mpc \in {"run", "fork"}
       \/ mpc = "join" /\ i \in Leaders
    /\ mpc' = "fatal"
    /\ UNCHANGED <<i, cpu_usage, sys, proc, pc, arrived, timeVars, stats, workVars>>

-----------------------------------------------------------------------------
(* start_task_group(): the thread of a group leader, around start_task().  *)

workload_init_group(l) ==
    /\ pc[l] = "init_group"
    /\ workload_tg_data' = [workload_tg_data EXCEPT ![l] = TRUE]
    /\ Goto(l, "spawn")
    /\ UNCHANGED <<mainVars, proc, arrived, timeVars, stats, workload_data>>

\* The other threads of the group are created in the order of tester.tasks.
SpawnNext(l) ==
    /\ pc[l] = "spawn"
    /\ \E t \in Unspawned(l) :
         /\ \A u \in Unspawned(l) : t <= u
         /\ Goto(t, "init_task")
    /\ UNCHANGED <<mainVars, proc, arrived, timeVars, stats, workVars>>

SpawnDone(l) ==
    /\ pc[l] = "spawn" /\ Unspawned(l) = {}
    /\ Goto(l, "init_task")
    /\ UNCHANGED <<mainVars, proc, arrived, timeVars, stats, workVars>>

\* Variant: the leader does not join its threads.
NobodyJoined(l) == TRUE

\* The leader's pthread_join loop returns once every other thread of the
\* group has returned from start_task().
OthersFinished(l) == \A t \in Group(l) \ {l} : pc[t] = "finished"

\* pthread_join of the whole group, and workload_cleanup_group.
JoinGroup(l) ==
    /\ pc[l] = "join_group"
    /\ OthersFinished(l)
    /\ workload_tg_data' = [workload_tg_data EXCEPT ![l] = FALSE]
    /\ Goto(l, "exit")
    /\ UNCHANGED <<mainVars, proc, arrived, timeVars, stats, workload_data>>

\* tgroup_create: exit(fn(arg)), with the 0 that start_task_group returns.
ExitGroup(l) ==
    /\ pc[l] = "exit"
    /\ EndProcess(l, "exited")
    /\ UNCHANGED <<mainVars, arrived, timeVars, stats>>

-----------------------------------------------------------------------------
(* start_task(): every thread.                                             *)

\* setup_aborts, sched_setaffinity and workload_init_task.
workload_init_task(t) ==
    /\ pc[t] = "init_task"
    /\ workload_data' = [workload_data EXCEPT ![t] = TRUE]
    /\ Goto(t, "barrier")
    /\ UNCHANGED <<mainVars, proc, arrived, timeVars, stats, workload_tg_data>>

\* pthread_barrier_wait of a thread that is not the last to arrive.
BarrierBlock(t) ==
    /\ pc[t] = "barrier"
    /\ Cardinality(arrived) + 1 < barrier_count
    /\ arrived' = arrived \cup {t}
    /\ Goto(t, "waiting")
    /\ UNCHANGED <<mainVars, proc, timeVars, stats, workVars>>

\* pthread_barrier_wait of the last thread: all blocked threads return.
BarrierOpen(t) ==
    /\ pc[t] = "barrier"
    /\ Cardinality(arrived) + 1 = barrier_count
    /\ arrived' = {}
    /\ pc' = [u \in Task |-> IF u = t \/ pc[u] = "waiting"
                             THEN "start" ELSE pc[u]]
    /\ UNCHANGED <<mainVars, proc, timeVars, stats, workVars>>

\* clock_gettime(CLOCK_REALTIME, &t->local_start_time): a reading no smaller
\* than any earlier one.
ReadStartTime(t) ==
    /\ pc[t] = "start"
    /\ \E now \in clock .. MaxClock :
         /\ clock' = now
         /\ local_start_time' = [local_start_time EXCEPT ![t] = now]
    /\ Goto(t, "cas")
    /\ UNCHANGED <<mainVars, proc, arrived, global_start_time, stats, workVars>>

\* Variants: a plain store; a store by the group leader alone.
StoreStart(t) == t
LeaderStoresStart(t) ==
    IF group_leader(t) THEN t ELSE global_start_time[Leader[t]]

\* The value the compare-and-swap leaves in the pointer of t's process.
SwappedStart(t) ==
    IF global_start_time[Leader[t]] = NULL
    THEN t ELSE global_start_time[Leader[t]]

\* __sync_bool_compare_and_swap(&t->tester->global_start_time, 0,
\*                              &t->local_start_time), then num_releases = 0
CompareAndSwapStart(t) ==
    /\ pc[t] = "cas"
    /\ global_start_time' =
         [global_start_time EXCEPT ![Leader[t]] = SwappedStart(t)]
    /\ stats' = [stats EXCEPT ![t].num_releases = 0]
    /\ Goto(t, "jobs")
    /\ UNCHANGED <<mainVars, proc, arrived, local_start_time, clock, workVars>>

InJobLoop(t) == pc[t] = "jobs" /\ stats[t].num_releases < max_releases(t)

\* task_instance(t, 1) and num_releases++: the job's outcome goes into the
\* statistics of t, by one of the three actions below.
Count(t, outcome) ==
    /\ InJobLoop(t)
    /\ stats' = [stats EXCEPT ![t] = NextRelease(outcome)]
    /\ UNCHANGED <<mainVars, proc, pc, arrived, timeVars, workVars>>

JobAborted(t) == Count(t, CountAborted(stats[t]))

JobMet(t) == Count(t, CountMet(stats[t], Utility[t]))

JobLate(t) ==
    \E tardiness \in -MaxLateness .. -1 :
        Count(t, CountLate(stats[t], tardiness))

LeaveJobLoop(t) ==
    /\ pc[t] = "jobs" /\ stats[t].num_releases >= max_releases(t)
    /\ Goto(t, IF extra_release(t) THEN "extra" ELSE "cleanup")
    /\ UNCHANGED <<mainVars, proc, arrived, timeVars, stats, workVars>>

\* Variant: the extra job is counted like any other.
ExtraJobCounted(t) ==
    /\ pc[t] = "extra"
    /\ stats' = [stats EXCEPT ![t] = CountMet(stats[t], Utility[t])]
    /\ Goto(t, "cleanup")
    /\ UNCHANGED <<mainVars, proc, arrived, timeVars, workVars>>

\* task_instance(t, 0): a job whose statistics are not counted.
ExtraJob(t) ==
    /\ pc[t] = "extra"
    /\ Goto(t, "cleanup")
    /\ UNCHANGED <<mainVars, proc, arrived, timeVars, stats, workVars>>

\* workload_cleanup_task, and return from start_task().
workload_cleanup_task(t) ==
    /\ pc[t] = "cleanup"
    /\ workload_data' = [workload_data EXCEPT ![t] = FALSE]
    /\ Goto(t, IF group_leader(t) THEN "join_group" ELSE "finished")
    /\ UNCHANGED <<mainVars, proc, arrived, timeVars, stats, workload_tg_data>>

\* fatal_error() in a thread: get_abort_ptr, sched_setaffinity, the slope
\* lookup, pthread_create or mlockall fails.  exit(1) ends the whole process.
\* That the CPU clock cannot be read within a job is left out.
TaskFatal(t) ==
    /\ "fatal" \in Faults
    /\ pc[t] \in {"init_group", "spawn", "init_task"}
    /\ EndProcess(Leader[t], "failed")
    /\ UNCHANGED <<mainVars, arrived, timeVars, stats>>

\* fatal_error() in a leader whose pthread_join fails: exit(1) ends the threads
\* that it has not joined in the middle of their jobs.
JoinFatal(l) ==
    /\ "fatal" \in Faults
    /\ pc[l] = "join_group" /\ Group(l) # {l}
    /\ EndProcess(l, "unjoined")
    /\ UNCHANGED <<mainVars, arrived, timeVars, stats>>

\* A signal ends a group process at any point.
Killed(l) ==
    /\ "signal" \in Faults
    /\ proc[l] = "live"
    /\ EndProcess(l, "killed")
    /\ UNCHANGED <<mainVars, arrived, timeVars, stats>>

-----------------------------------------------------------------------------

MainStep ==
    \/ PrepareRun \/ ForkNext \/ ForkDone \/ JoinNext \/ JoinDone
    \/ AccumulateNext \/ AccumulateDone \/ Report

GroupStep(l) ==
    \/ workload_init_group(l) \/ SpawnNext(l) \/ SpawnDone(l)
    \/ JoinGroup(l) \/ ExitGroup(l)

TaskStep(t) ==
    \/ workload_init_task(t) \/ BarrierBlock(t) \/ BarrierOpen(t)
    \/ ReadStartTime(t) \/ CompareAndSwapStart(t)
    \/ JobAborted(t) \/ JobMet(t) \/ JobLate(t)
    \/ LeaveJobLoop(t) \/ ExtraJob(t) \/ workload_cleanup_task(t)

Fault ==
    \/ MainFatal
    \/ \E t \in Task : TaskFatal(t)
    \/ \E l \in Leaders : JoinFatal(l) \/ Killed(l)

\* A group process is gone without having passed the barrier with all the
\* others: they block in pthread_barrier_wait for ever, and main in the waitpid
\* of one of them.
Hung ==
    /\ mpc = "join" /\ i \in Leaders /\ proc[i] = "live"
    /\ \E l \in Leaders : proc[l] \in {"failed", "killed"}
    /\ \A t \in Task : pc[t] \in {"none", "waiting"}

\* run_test() has returned, main has called exit(1), or nothing moves any more.
Terminated == (mpc \in {"done", "fatal"} \/ Hung) /\ UNCHANGED vars

Next ==
    \/ MainStep
    \/ \E l \in Leaders : GroupStep(l)
    \/ \E t \in Task : TaskStep(t)
    \/ Fault
    \/ Terminated

Spec == Init /\ [][Next]_vars

\* Every process and thread keeps being scheduled: the jobs are finite and the
\* kernel runs every ready thread eventually.
Fairness ==
    /\ WF_vars(MainStep)
    /\ \A l \in Leaders : WF_vars(GroupStep(l))
    /\ \A t \in Task : WF_vars(TaskStep(t))

FairSpec == Spec /\ Fairness

-----------------------------------------------------------------------------
(* Properties.                                                             *)

Label ==
    {"none", "init_group", "spawn", "init_task", "barrier", "waiting", "start",
     "cas", "jobs", "extra", "cleanup", "join_group", "exit", "finished"}

\* "failed": exit(1) during the initialisation; "unjoined": exit(1) in the
\* pthread_join loop.
ProcState == {"none", "live", "exited", "failed", "unjoined", "killed"}

Counters ==
    [total_release : Nat, met_release : Nat, total_util : Nat, met_util : Nat,
     abort_count : Nat, max_tardiness : -MaxLateness .. 0]

\* The type of every variable.  Tardiness is deadline - end_time (tester.c,
\* task.c), so the worst tardiness is never positive.
TypeOK ==
    /\ mpc \in {"run", "fork", "join", "accumulate", "report", "done", "fatal"}
    /\ i \in 1 .. NumTasks + 1
    /\ cpu_usage \in Nat
    /\ sys \in Counters
    /\ proc \in [Leaders -> ProcState]
    /\ pc \in [Task -> Label]
    /\ arrived \subseteq Task
    /\ global_start_time \in [Process -> Task \cup {NULL}]
    /\ local_start_time \in [Task -> 0 .. MaxClock]
    /\ clock \in 0 .. MaxClock
    /\ stats \in [Task -> StatsType(MaxLateness)]
    /\ workload_data \in [Task -> BOOLEAN]
    /\ workload_tg_data \in [Task -> BOOLEAN]

\* Program points before pthread_barrier_wait returns, and after.
BeforeBarrier ==
    {"init_group", "spawn", "init_task", "barrier", "waiting"}
AfterBarrier ==
    {"start", "cas", "jobs", "extra", "cleanup", "join_group", "exit", "finished"}
InJob == {"jobs", "extra"}

\* No thread passes the barrier of start_task() while the thread of another
\* task, of whatever group process, has not reached it or does not exist yet:
\* as long as nothing has failed, a thread beyond the barrier implies that
\* every task is beyond it or its process has exited.
BarrierSafe ==
    (\E t \in Task : pc[t] \in AfterBarrier) =>
        \A u \in Task : \/ pc[u] \in AfterBarrier
                        \/ proc[Leader[u]] \in {"exited", "unjoined", "killed"}

\* A thread that runs jobs, or frees its own workload data, still has both its
\* own data and the data of its group: the leader's workload_cleanup_group
\* does not overtake a slower thread of the group.
GroupDataLive ==
    \A t \in Task : pc[t] \in {"jobs", "extra", "cleanup"} =>
        workload_data[t] /\ workload_tg_data[Leader[t]]

\* The start time find_job_deadline dereferences.
StartTime(t) == local_start_time[global_start_time[Leader[t]]]

\* A thread in its job loop finds a start time that a thread of its own
\* process has read after the barrier of this run: the pointer is neither
\* null nor left over from the previous run of a batch.
StartTimePublished ==
    \A t \in Task : pc[t] \in InJob =>
        LET winner == global_start_time[Leader[t]]
        IN  /\ winner # NULL
            /\ Leader[winner] = Leader[t]
            /\ pc[winner] \in AfterBarrier \ {"start", "cas"}

\* The start time that the deadlines of a thread are computed from does not
\* change while the thread runs its jobs.
StartTimeFixed ==
    [][\A t \in Task : pc[t] \in InJob /\ pc'[t] \in InJob =>
                         StartTime(t)' = StartTime(t)]_vars

\* What run() reports is the outcome of every job of every task: when the
\* statistics are accumulated and printed, no group process is left, none of
\* them ended with fatal_error(), and every task of a group that has exited has
\* counted exactly max_releases jobs.
ReportComplete ==
    mpc \in {"accumulate", "report"} =>
        /\ \A l \in Leaders : proc[l] \in {"exited", "killed"}
        /\ \A t \in Task :
             /\ pc[t] = "none"
             /\ proc[Leader[t]] = "exited" =>
                    stats[t].num_releases = max_releases(t)

\* The figures print_results() shows are possible: no more deadlines met and
\* jobs aborted than jobs released, no more utility accrued than available.
ReportSound ==
    /\ sys.met_release + sys.abort_count <= sys.total_release
    /\ sys.met_util <= sys.total_util

\* If a thread fails during its initialisation, no task of any group ever
\* starts its jobs in that run.
FailedRunNeverStarts ==
    (\E l \in Leaders : proc[l] = "failed") =>
        \A t \in Task : pc[t] \notin AfterBarrier

\* run_test() returns after the last run of the batch or gives up.  Only a
\* group process that failed or was killed before the barrier keeps it from
\* that: it never waits for ever while every group process is alive.
RunCompletes == <>(mpc \in {"done", "fatal"} \/ Hung)

\* tester.c:406-408 gives up "with non-zero status" unless every group leader
\* process returned 0 from start_task_group().
ReportOnlyAfterSuccess ==
    mpc \in {"accumulate", "report"} =>
        \A l \in Leaders : proc[l] = "exited"

\* task.c:220 says of the compare-and-swap on the start time: "so all the
\* threads agree on when they got here".
StartTimesAgree ==
    \A t, u \in Task :
        pc[t] \in InJob /\ pc[u] \in InJob => StartTime(t) = StartTime(u)

=============================================================================
