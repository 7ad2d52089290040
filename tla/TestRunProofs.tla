--------------------------- MODULE TestRunProofs ---------------------------
(***************************************************************************)
(* Proofs about TestRun, for any number of tasks, any grouping of them     *)
(* into processes and any number of jobs, with and without failures.       *)
(*                                                                         *)
(* Every invariant is part of one inductive invariant, Inv.  Its parts are *)
(* proved in turn: each may use the parts proved before it.                *)
(***************************************************************************)
EXTENDS TestRun, CommonLemmas, FiniteSetTheorems, TLAPS

-----------------------------------------------------------------------------
(* Facts about the constants and the statistics.                           *)

\* Main is not a task, and a leader is a task that leads itself.
LEMMA ProcessFacts ==
    /\ Main \notin Task
    /\ Main \notin Leaders
    /\ Leaders \subseteq Task
    /\ \A l \in Leaders : Leader[l] = l
    /\ \A t \in Task : Leader[t] \in Leaders /\ Leader[t] \in Task
    BY TasksAssumption, LeaderAssumption
       DEF Main, Task, Leaders, group_leader

\* calculate_releases yields a natural number.
LEMMA ReleasesType == \A t \in Task : max_releases(t) \in Nat
    BY TimingAssumption DEF max_releases

-----------------------------------------------------------------------------
(* Types.                                                                  *)

\* One conjunct of TypeOK is not about finite control: the statistics.
LEMMA StatsStep ==
    ASSUME TypeOK, NEW t \in Task, NEW s \in StatsType(MaxLateness)
    PROVE  [stats EXCEPT ![t] = s] \in [Task -> StatsType(MaxLateness)]
    BY DEF TypeOK

\* Every step of the main process (tester.c: run, run_test) keeps the types.
LEMMA TypeMain == TypeOK /\ MainStep => TypeOK'
<1> SUFFICES ASSUME TypeOK, MainStep PROVE TypeOK'
  OBVIOUS
<1> USE TasksAssumption, ProcessFacts DEF mainVars, timeVars, workVars
<1>1. CASE PrepareRun
  <2>1. \A t \in Task : clear_task_stats(stats[t]) \in StatsType(MaxLateness)
    BY StatsClosed, BoundsAssumption DEF TypeOK
  <2>2. sys' \in Counters
    BY <1>1, BoundsAssumption DEF PrepareRun, ClearedCounters, Counters
  <2> QED
    BY <1>1, <2>1, <2>2 DEF PrepareRun, TypeOK, ProcState, Process, NULL, Counters
<1>2. CASE ForkNext
  <2>1. i \in Task /\ i' \in 1 .. NumTasks + 1
    BY <1>2 DEF ForkNext, TypeOK, Task
  <2>2. CASE group_leader(i)
    <3>1. i \in Leaders
      BY <2>1, <2>2 DEF Leaders
    <3> QED
      BY <1>2, <2>1, <2>2, <3>1
         DEF ForkNext, TypeOK, Goto, Label, ProcState, Process
  <2>3. CASE ~group_leader(i)
    BY <1>2, <2>1, <2>3 DEF ForkNext, TypeOK
  <2> QED
    BY <2>2, <2>3
<1>3. CASE ForkDone
  BY <1>3 DEF ForkDone, TypeOK
<1>4. CASE JoinNext
  BY <1>4 DEF JoinNext, TypeOK
<1>5. CASE JoinDone
  BY <1>5 DEF JoinDone, TypeOK
<1>6. CASE AccumulateNext
  <2>1. i \in Task
    BY <1>6 DEF AccumulateNext, TypeOK, Task
  <2>2. max_releases(i) \in Nat /\ Utility[i] \in Nat
    BY <2>1, ReleasesType, TimingAssumption
  <2>3. max_releases(i) * Utility[i] \in Nat
    BY <2>2
  <2>4. stats[i] \in StatsType(MaxLateness)
    BY <2>1 DEF TypeOK
  <2>5. sys' \in Counters
    BY <1>6, <2>2, <2>3, <2>4, BoundsAssumption
       DEF AccumulateNext, TypeOK, Counters, StatsType
  <2> QED
    BY <1>6, <2>1, <2>5 DEF AccumulateNext, TypeOK, Task
<1>7. CASE AccumulateDone
  BY <1>7 DEF AccumulateDone, TypeOK
<1>8. CASE Report
  BY <1>8, BatchAssumption DEF Report, NextUsage, TypeOK
<1> QED
  BY <1>1, <1>2, <1>3, <1>4, <1>5, <1>6, <1>7, <1>8 DEF MainStep

\* Every step of a group leader around its own task (task.c: start_task_group)
\* keeps the types.
LEMMA TypeGroup == ASSUME NEW l \in Leaders PROVE TypeOK /\ GroupStep(l) => TypeOK'
<1> SUFFICES ASSUME TypeOK, GroupStep(l) PROVE TypeOK'
  OBVIOUS
<1> USE ProcessFacts DEF mainVars, timeVars, workVars, Goto, Label, TypeOK
<1>1. CASE workload_init_group(l)
  BY <1>1 DEF workload_init_group
<1>2. CASE SpawnNext(l)
  BY <1>2 DEF SpawnNext, Unspawned, Group
<1>3. CASE SpawnDone(l)
  BY <1>3 DEF SpawnDone
<1>4. CASE JoinGroup(l)
  BY <1>4 DEF JoinGroup
<1>5. CASE ExitGroup(l)
  BY <1>5 DEF ExitGroup, EndProcess, ProcState
<1> QED
  BY <1>1, <1>2, <1>3, <1>4, <1>5 DEF GroupStep

\* Every step of a thread in start_task() keeps the types; the tardiness of a
\* late job stays within its bound.
LEMMA TypeTask == ASSUME NEW t \in Task PROVE TypeOK /\ TaskStep(t) => TypeOK'
<1> SUFFICES ASSUME TypeOK, TaskStep(t) PROVE TypeOK'
  OBVIOUS
<1> USE ProcessFacts DEF mainVars, timeVars, workVars, Goto, Label
<1>1. CASE workload_init_task(t)
  BY <1>1 DEF workload_init_task, TypeOK
<1>2. CASE BarrierBlock(t)
  BY <1>2 DEF BarrierBlock, TypeOK
<1>3. CASE BarrierOpen(t)
  BY <1>3 DEF BarrierOpen, TypeOK
<1>4. CASE ReadStartTime(t)
  BY <1>4, BoundsAssumption DEF ReadStartTime, TypeOK
<1>5. CASE CompareAndSwapStart(t)
  <2>1. stats' \in [Task -> StatsType(MaxLateness)]
    BY <1>5, StatsClosed, StatsStep, BoundsAssumption
       DEF CompareAndSwapStart, TypeOK
  <2>2. SwappedStart(t) \in Task \cup {NULL}
    BY DEF SwappedStart, TypeOK, Process
  <2> QED
    BY <1>5, <2>1, <2>2 DEF CompareAndSwapStart, TypeOK, Process
<1>6. ASSUME NEW s \in StatsType(MaxLateness), Count(t, s)
      PROVE  TypeOK'
  <2>1. NextRelease(s) \in StatsType(MaxLateness)
    BY StatsClosed, BoundsAssumption
  <2> QED
    BY <1>6, <2>1, StatsStep DEF Count, TypeOK
<1>7. CASE JobAborted(t)
  BY <1>6, <1>7, StatsClosed, BoundsAssumption DEF JobAborted, TypeOK
<1>8. CASE JobMet(t)
  BY <1>6, <1>8, StatsClosed, BoundsAssumption, TimingAssumption
     DEF JobMet, TypeOK
<1>9. CASE JobLate(t)
  BY <1>6, <1>9, StatsClosed, BoundsAssumption DEF JobLate, TypeOK
<1>10. CASE LeaveJobLoop(t)
  BY <1>10 DEF LeaveJobLoop, TypeOK
<1>11. CASE ExtraJob(t)
  BY <1>11 DEF ExtraJob, TypeOK
<1>12. CASE workload_cleanup_task(t)
  BY <1>12 DEF workload_cleanup_task, TypeOK
<1> QED
  BY <1>1, <1>2, <1>3, <1>4, <1>5, <1>7, <1>8, <1>9, <1>10, <1>11, <1>12
     DEF TaskStep

\* A fatal_error() and a signal keep the types: the process of the group is
\* gone and its threads with it.
LEMMA TypeFault == TypeOK /\ Fault => TypeOK'
<1> SUFFICES ASSUME TypeOK, Fault PROVE TypeOK'
  OBVIOUS
<1> USE ProcessFacts DEF mainVars, timeVars, workVars, TypeOK
<1>1. CASE MainFatal
  BY <1>1 DEF MainFatal
<1>2. ASSUME NEW t \in Task, TaskFatal(t) PROVE TypeOK'
  BY <1>2 DEF TaskFatal, EndProcess, ProcState, Label
<1>4. ASSUME NEW l \in Leaders, JoinFatal(l) PROVE TypeOK'
  BY <1>4 DEF JoinFatal, EndProcess, ProcState, Label
<1>3. ASSUME NEW l \in Leaders, Killed(l) PROVE TypeOK'
  BY <1>3 DEF Killed, EndProcess, ProcState, Label
<1> QED
  BY <1>1, <1>2, <1>3, <1>4 DEF Fault

-----------------------------------------------------------------------------
(* The inductive invariant.                                                *)

\* A thread exists only in a process that does.
ThreadsInLive == \A t \in Task : pc[t] # "none" => proc[Leader[t]] = "live"

\* What the loops of run() have established when the main process is in them.
LoopsOfRun ==
    /\ mpc = "run" => \A l \in Leaders : proc[l] \in {"none", "exited", "killed"}
    /\ mpc = "fork" => \A l \in Leaders : l >= i => proc[l] = "none"
    /\ mpc = "join" =>
         \A l \in Leaders : l < i => proc[l] \in {"exited", "killed"}
    /\ mpc \in {"accumulate", "report"} =>
         \A l \in Leaders : proc[l] \in {"exited", "killed"}

\* Who has been counted by the barrier: a thread that waits, or one whose
\* process has ended since; but a process that failed to initialise has a
\* thread that was never counted.
BarrierCounts ==
    /\ \A u \in arrived :
         \/ pc[u] = "waiting"
         \/ pc[u] = "none" /\ proc[Leader[u]] \in {"killed", "failed"}
    /\ \A l \in Leaders :
         proc[l] = "failed" => \E u \in Group(l) : u \notin arrived

\* Which program points need which workload data.
DataAllocated ==
    /\ \A t \in Task :
         pc[t] \in {"barrier", "waiting", "start", "cas", "jobs", "extra", "cleanup"}
           => workload_data[t]
    /\ \A t \in Task :
         pc[t] \notin {"none", "init_group", "exit", "finished"}
           => workload_tg_data[Leader[t]]

PastSwap == AfterBarrier \ {"start", "cas"}

\* The start time pointer of a process is set before a thread of it gets past
\* the compare-and-swap, and then points at the time of such a thread.
StartTimeSet ==
    /\ global_start_time[Main] = NULL
    /\ \A t \in Task : pc[t] \in PastSwap => global_start_time[Leader[t]] # NULL
    /\ \A l \in Leaders :
         proc[l] = "live" /\ global_start_time[l] # NULL =>
           /\ Leader[global_start_time[l]] = l
           /\ pc[global_start_time[l]] \in PastSwap

\* How many jobs a task has counted, by program point.
AllCounted(t) == stats[t].num_releases = max_releases(t)
JobsCounted ==
    /\ \A t \in Task : stats[t].num_releases <= max_releases(t)
    /\ \A t \in Task : pc[t] \in PastSwap \ {"jobs"} => AllCounted(t)
    /\ \A l \in Leaders : pc[l] = "exit" => OthersFinished(l)
    /\ \A l \in Leaders : proc[l] = "exited" => \A t \in Group(l) : AllCounted(t)
    /\ "signal" \notin Faults => \A l \in Leaders : proc[l] # "killed"

\* The statistics of a run start at zero, and every outcome is one of a
\* counted job.
Fresh(t) ==
    /\ stats[t].deadlines_met = 0 /\ stats[t].num_aborted = 0
    /\ stats[t].utility_accrued = 0
Bounded(t) ==
    /\ stats[t].deadlines_met + stats[t].num_aborted <= stats[t].num_releases
    /\ stats[t].utility_accrued <= stats[t].num_releases * Utility[t]
BeforeJobs == BeforeBarrier \cup {"start", "cas"}
OutcomesCounted ==
    /\ \A t \in Task : pc[t] \in BeforeJobs => Fresh(t)
    /\ \A t \in Task : pc[t] = "none" /\ proc[Leader[t]] = "live" => Fresh(t)
    /\ mpc = "fork" => \A t \in Task : proc[Leader[t]] = "none" => Fresh(t)
    /\ \A t \in Task : Bounded(t)

Inv ==
    /\ TypeOK /\ ThreadsInLive /\ LoopsOfRun
    /\ BarrierCounts /\ BarrierSafe
    /\ DataAllocated /\ StartTimeSet /\ JobsCounted /\ OutcomesCounted /\ ReportSound

-----------------------------------------------------------------------------
(* Every step preserves each part of Inv.                                  *)

\* The steps of the threads that leave the processes and run() as they are.
Quiet ==
    \/ \E l \in Leaders :
         workload_init_group(l) \/ SpawnNext(l) \/ SpawnDone(l) \/ JoinGroup(l)
    \/ \E t \in Task : TaskStep(t)

\* A thread step that ends a process.
Ends(l, how) ==
    /\ EndProcess(l, how)
    /\ UNCHANGED <<mainVars, arrived, timeVars, stats>>
    /\ \/ how = "exited" /\ pc[l] = "exit"
       \/ /\ how = "failed"
          /\ \E t \in Group(l) : pc[t] \in {"init_group", "spawn", "init_task"}
       \/ how = "unjoined" /\ pc[l] = "join_group"
       \/ how = "killed" /\ proc[l] = "live" /\ "signal" \in Faults

\* The kinds of steps there are.
LEMMA StepKinds ==
    ASSUME Next
    PROVE  \/ MainStep \/ MainFatal \/ Quiet \/ UNCHANGED vars
           \/ \E l \in Leaders, how \in {"exited", "failed", "unjoined", "killed"} : Ends(l, how)
<1>1. CASE \E l \in Leaders : GroupStep(l)
  BY <1>1 DEF GroupStep, ExitGroup, Ends, Quiet
<1>2. CASE \E t \in Task : TaskFatal(t)
  BY <1>2, ProcessFacts DEF TaskFatal, Ends, Group
<1>3. CASE \E l \in Leaders : Killed(l)
  BY <1>3 DEF Killed, Ends
<1>4. CASE \E l \in Leaders : JoinFatal(l)
  BY <1>4 DEF JoinFatal, Ends
<1> QED
  BY <1>1, <1>2, <1>3, <1>4 DEF Next, Fault, Terminated, Quiet

\* What such a step does not touch, and which threads it may create.
LEMMA QuietFrame ==
    ASSUME TypeOK, Quiet
    PROVE  /\ UNCHANGED <<mpc, i, cpu_usage, sys, proc>>
           /\ \A u \in Task :
                pc'[u] # "none" => pc[u] # "none" \/ pc[Leader[u]] = "spawn"
<1> DEFINE Frame ==
      /\ UNCHANGED <<mpc, i, cpu_usage, sys, proc>>
      /\ \A u \in Task :
           pc'[u] # "none" => pc[u] # "none" \/ pc[Leader[u]] = "spawn"
<1> USE ProcessFacts DEF mainVars, TypeOK, Goto
<1>1. ASSUME NEW l \in Leaders,
             workload_init_group(l) \/ SpawnNext(l) \/ SpawnDone(l) \/ JoinGroup(l)
      PROVE  Frame
  BY <1>1 DEF workload_init_group, SpawnNext, SpawnDone, JoinGroup, Unspawned, Group
<1>2. ASSUME NEW t \in Task, TaskStep(t)
      PROVE  Frame
  <2>1. UNCHANGED <<mpc, i, cpu_usage, sys, proc>>
    BY <1>2 DEF TaskStep, workload_init_task, BarrierBlock, BarrierOpen,
       ReadStartTime, CompareAndSwapStart, JobAborted, JobMet, JobLate, Count,
       LeaveJobLoop, ExtraJob, workload_cleanup_task
  <2>2. \A u \in Task : pc'[u] # "none" => pc[u] # "none"
    BY <1>2 DEF TaskStep, workload_init_task, BarrierBlock, BarrierOpen,
       ReadStartTime, CompareAndSwapStart, JobAborted, JobMet, JobLate, Count,
       InJobLoop, LeaveJobLoop, ExtraJob, workload_cleanup_task
  <2> QED
    BY <2>1, <2>2
<1> QED
  BY <1>1, <1>2 DEF Quiet

\* The fork loop is at a task, and forks for it if it is a leader.
LEMMA ForkFacts ==
    ASSUME TypeOK, ForkNext
    PROVE  /\ i \in Task /\ mpc = "fork" /\ mpc' = "fork" /\ i' = i + 1
           /\ UNCHANGED <<cpu_usage, sys, arrived, local_start_time, clock, stats,
                          workload_data, workload_tg_data>>
           /\ \/ /\ i \in Leaders
                 /\ proc' = [proc EXCEPT ![i] = "live"]
                 /\ pc' = [pc EXCEPT ![i] = "init_group"]
                 /\ global_start_time' =
                      [global_start_time EXCEPT ![i] = global_start_time[Main]]
              \/ i \notin Leaders /\ UNCHANGED <<proc, pc, global_start_time>>
<1>1. i \in Task
  BY TasksAssumption DEF ForkNext, TypeOK, Task
<1> QED
  BY <1>1 DEF ForkNext, TypeOK, Goto, Leaders, workVars

\* Threads run only in live processes: SpawnNext creates them in one, and the
\* main process starts no new run before the processes of the last have ended.
LEMMA ThreadsStep ==
    ASSUME TypeOK, ThreadsInLive, LoopsOfRun, Next
    PROVE  ThreadsInLive'
<1> USE ProcessFacts DEF ThreadsInLive, TypeOK
<1>1. CASE MainStep
  <2>1. CASE PrepareRun
    BY <2>1 DEF PrepareRun, LoopsOfRun
  <2>2. CASE ForkNext
    BY <2>2, ForkFacts
  <2> QED
    BY <1>1, <2>1, <2>2
       DEF MainStep, ForkDone, JoinNext, JoinDone, AccumulateNext, AccumulateDone, Report
<1>2. CASE MainFatal \/ UNCHANGED vars
  BY <1>2 DEF MainFatal, vars
<1>3. CASE Quiet
  BY <1>3, QuietFrame
<1>4. ASSUME NEW l \in Leaders, NEW how, Ends(l, how)
      PROVE  ThreadsInLive'
  BY <1>4 DEF Ends, EndProcess
<1> QED
  BY <1>1, <1>2, <1>3, <1>4, StepKinds

\* Each loop of run() establishes what the next one relies on.
LEMMA LoopsStep ==
    ASSUME TypeOK, ThreadsInLive, LoopsOfRun, Next
    PROVE  LoopsOfRun'
<1> USE ProcessFacts DEF LoopsOfRun, TypeOK
<1>1. CASE MainStep
  <2>1. CASE PrepareRun
    BY <2>1 DEF PrepareRun
  <2>2. CASE ForkNext
    <3>1. ASSUME NEW l \in Leaders, l >= i + 1 PROVE proc'[l] = "none"
      <4>1. l >= i /\ l # i
        BY <2>2, <3>1, ForkFacts DEF Task
      <4> QED
        BY <2>2, <4>1, ForkFacts
    <3> QED
      BY <2>2, <3>1, ForkFacts
  <2>3. CASE ForkDone
    BY <2>3 DEF ForkDone, Task
  <2>4. CASE JoinNext
    BY <2>4 DEF JoinNext, JoinedWithZero, Leaders, Task
  <2>5. CASE JoinDone
    <3>1. \A l \in Leaders : l < i
      BY <2>5, TasksAssumption DEF JoinDone, Task
    <3> QED
      BY <2>5, <3>1 DEF JoinDone
  <2>6. CASE AccumulateNext \/ AccumulateDone \/ Report
    BY <2>6 DEF AccumulateNext, AccumulateDone, Report
  <2> QED
    BY <1>1, <2>1, <2>2, <2>3, <2>4, <2>5, <2>6 DEF MainStep
<1>2. CASE MainFatal \/ UNCHANGED vars
  BY <1>2 DEF MainFatal, vars, mainVars
<1>3. CASE Quiet
  BY <1>3, QuietFrame
<1>4. ASSUME NEW l \in Leaders, NEW how, Ends(l, how)
      PROVE  LoopsOfRun'
  <2>1. proc[l] = "live"
    BY <1>4 DEF Ends, ThreadsInLive, Group
  <2>2. proc' = [proc EXCEPT ![l] = how] /\ UNCHANGED <<mpc, i>>
    BY <1>4 DEF Ends, EndProcess, mainVars
  <2>3. mpc \notin {"run", "accumulate", "report"}
    BY <2>1
  <2>4. mpc = "join" => i <= l
    BY <2>1 DEF Task
  <2>5. mpc = "fork" => l < i
    BY <2>1 DEF Task
  <2> QED
    BY <2>2, <2>3, <2>4, <2>5 DEF Task
<1> QED
  BY <1>1, <1>2, <1>3, <1>4, StepKinds

\* When all tasks but t are counted, t is the only one that is not.
LEMMA AllButOne ==
    ASSUME NEW A, A \subseteq Task, NEW t \in Task, t \notin A,
           Cardinality(A) + 1 = NumTasks
    PROVE  A \cup {t} = Task
<1>1. IsFiniteSet(Task) /\ Cardinality(Task) = NumTasks
  BY FS_Interval, TasksAssumption DEF Task
<1>2. IsFiniteSet(A)
  BY <1>1, FS_Subset
<1>3. Cardinality(A \cup {t}) = Cardinality(A) + 1
  BY <1>2, FS_AddElement
<1> QED
  BY <1>1, <1>3, FS_Subset

\* BarrierSafe and what it rests on.  The last thread to arrive finds all other
\* tasks counted, and each of them waits or belongs to a process that was
\* killed: a process that failed left a thread uncounted.
LEMMA BarrierStep ==
    ASSUME TypeOK, ThreadsInLive, LoopsOfRun, BarrierCounts, BarrierSafe, Next
    PROVE  BarrierCounts' /\ BarrierSafe'
<1> USE ProcessFacts DEF AfterBarrier
<1>1. CASE MainStep
  <2>1. CASE PrepareRun
    <3>1. \A t \in Task : pc'[t] = "none"
      BY <2>1 DEF PrepareRun, LoopsOfRun, ThreadsInLive, TypeOK
    <3> QED
      BY <2>1, <3>1 DEF PrepareRun, BarrierCounts, BarrierSafe
  <2>2. CASE ForkNext
    <3>1. i \in Leaders => proc[i] = "none" /\ pc[i] = "none"
      BY <2>2, ForkFacts DEF LoopsOfRun, ThreadsInLive, Task, TypeOK
    <3>2. i \in Leaders => \A t \in Task : pc[t] \notin AfterBarrier
      BY <2>2, <3>1, ForkFacts DEF BarrierSafe
    <3>3. BarrierCounts'
      BY <2>2, <3>1, ForkFacts DEF BarrierCounts, Group, TypeOK
    <3>4. BarrierSafe'
      BY <2>2, <3>1, <3>2, ForkFacts DEF BarrierSafe, TypeOK
    <3> QED
      BY <3>3, <3>4
  <2>3. CASE ForkDone \/ JoinNext \/ JoinDone \/ AccumulateNext \/ AccumulateDone \/ Report
    BY <2>3 DEF ForkDone, JoinNext, JoinDone, AccumulateNext, AccumulateDone, Report,
       BarrierCounts, BarrierSafe, Group
  <2> QED
    BY <1>1, <2>1, <2>2, <2>3 DEF MainStep
<1>2. CASE MainFatal \/ UNCHANGED vars
  BY <1>2 DEF MainFatal, vars, BarrierCounts, BarrierSafe, Group
<1>3. ASSUME NEW l \in Leaders, NEW how \in {"exited", "failed", "unjoined", "killed"}, Ends(l, how)
      PROVE  BarrierCounts' /\ BarrierSafe'
  <2>1. proc[l] = "live"
    BY <1>3 DEF Ends, ThreadsInLive, Group
  <2>2. /\ proc' = [proc EXCEPT ![l] = how] /\ arrived' = arrived
        /\ \A t \in Task : pc'[t] = IF Leader[t] = l THEN "none" ELSE pc[t]
    BY <1>3 DEF Ends, EndProcess
  <2>3. ASSUME how = "failed"
        PROVE  /\ \A t \in Task : pc[t] \notin AfterBarrier
               /\ \E u \in Group(l) : u \notin arrived
    <3>1. PICK u \in Group(l) : pc[u] \in {"init_group", "spawn", "init_task"}
      BY <1>3, <2>3 DEF Ends
    <3>2. u \in Task /\ Leader[u] = l
      BY DEF Group
    <3> QED
      BY <2>1, <3>1, <3>2 DEF BarrierCounts, BarrierSafe
  <2>4. ASSUME how \in {"exited", "unjoined"}
        PROVE  \A u \in arrived : Leader[u] # l
    <3>1. pc[l] \in {"exit", "join_group"}
      BY <1>3, <2>4 DEF Ends
    <3> QED
      BY <2>1, <3>1 DEF BarrierCounts, BarrierSafe, TypeOK
  <2>5. BarrierCounts'
    BY <2>1, <2>2, <2>3, <2>4 DEF BarrierCounts, Group, TypeOK
  <2>6. BarrierSafe'
    BY <2>1, <2>2, <2>3 DEF BarrierSafe, TypeOK
  <2> QED
    BY <2>5, <2>6
<1>4. CASE \E l \in Leaders :
             workload_init_group(l) \/ SpawnNext(l) \/ SpawnDone(l) \/ JoinGroup(l)
  <2>1. PICK l \in Leaders :
             workload_init_group(l) \/ SpawnNext(l) \/ SpawnDone(l) \/ JoinGroup(l)
    BY <1>4
  <2>2. UNCHANGED <<proc, arrived>>
    BY <2>1 DEF workload_init_group, SpawnNext, SpawnDone, JoinGroup
  <2> DEFINE Moves(t) ==
        /\ Leader[t] = l /\ proc[l] = "live"
        /\ pc[t] # "waiting"
        /\ \E label \in Label : pc' = [pc EXCEPT ![t] = label]
        /\ \/ pc[t] = "join_group" /\ pc'[t] = "exit"
           \/ pc[l] \notin AfterBarrier /\ pc'[t] \notin AfterBarrier
  <2>3. PICK t \in Task : Moves(t)
    <3> USE DEF Goto, Label, TypeOK
    <3>1. proc[l] = "live"
      BY <2>1 DEF workload_init_group, SpawnNext, SpawnDone, JoinGroup, ThreadsInLive
    <3>2. CASE workload_init_group(l) \/ SpawnDone(l) \/ JoinGroup(l)
      <4>1. Moves(l)
        BY <3>1, <3>2 DEF workload_init_group, SpawnDone, JoinGroup
      <4> QED
        BY <4>1
    <3>3. CASE SpawnNext(l)
      <4>1. PICK t \in Unspawned(l) : Goto(t, "init_task")
        BY <3>3 DEF SpawnNext
      <4>2. t \in Task /\ Leader[t] = l /\ pc[t] = "none"
        BY DEF Unspawned, Group
      <4>3. pc[l] = "spawn"
        BY <3>3 DEF SpawnNext
      <4>4. Moves(t)
        BY <3>1, <4>1, <4>2, <4>3
      <4> QED
        BY <4>2, <4>4
    <3> QED
      BY <2>1, <3>2, <3>3
  <2>4. BarrierCounts'
    BY <2>2, <2>3 DEF BarrierCounts, Group, TypeOK
  <2>5. BarrierSafe'
    BY <2>2, <2>3 DEF BarrierSafe, TypeOK
  <2> QED
    BY <2>4, <2>5
<1>5. ASSUME NEW t \in Task, TaskStep(t)
      PROVE  BarrierCounts' /\ BarrierSafe'
  <2>1. CASE BarrierBlock(t)
    <3>1. t \notin arrived /\ proc[Leader[t]] = "live"
      BY <2>1 DEF BarrierBlock, BarrierCounts, ThreadsInLive
    <3> QED
      BY <2>1, <3>1 DEF BarrierBlock, Goto, BarrierCounts, BarrierSafe, Group, TypeOK
  <2>2. CASE BarrierOpen(t)
    <3>1. t \notin arrived /\ proc[Leader[t]] = "live"
      BY <2>2 DEF BarrierOpen, BarrierCounts, ThreadsInLive
    <3>2. arrived \cup {t} = Task
      BY <2>2, <3>1, AllButOne DEF BarrierOpen, barrier_count, TypeOK
    <3>3. \A l \in Leaders : proc[l] # "failed"
      BY <3>1, <3>2 DEF BarrierCounts, Group
    <3>4. \A u \in Task : u # t => pc[u] = "waiting" \/ proc[Leader[u]] = "killed"
      BY <3>2, <3>3 DEF BarrierCounts
    <3> QED
      BY <2>2, <3>3, <3>4 DEF BarrierOpen, BarrierCounts, BarrierSafe, TypeOK
  <2>3. CASE \/ workload_init_task(t) \/ ReadStartTime(t) \/ CompareAndSwapStart(t)
             \/ JobAborted(t) \/ JobMet(t) \/ JobLate(t)
             \/ LeaveJobLoop(t) \/ ExtraJob(t) \/ workload_cleanup_task(t)
    <3>1. UNCHANGED <<proc, arrived>>
      BY <2>3 DEF workload_init_task, ReadStartTime, CompareAndSwapStart, JobAborted,
         JobMet, JobLate, Count, LeaveJobLoop, ExtraJob, workload_cleanup_task
    <3>2. /\ pc[t] \notin {"none", "waiting"}
          /\ \E label \in Label : pc' = [pc EXCEPT ![t] = label]
          /\ pc[t] \in AfterBarrier <=> pc'[t] \in AfterBarrier
      BY <2>3 DEF workload_init_task, ReadStartTime, CompareAndSwapStart, JobAborted,
         JobMet, JobLate, Count, InJobLoop, LeaveJobLoop, ExtraJob,
         workload_cleanup_task, Goto, Label, TypeOK
    <3>3. BarrierCounts'
      BY <3>1, <3>2 DEF BarrierCounts, Group, TypeOK
    <3>4. BarrierSafe'
      BY <3>1, <3>2 DEF BarrierSafe, TypeOK
    <3> QED
      BY <3>3, <3>4
  <2> QED
    BY <1>5, <2>1, <2>2, <2>3 DEF TaskStep
<1> QED
  BY <1>1, <1>2, <1>3, <1>4, <1>5, StepKinds DEF Quiet

\* Workload data: a thread allocates its own before the barrier and frees it
\* last; the data of the group outlives every thread but the leader.
LEMMA DataStep ==
    ASSUME TypeOK, ThreadsInLive, LoopsOfRun, DataAllocated, Next
    PROVE  DataAllocated'
<1> USE ProcessFacts
<1>1. CASE MainStep
  <2>1. CASE ForkNext
    BY <2>1, ForkFacts DEF DataAllocated, TypeOK
  <2>2. CASE PrepareRun \/ ForkDone \/ JoinNext \/ JoinDone \/ AccumulateNext
             \/ AccumulateDone \/ Report
    BY <2>2 DEF PrepareRun, ForkDone, JoinNext, JoinDone, AccumulateNext,
       AccumulateDone, Report, DataAllocated, workVars
  <2> QED
    BY <1>1, <2>1, <2>2 DEF MainStep
<1>2. CASE MainFatal \/ UNCHANGED vars
  BY <1>2 DEF MainFatal, vars, workVars, DataAllocated
<1>3. ASSUME NEW l \in Leaders, NEW how, Ends(l, how)
      PROVE  DataAllocated'
  BY <1>3 DEF Ends, EndProcess, DataAllocated, TypeOK
<1>4. ASSUME NEW l \in Leaders,
             workload_init_group(l) \/ SpawnNext(l) \/ SpawnDone(l) \/ JoinGroup(l)
      PROVE  DataAllocated'
  <2> USE DEF DataAllocated, TypeOK, Goto, workVars
  <2>1. CASE workload_init_group(l)
    BY <2>1 DEF workload_init_group
  <2>2. CASE SpawnNext(l)
    <3>1. PICK t \in Unspawned(l) : Goto(t, "init_task")
      BY <2>2 DEF SpawnNext
    <3>2. t \in Task /\ Leader[t] = l
      BY DEF Unspawned, Group
    <3>3. workload_tg_data[l]
      BY <2>2 DEF SpawnNext
    <3> QED
      BY <2>2, <3>1, <3>2, <3>3 DEF SpawnNext
  <2>3. CASE SpawnDone(l)
    BY <2>3 DEF SpawnDone
  <2>4. CASE JoinGroup(l)
    BY <2>4 DEF JoinGroup, OthersFinished, Group
  <2> QED
    BY <1>4, <2>1, <2>2, <2>3, <2>4
<1>5. ASSUME NEW t \in Task, TaskStep(t)
      PROVE  DataAllocated'
  <2> USE DEF DataAllocated, TypeOK, Goto, workVars
  <2>1. CASE workload_init_task(t)
    BY <2>1 DEF workload_init_task
  <2>2. CASE BarrierBlock(t) \/ BarrierOpen(t)
    BY <2>2 DEF BarrierBlock, BarrierOpen
  <2>3. CASE ReadStartTime(t) \/ CompareAndSwapStart(t)
    BY <2>3 DEF ReadStartTime, CompareAndSwapStart
  <2>4. CASE JobAborted(t) \/ JobMet(t) \/ JobLate(t)
    BY <2>4 DEF JobAborted, JobMet, JobLate, Count
  <2>5. CASE LeaveJobLoop(t) \/ ExtraJob(t)
    BY <2>5 DEF LeaveJobLoop, ExtraJob
  <2>6. CASE workload_cleanup_task(t)
    BY <2>6 DEF workload_cleanup_task
  <2> QED
    BY <1>5, <2>1, <2>2, <2>3, <2>4, <2>5, <2>6 DEF TaskStep
<1> QED
  BY <1>1, <1>2, <1>3, <1>4, <1>5, StepKinds DEF Quiet

\* The start time pointer, and the action property that a thread's start time
\* is fixed while it runs its jobs: the swap succeeds once per process and
\* run, and the time it points at is not written again.
LEMMA StartStep ==
    ASSUME TypeOK, ThreadsInLive, LoopsOfRun, StartTimeSet, Next
    PROVE  /\ StartTimeSet'
           /\ \A t \in Task : pc[t] \in InJob /\ pc'[t] \in InJob =>
                                StartTime(t)' = StartTime(t)
<1> USE ProcessFacts DEF PastSwap, AfterBarrier
<1> DEFINE Fixed == \A t \in Task : pc[t] \in InJob /\ pc'[t] \in InJob =>
                                      StartTime(t)' = StartTime(t)
<1>a. ASSUME UNCHANGED <<proc, timeVars>>,
             \A u \in Task : pc'[u] \in PastSwap <=> pc[u] \in PastSwap
      PROVE  StartTimeSet' /\ Fixed
  <2>1. StartTimeSet'
    BY <1>a DEF StartTimeSet, TypeOK, timeVars, Process, NULL, Task
  <2> QED
    BY <1>a, <2>1 DEF StartTime, timeVars
<1>1. CASE MainStep
  <2>1. CASE PrepareRun
    BY <2>1 DEF PrepareRun, StartTimeSet, LoopsOfRun, ThreadsInLive, StartTime,
       TypeOK, Process, InJob
  <2>2. CASE ForkNext
    <3>1. \A t \in Task : i \in Leaders /\ Leader[t] = i => pc[t] = "none"
      BY <2>2, ForkFacts DEF LoopsOfRun, ThreadsInLive, Task
    <3> QED
      BY <2>2, <3>1, ForkFacts
         DEF StartTimeSet, StartTime, TypeOK, Process, InJob
  <2>3. CASE ForkDone \/ JoinNext \/ JoinDone \/ AccumulateNext \/ AccumulateDone \/ Report
    BY <2>3 DEF ForkDone, JoinNext, JoinDone, AccumulateNext, AccumulateDone, Report,
       StartTimeSet, StartTime, timeVars
  <2> QED
    BY <1>1, <2>1, <2>2, <2>3 DEF MainStep
<1>2. CASE MainFatal \/ UNCHANGED vars
  BY <1>2 DEF MainFatal, vars, timeVars, StartTimeSet, StartTime
<1>3. ASSUME NEW l \in Leaders, NEW how \in {"exited", "failed", "unjoined", "killed"}, Ends(l, how)
      PROVE  StartTimeSet' /\ Fixed
  <2>1. /\ proc' = [proc EXCEPT ![l] = how] /\ UNCHANGED timeVars
        /\ \A t \in Task : pc'[t] = IF Leader[t] = l THEN "none" ELSE pc[t]
    BY <1>3 DEF Ends, EndProcess
  <2>2. \A m \in Leaders : proc'[m] = "live" => m # l /\ proc[m] = "live"
    BY <2>1 DEF TypeOK
  <2>3. \A m \in Leaders : global_start_time[m] \in Task \cup {NULL}
    BY DEF TypeOK, Process
  <2>4. StartTimeSet'
    BY <2>1, <2>2, <2>3 DEF StartTimeSet, timeVars
  <2> QED
    BY <2>1, <2>4 DEF StartTime, timeVars
<1>4. ASSUME NEW l \in Leaders,
             workload_init_group(l) \/ SpawnNext(l) \/ SpawnDone(l) \/ JoinGroup(l)
      PROVE  StartTimeSet' /\ Fixed
  <2> USE DEF TypeOK, Goto
  <2>1. CASE workload_init_group(l) \/ SpawnDone(l) \/ JoinGroup(l)
    BY <1>a, <2>1 DEF workload_init_group, SpawnDone, JoinGroup
  <2>2. CASE SpawnNext(l)
    <3>1. PICK t \in Unspawned(l) : Goto(t, "init_task")
      BY <2>2 DEF SpawnNext
    <3>2. t \in Task /\ pc[t] = "none"
      BY DEF Unspawned, Group
    <3> QED
      BY <1>a, <2>2, <3>1, <3>2 DEF SpawnNext
  <2> QED
    BY <1>4, <2>1, <2>2
<1>5. ASSUME NEW t \in Task, TaskStep(t)
      PROVE  StartTimeSet' /\ Fixed
  <2> USE DEF StartTimeSet, StartTime, TypeOK, Goto, timeVars
  <2>1. CASE workload_init_task(t) \/ BarrierBlock(t) \/ BarrierOpen(t)
    BY <1>a, <2>1 DEF workload_init_task, BarrierBlock, BarrierOpen
  <2>2. CASE ReadStartTime(t)
    <3>1. \A u \in Task : pc[u] \in InJob => global_start_time[Leader[u]] # t
      BY <2>2 DEF ReadStartTime, ThreadsInLive, InJob
    <3>2. StartTimeSet'
      BY <2>2 DEF ReadStartTime
    <3>3. \A u \in Task : pc[u] \in InJob => global_start_time[Leader[u]] \in Task
      BY DEF InJob, Process
    <3>4. Fixed
      BY <2>2, <3>1, <3>3 DEF ReadStartTime
    <3> QED
      BY <3>2, <3>4
  <2>3. CASE CompareAndSwapStart(t)
    <3>1. proc[Leader[t]] = "live"
      BY <2>3 DEF CompareAndSwapStart, ThreadsInLive
    <3>2. /\ global_start_time' =
               [global_start_time EXCEPT ![Leader[t]] = SwappedStart(t)]
          /\ pc' = [pc EXCEPT ![t] = "jobs"] /\ pc[t] = "cas"
          /\ UNCHANGED <<proc, local_start_time>>
      BY <2>3 DEF CompareAndSwapStart
    <3>3. /\ SwappedStart(t) # NULL
          /\ Leader[SwappedStart(t)] = Leader[t]
          /\ pc'[SwappedStart(t)] \in PastSwap
      BY <3>1, <3>2 DEF SwappedStart, NULL, Task, Process
    <3>4. StartTimeSet'
      BY <3>2, <3>3 DEF Process, Main
    <3>5. \A u \in Task : pc[u] \in InJob =>
            global_start_time'[Leader[u]] = global_start_time[Leader[u]]
      BY <3>2 DEF SwappedStart, InJob, Process
    <3> QED
      BY <3>2, <3>4, <3>5
  <2>4. CASE JobAborted(t) \/ JobMet(t) \/ JobLate(t)
    BY <1>a, <2>4 DEF JobAborted, JobMet, JobLate, Count
  <2>5. CASE LeaveJobLoop(t) \/ ExtraJob(t) \/ workload_cleanup_task(t)
    BY <1>a, <2>5 DEF LeaveJobLoop, ExtraJob, workload_cleanup_task
  <2> QED
    BY <1>5, <2>1, <2>2, <2>3, <2>4, <2>5 DEF TaskStep
<1> QED
  BY <1>1, <1>2, <1>3, <1>4, <1>5, StepKinds DEF Quiet

\* What a counted job does to the statistics.
LEMMA CountFacts ==
    ASSUME TypeOK, NEW t \in Task, JobAborted(t) \/ JobMet(t) \/ JobLate(t)
    PROVE  /\ UNCHANGED <<mpc, i, cpu_usage, sys, proc, pc>>
           /\ pc[t] = "jobs" /\ stats[t].num_releases < max_releases(t)
           /\ \A u \in Task : u # t => stats'[u] = stats[u]
           /\ stats'[t].num_releases = stats[t].num_releases + 1
           /\ \/ /\ stats'[t].deadlines_met + stats'[t].num_aborted
                      = stats[t].deadlines_met + stats[t].num_aborted + 1
                 /\ stats'[t].utility_accrued \in
                      {stats[t].utility_accrued, stats[t].utility_accrued + Utility[t]}
              \/ /\ stats'[t].deadlines_met + stats'[t].num_aborted
                      = stats[t].deadlines_met + stats[t].num_aborted
                 /\ stats'[t].utility_accrued = stats[t].utility_accrued
<1> DEFINE s == stats[t]
<1>1. s \in StatsType(MaxLateness)
  BY DEF TypeOK
<1>2. PICK outcome : /\ Count(t, outcome)
                     /\ \/ outcome = CountAborted(s)
                        \/ outcome = CountMet(s, Utility[t])
                        \/ \E d \in -MaxLateness .. -1 : outcome = CountLate(s, d)
  BY DEF JobAborted, JobMet, JobLate
<1>3. /\ outcome.num_releases = s.num_releases
      /\ \/ /\ outcome.deadlines_met = s.deadlines_met
            /\ outcome.num_aborted = s.num_aborted + 1
            /\ outcome.utility_accrued = s.utility_accrued
         \/ /\ outcome.deadlines_met = s.deadlines_met + 1
            /\ outcome.num_aborted = s.num_aborted
            /\ outcome.utility_accrued = s.utility_accrued + Utility[t]
         \/ /\ outcome.deadlines_met = s.deadlines_met
            /\ outcome.num_aborted = s.num_aborted
            /\ outcome.utility_accrued = s.utility_accrued
  <2> HIDE DEF s
  <2>1. CASE outcome = CountAborted(s)
    BY <1>1, <2>1 DEF CountAborted, StatsType
  <2>2. CASE outcome = CountMet(s, Utility[t])
    BY <1>1, <2>2 DEF CountMet, StatsType
  <2>3. CASE \E d \in -MaxLateness .. -1 : outcome = CountLate(s, d)
    BY <1>1, <2>3 DEF CountLate, StatsType
  <2> QED
    BY <1>2, <2>1, <2>2, <2>3
<1>4. outcome \in StatsType(MaxLateness)
  BY <1>1, <1>2, StatsClosed, BoundsAssumption, TimingAssumption
<1>5. stats' = [stats EXCEPT ![t] = NextRelease(outcome)]
  BY <1>2 DEF Count
<1>6. /\ NextRelease(outcome).num_releases = outcome.num_releases + 1
      /\ NextRelease(outcome).deadlines_met = outcome.deadlines_met
      /\ NextRelease(outcome).num_aborted = outcome.num_aborted
      /\ NextRelease(outcome).utility_accrued = outcome.utility_accrued
  BY <1>4 DEF NextRelease, StatsType
<1>7. stats'[t] = NextRelease(outcome) /\ \A u \in Task : u # t => stats'[u] = stats[u]
  BY <1>5 DEF TypeOK
<1>8. /\ UNCHANGED <<mpc, i, cpu_usage, sys, proc, pc>>
      /\ pc[t] = "jobs" /\ stats[t].num_releases < max_releases(t)
  BY <1>2 DEF Count, InJobLoop, mainVars
<1>9. /\ s.deadlines_met \in Nat /\ s.num_aborted \in Nat /\ s.num_releases \in Nat
  BY <1>1 DEF StatsType
<1> HIDE DEF s
<1>10. /\ stats'[t].num_releases = s.num_releases + 1
       /\ \/ /\ stats'[t].deadlines_met + stats'[t].num_aborted
                  = s.deadlines_met + s.num_aborted + 1
             /\ stats'[t].utility_accrued \in
                  {s.utility_accrued, s.utility_accrued + Utility[t]}
          \/ /\ stats'[t].deadlines_met + stats'[t].num_aborted
                  = s.deadlines_met + s.num_aborted
             /\ stats'[t].utility_accrued = s.utility_accrued
  BY <1>3, <1>6, <1>7, <1>9
<1> QED
  BY <1>7, <1>8, <1>10 DEF s

\* The other thread steps, as far as the statistics are concerned.
LEMMA OtherFacts ==
    ASSUME TypeOK, NEW t \in Task,
           \/ workload_init_task(t) \/ BarrierBlock(t) \/ BarrierOpen(t)
           \/ ReadStartTime(t) \/ LeaveJobLoop(t) \/ ExtraJob(t)
           \/ workload_cleanup_task(t)
    PROVE  UNCHANGED <<mpc, sys, proc, stats>>
    BY DEF workload_init_task, BarrierBlock, BarrierOpen, ReadStartTime,
       LeaveJobLoop, ExtraJob, workload_cleanup_task, mainVars

\* No task counts more jobs than it has releases, and a task whose thread has
\* left the job loop, or whose process has exited, has counted all of them:
\* the leader exits only after it has joined the threads of its group.
LEMMA JobsStep ==
    ASSUME TypeOK, ThreadsInLive, LoopsOfRun, JobsCounted, Next
    PROVE  JobsCounted'
<1> USE ProcessFacts, ReleasesType DEF PastSwap, AfterBarrier, AllCounted
<1>a. ASSUME UNCHANGED <<stats, proc>>,
             \A u \in Task : pc'[u] \in PastSwap \ {"jobs"} =>
                               pc[u] \in PastSwap \ {"jobs"} \/ AllCounted(u),
             \A l \in Leaders : pc'[l] = "exit" => OthersFinished(l)'
      PROVE  JobsCounted'
  BY <1>a DEF JobsCounted, max_releases, Group
<1>b. ASSUME UNCHANGED <<stats, proc>>,
             \A u \in Task : pc[u] \in {"exit", "finished"} \/ pc'[u] \in {"exit", "finished"}
                               => pc'[u] = pc[u],
             \A u \in Task : pc'[u] \in PastSwap \ {"jobs"} =>
                               pc[u] \in PastSwap \ {"jobs"} \/ AllCounted(u)
      PROVE  JobsCounted'
  BY <1>a, <1>b DEF JobsCounted, OthersFinished, Group
<1>1. CASE MainStep
  <2>1. CASE PrepareRun
    <3>1. \A t \in Task : pc[t] = "none"
      BY <2>1 DEF PrepareRun, LoopsOfRun, ThreadsInLive
    <3>2. \A t \in Task : stats'[t].num_releases = 0
      BY <2>1, BoundsAssumption, ClearedFields DEF PrepareRun, TypeOK
    <3> QED
      BY <2>1, <3>1, <3>2 DEF PrepareRun, JobsCounted, max_releases
  <2>2. CASE ForkNext
    <3>1. i \in Leaders => \A t \in Task : Leader[t] = i => pc[t] = "none"
      BY <2>2, ForkFacts DEF LoopsOfRun, ThreadsInLive, Task
    <3> QED
      BY <2>2, <3>1, ForkFacts
         DEF JobsCounted, OthersFinished, Group, TypeOK, max_releases
  <2>3. CASE ForkDone \/ JoinNext \/ JoinDone \/ AccumulateNext \/ AccumulateDone \/ Report
    BY <1>b, <2>3 DEF ForkDone, JoinNext, JoinDone, AccumulateNext, AccumulateDone, Report
  <2> QED
    BY <1>1, <2>1, <2>2, <2>3 DEF MainStep
<1>2. CASE MainFatal \/ UNCHANGED vars
  BY <1>b, <1>2 DEF MainFatal, vars
<1>3. ASSUME NEW l \in Leaders, NEW how \in {"exited", "failed", "unjoined", "killed"}, Ends(l, how)
      PROVE  JobsCounted'
  <2>1. /\ proc' = [proc EXCEPT ![l] = how] /\ UNCHANGED stats
        /\ \A t \in Task : pc'[t] = IF Leader[t] = l THEN "none" ELSE pc[t]
    BY <1>3 DEF Ends, EndProcess
  <2>2. how = "exited" => \A t \in Group(l) : AllCounted(t)
    BY <1>3 DEF Ends, JobsCounted, OthersFinished, Group
  <2>3. how = "killed" => "signal" \in Faults
    BY <1>3 DEF Ends
  <2>4. \A m \in Leaders : pc'[m] = "exit" => OthersFinished(m)'
    BY <2>1 DEF JobsCounted, OthersFinished, Group
  <2> QED
    BY <2>1, <2>2, <2>3, <2>4 DEF JobsCounted, Group, TypeOK, max_releases
<1>4. ASSUME NEW l \in Leaders,
             workload_init_group(l) \/ SpawnNext(l) \/ SpawnDone(l) \/ JoinGroup(l)
      PROVE  JobsCounted'
  <2> USE DEF TypeOK, Goto
  <2>1. CASE workload_init_group(l) \/ SpawnDone(l)
    BY <1>b, <2>1 DEF workload_init_group, SpawnDone
  <2>2. CASE SpawnNext(l)
    <3>1. PICK t \in Unspawned(l) : Goto(t, "init_task")
      BY <2>2 DEF SpawnNext
    <3>2. t \in Task /\ pc[t] = "none"
      BY DEF Unspawned, Group
    <3> QED
      BY <1>b, <2>2, <3>1, <3>2 DEF SpawnNext
  <2>3. CASE JoinGroup(l)
    <3>1. \A m \in Leaders : pc'[m] = "exit" => OthersFinished(m)'
      BY <2>3 DEF JoinGroup, OthersFinished, Group, JobsCounted
    <3> QED
      BY <1>a, <2>3, <3>1 DEF JoinGroup
  <2> QED
    BY <1>4, <2>1, <2>2, <2>3
<1>5. ASSUME NEW t \in Task, TaskStep(t)
      PROVE  JobsCounted'
  <2> USE DEF TypeOK, Goto
  <2>1. CASE workload_init_task(t) \/ BarrierBlock(t) \/ BarrierOpen(t) \/ ReadStartTime(t)
    BY <1>b, <2>1 DEF workload_init_task, BarrierBlock, BarrierOpen, ReadStartTime
  <2>2. CASE CompareAndSwapStart(t)
    <3>1. proc[Leader[t]] = "live"
      BY <2>2 DEF CompareAndSwapStart, ThreadsInLive
    <3>2. /\ stats'[t].num_releases = 0
          /\ \A u \in Task : u # t => stats'[u] = stats[u]
          /\ pc' = [pc EXCEPT ![t] = "jobs"] /\ pc[t] = "cas"
          /\ UNCHANGED proc
      BY <2>2 DEF CompareAndSwapStart, StatsType
    <3>3. \A l \in Leaders : pc'[l] = "exit" => OthersFinished(l)'
      BY <3>2 DEF JobsCounted, OthersFinished, Group
    <3> QED
      BY <3>1, <3>2, <3>3 DEF JobsCounted, Group, max_releases
  <2>3. CASE JobAborted(t) \/ JobMet(t) \/ JobLate(t)
    <3>1. proc[Leader[t]] = "live"
      BY <2>3, CountFacts DEF ThreadsInLive
    <3>2. stats'[t].num_releases <= max_releases(t)
      BY <2>3, CountFacts DEF StatsType
    <3>3. \A l \in Leaders : pc'[l] = "exit" => OthersFinished(l)'
      BY <2>3, CountFacts DEF JobsCounted, OthersFinished, Group
    <3> QED
      BY <2>3, <3>1, <3>2, <3>3, CountFacts DEF JobsCounted, Group, max_releases
  <2>4. CASE LeaveJobLoop(t)
    <3>1. AllCounted(t)
      <4>1. stats[t].num_releases \in Nat
        BY DEF StatsType
      <4>2. stats[t].num_releases <= max_releases(t)
        BY DEF JobsCounted
      <4>3. stats[t].num_releases >= max_releases(t)
        BY <2>4 DEF LeaveJobLoop
      <4> QED
        BY <4>1, <4>2, <4>3
    <3> QED
      BY <1>b, <2>4, <3>1 DEF LeaveJobLoop
  <2>5. CASE ExtraJob(t)
    BY <1>b, <2>5 DEF ExtraJob
  <2>6. CASE workload_cleanup_task(t)
    <3>1. \A l \in Leaders : pc'[l] = "exit" => OthersFinished(l)'
      BY <2>6 DEF workload_cleanup_task, OthersFinished, Group, JobsCounted
    <3> QED
      BY <1>a, <2>6, <3>1 DEF workload_cleanup_task
  <2> QED
    BY <1>5, <2>1, <2>2, <2>3, <2>4, <2>5, <2>6 DEF TaskStep
<1> QED
  BY <1>1, <1>2, <1>3, <1>4, <1>5, StepKinds DEF Quiet

\* The three facts about products that the utility figures need.
LEMMA Products ==
    ASSUME NEW r \in Nat, NEW m \in Nat, NEW w \in Nat
    PROVE  /\ 0 <= r * w /\ 0 * w = 0
           /\ (r + 1) * w = r * w + w
           /\ r <= m => r * w <= m * w
<1>1. (r + 1) * w = r * w + w
  OBVIOUS
<1>2. 0 <= r * w
  OBVIOUS
<1>3. ASSUME r <= m PROVE r * w <= m * w
  <2>1. PICK k \in Nat : m = r + k
    BY <1>3, m - r \in Nat, m = r + (m - r)
  <2>2. m * w = r * w + k * w /\ 0 <= k * w
    BY <2>1
  <2> QED
    BY <2>2
<1> QED
  BY <1>1, <1>2, <1>3

\* Every outcome a task has counted is one of a job it has counted.
LEMMA OutcomesStep ==
    ASSUME TypeOK, ThreadsInLive, LoopsOfRun, OutcomesCounted, Next
    PROVE  OutcomesCounted'
<1> USE ProcessFacts
<1>a. ASSUME UNCHANGED <<stats, proc>>, mpc' = "fork" => mpc = "fork",
             \A u \in Task : pc'[u] \in BeforeJobs =>
               pc[u] \in BeforeJobs \/ (pc[u] = "none" /\ proc[Leader[u]] = "live"),
             \A u \in Task : pc'[u] = "none" => pc[u] = "none"
      PROVE  OutcomesCounted'
  BY <1>a DEF OutcomesCounted, Fresh, Bounded
<1>b. ASSUME NEW s, s \in StatsType(MaxLateness)
      PROVE  /\ s.deadlines_met \in Nat /\ s.num_aborted \in Nat
             /\ s.utility_accrued \in Nat /\ s.num_releases \in Nat
  BY <1>b DEF StatsType
<1>1. CASE MainStep
  <2>1. CASE PrepareRun
    <3>1. \A t \in Task : /\ stats'[t].num_releases = 0 /\ stats'[t].num_aborted = 0
                          /\ stats'[t].deadlines_met = 0
                          /\ stats'[t].utility_accrued = 0
      BY <2>1, BoundsAssumption, ClearedFields DEF PrepareRun, TypeOK
    <3>2. \A t \in Task : 0 * Utility[t] = 0
      BY Products, TimingAssumption
    <3> QED
      BY <2>1, <3>1, <3>2 DEF PrepareRun, OutcomesCounted, Fresh, Bounded
  <2>2. CASE ForkNext
    <3>1. i \in Leaders => proc[i] = "none"
      BY <2>2, ForkFacts DEF LoopsOfRun, Task
    <3> QED
      BY <2>2, <3>1, ForkFacts
         DEF OutcomesCounted, Fresh, Bounded, TypeOK, BeforeJobs, BeforeBarrier
  <2>3. CASE ForkDone \/ JoinNext \/ JoinDone \/ AccumulateNext \/ AccumulateDone \/ Report
    BY <1>a, <2>3 DEF ForkDone, JoinNext, JoinDone, AccumulateNext, AccumulateDone, Report
  <2> QED
    BY <1>1, <2>1, <2>2, <2>3 DEF MainStep
<1>2. CASE MainFatal \/ UNCHANGED vars
  BY <1>a, <1>2 DEF MainFatal, vars, mainVars
<1>3. ASSUME NEW l \in Leaders, NEW how \in {"exited", "failed", "unjoined", "killed"}, Ends(l, how)
      PROVE  OutcomesCounted'
  <2>1. /\ proc' = [proc EXCEPT ![l] = how] /\ UNCHANGED <<stats, mpc>>
        /\ \A t \in Task : pc'[t] = IF Leader[t] = l THEN "none" ELSE pc[t]
    BY <1>3 DEF Ends, EndProcess, mainVars
  <2> QED
    BY <2>1 DEF OutcomesCounted, Fresh, Bounded, TypeOK, BeforeJobs, BeforeBarrier
<1>4. ASSUME NEW l \in Leaders,
             workload_init_group(l) \/ SpawnNext(l) \/ SpawnDone(l) \/ JoinGroup(l)
      PROVE  OutcomesCounted'
  <2> USE DEF TypeOK, Goto, BeforeJobs, BeforeBarrier
  <2>1. CASE workload_init_group(l) \/ SpawnDone(l) \/ JoinGroup(l)
    BY <1>a, <2>1 DEF workload_init_group, SpawnDone, JoinGroup, mainVars
  <2>2. CASE SpawnNext(l)
    <3>1. PICK t \in Unspawned(l) : Goto(t, "init_task")
      BY <2>2 DEF SpawnNext
    <3>2. t \in Task /\ pc[t] = "none" /\ Leader[t] = l
      BY DEF Unspawned, Group
    <3>3. proc[l] = "live"
      BY <2>2 DEF SpawnNext, ThreadsInLive
    <3> QED
      BY <1>a, <2>2, <3>1, <3>2, <3>3 DEF SpawnNext, mainVars
  <2> QED
    BY <1>4, <2>1, <2>2
<1>5. ASSUME NEW t \in Task, TaskStep(t)
      PROVE  OutcomesCounted'
  <2> USE DEF TypeOK, Goto, BeforeJobs, BeforeBarrier
  <2>1. CASE \/ workload_init_task(t) \/ BarrierBlock(t) \/ BarrierOpen(t)
             \/ ReadStartTime(t) \/ LeaveJobLoop(t) \/ ExtraJob(t)
             \/ workload_cleanup_task(t)
    <3>1. /\ \A u \in Task : pc'[u] \in BeforeJobs => pc[u] \in BeforeJobs
          /\ \A u \in Task : pc'[u] = "none" => pc[u] = "none"
      BY <2>1 DEF workload_init_task, BarrierBlock, BarrierOpen, ReadStartTime,
         LeaveJobLoop, ExtraJob, workload_cleanup_task
    <3> QED
      BY <1>a, <2>1, <3>1, OtherFacts
  <2>2. CASE CompareAndSwapStart(t)
    <3>1. /\ stats'[t].num_releases = 0
          /\ stats'[t].deadlines_met = stats[t].deadlines_met
          /\ stats'[t].num_aborted = stats[t].num_aborted
          /\ stats'[t].utility_accrued = stats[t].utility_accrued
          /\ \A u \in Task : u # t => stats'[u] = stats[u]
          /\ pc' = [pc EXCEPT ![t] = "jobs"] /\ pc[t] = "cas"
          /\ UNCHANGED <<proc, mpc>>
      BY <2>2 DEF CompareAndSwapStart, StatsType, mainVars
    <3>2. Fresh(t)
      BY <3>1 DEF OutcomesCounted
    <3>3. 0 * Utility[t] = 0
      BY Products, TimingAssumption
    <3>4. proc[Leader[t]] = "live"
      BY <3>1 DEF ThreadsInLive
    <3> QED
      BY <3>1, <3>2, <3>3, <3>4 DEF OutcomesCounted, Fresh, Bounded
  <2>3. CASE JobAborted(t) \/ JobMet(t) \/ JobLate(t)
    <3> DEFINE s == stats[t]
               r == stats'[t]
    <3>1. s \in StatsType(MaxLateness)
      OBVIOUS
    <3>2. (s.num_releases + 1) * Utility[t] = s.num_releases * Utility[t] + Utility[t]
      BY <1>b, <3>1, Products, TimingAssumption
    <3>3. s.num_releases * Utility[t] \in Nat
      BY <1>b, <3>1, Products, TimingAssumption
    <3>4. /\ s.deadlines_met + s.num_aborted <= s.num_releases
          /\ s.utility_accrued <= s.num_releases * Utility[t]
      BY DEF OutcomesCounted, Bounded
    <3>5. /\ r.num_releases = s.num_releases + 1
          /\ \/ /\ r.deadlines_met + r.num_aborted
                     = s.deadlines_met + s.num_aborted + 1
                /\ r.utility_accrued \in
                     {s.utility_accrued, s.utility_accrued + Utility[t]}
             \/ /\ r.deadlines_met + r.num_aborted = s.deadlines_met + s.num_aborted
                /\ r.utility_accrued = s.utility_accrued
      BY <2>3, CountFacts
    <3>6. /\ r.deadlines_met + r.num_aborted <= r.num_releases
          /\ r.utility_accrued <= r.num_releases * Utility[t]
      <4> HIDE DEF s, r
      <4> QED
        BY <1>b, <3>1, <3>2, <3>3, <3>4, <3>5, TimingAssumption
    <3>7. proc[Leader[t]] = "live"
      BY <2>3, CountFacts DEF ThreadsInLive
    <3> QED
      BY <2>3, <3>6, <3>7, CountFacts DEF OutcomesCounted, Fresh, Bounded
  <2> QED
    BY <1>5, <2>1, <2>2, <2>3 DEF TaskStep
<1> QED
  BY <1>1, <1>2, <1>3, <1>4, <1>5, StepKinds DEF Quiet

\* The accumulated figures are possible: run() adds a task's outcomes together
\* with the releases they are bounded by.
LEMMA ReportStep ==
    ASSUME TypeOK, JobsCounted, OutcomesCounted, ReportSound, Next
    PROVE  ReportSound'
<1>1. CASE MainStep
  <2>1. CASE PrepareRun
    BY <2>1 DEF PrepareRun, ClearedCounters, ReportSound
  <2>2. CASE AccumulateNext
    <3> DEFINE m == max_releases(i)
               s == stats[i]
    <3>1. i \in Task
      BY <2>2 DEF AccumulateNext, TypeOK, Task
    <3>2. /\ s \in StatsType(MaxLateness) /\ m \in Nat /\ Utility[i] \in Nat
      BY <3>1, ReleasesType, TimingAssumption DEF TypeOK
    <3>3. /\ s.deadlines_met \in Nat /\ s.num_aborted \in Nat
          /\ s.utility_accrued \in Nat /\ s.num_releases \in Nat
      BY <3>2 DEF StatsType
    <3>4. /\ s.num_releases <= m
          /\ s.deadlines_met + s.num_aborted <= s.num_releases
          /\ s.utility_accrued <= s.num_releases * Utility[i]
      BY <3>1 DEF JobsCounted, OutcomesCounted, Bounded
    <3>5. s.num_releases * Utility[i] <= m * Utility[i]
      BY <3>2, <3>3, <3>4, Products
    <3>6. m * Utility[i] \in Nat /\ s.num_releases * Utility[i] \in Nat
      BY <3>2, <3>3, Products
    <3>7. /\ sys.met_release \in Nat /\ sys.abort_count \in Nat
          /\ sys.total_release \in Nat /\ sys.met_util \in Nat /\ sys.total_util \in Nat
      BY DEF TypeOK, Counters
    <3>8. /\ sys'.total_release = sys.total_release + m
          /\ sys'.met_release = sys.met_release + s.deadlines_met
          /\ sys'.abort_count = sys.abort_count + s.num_aborted
          /\ sys'.total_util = sys.total_util + m * Utility[i]
          /\ sys'.met_util = sys.met_util + s.utility_accrued
      BY <2>2 DEF AccumulateNext
    <3> HIDE DEF m, s
    <3>9. s.utility_accrued <= m * Utility[i]
      BY <3>3, <3>4, <3>5, <3>6
    <3>10. sys'.met_release + sys'.abort_count <= sys'.total_release
      BY <3>2, <3>3, <3>4, <3>7, <3>8 DEF ReportSound
    <3>11. sys'.met_util <= sys'.total_util
      BY <3>3, <3>6, <3>7, <3>8, <3>9 DEF ReportSound
    <3> QED
      BY <3>10, <3>11 DEF ReportSound
  <2>3. CASE ForkNext \/ ForkDone \/ JoinNext \/ JoinDone \/ AccumulateDone \/ Report
    BY <2>3 DEF ForkNext, ForkDone, JoinNext, JoinDone, AccumulateDone, Report, ReportSound
  <2> QED
    BY <1>1, <2>1, <2>2, <2>3 DEF MainStep
<1>2. CASE MainFatal \/ UNCHANGED vars
  BY <1>2 DEF MainFatal, vars, mainVars, ReportSound
<1>3. CASE Quiet
  BY <1>3, QuietFrame DEF ReportSound
<1>4. ASSUME NEW l \in Leaders, NEW how, Ends(l, how)
      PROVE  ReportSound'
  BY <1>4 DEF Ends, mainVars, ReportSound
<1> QED
  BY <1>1, <1>2, <1>3, <1>4, StepKinds

-----------------------------------------------------------------------------
(* The theorems.                                                           *)

\* The state in which run_test() starts satisfies the inductive invariant.
LEMMA InvInit == Init => Inv
<1> SUFFICES ASSUME Init PROVE Inv
  OBVIOUS
<1> USE ProcessFacts DEF Init
<1>1. TypeOK
  BY TasksAssumption, BatchAssumption, BoundsAssumption, ClearedStatsType
     DEF TypeOK, ClearedCounters, Counters, ProcState, Label, Process, NULL
<1>2. ThreadsInLive /\ LoopsOfRun /\ BarrierCounts /\ BarrierSafe
  BY DEF ThreadsInLive, LoopsOfRun, BarrierCounts, BarrierSafe, AfterBarrier
<1>3. DataAllocated /\ StartTimeSet
  BY DEF DataAllocated, StartTimeSet, PastSwap, AfterBarrier, Process, NULL
<1>4. \A t \in Task : stats[t].num_releases = 0 /\ Fresh(t)
  BY DEF ClearedStats, Fresh
<1>5. JobsCounted
  BY <1>4, ReleasesType DEF JobsCounted, PastSwap, AfterBarrier
<1>6. \A t \in Task : 0 * Utility[t] = 0
  BY Products, TimingAssumption
<1>7. OutcomesCounted
  BY <1>4, <1>6 DEF OutcomesCounted, Fresh, Bounded, BeforeJobs, BeforeBarrier
<1>8. ReportSound
  BY DEF ReportSound, ClearedCounters
<1> QED
  BY <1>1, <1>2, <1>3, <1>5, <1>7, <1>8 DEF Inv

\* Every step of the system, of whatever actor, keeps the types.
LEMMA TypeStep == TypeOK /\ [Next]_vars => TypeOK'
<1> SUFFICES ASSUME TypeOK, [Next]_vars PROVE TypeOK'
  OBVIOUS
<1>1. CASE UNCHANGED vars
  BY <1>1 DEF vars, mainVars, timeVars, workVars, TypeOK
<1>2. CASE Next
  BY <1>1, <1>2, TypeMain, TypeGroup, TypeTask, TypeFault DEF Next, Terminated
<1> QED
  BY <1>1, <1>2

\* Every step keeps the inductive invariant, from the lemma of each part.
LEMMA InvStep == Inv /\ [Next]_vars => Inv'
<1> SUFFICES ASSUME Inv, [Next]_vars PROVE Inv'
  OBVIOUS
<1>1. CASE Next
  BY <1>1, TypeStep, ThreadsStep, LoopsStep, BarrierStep, DataStep, StartStep,
     JobsStep, OutcomesStep, ReportStep DEF Inv
<1>2. CASE UNCHANGED vars
  <2> USE <1>2 DEF vars, mainVars, timeVars, workVars
  <2>1. TypeOK' /\ ThreadsInLive' /\ LoopsOfRun'
    BY DEF Inv, TypeOK, ThreadsInLive, LoopsOfRun
  <2>2. BarrierCounts' /\ BarrierSafe'
    BY DEF Inv, BarrierCounts, BarrierSafe, Group
  <2>3. DataAllocated' /\ StartTimeSet'
    BY DEF Inv, DataAllocated, StartTimeSet
  <2>4. JobsCounted'
    BY DEF Inv, JobsCounted, AllCounted, OthersFinished, Group, max_releases
  <2>5. OutcomesCounted' /\ ReportSound'
    BY DEF Inv, OutcomesCounted, Fresh, Bounded, ReportSound
  <2> QED
    BY <2>1, <2>2, <2>3, <2>4, <2>5 DEF Inv
<1> QED
  BY <1>1, <1>2

\* The inductive invariant holds in every reachable state of every run, with
\* and without failing processes: the theorems below are its consequences.
THEOREM Invariance == Spec => []Inv
  BY InvInit, InvStep, PTL DEF Spec

\* TestRun is type correct, whatever the taskset and whatever fails: in
\* particular the statistics print_results() shows never leave their range.
THEOREM TypeCorrect == Spec => []TypeOK
<1>1. Inv => TypeOK
  BY DEF Inv
<1> QED
  BY <1>1, Invariance, PTL

\* pthread_barrier_wait of start_task() returns in no thread before the thread
\* of every task has reached it, in all processes, unless a process that had
\* reached it has been killed.
THEOREM BarrierCorrect == Spec => []BarrierSafe
<1>1. Inv => BarrierSafe
  BY DEF Inv
<1> QED
  BY <1>1, Invariance, PTL

\* If a thread fails before the barrier, no task of the run starts its jobs.
THEOREM FailureContained == Spec => []FailedRunNeverStarts
<1>1. Inv => FailedRunNeverStarts
  <2> SUFFICES ASSUME Inv, NEW l \in Leaders, proc[l] = "failed", NEW t \in Task
               PROVE  pc[t] \notin AfterBarrier
    BY DEF FailedRunNeverStarts
  <2>1. pc[l] = "none" /\ Leader[l] = l /\ l \in Task
    BY ProcessFacts DEF Inv, ThreadsInLive
  <2> QED
    BY <2>1 DEF Inv, BarrierSafe, AfterBarrier
<1> QED
  BY <1>1, Invariance, PTL

\* Threads in their jobs have their workload data.
THEOREM DataLive == Spec => []GroupDataLive
<1>1. Inv => GroupDataLive
  BY DEF Inv, DataAllocated, GroupDataLive
<1> QED
  BY <1>1, Invariance, PTL

\* find_job_deadline always dereferences a start time of this run.
THEOREM StartTimeUsable == Spec => []StartTimePublished
<1>1. Inv => StartTimePublished
  <2> SUFFICES ASSUME Inv, NEW t \in Task, pc[t] \in InJob
               PROVE  LET winner == global_start_time[Leader[t]]
                      IN  /\ winner # NULL
                          /\ Leader[winner] = Leader[t]
                          /\ pc[winner] \in AfterBarrier \ {"start", "cas"}
    BY DEF StartTimePublished
  <2>1. pc[t] \in PastSwap /\ proc[Leader[t]] = "live" /\ Leader[t] \in Leaders
    BY ProcessFacts DEF Inv, InJob, PastSwap, AfterBarrier, ThreadsInLive
  <2> QED
    BY <2>1 DEF Inv, StartTimeSet, PastSwap
<1> QED
  BY <1>1, Invariance, PTL

\* The start time of a thread's deadlines never changes under it.
THEOREM StartTimeStable == Spec => StartTimeFixed
<1> DEFINE Fixed == \A t \in Task : pc[t] \in InJob /\ pc'[t] \in InJob =>
                                      StartTime(t)' = StartTime(t)
<1>1. Inv /\ [Next]_vars => [Fixed]_vars
  BY StartStep DEF Inv
<1>2. Spec => [][Fixed]_vars
  BY <1>1, Invariance, PTL DEF Spec
<1> QED
  BY <1>2 DEF StartTimeFixed

\* What is reported is complete, whatever fails: run() accumulates and prints
\* only after every group process has ended, none of them with fatal_error(),
\* and the tasks of those that have exited have counted all their releases.
THEOREM ReportsComplete == Spec => []ReportComplete
<1>1. Inv => ReportComplete
  <2> SUFFICES ASSUME Inv, mpc \in {"accumulate", "report"}
               PROVE  /\ \A l \in Leaders : proc[l] \in {"exited", "killed"}
                      /\ \A t \in Task :
                           /\ pc[t] = "none"
                           /\ proc[Leader[t]] = "exited" =>
                                  stats[t].num_releases = max_releases(t)
    BY DEF ReportComplete
  <2>1. \A l \in Leaders : proc[l] \in {"exited", "killed"}
    BY DEF Inv, LoopsOfRun
  <2>2. ASSUME NEW t \in Task
        PROVE  /\ pc[t] = "none"
               /\ proc[Leader[t]] = "exited" =>
                      stats[t].num_releases = max_releases(t)
    <3>1. Leader[t] \in Leaders /\ t \in Group(Leader[t])
      BY ProcessFacts DEF Group
    <3> QED
      BY <2>1, <3>1 DEF Inv, ThreadsInLive, JobsCounted, AllCounted
  <2> QED
    BY <2>1, <2>2
<1> QED
  BY <1>1, Invariance, PTL

\* The figures print_results() shows are possible, whatever fails.
THEOREM ReportsSound == Spec => []ReportSound
<1>1. Inv => ReportSound
  BY DEF Inv
<1> QED
  BY <1>1, Invariance, PTL

=============================================================================
