------------------------------ MODULE Taskset ------------------------------
(***************************************************************************)
(* Reading the taskset file: init_tasks() of tester.c with init_task(),    *)
(* init_group() and their helpers of task_init.c.  The file is a sequence  *)
(* of lines chosen one at a time, ended by EOF at any point; a line is the *)
(* record of what fscanf reads from it.  Any fatal_error or exit(1) is the *)
(* status "fatal".                                                         *)
(*                                                                         *)
(* tasks holds the tasks in the order of the file.  The program's list and *)
(* its array are in the reverse order: new tasks go to the front.          *)
(***************************************************************************)
EXTENDS Integers, Sequences

CONSTANTS
    num_processors,
    TaskLines,       \* what a T line may hold
    LockCounts,      \* numbers an L line may hold
    Groups,          \* thread groups that the lines may name
    WssValues,       \* working set sizes that a G line may hold
    MinWss, MaxWss,  \* min_group_wss and max_group_wss of the workload
    GroupWssCap,     \* the workload has WORKLOAD_CAP_GROUP_WSS
    LockingModes,    \* values of options->locking that the test starts with
    MaxTasks         \* bound on the number of tasks in the file

ASSUME ProcessorsAssumption == num_processors \in Nat \ {0}
ASSUME LinesAssumption ==
    \* A list of cpus is never empty; all says that the lock list is "all".
    /\ TaskLines \subseteq [cpus : (SUBSET Nat) \ {{}}, group : Groups, period : Nat,
                           all : BOOLEAN, locks : Seq(Nat)]
    /\ LockCounts \subseteq Int
    /\ WssValues \subseteq Int
    /\ LockingModes \subseteq {0, 1, 3}
    /\ MaxTasks \in Nat
ASSUME WssAssumption ==
    /\ MinWss \in Nat /\ MaxWss \in Nat /\ MinWss <= MaxWss
    /\ GroupWssCap \in BOOLEAN

VARIABLES
    status,        \* how far main has come; while reading, "reading"
    num_locks,     \* tester.num_locks
    locking,       \* options->locking
    seen_group,    \* local variable of init_tasks
    domain_masks,  \* tester.domain_masks
    tasks          \* the task structs, first read first

vars == <<status, num_locks, locking, seen_group, domain_masks, tasks>>

Index == 1 .. Len(tasks)
Cpus == 0 .. num_processors - 1

\* The static initializer of tester.
InitTester ==
    /\ num_locks = -1
    /\ seen_group = FALSE
    /\ domain_masks = [k \in Cpus |-> {}]
    /\ tasks = <<>>

\* run_test calls init_tasks.
Init ==
    /\ status = "reading"
    /\ locking \in LockingModes
    /\ InitTester

Fatal ==
    /\ status' = "fatal"
    /\ UNCHANGED <<num_locks, locking, seen_group, domain_masks, tasks>>

-----------------------------------------------------------------------------
(* The L line.                                                             *)

\* Variant: locking stays on when the file has no locks.
LockingKept(n) == locking

\* initialize_test_locks: locking is turned off if there are no locks.
LockingWith(n) == IF n = 0 THEN 0 ELSE locking

\* The L line and initialize_test_locks.  salloc fails for a negative number,
\* which is a huge size_t; a second L line is an error.
ReadLocks(n) ==
    /\ status = "reading"
    /\ IF num_locks = -1 /\ n >= 0
       THEN /\ num_locks' = n
            /\ locking' = LockingWith(n)
            /\ UNCHANGED <<status, seen_group, domain_masks, tasks>>
       ELSE Fatal

-----------------------------------------------------------------------------
(* A T line.                                                               *)

\* initialize_task_cpus: entries that hold the mask, and that are unused
SameMask(mask) == {k \in Cpus : domain_masks[k] = mask}
Unused == {k \in Cpus : domain_masks[k] = {}}

First(S) == CHOOSE k \in S : \A j \in S : k <= j

\* Variant: a mask goes into the last unused entry.
LastUnused(mask) ==
    IF SameMask(mask) # {} THEN domain_masks
    ELSE [domain_masks EXCEPT ![CHOOSE k \in Unused : \A j \in Unused : j <= k] = mask]

\* initialize_task_cpus: the scan stops at the first entry that holds the mask
\* or is unused.
WithMask(mask) ==
    LET k == First(SameMask(mask) \cup Unused)
    IN  [domain_masks EXCEPT ![k] = mask]

\* initialize_task_locks
TaskLocks(line) ==
    IF line.all THEN [k \in 1 .. num_locks |-> k - 1] ELSE line.locks

\* task.h: same_group
SameGroup(group) == {k \in Index : tasks[k].thread_group = group}

Last(S) == CHOOSE k \in S : \A j \in S : j <= k

\* Variant: the most recently read task of the group is taken for its leader.
PreviousIsLeader(group) ==
    IF SameGroup(group) = {} THEN Len(tasks) + 1 ELSE Last(SameGroup(group))

\* init_group_leader: the list is searched from the most recently read task,
\* whose leader is taken over; a task that finds none leads its group.
LeaderFor(group) ==
    IF SameGroup(group) = {} THEN Len(tasks) + 1
    ELSE tasks[Last(SameGroup(group))].group_leader

\* Variant: no upper bound.
ClampBelow(wss) == IF ~GroupWssCap THEN 0 ELSE IF wss < MinWss THEN MinWss ELSE wss

\* The clamp of a working set size to what the workload allows.
Clamp(wss) ==
    IF ~GroupWssCap THEN 0
    ELSE IF wss < MinWss THEN MinWss ELSE IF wss > MaxWss THEN MaxWss ELSE wss

\* init_task.  The fields that only the timing depends on are left out.
ReadTask(line) ==
    /\ status = "reading"
    /\ Len(tasks) < MaxTasks
    /\ IF /\ num_locks >= 0 /\ ~seen_group
          /\ line.cpus \subseteq Cpus
          /\ SameMask(line.cpus) \cup Unused # {}
       THEN /\ domain_masks' = WithMask(line.cpus)
            /\ tasks' = Append(tasks,
                 [cpu_mask     |-> line.cpus,
                  thread_group |-> line.group,
                  period       |-> line.period,
                  group_leader |-> LeaderFor(line.group),
                  my_locks     |-> TaskLocks(line),
                  group_wss    |-> -1])
            /\ UNCHANGED <<status, num_locks, locking, seen_group>>
       ELSE Fatal

-----------------------------------------------------------------------------
(* A G line, any other line, and the end of the file.                      *)

\* task.h: group_leader
group_leader(k) == tasks[k].group_leader = k

\* Variant: the first task found in the group, not its leader.
AnyOfGroup(group) == SameGroup(group)

\* init_group: the tasks the search may stop at
LeadersOf(group) == {k \in SameGroup(group) : group_leader(k)}

\* init_group
ReadGroup(group, wss) ==
    /\ status = "reading"
    /\ IF LeadersOf(group) # {}
       THEN /\ seen_group' = TRUE
            /\ tasks' = [tasks EXCEPT ![Last(LeadersOf(group))].group_wss = Clamp(wss)]
            /\ UNCHANGED <<status, num_locks, locking, domain_masks>>
       ELSE Fatal

\* A line that begins with another letter, or with fields missing.
ReadBadLine == status = "reading" /\ Fatal

\* The checks after the loop; init_aborts may fail.
EndOfFile ==
    /\ status = "reading"
    /\ status' \in IF num_locks >= 0 /\ tasks # <<>> THEN {"ready", "fatal"}
                                                     ELSE {"fatal"}
    /\ UNCHANGED <<num_locks, locking, seen_group, domain_masks, tasks>>

\* cleanup_test_locks and cleanup_tasks
ReleaseTasks ==
    /\ status' = "cleaned"
    /\ num_locks' = 0
    /\ tasks' = <<>>
    /\ UNCHANGED <<locking, seen_group, domain_masks>>

\* Any line or the end of the file.
ReadFile ==
    \/ \E n \in LockCounts : ReadLocks(n)
    \/ \E line \in TaskLines : ReadTask(line)
    \/ \E group \in Groups, wss \in WssValues : ReadGroup(group, wss)
    \/ ReadBadLine \/ EndOfFile

Cleanup == status = "ready" /\ ReleaseTasks

Ended == status \in {"fatal", "cleaned"} /\ UNCHANGED vars

Next == ReadFile \/ Cleanup \/ Ended

Spec == Init /\ [][Next]_vars

-----------------------------------------------------------------------------
(* Properties.                                                             *)

Mask == SUBSET Cpus

TaskStruct ==
    [cpu_mask : Mask, thread_group : Groups, period : Nat, group_leader : Nat,
     my_locks : Seq(Nat), group_wss : -1 .. MaxWss]

\* How far main comes: it reads the file in between.
Status == {"command_line", "parsed", "validated", "reading", "ready", "running",
           "usage", "fatal", "printed", "cleaned"}

\* The type of every variable.
TypeOK ==
    /\ status \in Status
    /\ num_locks \in Nat \cup {-1}
    /\ locking \in {0, 1, 3}
    /\ seen_group \in BOOLEAN
    /\ domain_masks \in [Cpus -> Mask]
    /\ tasks \in Seq(TaskStruct)

\* Every task has a leader that is in its own group, leads itself and was read
\* no later than the task; two tasks of a group have the same leader.  run()
\* therefore creates exactly one process per thread group.
OneLeaderPerGroup ==
    /\ \A k \in Index :
         /\ tasks[k].group_leader \in 1 .. k
         /\ group_leader(tasks[k].group_leader)
         /\ tasks[tasks[k].group_leader].thread_group = tasks[k].thread_group
    /\ \A j, k \in Index :
         tasks[j].thread_group = tasks[k].thread_group =>
             tasks[j].group_leader = tasks[k].group_leader

\* run() calls set_scheduler for the entries of domain_masks up to the first
\* unused one: these are exactly the masks of the tasks, each once.
DomainsMatchTasks ==
    tasks # <<>> =>
        LET scheduled == {k \in Cpus : \A j \in 0 .. k : domain_masks[j] # {}}
        IN  /\ {domain_masks[k] : k \in scheduled} = {tasks[k].cpu_mask : k \in Index}
            /\ \A j, k \in scheduled : domain_masks[j] = domain_masks[k] => j = k

\* The working set size of a group is kept by its leader, where
\* workload_init_group and workload_init_task read it, and lies between the
\* bounds that task_init clamps it to.
GroupWssAtLeader ==
    \A k \in Index :
        tasks[k].group_wss # -1 =>
            /\ group_leader(k)
            /\ GroupWssCap => tasks[k].group_wss \in MinWss .. MaxWss

=============================================================================
