---------------------------- MODULE TaskInstance ---------------------------
(***************************************************************************)
(* The job loop of start_task() with task_instance() of task.c opened up:  *)
(* the lock loop, the work under the locks, the unlock loop, the unlocked  *)
(* work, the abort flag the scheduler raises, and the statistics.          *)
(*                                                                         *)
(* The kernel side is external: a chronos mutex has at most one owner, a   *)
(* request blocks until the mutex is free or is refused with -1, a release *)
(* by a thread that is not the owner changes nothing, and the scheduler    *)
(* may abort a thread inside a real-time segment.                          *)
(*                                                                         *)
(* The lists of locks come from the taskset file in any order: nothing     *)
(* keeps two tasks from listing two locks in opposite orders, as the file  *)
(* "Task Sets/10t_5l" does.  Each task is in a thread group of its own.    *)
(***************************************************************************)
EXTENDS TaskStats, Sequences

CONSTANTS
    Task,
    Lock,
    LockLists,     \* the lists of locks that taskset files give the tasks
    MayRefuse,     \* mutexes whose request the kernel may answer with -1
    LockingModes,  \* options->locking: the values the command line allows
    Utility, MaxReleases, ExtraRelease,
    MaxLateness,
    MaxGarbage,    \* bound on the content of an uninitialised int
    NoTask         \* the owner of a free mutex

ASSUME LocksAssumption ==
    /\ LockLists \subseteq [Task -> Seq(Lock)]
    /\ MayRefuse \subseteq Lock
    /\ LockingModes \subseteq {0, 1, 3}
    /\ MaxGarbage \in Nat
    /\ NoTask \notin Task

ASSUME JobsAssumption ==
    /\ Utility \in [Task -> Nat]
    /\ MaxReleases \in [Task -> Nat]
    /\ ExtraRelease \in [Task -> BOOLEAN]
    /\ MaxLateness \in Nat

VARIABLES
    locking,      \* options->locking
    my_locks,     \* task->my_locks: the first num_my_locks elements; no
                  \* elements where the pointer is null
    pc,           \* where the thread of each task is
    lock_num,     \* local variable: index of the lock and unlock loops
    last,         \* local variable: the last lock taken
    aborted,      \* local variable: a call of workload_do_work said so
    count_stats,  \* the argument of task_instance
    abort_flag,   \* *t->abort_pointer
    owner,        \* the owner the kernel keeps for each mutex
    stats

inputs == <<locking, my_locks>>
locals == <<lock_num, last, aborted, count_stats>>
vars == <<inputs, pc, locals, abort_flag, owner, stats>>

-----------------------------------------------------------------------------

\* task->num_my_locks
num_my_locks(t) == Len(my_locks[t])

\* What an uninitialised `last' may hold.
Garbage == -1 .. MaxGarbage

\* tester_types.h: LOCKING is 1 and NESTED_LOCKING is 3, so the test
\* `options->locking & NESTED_LOCKING' of task_instance is true for both: the
\* branch for sequential locking that follows it is never taken.
NestedBranch(mode) == mode % 2 = 1 \/ (mode \div 2) % 2 = 1

Goto(t, label) == pc' = [pc EXCEPT ![t] = label]

\* The mutexes that t owns.
Held(t) == {l \in Lock : owner[l] = t}

InSegment(t) == pc[t] \in {"lock", "locked_work", "unlock", "unlocked_work", "end"}

Init ==
    /\ locking \in LockingModes
    /\ my_locks \in LockLists
    /\ pc = [t \in Task |-> "loop"]
    /\ lock_num = [t \in Task |-> 0]
    /\ last = [t \in Task |-> -1]
    /\ aborted = [t \in Task |-> FALSE]
    /\ count_stats = [t \in Task |-> TRUE]
    /\ abort_flag = [t \in Task |-> FALSE]
    /\ owner = [l \in Lock |-> NoTask]
    /\ stats = [t \in Task |-> ClearedStats]

-----------------------------------------------------------------------------

\* task_instance up to the lock loop: deadline, HUA handler and
\* begin_rtseg_self.  Only `last' is left without a value.
BeginSegment(t, count) ==
    /\ count_stats' = [count_stats EXCEPT ![t] = count]
    /\ \E garbage \in Garbage : last' = [last EXCEPT ![t] = garbage]
    /\ Goto(t, IF NestedBranch(locking) THEN "lock" ELSE "unlocked_work")
    /\ UNCHANGED <<inputs, lock_num, aborted, abort_flag, owner, stats>>

BeginJob(t) ==
    /\ pc[t] = "loop" /\ stats[t].num_releases < MaxReleases[t]
    /\ BeginSegment(t, TRUE)

BeginExtra(t) ==
    /\ pc[t] = "extra"
    /\ BeginSegment(t, FALSE)

LeaveLoop(t) ==
    /\ pc[t] = "loop" /\ stats[t].num_releases >= MaxReleases[t]
    /\ Goto(t, IF ExtraRelease[t] THEN "extra" ELSE "done")
    /\ UNCHANGED <<inputs, locals, abort_flag, owner, stats>>

\* The mutex the lock loop is at.
Requested(t) == my_locks[t][lock_num[t] + 1]

Locking(t) == pc[t] = "lock" /\ lock_num[t] < num_my_locks(t)

\* chronos_mutex_lock returns once the mutex is free.
LockGranted(t) ==
    /\ Locking(t)
    /\ owner[Requested(t)] = NoTask
    /\ owner' = [owner EXCEPT ![Requested(t)] = t]
    /\ last' = [last EXCEPT ![t] = lock_num[t]]
    /\ lock_num' = [lock_num EXCEPT ![t] = @ + 1]
    /\ UNCHANGED <<inputs, pc, aborted, count_stats, abort_flag, stats>>

\* Variant: `last' is set before the result of the request is looked at.
RefusedCounted(t) ==
    /\ Locking(t) /\ Requested(t) \in MayRefuse
    /\ last' = [last EXCEPT ![t] = lock_num[t]]
    /\ Goto(t, "locked_work")
    /\ UNCHANGED <<inputs, lock_num, aborted, count_stats, abort_flag, owner, stats>>

\* chronos_mutex_lock returns -1: the loop is left, and the work under the
\* locks is done with those taken so far.
LockRefused(t) ==
    /\ Locking(t) /\ Requested(t) \in MayRefuse
    /\ Goto(t, "locked_work")
    /\ UNCHANGED <<inputs, locals, abort_flag, owner, stats>>

LockLoopDone(t) ==
    /\ pc[t] = "lock" /\ lock_num[t] >= num_my_locks(t)
    /\ Goto(t, "locked_work")
    /\ UNCHANGED <<inputs, locals, abort_flag, owner, stats>>

\* workload_do_work(t, t->locked_usage), then the head of the unlock loop
LockedWork(t) ==
    /\ pc[t] = "locked_work"
    /\ aborted' = [aborted EXCEPT ![t] = @ \/ abort_flag[t]]
    /\ lock_num' = [lock_num EXCEPT ![t] = last[t]]
    /\ Goto(t, "unlock")
    /\ UNCHANGED <<inputs, last, count_stats, abort_flag, owner, stats>>

\* Variant: an unlock loop that stops one lock short.
UnlockingButFirst(t) == pc[t] = "unlock" /\ lock_num[t] > 0

\* for (lock_num = last; lock_num >= 0; lock_num--)
Unlocking(t) == pc[t] = "unlock" /\ lock_num[t] >= 0

\* The unlock loop is at an element of my_locks that the task has not.
OutsideList(t) == Unlocking(t) /\ lock_num[t] >= num_my_locks(t)

\* The element of my_locks that the unlock loop is at is a mutex of t.
UnlockIsOwn(t) ==
    /\ lock_num[t] < num_my_locks(t)
    /\ owner[Requested(t)] = t

\* chronos_mutex_unlock.  Beyond the list the pointer is whatever the memory
\* behind my_locks holds, and the kernel finds no mutex of t there; a task
\* without a list has no memory to read a pointer from.
Unlock(t) ==
    /\ Unlocking(t)
    /\ my_locks[t] # <<>>
    /\ owner' = IF UnlockIsOwn(t) THEN [owner EXCEPT ![Requested(t)] = NoTask]
                                  ELSE owner
    /\ lock_num' = [lock_num EXCEPT ![t] = @ - 1]
    /\ UNCHANGED <<inputs, pc, last, aborted, count_stats, abort_flag, stats>>

\* The read of my_locks[lock_num] beyond the list ends the process: always for
\* a task without a list, whose my_locks is null.
ReadFaults(t) ==
    /\ OutsideList(t)
    /\ Goto(t, "faulted")
    /\ UNCHANGED <<inputs, locals, abort_flag, owner, stats>>

UnlockLoopDone(t) ==
    /\ pc[t] = "unlock" /\ ~Unlocking(t)
    /\ Goto(t, "unlocked_work")
    /\ UNCHANGED <<inputs, locals, abort_flag, owner, stats>>

\* workload_do_work(t, t->unlocked_usage)
UnlockedWork(t) ==
    /\ pc[t] = "unlocked_work"
    /\ aborted' = [aborted EXCEPT ![t] = @ \/ abort_flag[t]]
    /\ Goto(t, "end")
    /\ UNCHANGED <<inputs, lock_num, last, count_stats, abort_flag, owner, stats>>

\* Variant: a job in time is counted as met whether aborted or not.
OutcomeIgnoringAbort(t) ==
    {CountMet(IF aborted[t] THEN CountAborted(stats[t]) ELSE stats[t], Utility[t])}

\* The statistics after a counted job: aborted, or else met or late.
Outcome(t) ==
    IF aborted[t]
    THEN {CountAborted(stats[t])}
    ELSE {CountMet(stats[t], Utility[t])}
           \cup {CountLate(stats[t], tardiness) :
                   tardiness \in -MaxLateness .. -1}

\* The local variables go out of scope, the segment and its abort flag end.
EndSegment(t) ==
    /\ lock_num' = [lock_num EXCEPT ![t] = 0]
    /\ last' = [last EXCEPT ![t] = -1]
    /\ aborted' = [aborted EXCEPT ![t] = FALSE]
    /\ count_stats' = [count_stats EXCEPT ![t] = TRUE]
    /\ abort_flag' = [abort_flag EXCEPT ![t] = FALSE]
    /\ UNCHANGED <<inputs, owner>>

\* clock_gettime, end_rtseg_self, the statistics, and num_releases++
EndJob(t) ==
    /\ pc[t] = "end" /\ count_stats[t]
    /\ \E outcome \in Outcome(t) :
         stats' = [stats EXCEPT ![t] = NextRelease(outcome)]
    /\ Goto(t, "loop")
    /\ EndSegment(t)

\* The same for the job after the last counted one.
EndExtra(t) ==
    /\ pc[t] = "end" /\ ~count_stats[t]
    /\ Goto(t, "done")
    /\ EndSegment(t)
    /\ UNCHANGED stats

\* The scheduler aborts a thread inside its real-time segment.
Abort(t) ==
    /\ InSegment(t) /\ ~abort_flag[t]
    /\ abort_flag' = [abort_flag EXCEPT ![t] = TRUE]
    /\ UNCHANGED <<inputs, pc, locals, owner, stats>>

-----------------------------------------------------------------------------

Step(t) ==
    \/ BeginJob(t) \/ BeginExtra(t) \/ LeaveLoop(t)
    \/ LockGranted(t) \/ LockRefused(t) \/ LockLoopDone(t)
    \/ LockedWork(t) \/ Unlock(t) \/ ReadFaults(t) \/ UnlockLoopDone(t)
    \/ UnlockedWork(t) \/ EndJob(t) \/ EndExtra(t)

Next == \E t \in Task : Step(t) \/ Abort(t)

\* A thread that can take a step takes one eventually.  The kernel's choice
\* among the threads that request a mutex needs no fairness: jobs are finite.
Fairness == \A t \in Task : WF_vars(Step(t))

Spec == Init /\ [][Next]_vars

FairSpec == Spec /\ Fairness

-----------------------------------------------------------------------------
(* Properties.                                                             *)

\* The type of every variable.
TypeOK ==
    /\ locking \in LockingModes
    /\ my_locks \in LockLists
    /\ pc \in [Task -> {"loop", "extra", "lock", "locked_work", "unlock",
                        "unlocked_work", "end", "done", "faulted"}]
    /\ lock_num \in [Task -> Int]
    /\ last \in [Task -> Int]
    /\ aborted \in [Task -> BOOLEAN]
    /\ count_stats \in [Task -> BOOLEAN]
    /\ abort_flag \in [Task -> BOOLEAN]
    /\ owner \in [Lock -> Task \cup {NoTask}]
    /\ stats \in [Task -> StatsType(MaxLateness)]

\* The first lock request of t always succeeds: only then has `last' a value
\* when the unlock loop reads it.
FirstIsGranted(t) == my_locks[t] # <<>> /\ my_locks[t][1] \notin MayRefuse

\* The unlock loop of task_instance only releases mutexes its thread owns,
\* whatever later request is refused.
UnlocksOnlyOwn ==
    \A t \in Task : FirstIsGranted(t) /\ Unlocking(t) => UnlockIsOwn(t)

\* With locking enabled, every job gets from its locked to its unlocked work
\* and on to its end; none ends its process in the unlock loop.
NoFault == \A t \in Task : pc[t] # "faulted"

\* A thread leaves the locked part of its job, and the job, with no mutex:
\* whatever lock request was refused, none is kept into the unlocked work or
\* the next job.
NoLockLeak ==
    \A t \in Task :
        pc[t] \notin {"lock", "locked_work", "unlock"} => Held(t) = {}

\* Each thread of S is in the lock loop at a mutex that one of S owns.
WaitInCircle(S) ==
    /\ S # {}
    /\ \A t \in S : Locking(t) /\ owner[Requested(t)] \in S

\* t lists the lock l before the lock m.
ListedBefore(t, l, m) ==
    \E j, k \in 1 .. num_my_locks(t) :
        j < k /\ my_locks[t][j] = l /\ my_locks[t][k] = m

\* The lists of S put some locks in a circle: each before another of them.
Conflicting(S) ==
    \E L \in (SUBSET Lock) \ {{}} :
        \A l \in L : \E t \in S, m \in L : ListedBefore(t, l, m)

\* Threads wait for one another in a circle only if their lists conflict: no
\* refused request, abort or lock kept from an earlier job ever makes one.
DeadlockNeedsConflict ==
    \A S \in SUBSET Task : WaitInCircle(S) => Conflicting(S)

\* A wait in a circle that no refusal ends.
Deadlocked(S) ==
    WaitInCircle(S) /\ \A t \in S : Requested(t) \notin MayRefuse

\* t has done all its jobs, or its process ended in the unlock loop for want of
\* a value in `last'.
Finished(t) == pc[t] = "done" \/ (pc[t] = "faulted" /\ ~FirstIsGranted(t))

\* Every thread finishes, or threads with conflicting lists end up in a
\* deadlock: with lists in a common order, all finish.
JobsFinish ==
    <>(\/ \A t \in Task : Finished(t)
       \/ \E S \in SUBSET Task : Deadlocked(S) /\ Conflicting(S))

\* task_instance() implements the one-step jobs of JobStats (and TestRun).
Jobs == INSTANCE JobStats
            WITH Task <- Task, Utility <- Utility, MaxReleases <- MaxReleases,
                 MaxLateness <- MaxLateness, stats <- stats
JobsImplemented == Jobs!JobSpec

=============================================================================
