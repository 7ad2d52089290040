------------------------- MODULE TaskInstanceProofs -------------------------
(***************************************************************************)
(* Proofs about TaskInstance, for any number of tasks and mutexes, any     *)
(* lists of locks in any order, any requests the kernel refuses and any    *)
(* number of jobs.                                                         *)
(*                                                                         *)
(* What makes the unlock loop right is that the mutexes a thread owns are, *)
(* at every line, exactly a prefix of its list: up to lock_num while it    *)
(* locks, up to last while it works, and up to lock_num + 1 while it       *)
(* unlocks.  No property of the runs says so; the invariant below does.    *)
(***************************************************************************)
EXTENDS TaskInstance, CommonLemmas

-----------------------------------------------------------------------------
(* The inductive invariant.                                                *)

\* The first n locks that t lists.
Prefix(t, n) == {my_locks[t][k] : k \in 1 .. n}

\* ... are different ones: a mutex is not granted twice to its owner.
NoneTwice(t, n) ==
    \A j, k \in 1 .. n : my_locks[t][j] = my_locks[t][k] => j = k

\* In the lock loop and the locked work, t owns the locks the loop has passed,
\* and if there is one, `last' is the index of the newest.
PrefixTaken(t) ==
    pc[t] \in {"lock", "locked_work"} =>
        /\ lock_num[t] \in 0 .. num_my_locks(t)
        /\ Held(t) = Prefix(t, lock_num[t])
        /\ NoneTwice(t, lock_num[t])
        /\ lock_num[t] > 0 => last[t] = lock_num[t] - 1

\* The unlock loop is at the newest lock that t still owns.
AtNewest(t) ==
    /\ lock_num[t] \in -1 .. num_my_locks(t) - 1
    /\ Held(t) = Prefix(t, lock_num[t] + 1)
    /\ NoneTwice(t, lock_num[t] + 1)

\* In the unlock loop t owns nothing, and lock_num may be garbage, or the
\* loop is at the newest lock.
PrefixLeft(t) == pc[t] = "unlock" => Held(t) = {} \/ AtNewest(t)

\* Outside the two loops and the work between them, t owns nothing.
NothingKept(t) == pc[t] \notin {"lock", "locked_work", "unlock"} => Held(t) = {}

\* Between two jobs the local variable lock_num starts at 0 again.
LoopAtStart(t) == pc[t] \in {"loop", "extra"} => lock_num[t] = 0

\* A job that will be counted is one the task has not released yet.
Uncounted(t) ==
    InSegment(t) /\ count_stats[t] => stats[t].num_releases < MaxReleases[t]

TaskInv(t) ==
    /\ PrefixTaken(t)
    /\ PrefixLeft(t)
    /\ NothingKept(t)
    /\ LoopAtStart(t)
    /\ Uncounted(t)

Inv == TypeOK /\ \A t \in Task : TaskInv(t)

\* A task whose first request always succeeds does the locked work with a lock,
\* and its unlock loop is always at a lock that is owned, or past the first.
LastHasValue(t) ==
    FirstIsGranted(t) =>
        /\ pc[t] = "locked_work" => lock_num[t] > 0
        /\ pc[t] = "unlock" => AtNewest(t)

-----------------------------------------------------------------------------
(* Facts about the lists of locks.                                         *)

\* A list has a length, and its elements are mutexes.
LEMMA ListFacts ==
    ASSUME TypeOK, NEW t \in Task
    PROVE  /\ num_my_locks(t) \in Nat
           /\ \A k \in 1 .. num_my_locks(t) : my_locks[t][k] \in Lock
<1>1. my_locks[t] \in Seq(Lock)
  BY LocksAssumption DEF TypeOK
<1> QED
  BY <1>1 DEF num_my_locks

\* Taking the next lock of the list makes the prefix one longer.
LEMMA PrefixGrows ==
    ASSUME TypeOK, NEW t \in Task, NEW n \in 0 .. num_my_locks(t) - 1
    PROVE  Prefix(t, n + 1) = Prefix(t, n) \cup {my_locks[t][n + 1]}
    BY ListFacts DEF Prefix

\* The lock after a prefix is not in it if none is listed twice so far.
LEMMA NextNotInPrefix ==
    ASSUME TypeOK, NEW t \in Task, NEW n \in 0 .. num_my_locks(t) - 1,
           NoneTwice(t, n + 1)
    PROVE  my_locks[t][n + 1] \notin Prefix(t, n)
<1> SUFFICES ASSUME NEW k \in 1 .. n, my_locks[t][n + 1] = my_locks[t][k]
             PROVE  FALSE
  BY DEF Prefix
<1>1. k \in 1 .. n + 1 /\ n + 1 \in 1 .. n + 1 /\ k # n + 1
  BY ListFacts
<1> QED
  BY <1>1 DEF NoneTwice

\* A lock that is not in the prefix makes it longer without a lock twice.
LEMMA NoneTwiceGrows ==
    ASSUME TypeOK, NEW t \in Task, NEW n \in 0 .. num_my_locks(t) - 1,
           NoneTwice(t, n), my_locks[t][n + 1] \notin Prefix(t, n)
    PROVE  NoneTwice(t, n + 1)
<1> SUFFICES ASSUME NEW j \in 1 .. n + 1, NEW k \in 1 .. n + 1,
                    my_locks[t][j] = my_locks[t][k]
             PROVE  j = k
  BY DEF NoneTwice
<1>1. j \in 1 .. n \/ j = n + 1
  BY ListFacts
<1>2. k \in 1 .. n \/ k = n + 1
  BY ListFacts
<1> QED
  BY <1>1, <1>2 DEF NoneTwice, Prefix

\* The empty prefix.
LEMMA PrefixEmpty == \A t : Prefix(t, 0) = {}
    BY DEF Prefix

-----------------------------------------------------------------------------
(* Types, and what a step leaves alone.                                    *)

\* Every step of a thread keeps the types.
LEMMA TypeStep ==
    ASSUME TypeOK, NEW t \in Task, Step(t) \/ Abort(t)
    PROVE  TypeOK'
<1> USE DEF TypeOK, Goto, locals, inputs
<1>1. ASSUME NEW count \in BOOLEAN, BeginSegment(t, count)
      PROVE  TypeOK'
  BY <1>1, LocksAssumption DEF BeginSegment, Garbage
<1>2. CASE BeginJob(t)
  BY <1>1, <1>2 DEF BeginJob
<1>3. CASE BeginExtra(t)
  BY <1>1, <1>3 DEF BeginExtra
<1>4. CASE LeaveLoop(t)
  BY <1>4 DEF LeaveLoop
<1>5. CASE LockGranted(t)
  <2>1. owner' \in [Lock -> Task \cup {NoTask}]
    BY <1>5 DEF LockGranted
  <2>2. lock_num' \in [Task -> Int] /\ last' \in [Task -> Int]
    BY <1>5 DEF LockGranted
  <2> QED
    BY <1>5, <2>1, <2>2 DEF LockGranted
<1>6. CASE LockRefused(t)
  BY <1>6 DEF LockRefused
<1>7. CASE LockLoopDone(t)
  BY <1>7 DEF LockLoopDone
<1>8. CASE LockedWork(t)
  BY <1>8 DEF LockedWork
<1>9. CASE Unlock(t)
  <2>1. owner' \in [Lock -> Task \cup {NoTask}]
    BY <1>9 DEF Unlock
  <2>2. lock_num' \in [Task -> Int]
    BY <1>9 DEF Unlock
  <2> QED
    BY <1>9, <2>1, <2>2 DEF Unlock
<1>10. CASE UnlockLoopDone(t) \/ ReadFaults(t)
  BY <1>10 DEF UnlockLoopDone, ReadFaults
<1>11. CASE UnlockedWork(t)
  BY <1>11 DEF UnlockedWork
<1>12. CASE EndJob(t)
  <2>1. stats[t] \in StatsType(MaxLateness) /\ Utility[t] \in Nat
    BY JobsAssumption
  <2>2. Outcome(t) \subseteq StatsType(MaxLateness)
    <3>1. /\ CountAborted(stats[t]) \in StatsType(MaxLateness)
          /\ CountMet(stats[t], Utility[t]) \in StatsType(MaxLateness)
          /\ \A tardiness \in -MaxLateness .. -1 :
               CountLate(stats[t], tardiness) \in StatsType(MaxLateness)
      BY <2>1, StatsClosed, JobsAssumption
    <3> QED
      BY <3>1, Zenon DEF Outcome
  <2>3. \A s \in StatsType(MaxLateness) : NextRelease(s) \in StatsType(MaxLateness)
    BY StatsClosed, JobsAssumption
  <2>4. stats' \in [Task -> StatsType(MaxLateness)]
    BY <1>12, <2>2, <2>3 DEF EndJob
  <2> QED
    BY <1>12, <2>4 DEF EndJob, EndSegment
<1>13. CASE EndExtra(t)
  BY <1>13 DEF EndExtra, EndSegment
<1>14. CASE Abort(t)
  BY <1>14 DEF Abort
<1> QED
  BY <1>2, <1>3, <1>4, <1>5, <1>6, <1>7, <1>8, <1>9, <1>10, <1>11, <1>12,
     <1>13, <1>14 DEF Step

\* No step changes the lists.
LEMMA ListsUnchanged ==
    ASSUME NEW t, Step(t) \/ Abort(t)
    PROVE  my_locks' = my_locks
    BY DEF Step, BeginJob, BeginExtra, BeginSegment, LeaveLoop, LockGranted,
           LockRefused, LockLoopDone, LockedWork, Unlock, ReadFaults,
           UnlockLoopDone, UnlockedWork, EndJob, EndExtra, EndSegment, Abort,
           inputs

\* A step of one thread changes nothing of another: not its local variables,
\* and not the mutexes it owns.
LEMMA OthersUnchanged ==
    ASSUME TypeOK, NEW t \in Task, Step(t) \/ Abort(t),
           NEW u \in Task, u # t
    PROVE  /\ pc'[u] = pc[u] /\ lock_num'[u] = lock_num[u]
           /\ last'[u] = last[u] /\ count_stats'[u] = count_stats[u]
           /\ stats'[u] = stats[u] /\ Held(u)' = Held(u)
<1> USE DEF TypeOK, Goto, locals, inputs
<1>1. u # NoTask
  BY LocksAssumption
<1>2. CASE LockGranted(t)
  BY <1>1, <1>2 DEF LockGranted, Held
<1>3. CASE Unlock(t)
  BY <1>1, <1>3 DEF Unlock, UnlockIsOwn, Held
<1>4. CASE BeginJob(t) \/ BeginExtra(t) \/ LeaveLoop(t) \/ LockRefused(t) \/ LockLoopDone(t)
  BY <1>4 DEF BeginJob, BeginExtra, BeginSegment, LeaveLoop, LockRefused,
              LockLoopDone, Held
<1>5. CASE LockedWork(t) \/ UnlockLoopDone(t) \/ ReadFaults(t) \/ UnlockedWork(t) \/ Abort(t)
  BY <1>5 DEF LockedWork, UnlockLoopDone, ReadFaults, UnlockedWork, Abort, Held
<1>6. CASE EndJob(t) \/ EndExtra(t)
  BY <1>6 DEF EndJob, EndExtra, EndSegment, Held
<1> QED
  BY <1>2, <1>3, <1>4, <1>5, <1>6 DEF Step

-----------------------------------------------------------------------------
(* The invariant is inductive.                                             *)

\* The lock loop: the granted mutex is the next of the list, and was free.
LEMMA LockGrantedInv ==
    ASSUME TypeOK, NEW t \in Task, TaskInv(t), LockGranted(t)
    PROVE  TaskInv(t)'
<1> DEFINE n == lock_num[t]
<1>1. pc[t] = "lock" /\ n \in 0 .. num_my_locks(t) - 1
  BY ListFacts DEF TaskInv, PrefixTaken, LockGranted, Locking
<1>2. Requested(t) \in Lock /\ Requested(t) = my_locks[t][n + 1]
  BY <1>1, ListFacts DEF Requested
<1>3. Held(t)' = Held(t) \cup {Requested(t)}
  BY <1>2 DEF LockGranted, Held, TypeOK
<1>4. Held(t) = Prefix(t, n) /\ NoneTwice(t, n)
  BY <1>1 DEF TaskInv, PrefixTaken
<1>5. lock_num'[t] = n + 1 /\ last'[t] = n /\ pc' = pc /\ my_locks' = my_locks
  BY DEF LockGranted, TypeOK, inputs
<1>6. Held(t)' = Prefix(t, lock_num'[t])
  BY <1>1, <1>2, <1>3, <1>4, <1>5, PrefixGrows
<1>7. NoneTwice(t, lock_num'[t])
  <2>1. Requested(t) \notin Held(t)
    BY LocksAssumption DEF LockGranted, Held
  <2>2. my_locks[t][n + 1] \notin Prefix(t, n)
    BY <1>2, <1>4, <2>1
  <2> QED
    BY <1>1, <1>4, <1>5, <2>2, NoneTwiceGrows
<1>8. /\ lock_num'[t] \in 0 .. num_my_locks(t)
      /\ lock_num'[t] > 0 => last'[t] = lock_num'[t] - 1
  BY <1>1, <1>5, ListFacts
<1>9. PrefixTaken(t)'
  BY <1>5, <1>6, <1>7, <1>8 DEF PrefixTaken, Prefix, NoneTwice, num_my_locks
<1> QED
  BY <1>1, <1>5, <1>9
     DEF TaskInv, PrefixLeft, NothingKept, LoopAtStart, Uncounted, InSegment,
         LockGranted

\* The head of the unlock loop: `last' is the newest lock taken, or garbage
\* when none has been.
LEMMA LockedWorkInv ==
    ASSUME TypeOK, NEW t \in Task, TaskInv(t), LockedWork(t)
    PROVE  /\ TaskInv(t)'
           /\ lock_num[t] > 0 => AtNewest(t)'
<1>1. /\ pc[t] = "locked_work" /\ pc'[t] = "unlock"
      /\ lock_num'[t] = last[t] /\ count_stats' = count_stats /\ stats' = stats
      /\ Held(t)' = Held(t) /\ my_locks' = my_locks
  BY DEF LockedWork, Goto, TypeOK, Held, inputs
<1>2. /\ lock_num[t] \in 0 .. num_my_locks(t)
      /\ Held(t) = Prefix(t, lock_num[t]) /\ NoneTwice(t, lock_num[t])
      /\ lock_num[t] > 0 => last[t] = lock_num[t] - 1
  BY <1>1 DEF TaskInv, PrefixTaken
<1>3. lock_num[t] > 0 => AtNewest(t)'
  <2> SUFFICES ASSUME lock_num[t] > 0 PROVE AtNewest(t)'
    OBVIOUS
  <2>1. lock_num'[t] + 1 = lock_num[t]
    BY <1>1, <1>2, ListFacts
  <2> QED
    BY <1>1, <1>2, <2>1, ListFacts DEF AtNewest, Prefix, NoneTwice, num_my_locks
<1>4. lock_num[t] = 0 => Held(t)' = {}
  BY <1>1, <1>2, PrefixEmpty
<1>5. PrefixLeft(t)'
  BY <1>2, <1>3, <1>4, ListFacts DEF PrefixLeft
<1> QED
  BY <1>1, <1>3, <1>5
     DEF TaskInv, PrefixTaken, NothingKept, LoopAtStart, Uncounted, InSegment

\* The unlock loop: it releases the newest lock, or with garbage nothing.
LEMMA UnlockInv ==
    ASSUME TypeOK, NEW t \in Task, TaskInv(t), Unlock(t)
    PROVE  /\ TaskInv(t)'
           /\ AtNewest(t) => AtNewest(t)'
<1> DEFINE n == lock_num[t]
<1>1. /\ pc' = pc /\ pc[t] = "unlock" /\ n \in Int /\ n >= 0
      /\ lock_num'[t] = n - 1 /\ count_stats' = count_stats /\ stats' = stats
      /\ my_locks' = my_locks
  BY DEF Unlock, Unlocking, TypeOK, inputs
<1>2. AtNewest(t) => AtNewest(t)'
  <2> SUFFICES ASSUME AtNewest(t) PROVE AtNewest(t)'
    OBVIOUS
  <2>1. n \in 0 .. num_my_locks(t) - 1
    BY <1>1, ListFacts DEF AtNewest
  <2>2. Requested(t) \in Lock
    BY <2>1, ListFacts DEF Requested
  <2>3. Held(t) = Prefix(t, n) \cup {Requested(t)}
    BY <2>1, PrefixGrows DEF AtNewest, Requested
  <2>4. owner[Requested(t)] = t /\ UnlockIsOwn(t)
    BY <2>1, <2>2, <2>3, ListFacts DEF Held, UnlockIsOwn
  <2>5. t # NoTask
    BY LocksAssumption
  <2>6. Held(t)' = Held(t) \ {Requested(t)}
    BY <2>2, <2>4, <2>5 DEF Unlock, Held, TypeOK
  <2>7. Requested(t) \notin Prefix(t, n)
    BY <2>1, NextNotInPrefix DEF AtNewest, Requested
  <2>8. Held(t)' = Prefix(t, n)
    BY <2>3, <2>6, <2>7
  <2>9. lock_num'[t] \in -1 .. num_my_locks(t) - 1 /\ lock_num'[t] + 1 = n
    BY <1>1, <2>1, ListFacts
  <2>10. NoneTwice(t, n)
    BY <2>1, ListFacts DEF AtNewest, NoneTwice
  <2> QED
    BY <1>1, <2>8, <2>9, <2>10 DEF AtNewest, Prefix, NoneTwice, num_my_locks
<1>3. Held(t) = {} => Held(t)' = {}
  BY LocksAssumption DEF Unlock, UnlockIsOwn, Held, TypeOK
<1>4. PrefixLeft(t)'
  BY <1>1, <1>2, <1>3 DEF TaskInv, PrefixLeft
<1> QED
  BY <1>1, <1>2, <1>4
     DEF TaskInv, PrefixTaken, NothingKept, LoopAtStart, Uncounted, InSegment

\* The unlock loop ends with nothing left to release.
LEMMA UnlockLoopDoneInv ==
    ASSUME TypeOK, NEW t \in Task, TaskInv(t), UnlockLoopDone(t)
    PROVE  TaskInv(t)'
<1>1. /\ pc[t] = "unlock" /\ pc'[t] = "unlocked_work"
      /\ ~(lock_num[t] >= 0) /\ Held(t)' = Held(t)
      /\ count_stats' = count_stats /\ stats' = stats
  BY DEF UnlockLoopDone, Unlocking, Goto, TypeOK, Held, locals, inputs
<1>2. AtNewest(t) => Held(t) = {}
  <2> SUFFICES ASSUME AtNewest(t) PROVE Held(t) = {}
    OBVIOUS
  <2>1. lock_num[t] + 1 = 0
    BY <1>1, ListFacts DEF AtNewest
  <2> QED
    BY <2>1, PrefixEmpty DEF AtNewest
<1>3. Held(t)' = {}
  BY <1>1, <1>2 DEF TaskInv, PrefixLeft
<1> QED
  BY <1>1, <1>3
     DEF TaskInv, PrefixTaken, PrefixLeft, NothingKept, LoopAtStart, Uncounted,
         InSegment

\* Beyond the list, the thread owns nothing: it would be at a lock it owns.
LEMMA ReadFaultsInv ==
    ASSUME TypeOK, NEW t \in Task, TaskInv(t), ReadFaults(t)
    PROVE  TaskInv(t)'
<1>1. /\ pc[t] = "unlock" /\ pc'[t] = "faulted"
      /\ lock_num[t] \in Int /\ lock_num[t] >= num_my_locks(t)
      /\ Held(t)' = Held(t) /\ count_stats' = count_stats /\ stats' = stats
  BY DEF ReadFaults, OutsideList, Unlocking, Goto, TypeOK, Held, locals, inputs
<1>2. ~AtNewest(t)
  BY <1>1, ListFacts DEF AtNewest
<1>3. Held(t)' = {}
  BY <1>1, <1>2 DEF TaskInv, PrefixLeft
<1> QED
  BY <1>1, <1>3
     DEF TaskInv, PrefixTaken, PrefixLeft, NothingKept, LoopAtStart, Uncounted,
         InSegment

\* A segment begins with lock_num at 0 and no mutex.
LEMMA BeginSegmentInv ==
    ASSUME TypeOK, NEW t \in Task, TaskInv(t), NEW count \in BOOLEAN,
           BeginSegment(t, count), pc[t] \in {"loop", "extra"},
           count => stats[t].num_releases < MaxReleases[t]
    PROVE  TaskInv(t)'
<1>1. /\ pc'[t] \in {"lock", "unlocked_work"} /\ lock_num' = lock_num
      /\ count_stats'[t] = count /\ stats' = stats /\ Held(t)' = Held(t)
      /\ my_locks' = my_locks
  BY DEF BeginSegment, Goto, TypeOK, Held, inputs
<1>2. lock_num[t] = 0 /\ Held(t) = {}
  BY DEF TaskInv, LoopAtStart, NothingKept
<1>3. PrefixTaken(t)'
  <2>1. 0 \in 0 .. num_my_locks(t) /\ Prefix(t, 0) = {}
    BY ListFacts, PrefixEmpty
  <2> QED
    BY <1>1, <1>2, <2>1 DEF PrefixTaken, Prefix, NoneTwice, num_my_locks
<1> QED
  BY <1>1, <1>2, <1>3
     DEF TaskInv, PrefixLeft, NothingKept, LoopAtStart, Uncounted, InSegment

\* A segment ends with lock_num back at 0 and no mutex.
LEMMA EndSegmentInv ==
    ASSUME TypeOK, NEW t \in Task, TaskInv(t), pc[t] = "end", EndSegment(t),
           Goto(t, "loop") \/ Goto(t, "done")
    PROVE  TaskInv(t)'
<1>1. /\ pc'[t] \in {"loop", "done"} /\ lock_num'[t] = 0 /\ Held(t)' = Held(t)
  BY DEF EndSegment, Goto, TypeOK, Held
<1>2. Held(t) = {}
  BY DEF TaskInv, NothingKept
<1> QED
  BY <1>1, <1>2
     DEF TaskInv, PrefixTaken, PrefixLeft, NothingKept, LoopAtStart, Uncounted,
         InSegment

\* Every step of a thread keeps the parts of the invariant about it.
LEMMA TaskInvSelf ==
    ASSUME TypeOK, NEW t \in Task, TaskInv(t), Step(t) \/ Abort(t)
    PROVE  TaskInv(t)'
<1> USE DEF Goto, locals, inputs
<1>1. CASE BeginJob(t)
  BY <1>1, BeginSegmentInv DEF BeginJob
<1>2. CASE BeginExtra(t)
  BY <1>2, BeginSegmentInv DEF BeginExtra
<1>3. CASE LeaveLoop(t)
  BY <1>3
     DEF LeaveLoop, TypeOK, TaskInv, PrefixTaken, PrefixLeft, NothingKept,
         LoopAtStart, Uncounted, InSegment, Held
<1>4. CASE LockGranted(t)
  BY <1>4, LockGrantedInv
<1>5. CASE LockRefused(t) \/ LockLoopDone(t)
  <2>1. /\ pc[t] = "lock" /\ pc'[t] = "locked_work"
        /\ UNCHANGED <<my_locks, lock_num, last, count_stats, stats>>
        /\ Held(t)' = Held(t)
    BY <1>5 DEF LockRefused, LockLoopDone, Locking, TypeOK, Held
  <2>2. PrefixTaken(t)'
    BY <2>1 DEF TaskInv, PrefixTaken, Prefix, NoneTwice, num_my_locks
  <2> QED
    BY <2>1, <2>2
       DEF TaskInv, PrefixLeft, NothingKept, LoopAtStart, Uncounted, InSegment
<1>6. CASE LockedWork(t)
  BY <1>6, LockedWorkInv
<1>7. CASE Unlock(t)
  BY <1>7, UnlockInv
<1>8. CASE UnlockLoopDone(t)
  BY <1>8, UnlockLoopDoneInv
<1>9. CASE UnlockedWork(t)
  BY <1>9
     DEF UnlockedWork, TypeOK, TaskInv, PrefixTaken, PrefixLeft, NothingKept,
         LoopAtStart, Uncounted, InSegment, Held
<1>10. CASE EndJob(t) \/ EndExtra(t)
  BY <1>10, EndSegmentInv DEF EndJob, EndExtra
<1>11. CASE Abort(t)
  <2>1. UNCHANGED <<my_locks, pc, lock_num, last, count_stats, stats, owner>>
    BY <1>11 DEF Abort
  <2> QED
    BY <2>1
       DEF TaskInv, PrefixTaken, PrefixLeft, AtNewest, NothingKept, LoopAtStart,
           Uncounted, InSegment, Held, Prefix, NoneTwice, num_my_locks
<1>12. CASE ReadFaults(t)
  BY <1>12, ReadFaultsInv
<1> QED
  BY <1>1, <1>2, <1>3, <1>4, <1>5, <1>6, <1>7, <1>8, <1>9, <1>10, <1>11, <1>12
     DEF Step

\* ... and those about every other thread, whose state it leaves alone.
LEMMA TaskInvOther ==
    ASSUME TypeOK, NEW t \in Task, Step(t) \/ Abort(t),
           NEW u \in Task, u # t, TaskInv(u)
    PROVE  TaskInv(u)'
<1>1. /\ pc'[u] = pc[u] /\ lock_num'[u] = lock_num[u]
      /\ last'[u] = last[u] /\ count_stats'[u] = count_stats[u]
      /\ stats'[u] = stats[u] /\ Held(u)' = Held(u)
      /\ my_locks' = my_locks
  BY OthersUnchanged, ListsUnchanged
<1> QED
  BY <1>1
     DEF TaskInv, PrefixTaken, PrefixLeft, AtNewest, NothingKept, LoopAtStart,
         Uncounted, InSegment, Prefix, NoneTwice, num_my_locks

\* The initial states satisfy the invariant.
LEMMA InvInit == Init => Inv
<1> SUFFICES ASSUME Init PROVE Inv
  OBVIOUS
<1>1. TypeOK
  BY LocksAssumption, JobsAssumption, ClearedStatsType DEF Init, TypeOK
<1>2. ASSUME NEW t \in Task PROVE TaskInv(t)
  BY LocksAssumption
     DEF Init, TaskInv, PrefixTaken, PrefixLeft, NothingKept, LoopAtStart,
         Uncounted, InSegment, Held
<1> QED
  BY <1>1, <1>2 DEF Inv

\* Every step keeps it.
LEMMA InvStep == Inv /\ [Next]_vars => Inv'
<1> SUFFICES ASSUME Inv, [Next]_vars PROVE Inv'
  OBVIOUS
<1>1. ASSUME NEW t \in Task, Step(t) \/ Abort(t) PROVE Inv'
  <2>1. TypeOK'
    BY <1>1, TypeStep DEF Inv
  <2>2. \A u \in Task : TaskInv(u)'
    BY <1>1, TaskInvSelf, TaskInvOther DEF Inv
  <2> QED
    BY <2>1, <2>2 DEF Inv
<1>2. CASE UNCHANGED vars
  BY <1>2
     DEF vars, locals, inputs, Inv, TypeOK, TaskInv, PrefixTaken, PrefixLeft,
         AtNewest, NothingKept, LoopAtStart, Uncounted, InSegment, Held, Prefix,
         NoneTwice, num_my_locks
<1> QED
  BY <1>1, <1>2 DEF Next

\* The invariant holds in every reachable state.
THEOREM Invariance == Spec => []Inv
    BY InvInit, InvStep, PTL DEF Spec

-----------------------------------------------------------------------------
(* The theorems.                                                           *)

\* The variables keep their types; num_releases stays a natural number and
\* max_tardiness within the bound on lateness.
THEOREM TypeCorrect == Spec => []TypeOK
<1>1. Inv => TypeOK
  BY DEF Inv
<1> QED
  BY <1>1, Invariance, PTL

\* Whatever requests are refused, a thread leaves task_instance's locked part
\* with no mutex: none is kept into the unlocked work or the next job.
THEOREM NothingLeaks == Spec => []NoLockLeak
<1>1. Inv => NoLockLeak
  BY DEF Inv, TaskInv, NothingKept, NoLockLeak
<1> QED
  BY <1>1, Invariance, PTL

\* What t waits for is before what its owner waits for, in the owner's list.
LEMMA WaitsAlongLists ==
    ASSUME Inv, NEW t \in Task, NEW u \in Task,
           Locking(t), owner[Requested(t)] = u, Locking(u)
    PROVE  Requested(t) \in Lock /\ ListedBefore(u, Requested(t), Requested(u))
<1>1. /\ lock_num[t] \in 0 .. num_my_locks(t) - 1
      /\ lock_num[u] \in 0 .. num_my_locks(u) - 1
  BY ListFacts DEF Inv, TaskInv, PrefixTaken, Locking
<1>2. Requested(t) \in Lock
  BY <1>1, ListFacts DEF Inv, Requested
<1>3. Requested(t) \in Held(u)
  BY <1>2 DEF Held
<1>4. PICK k \in 1 .. lock_num[u] : Requested(t) = my_locks[u][k]
  BY <1>3 DEF Inv, TaskInv, PrefixTaken, Locking, Prefix
<1>5. /\ k \in 1 .. num_my_locks(u) /\ lock_num[u] + 1 \in 1 .. num_my_locks(u)
      /\ k < lock_num[u] + 1
  BY <1>1, ListFacts DEF Inv
<1> QED
  BY <1>2, <1>4, <1>5 DEF ListedBefore, Requested

\* Threads that wait for one another in a circle have lists that conflict: the
\* mutexes they wait for are themselves in a circle, each listed before another
\* by the thread that owns it.
THEOREM CirclesAreListed == Spec => []DeadlockNeedsConflict
<1>1. ASSUME Inv, NEW S \in SUBSET Task, WaitInCircle(S)
      PROVE  Conflicting(S)
  <2> DEFINE L == {Requested(t) : t \in S}
  <2>1. ASSUME NEW t \in S
        PROVE  /\ Requested(t) \in Lock
               /\ \E u \in S : ListedBefore(u, Requested(t), Requested(u))
    BY <1>1, WaitsAlongLists DEF WaitInCircle
  <2>2. L \in (SUBSET Lock) \ {{}}
    <3>1. S # {}
      BY <1>1 DEF WaitInCircle
    <3>2. \A t \in S : Requested(t) \in Lock
      BY <2>1
    <3> QED
      BY <3>1, <3>2
  <2>3. \A l \in L : \E u \in S, m \in L : ListedBefore(u, l, m)
    BY <2>1
  <2> HIDE DEF L
  <2> QED
    BY <2>2, <2>3 DEF Conflicting
<1>2. Inv => DeadlockNeedsConflict
  BY <1>1 DEF DeadlockNeedsConflict
<1> QED
  BY <1>2, Invariance, PTL

\* If some ranking of the mutexes puts the list of every task in ascending order
\* (the code refuses no taskset file without one), no threads ever wait for one
\* another in a circle: a deadlock takes lists in different orders.
THEOREM AscendingListsAreSafe ==
    ASSUME NEW N \in Nat, NEW rank \in [Lock -> 0 .. N],
           \A lists \in LockLists : \A t \in Task :
             \A j, k \in 1 .. Len(lists[t]) :
               j < k => rank[lists[t][j]] < rank[lists[t][k]]
    PROVE  Spec => [](\A S \in SUBSET Task : ~WaitInCircle(S))
<1>1. ASSUME TypeOK, NEW S \in SUBSET Task, Conflicting(S)
      PROVE  FALSE
  <2>1. PICK L \in (SUBSET Lock) \ {{}} :
          \A l \in L : \E t \in S, m \in L : ListedBefore(t, l, m)
    BY <1>1 DEF Conflicting
  <2>2. ASSUME NEW l \in L PROVE \E m \in L : rank[l] < rank[m]
    <3>1. PICK t \in S, m \in L : ListedBefore(t, l, m)
      BY <2>1
    <3>2. my_locks \in LockLists
      BY <1>1 DEF TypeOK
    <3>3. PICK j \in 1 .. Len(my_locks[t]), k \in 1 .. Len(my_locks[t]) :
            j < k /\ my_locks[t][j] = l /\ my_locks[t][k] = m
      BY <3>1 DEF ListedBefore, num_my_locks
    <3>4. rank[my_locks[t][j]] < rank[my_locks[t][k]]
      BY <1>1, <3>1, <3>2, <3>3
    <3>5. m \in L /\ rank[l] < rank[m]
      BY <3>1, <3>3, <3>4
    <3> QED
      BY <3>5
  <2> DEFINE R == {rank[l] : l \in L}
  <2>3. R \subseteq 0 .. N /\ R # {}
    BY <2>1
  <2>4. PICK r \in R : \A q \in R : q <= r
    <3>1. R \subseteq Nat /\ \A q \in R : q <= N
      BY <2>3
    <3> HIDE DEF R
    <3> QED
      BY <2>3, <3>1, GreatestElement
  <2>5. PICK l \in L : rank[l] = r
    BY <2>4
  <2>6. PICK m \in L : rank[l] < rank[m]
    BY <2>2
  <2>7. rank[m] <= r /\ rank[m] \in Nat /\ r \in Nat
    BY <2>1, <2>4, <2>5
  <2> QED
    BY <2>5, <2>6, <2>7
<1>2. TypeOK /\ DeadlockNeedsConflict => \A S \in SUBSET Task : ~WaitInCircle(S)
  BY <1>1 DEF DeadlockNeedsConflict
<1> QED
  BY <1>2, TypeCorrect, CirclesAreListed, PTL

\* With a first request that always succeeds, `last' has a value whenever the
\* unlock loop reads it.
LEMMA LastHasValueStep ==
    Inv /\ (\A u \in Task : LastHasValue(u)) /\ [Next]_vars
      => (\A u \in Task : LastHasValue(u))'
<1> SUFFICES ASSUME Inv, \A u \in Task : LastHasValue(u), [Next]_vars
             PROVE  (\A u \in Task : LastHasValue(u))'
  OBVIOUS
<1> USE DEF Goto, locals, inputs
<1>1. ASSUME NEW t \in Task, Step(t) \/ Abort(t), NEW u \in Task, u # t
      PROVE  LastHasValue(u)'
  <2>1. /\ pc'[u] = pc[u] /\ lock_num'[u] = lock_num[u] /\ Held(u)' = Held(u)
        /\ my_locks' = my_locks
    BY <1>1, OthersUnchanged, ListsUnchanged DEF Inv
  <2> QED
    BY <2>1
       DEF LastHasValue, FirstIsGranted, AtNewest, Prefix, NoneTwice, num_my_locks
<1>2. ASSUME NEW t \in Task, Step(t) \/ Abort(t)
      PROVE  LastHasValue(t)'
  <2> USE DEF Inv
  <2>1. my_locks' = my_locks /\ FirstIsGranted(t)' = FirstIsGranted(t)
    BY <1>2, ListsUnchanged DEF FirstIsGranted
  <2>2. CASE LockRefused(t) \/ LockLoopDone(t)
    <3>1. pc'[t] = "locked_work" /\ lock_num'[t] = lock_num[t] /\ pc[t] = "lock"
      BY <2>2 DEF LockRefused, LockLoopDone, Locking, TypeOK
    <3>2. ASSUME FirstIsGranted(t) PROVE lock_num[t] > 0
      <4>1. lock_num[t] \in 0 .. num_my_locks(t)
        BY <3>1 DEF TaskInv, PrefixTaken
      <4>2. num_my_locks(t) > 0
        BY <3>2, LocksAssumption DEF FirstIsGranted, num_my_locks, TypeOK
      <4>3. lock_num[t] = 0 => Requested(t) = my_locks[t][1]
        BY DEF Requested
      <4>4. lock_num[t] # 0
        BY <2>2, <3>2, <4>2, <4>3, ListFacts
           DEF LockRefused, LockLoopDone, FirstIsGranted
      <4> QED
        BY <4>1, <4>4, ListFacts
    <3> QED
      BY <2>1, <3>1, <3>2 DEF LastHasValue
  <2>3. CASE LockedWork(t)
    <3>1. pc[t] = "locked_work" /\ pc'[t] = "unlock"
      BY <2>3 DEF LockedWork, TypeOK
    <3> QED
      BY <2>1, <2>3, <3>1, LockedWorkInv DEF LastHasValue
  <2>4. CASE Unlock(t)
    <3>1. pc[t] = "unlock" /\ pc' = pc
      BY <2>4 DEF Unlock, Unlocking
    <3> QED
      BY <2>1, <2>4, <3>1, UnlockInv DEF LastHasValue
  <2>5. CASE LockGranted(t)
    BY <2>5 DEF LockGranted, Locking, LastHasValue
  <2>6. CASE Abort(t)
    <3>1. pc' = pc /\ lock_num' = lock_num /\ Held(t)' = Held(t)
      BY <2>6 DEF Abort, Held
    <3>2. AtNewest(t)' = AtNewest(t)
      BY <2>1, <3>1 DEF AtNewest, Prefix, NoneTwice, num_my_locks
    <3> QED
      BY <2>1, <3>1, <3>2 DEF LastHasValue
  <2>7. CASE BeginJob(t) \/ BeginExtra(t) \/ LeaveLoop(t)
    BY <2>7 DEF BeginJob, BeginExtra, BeginSegment, LeaveLoop, LastHasValue, TypeOK
  <2>8. CASE UnlockLoopDone(t) \/ ReadFaults(t) \/ UnlockedWork(t) \/ EndJob(t) \/ EndExtra(t)
    BY <2>8
       DEF UnlockLoopDone, ReadFaults, UnlockedWork, EndJob, EndExtra,
           LastHasValue, TypeOK
  <2> QED
    BY <1>2, <2>2, <2>3, <2>4, <2>5, <2>6, <2>7, <2>8 DEF Step
<1>3. CASE UNCHANGED vars
  BY <1>3
     DEF vars, LastHasValue, FirstIsGranted, AtNewest, Held, Prefix, NoneTwice,
         num_my_locks
<1> QED
  BY <1>1, <1>2, <1>3 DEF Next

\* The unlock loop of a task that lists a lock, and whose first request is never
\* refused, only releases mutexes its thread owns.  The run task_no_locks shows
\* what happens to a task that lists none.
THEOREM OwnersUnlock == Spec => []UnlocksOnlyOwn
<1> DEFINE Values == \A u \in Task : LastHasValue(u)
<1>1. Init => Values
  BY DEF Init, LastHasValue
<1>2. Inv /\ Values /\ [Next]_vars => Values'
  BY LastHasValueStep
<1>3. ASSUME Inv, Values, NEW t \in Task, FirstIsGranted(t), Unlocking(t)
      PROVE  UnlockIsOwn(t)
  <2>1. AtNewest(t) /\ lock_num[t] \in 0 .. num_my_locks(t) - 1
    BY <1>3, ListFacts DEF Inv, LastHasValue, AtNewest, Unlocking
  <2>2. Requested(t) \in Held(t)
    BY <1>3, <2>1, PrefixGrows DEF Inv, AtNewest, Requested
  <2> QED
    BY <1>3, <2>1, <2>2, ListFacts DEF Inv, UnlockIsOwn, Held
<1>4. Inv /\ Values => UnlocksOnlyOwn
  BY <1>3 DEF UnlocksOnlyOwn
<1> HIDE DEF Values
<1> QED
  BY <1>1, <1>2, <1>4, Invariance, PTL DEF Spec

\* task_instance() implements the one-step jobs of JobStats: whatever its locks
\* and aborts, each counted job changes the statistics once, by one outcome,
\* and no task counts more than its max_releases jobs.
THEOREM ImplementsJobs == Spec => JobsImplemented
<1>1. Init => Jobs!JobInit
  BY DEF Init, Jobs!JobInit, ClearedStats, Jobs!ClearedStats
<1> DEFINE SameStats(s, u, d) ==
             /\ Jobs!CountAborted(s) = CountAborted(s)
             /\ Jobs!CountMet(s, u) = CountMet(s, u)
             /\ Jobs!CountLate(s, d) = CountLate(s, d)
             /\ Jobs!NextRelease(s) = NextRelease(s)
<1>s. \A s, u, d : SameStats(s, u, d)
  BY DEF CountAborted, CountMet, CountLate, NextRelease,
         Jobs!CountAborted, Jobs!CountMet, Jobs!CountLate, Jobs!NextRelease
<1>2. ASSUME Inv, NEW t \in Task, Step(t) \/ Abort(t)
      PROVE  Jobs!Job(t) \/ UNCHANGED stats
  <2>1. CASE EndJob(t)
    <3>1. stats[t].num_releases < MaxReleases[t]
      BY <1>2, <2>1 DEF EndJob, Inv, TaskInv, Uncounted, InSegment
    <3>2. Outcome(t) \subseteq Jobs!Outcomes(t)
      BY <1>s DEF Outcome, Jobs!Outcomes
    <3> QED
      BY <2>1, <3>1, <3>2, <1>s DEF EndJob, Jobs!Job
  <2>2. CASE ~EndJob(t)
    BY <1>2, <2>2
       DEF Step, BeginJob, BeginExtra, BeginSegment, LeaveLoop, LockGranted,
           LockRefused, LockLoopDone, LockedWork, Unlock, ReadFaults,
           UnlockLoopDone, UnlockedWork, EndExtra, Abort
  <2> QED
    BY <2>1, <2>2
<1>3. Inv /\ [Next]_vars => [\E t \in Task : Jobs!Job(t)]_stats
  BY <1>2 DEF Next, vars
<1> QED
  BY <1>1, <1>3, Invariance, PTL DEF Spec, JobsImplemented, Jobs!JobSpec

=============================================================================
