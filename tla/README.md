# TLA+ models of sched_test_app and libchronos

sched_test_app runs a set of periodic real-time tasks on ChronOS Linux and
reports how many deadlines were met, how much utility was accrued and how late
the worst job was. find_slopes prepares it by measuring how fast each workload
runs. libchronos wraps the system calls of the ChronOS kernel, which is not in
this repository.

The project holds a model of each part whose correctness is hard to test, the
TLC runs that check it on small instances, and machine-checked proofs that their
safety properties hold for every value of the constants: those of TestRun,
TaskInstance, JobTiming, Taskset, Startup, Slopes, Salloc and Workloads.

## 1. Inventory

Paths are relative to `src/sched_test_app/src/` unless they begin with
`libchronos/`.

| Component | State | Operations | Hard because |
|---|---|---|---|
| test run: `tester.c`, `task.c`, `tgroup.c` | `static struct test tester` (private to each process after `fork`), task structs and barrier in shared memory, one process per thread group, one thread per task | `run_test`, `run`, `tgroup_create`, `tgroup_join`, `start_task_group`, `start_task` | interleaving of processes and threads, a barrier across processes, a start time published by compare-and-swap, batches that reuse the state, processes that fail or are killed |
| job: `task_instance` in `task.c` | mutex owners (kernel), the abort flag, local variables, statistics of the task | lock, work, unlock, work, classify | requests that are refused, aborts at any point, several locks at once |
| timing of jobs: `task.c`, `workload.c`, `utils.h` | deadlines as timespecs, the CPU clock, iteration counts, the abort flag | `find_job_deadline`, `calculate_releases`, `set_lock_usage`, `timespec_subtract_us`, `do_work_slope`, `do_work_timer`, the sleep to the next release | carries, borrows and truncations, unsigned differences, an abort between any two pieces of work |
| shared memory allocator: `salloc.c` | heap blocks with headers, ring of all blocks, ring of free blocks | `salloc`, `sfree`, growth by a new mapping | pointer surgery over long call sequences, unsigned sizes |
| taskset file: `init_tasks` in `tester.c`, `task_init.c` | list of tasks, locks, domain masks, locking option | a `L`, `T`, `G` or bad line, end of file, cleanup | lines in any order and number, limits |
| slope files: `slope.c`, `slope/slope.c`, `slope/main.c` | text files in /usr/local/chronos/slope; processes with invalidator threads | `check_slopes`, `update_slopes`, `calc_slope_average`, `start_invalidators`, `stop_invalidators`, `get_workload_slope` | overlapping and killed invocations, reused flags, threads that never sleep |
| command line and main process: `main.c`, `run_test` | options, hyper-period | `main`, `validate_options`, lookups, `-z`, the batch | options and file are checked at different times; int arithmetic at its limits |
| aborts: `libchronos/chronos_aborts.c` | an abort page mapped from a device | `init_aborts`, `get_abort_ptr`, HUA handlers | the other side is the kernel |
| wrappers: `libchronos/chronos.c`, `chronos_utils.c` | none | one system call each | |
| atomic integers: `libchronos/atomic_int.h` | a counter | `aint_*` | unused in this repository |
| workloads: `workloads/*.h` | arrays, lists, trees shared by the threads of a group; a private cursor per thread | `init_group`, `init_task`, `do_work`, `cleanup_task`, `cleanup_group` | threads walk and write shared nodes without a lock; a cursor is kept between calls |

How they interact: `main` parses the options (CommandLine) and calls `run_test`
(Startup), whose `init_tasks` reads the taskset file (Taskset) into memory from
`salloc` (Salloc). It then forks one process per group for each run of the
batch (TestRun); the leader builds the group's data (Workloads), each thread
reads its slope (Slopes), waits at the barrier and executes its jobs
(TaskInstance for their locks, JobTiming for their time), whose outcomes
(TaskStats) main adds up and prints.

What makes each part correct:

* test run: nobody starts before everybody is ready; deadlines are computed
  from one start time that does not move; workload data lives as long as its
  users; a report covers every job of every task; a failed run neither starts
  nor is reported; a batch ends.
* job: only own locks are released, all of them; threads wait in a circle only
  where the taskset lists locks in conflicting orders; every job is counted
  once, in the class its end and its abort give it.
* timing: a deadline is the start time plus a whole number of periods, whatever
  carries; a job that ended by then is met and no other; a job does the work of
  its usage, looks at the abort flag as often as promised and is not released
  early; all releases happen.
* allocator: both rings describe the heap exactly, free neighbours are merged,
  regions do not overlap and nobody but their owner writes to them. The code
  keeps this up until a request fits a free block exactly (section 5).
* taskset: one leader per group, known to all its tasks; the masks of the tasks
  and nothing else; locking only with locks; the group's size at its leader.
* main process: nothing runs that the messages of `validate_options` exclude;
  `-z` prints the least common multiple of the periods.
* workloads: a cursor never leaves the shared data; a search stays on its path
  while others write; a pass over an array touches its whole working set;
  cleanup frees every node once.
* slopes: measurements are made under full load, on live data; a file is empty
  or complete unless it is being written, or emptied by one who will write it,
  or its writer was killed; a lookup interpolates neighbours; an invocation
  ends.

## 2. Modules

| Module | Models | Composed from |
|---|---|---|
| `TaskStats` | the statistics of a task struct and the three ways a job changes them | |
| `TestRun` | one process tree, from `run_test` to the report | `TaskStats` |
| `TestRunProofs` | theorems about the test run | `TestRun`, `CommonLemmas` |
| `TaskInstance` | the job step of `TestRun`, opened up | `TaskStats`, `JobStats` |
| `JobStats` | what a job promises: exactly one outcome per release | `TaskStats` |
| `TaskInstanceProofs` | theorems about the locks of a job, and that it implements `JobStats` | `TaskInstance`, `CommonLemmas` |
| `JobTiming` | the same job in time: deadlines, pieces of work, sleep | |
| `JobTimingProofs` | theorems about deadlines and iterations | `JobTiming`, `CommonLemmas` |
| `Salloc` | the allocator at the level of words and pointers | `Allocator` |
| `Allocator` | what it promises: disjoint regions | |
| `SallocProofs` | theorems about the heap, and that it implements `Allocator` | `Salloc`, `CommonLemmas` |
| `Taskset` | reading a taskset file line by line | |
| `CommandLine` | options and their validation, as operators | |
| `Startup` | the main process from its command line to its end | `Taskset`, `CommandLine` |
| `StartupProofs` | theorems about the file and the main process | `Startup`, `CommonLemmas` |
| `LinkedList`, `SearchTree`, `ArrayWalk` | the data structures of the workloads, as operators | |
| `Workloads` | a group's data from `init_group` to `cleanup_group`, with its threads | those three |
| `WorkloadsProofs` | theorems about the shared data and the threads on it | `Workloads`, `CommonLemmas` |
| `Slopes` | find_slopes processes, their threads and the slope files | |
| `SlopesProofs` | theorems about find_slopes and the lookup | `Slopes`, `CommonLemmas` |
| `CommonLemmas` | what those proofs share: facts about quotients, least elements, induction, recursive walks and the statistics of a task | `TaskStats` |
| `MC_*` | constants of the instances | one of the above |

### TestRun

The main process is `mpc` with the loop index `i`; each group process is an
entry of `proc`, named by its leader; each thread is an entry of `pc`. `arrived`
is the barrier; `global_start_time[p]` is the private copy of the pointer in
process p and holds the task whose `local_start_time` it points at. One action
stands for one turn of a loop of `run()`, one call of `start_task_group` or
`start_task` that other threads can observe, or the whole of a job
(`JobAborted`, `JobMet`, `JobLate`). `max_releases` is the code's division.
`Faults` switches on `fatal_error` and signals: a thread that fails to
initialise (`TaskFatal`), a leader whose pthread_join fails (`JoinFatal`), main
when tgroup_join reports an error (`MainFatal`). A job whose CPU clock cannot be
read is left out. `Hung` is the state in which main waits for a process whose
threads wait at a barrier that will never open, because another process is gone.

### TaskInstance

`task_instance` from the beginning of the segment to its statistics: a request
is granted or refused, work is done under the locks, the unlock loop runs from
`last` down, the abort flag may rise at any point in the segment. The lists of
locks are those of any member of `LockLists`: a taskset may list two locks in
opposite orders, as `Task Sets/10t_5l` and `10t_10l` do, and nothing in the code
prevents it. Each task is in a thread group of its own.

An uninitialised `last` is a choice among `Garbage`. For a task without a list
my_locks is null, and an unlock loop that starts at 0 or above ends the process
(`ReadFaults`, "faulted"); beyond a list there is whatever memory holds, which
ends the process or gives the kernel no mutex of the task's. Deadlock is what
the code does with conflicting lists, so properties speak of when it happens:
`DeadlockNeedsConflict` says that only conflicting lists can make a circle, and
`JobsFinish` that without such a circle all jobs end. That the kernel can
prevent deadlocks (option -d) is external. The refinement
`JobsImplemented` says that, seen through the statistics alone, every job is
one step of `JobStats`: the outcome is unique, and what is computed from the
flag and the deadline is counted exactly once.

### JobTiming

The jobs of one task, with a wall clock in nanoseconds and a CPU clock. A
second is `MILLION` microseconds of `THOUSAND` nanoseconds, both small, so that
every carry and borrow happens within a few jobs; integers are unsigned with
`ULongSize` and `UIntSize` values. One action is one look at the head of a
loop of `do_work_slope` or `do_work_timer`, one call of the workload's
`do_work`, or the beginning or end of a job; `Abort` may come between any two.
The floating-point factor `UNDERESTIMATE_BY` only decides between equal
fractions. What a piece costs is any of `ChunkCosts`, in parts of a microsecond
(`Scale` to one), so that pieces also cost less than one. A job lasts any of
`Durations`, independently of its CPU time.

### Salloc

Addresses are words; a header takes two, the free list pointers of a free block
the next two. `usable_size` wraps at `WordSize` like the unsigned subtraction.
`TryOnce` is `_salloc` on the heap it finds: NULL, or the first fit with its
split and removal (`HandOut`). `SallocCall` is a call of `salloc` that finds a
block; `SallocGrows` and `SallocGrowsInVain` are the two calls of
`increase_heap_size`: with an empty free list the new block is tried, otherwise
`coalesce` follows the `prev` pointer that was never set. `SallocNull` is a call
whose new mapping fails. `SfreeCall` is the backward search, insertion and
coalescing.

An exact fit is carried out as the code does it: a block of size zero whose
header is that of the next block, and whose list pointers are in the region
behind. `exact` records it, and calls go on afterwards on what it left. Of the
client it is assumed that it does not overwrite these pointers. `fault` says
what undefined behaviour a call has met, after which there are no more:

| `fault` | met by | when |
|---|---|---|
| `null_pointer` | `SallocGrowsInVain`, `SfreeFaults` | grown, or after an exact fit |
| `stale_pointer`, `endless_search` | `SfreeFaults` | grown, or after an exact fit |
| `past_end` | `HandOut`: the new header is behind the heap | an exact fit |
| `held_twice` | `HandOut`: a region is handed out that is held | after an exact fit |
| `free_over_held` | any call: a free block has words the client holds | after an exact fit |

The properties say what holds until the first exact fit (`~exact`), or until
growth where that spoils them too; `HeldUntouched`, which makes no exception, is
violated. `Allocator` is the client's view, a set of disjoint regions, which
promises nothing once `corrupted` (here `exact`); `RegionsDisjoint` is the
refinement.

### Taskset, CommandLine, Startup

Taskset has one action per kind of line, with the effect on the list of tasks,
the domain masks, the locks and the locking option; `Fatal` wherever the code
gives up. CommandLine says what `main` makes of a command line and what
`validate_options` accepts. Startup puts them in the order of `main` and
`run_test`, with every early return; one `run()` is one step here. `AsInt` is
int arithmetic that wraps where C leaves it undefined. `hyper_period` is what
`-z` prints before it is divided into seconds; a least common multiple above
`LongMax` leaves it unknown (`NoHyperPeriod`), since the product overflows.

### Workloads

The leader inserts node after node (`InsertNode`) or allocates its array;
threads copy the group's record (`init_task`) and each iteration of `do_work`
is a step, so that two threads interleave on the shared nodes. That nobody
works before `init_group` or after `cleanup_group` is what TestRun proves
(`GroupDataLive`), and a guard here. The list's values count up while threads
walk it, the tree's `value` does not: its order is what `SearchOnPath` needs.
The list's order is no property: code and comments disagree about it (section
5), and no walk depends on it. `AllocatedElements` is how many elements malloc
is asked for, in bytes that wrap. `WorkloadsAssumption` leaves out the sizes
that wrap: they come from a group without a size, for which no thread finds a
slope, so that workload_init_task gives up (workload.c:77-91) before any walk.

### Slopes

An element of `Gen` is one invocation of find_slopes, started with any options
at any time and possibly killed anywhere, with nothing of its memory left. A
file is a sequence of (size, slope) lines. `check_slopes` looks whether the file
exists (`FileMissing`) and later creates it (`CreateFile`), by an fopen that
empties one that another invocation has made and begun to write in between; such
an invocation is `Pending` until it rewrites the file. The invalidators'
`started` and `done` flags, and the processor each occupies, are modelled
because a thread at the highest FIFO priority that never sleeps keeps everybody
else off its processor. A test's lookup is the operator `get_workload_slope` on
a file, and `LookupBracketed` quantifies over all sizes a test may ask for.

## 3. Runs

| Run | Shows |
|---|---|
| `testrun` | everything TestRun promises, over two runs of a batch whose processes may fail or be killed |
| `testrun_start_times` (violation) | groups do not share a start time, although task.c:220 says so |
| `testrun_signal` (violation) | a killed group is reported as if it had succeeded |
| `task_instance` | locks and statistics of jobs, refinement, what circular waits need, termination without them |
| `task_no_locks` (violation) | a task without locks reads its null list of locks and dies |
| `job_timing` | deadlines, classification, iterations and termination of jobs, for both timing methods |
| `timer_abort` (violation) | do_work_timer does all the rest of an aborted job in one piece |
| `salloc` | allocator invariants and refinement, with a heap that grows and requests that fit exactly |
| `salloc_exact_fit` (violation) | a request that fits exactly writes to a region that is held |
| `startup` | every command line of the instance with every file of up to three tasks |
| `workloads` | lists, trees and arrays under two threads |
| `slopes` | overlapping and killed invocations of find_slopes |

Deadlock is checked in all runs but two: in `testrun_signal` main may exit
without waiting for the survivors of a killed group, and in `task_instance`
threads with conflicting lists really stop, as `JobsFinish` says. States in
which the code ends are named in the models (`Hung`, `Terminated`, `Finished`,
`Exited`, `Ended`).

### Bounds

* `testrun`: three tasks in two processes are the least with a leader that has
  another thread, a leader without one and a thread that is not a leader. Two
  runs of the batch show state left over from the first. Two releases, one, and
  an extra one distinguish the loops; `MaxClock` = 1 lets two start times
  differ; `MaxLateness` = 1 lets a job be late.
* `task_instance`: three tasks and four mutexes under four tasksets: lists in a
  common order, two lists in opposite orders, a circle of three, and a task
  without a list. Mutex 3 may be refused: as the second request of a list, and
  as the first and only one, which leaves `last` unset. `MaxGarbage` = 0 gives
  the two kinds of garbage, a negative one and one that enters the loop.
* `job_timing`: with four microseconds in a second, two or three counted jobs
  cross a second at every offset of the start time, jobs end before, at and one
  nanosecond after their deadlines, and the run time in microseconds is above
  half of `UIntSize`, where a signed product overflows. Three slopes give whole
  iterations, truncated ones and none per microsecond; pieces cost two thirds of
  a microsecond, one and two; `Scale` = 81 makes the running average of
  do_work_timer exact for four pieces.
* `salloc`: 24 words hold up to six blocks, and one growth doubles them;
  requests of 1, 3 and 6 words make tight, loose and exact fits, 19 leaves too
  little of a new heap for another block, and no block is big enough for 23, so
  that the heap grows and the second mapping fails. Five allocations fill the
  heap and fragment it, and leave calls to make after an exact fit.
* `salloc_exact_fit`: 16 words with requests of 4 and 6 are two regions side by
  side, of which the first is freed and asked for again.
* `startup`: two processors and three tasks are enough for two masks, a missing
  third, a leader that is not the previous task, and a hyper-period that is
  none of the periods. `IntMax` = 11999 is the least that leaves the legal
  usages, which go up to 10000, far enough from the overflow. `LongMax` = 239 is
  one less than the least common multiple of all three periods, so that the
  hyper-period overflows with three different ones and with no fewer.
* `workloads`: two threads; lists and trees of up to four nodes with three
  values have every shape, with equal values; arrays end on a cache line,
  inside one and one element behind one.
* `slopes`: two invocations, a workload with two samples and one without sizes,
  two measured runs per sample and two invalidators on four processors: every
  flag is reused, processors are contended and files are interleaved.

### Fairness

TestRun: weak fairness of main, of each leader around its jobs and of each
thread: jobs are finite and the kernel runs every ready thread eventually.
`RunCompletes` excepts only `Hung`. JobTiming: weak fairness of the thread's own
steps, not of the abort. TaskInstance: weak fairness of each task, not of the
abort; mutexes are finally released by their owners. Slopes: the machine does
not stop while some thread can run (one weak fairness condition); nobody must
start or kill an invocation.

## 4. Proofs

Each safety property is proved along the same lines: an inductive invariant
`Inv`, which TLC checked on the component's run before it was proved; one lemma
for every part of it that a step can disturb, with one case per action; the
theorem `Invariance`; and a theorem for each property, which follows from `Inv`.
The theorems hold for every value of the constants that the modules' named
assumptions allow. Four theorems have a hypothesis besides, which says of the
machine or of the taskset what the code relies on and does not check; it is
stated with the theorem and discussed below.

### TestRun

`TestRunProofs` proves, for any number of tasks, any grouping, any number of
jobs and runs and any faults, the invariants and the action property that the
runs of TestRun check. None of them is inductive alone: BarrierSafe, for
instance, needs to know that the number of arrived threads is the number of
threads at "waiting", and that no thread of the last run is left. The
inductive invariant `Inv` is the conjunction of

* `TypeOK`;
* `ThreadsInLive`: a thread exists only in a live process, and the other way
  round for its leader;
* `LoopsOfRun`: what the position of main in `run()` says about the processes;
* `BarrierCounts` and `BarrierSafe`: `arrived` is the set of waiting threads;
  after the barrier opened nobody is before it;
* `DataAllocated`: where a thread is says what is allocated;
* `StartTimeSet`: after its swap a thread's process has a start time that one
  of its own threads has read in this run;
* `JobsCounted`: how many releases each thread has counted at each point;
* `OutcomesCounted` and `ReportSound`: deadlines met and jobs aborted add up to
  no more than the releases, in the statistics and in the totals.

Each part has a lemma that shows that a step keeps it, with one case per action
that can disturb it; `InvStep` puts them together and the theorems follow from
`Invariance`. The counting argument of the barrier (`AllButOne`: a set of
waiting threads that lacks one of NumTasks is everything else) uses the
library's facts about cardinality. TLC checked `Inv` as an invariant before it
was proved.

No theorem assumes that processes stay alive: `ReportsComplete` says of a killed
process only that it is gone, and that its tasks are reported all the same is
what `testrun_signal` shows. The assumptions are those named in TestRun: leaders
lead themselves, periods are positive, bounds are natural numbers.
`MaxLateness` is a parameter that may be any natural number.

### TaskInstance

For any lists of locks, and any requests that the kernel may refuse.
`NoLockLeak` and `UnlocksOnlyOwn` say little about the loops in between. What is
inductive is that the mutexes a thread owns are a prefix of its list: up to
`lock_num` while it locks (`PrefixTaken`), up to `last` while it works and
`lock_num + 1` while it unlocks (`PrefixLeft`). So the mutex a thread waits for
comes in its list after each one that it holds (`WaitsAlongLists`), and a circle
of threads is a circle of locks in their lists: `CirclesAreListed`, from which
`AscendingListsAreSafe` follows, with the hypothesis that all lists ascend by
some rank of the locks. `UnlocksOnlyOwn` speaks of tasks that list a lock and
whose first request is never refused (`FirstIsGranted`); `task_no_locks` shows a
run without it. `ImplementsJobs` is the refinement `JobsImplemented`, step by
step: an outcome counts as a step of JobStats, everything else as a stutter.

### JobTiming

For any units of time: the runs take a second of eight nanoseconds, the proofs
any product. `SlopeProgress` says how many iterations each point of
do_work_slope has behind it, `TimerProgress` what do_work_timer knows of its
pieces, `DeadlineOnGrid` that the current deadline is `start` plus a number of
periods. `PieceBounded` holds for every clock and every cost of a piece: the
bound is the iterations of one look, and with timer timing those that take one
look and one tick of the clock at the rate measured so far. With a clock coarser
than the time of a whole job that is the whole job, which is what the code does.
The theorems on deadlines, `MetInTime` and `NoEarlyRelease`, have the hypothesis
`DeadlinesFit`: the product in find_job_deadline is within an unsigned long.
With 32 bits for an int and 64 for a long it always is, and so it is in the
instance of `job_timing`; with a long of 32 bits it is for four seconds.

### Taskset and Startup

For any number of processors, any file of any length and any command line.
`FileInv` adds to the properties that masks are entered from the front and once
(`MasksInOrder`, `MasksDistinct`), that each task's mask is entered and each
entry is some task's (`MasksEntered`, `MasksNeeded`). `AppInv` adds what
the main process knows of its options at each point. Once the tasks are released
the masks refer to nothing, which is why `MasksNeeded` has a case for it.

`HyperPeriod` proves `HyperPeriodLeast` for any number of tasks. `gcd` and
`taskset_lcm` are recursive functions: that there are such functions
(`GcdTableExists`, `LcmListExists`) and what they compute (`GcdTableRight`,
`LcmListRight`) is shown by induction, the first on the smaller number, the
second from the last task down. What is inductive for `gcd` is `IsGcd`: the
result divides both numbers and is u * a + v * b for some integers u and v. For
`taskset_lcm` it is `JoinsPeriods`: its multiples are the common multiples of
the periods so far; `JoinRight` derives this for one more period from `IsGcd`.
The hypothesis is `OrdinaryPeriods`: the periods in the file are positive, since
gcd divides by them, and within an int, since it keeps them in one; the code
checks neither.

### Slopes

For any number of invocations, workloads, samples and invalidators, with deaths
anywhere. `RoundInOrder` says which invalidators exist, are loading, or were
told to stop, at each point of a round; `RoundInData` that rounds are made only
while the workload data lives; `FileKept` who has brought each file how far,
including those that have found a file missing and will empty it.
`LookupsBracketed` is about `get_workload_slope` alone and holds for any
sequence of samples, also one that two invocations have written into.

### Salloc

For a heap of any size that may grow any number of times, any requests and any
number of calls, up to the first request that fits a free block exactly: `Inv`
says nothing of the heap after it (`exact`) but that only then, or after growth,
there are faults. The properties speak of walks along pointers; an inductive
argument about them would have to follow every walk through every pointer
assignment. The invariant speaks of sets instead: before an exact fit there is a
set B of blocks (the only existential in it) such that

* `Tiles`: the blocks of B cover the heap from its first word to its last, each
  at least as long as a header and the smallest region;
* `Even`: sizes are even, which is what makes a remainder behind a region either
  empty or long enough for `_usable_size` not to wrap;
* `PrevRight`, `Fresh`: prev leads to the block before or is null, with the
  exception of the first block; what has not been mapped yet is zero;
* `Rings`: on the free blocks of B, next_free and prev_free are inverse;
* until the heap has grown, `Exact`: prev and next are inverse, no part of the
  free list is closed in itself (`OneRing`), no two free blocks are neighbours;
* `InBlocks`: each region lies in an allocated block of its own.

A call replaces B by a set that differs in at most two blocks: `TakeWhole`,
`TakeHalf`, `Merge`, `AddFree`, `AddAlone` and `Grow` show this for the pointer
operations, `Take`, `Coalesce` and `Free` for the calls. That the walks reach
all of B, or all free blocks, is shown once: `BlocksAre` for the sizes,
`SearchVisitsAll` for the free list and `SearchFacts`, `SearchSafe`,
`NoOtherFree` for the search of sfree. A search on a ring ends because a walk
longer than the number of blocks repeats itself (`WalkRepeats`), and with
pointers that have an inverse, what it repeats is its start (`FirstRepeat`).
`Untouched` says which words a call may write; `RegionsUntouched` follows, since
a region's block is allocated before and after. `Implementation` is the
refinement of Allocator, whose steps are free once `corrupted` holds.

The conjunct `Exact` is lost when the heap grows, and section 5 says why; the
other parts, and with them the client's view, are lost only by an exact fit.

### Workloads

For any numbers of threads, nodes and iterations, any values and any array that
`WorkloadsAssumption` allows: longer than one stride, twice its length below
`ULongSize`, which is where the sums of the walks would wrap around, and its
bytes with those of a stride below it, which is where malloc would get a small
number (`ArrayFits`). `Built`, `SearchOnPath` and `AllFreed` speak of lists and
trees as wholes, which are reached by following pointers. The invariant speaks
of sets and functions instead:

* `Stages`, `Allocated`: whether threads exist, and which blocks are allocated,
  at each stage of the leader;
* `Cursors`: the copies of a working thread point at the head of the list or
  tree and at one of its nodes, or into the array;
* `Listed`: a function p from 0 .. m leads from the head through all nodes of
  the list, each once, to NULL (`IsList`). insert_node puts a node between two
  of them (`ListGrows`), cleanup_group takes the first away;
* `Planted`: the tree is a relation of children in which every node but the
  first has one parent, which was inserted before it (`IsTree`). The subtree of
  a node is the least set that holds it and is closed under children
  (`SubtreeClosed`). `InOrder` says of each node that its left subtree is
  below it and its right one not; _insert_bst_node descends to where the new
  value `Fits`. While cleanup_group frees, what is left contains the
  parent of each of its nodes (`IsLive`);
* `SearchOnPath`, for which the order of the tree decides which subtree is left
  out.

`Covers` is about ArrayWalk alone: `Ahead` and `Behind` are the k-th element of
a pass in closed form, and for each full line there is a k that meets it.

### Induction

The provers cannot instantiate theorems that take an operator. CommonLemmas
states induction about a set of naturals instead of a predicate (`SetInduction`,
`LeastElement`), which they can; and `Iteration` shows from it that a walk
defined by recursion, `walk[k] = then[walk[k - 1]]`, exists and is that function
(`WalksIn`), as long as it stays in a set. That is how the walks of Salloc, and
the lists, searches and passes of Workloads, are proved about. The tables of gcd
and taskset_lcm, whose recursion is of another form, have lemmas of their own.

### Only model-checked

* Liveness: `RunCompletes`, `JobsFinish`, `JobsEnd`, `EveryRunEnds`.
* That a fault is possible at all in a grown heap or after an exact fit, and
  what is lost then, is nothing the proofs say; the runs `salloc` and
  `salloc_exact_fit` reach those states.
* That deadlocks of conflicting lists do happen: the run `task_instance` reaches
  them.

## 5. What the code does differently from its documents

The five violation runs are listed as findings in PROJECT.json. Other
observations made while modelling, without a run:

* README 3.3.2 and the usage text (main.c:51) say worst-case timing is the
  default; main.c:304 sets TIMING_TIMER.
* find_slopes never writes the slopes that worst-case timing reads:
  slope/slope.c:388 announces both kinds, slope/slope.c:408 and 448 handle
  TIMING_AVERAGE only and calc_slope_wcet is never called. A test with `-t wcet`
  ends with fatal_error (workload.c:87-93).
* No sample is taken at the largest working set size of a workload
  (slope/slope.c:439-444), and a lookup beyond the last sample fails
  (slope.c:145). The taskset reader clamps sizes to that largest size
  (task_init.c:288), so such a test ends with fatal_error.
* An exact fit makes `split_size` 0, and the unsigned subtraction in
  `_usable_size` wraps (salloc.c:275), so a block that should not be split
  (salloc.c:272-273) is split into one of size zero on the header of the next
  block, which loses its size and goes to the free list with its region still
  held (`salloc_exact_fit`). A later salloc may hand that region out again, or a
  later sfree read a `prev` that coalescing made null. `salloc` adds `n % 16` to
  a request (salloc.c:303-312), which does not make it a multiple of 16.
* increase_heap_size never sets `prev` of the block it adds (salloc.c:182-192);
  `salloc` when no block is big enough, and later `sfree` calls, follow it.
* The comment "There are no other free segments" (salloc.c:349) is wrong in a
  heap that has grown. The search of `sfree` goes backwards over `prev`
  pointers, of which the one in the first block still leads to the block that
  was the last before growth: it may return to where it began without having
  seen the free blocks behind, and the assignment of `free_list` loses them.
  It may also read a `prev` that leads to a block that has been merged away, or
  run in a circle that does not contain the freed block. Allocated regions stay
  disjoint and untouched all the same, unless a request fits exactly
  (`RegionsDisjoint`, `RegionsUntouched`).
* LOCKING is 1 and NESTED_LOCKING is 3 (tester_types.h:52-56): the branch for
  sequential locking in task_instance is never taken.
* README 3.4 says that a group without a G line has a working set of 128k; the
  code leaves it at -1 (tester_types.h:167, task_init.c), which the array
  workloads turn into a huge number of elements and a wrapped malloc
  (array_walk.h:47-50). No thread walks it: there is no slope for such a size,
  and the test ends in workload_init_task.
* A task in a taskset with locks that lists none has a null my_locks; whether
  its unlock loop reads it depends on an uninitialised `last` (`task_no_locks`).
* Tasks that list locks in opposite orders deadlock, also in tasksets of this
  repository (`Task Sets/10t_5l`, `10t_10l`). README 3.1 (lines 70-72) knows of
  deadlocks and names the schedulers and the option that prevent them, so this
  is no disagreement.
* find_slopes creates a missing file by fopen with "w+" some time after access()
  did not find it (slope.c:64-74), and so empties what another invocation has
  written meanwhile. It rewrites the file itself, but a test that reads it
  before finds no slope or a part of them.
* `if (!last)` in do_work_timer (workload.c:257) is never true, since `last` has
  just been set: the first estimate of a piece is averaged with 0.
* A slope below one iteration per microsecond makes `iters_per_abort_check` 0,
  and do_work_slope runs until it is aborted (`Spinning` in `JobsEnd`).
* print_results with -v reads `global_start_time` in main (tester.c:285), where
  it is NULL: only the group processes set their copies.
* validate_options checks `cpu_usage` against 10000 but not `end_usage`, and
  accepts a negative interval (main.c:105-120); `-z` returns without any cleanup
  (tester.c:458-463); a search for an unknown scheduler reads behind its table
  (sched_algorithms.h:57).
* insert_node keeps the list in descending order; linked_list.h:41-42, the
  comments in it (61, 64, 71-72) and README 3.3.1 say increasing.
* array_walk_cleanup_group frees `array_unaligned` and not `array`, of the two
  blocks init_group allocates (array_walk.h:48-50, 78); workload_type.h:84-87
  asks of cleanup_group to "free any memory malloc-ed there". `AllFreed`
  therefore speaks of the other blocks only. `malloc_align` is unused.
* A killed find_slopes leaves a part of a file, which the next invocation
  without -f takes for calculated.
* atomic_int.h builds subtraction, multiplication and division on AINT_ADD.

## 6. Not modelled

* The kernel, and with it the system call wrappers of libchronos and the user
  side of the abort device: they are one call each and hold no state. What the
  kernel may answer appears in TaskInstance and JobTiming. Its prevention of
  deadlocks (option -d) is not in this repository.
* A CPU clock that cannot be read within a job (fatal_error).
* What a client of the allocator writes over the pointers that an exact fit has
  put into its region.
* `atomic_int.h`, which no file includes.
* `calc_lock_time` and the lock overhead figures; processor affinity and
  priorities, except where Slopes depends on them; options that choose an output
  format or a kernel flag; the text of files and reports.
* The worst-case measurement with the cache polluter, which is never called.
* The cost of an iteration: JobTiming lets a piece take any of `ChunkCosts`.

## 7. What could follow

The models are complete but for what section 6 lists, and every safety property
a run checks is proved. What could be added:

1. Taskset: that the list of tasks is the list of T lines, as a refinement.
2. CommandLine: the options that choose an output format, if they ever come to
   depend on one another.
