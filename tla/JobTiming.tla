----------------------------- MODULE JobTiming -----------------------------
(***************************************************************************)
(* One task's jobs in time: the deadlines of find_job_deadline(), the      *)
(* classification and the sleep at the end of task_instance(), and the two *)
(* ways workload_do_work() fills a given number of microseconds with       *)
(* iterations of the workload while the scheduler may raise the abort      *)
(* flag: do_work_slope (average and worst-case timing) and do_work_timer.  *)
(*                                                                         *)
(* Wall-clock time is in nanoseconds.  Seconds and microseconds are short: *)
(* THOUSAND nanoseconds, MILLION microseconds, both small numbers, so that *)
(* the carries and borrows between tv_sec and tv_nsec happen.  The thread  *)
(* CPU clock is in ticks of 1/Scale microseconds, as short as one likes.   *)
(* The floating-point numbers of the code are fractions here;              *)
(* UNDERESTIMATE_BY is smaller than all of them and only decides between   *)
(* equal ones.                                                             *)
(***************************************************************************)
EXTENDS Integers

CONSTANTS
    THOUSAND, MILLION,
    Scale,          \* ticks of the CPU clock in a microsecond
    clock_res,      \* get_thread_cputime_res(), in ticks
    ULongSize,      \* number of values of an unsigned long
    UIntSize,       \* number of values of an unsigned int
    run_time,       \* options->run_time, in seconds
    Periods,        \* what task->period may be, in microseconds
    exec_time,      \* task->exec_time, in microseconds
    Options,        \* what the command line may ask for
    Slopes,         \* cached_slope, iterations per microsecond: <<num, den>>
    Starts,         \* the start time, in nanoseconds
    ChunkCosts,     \* CPU time of the iterations between two checks, in ticks
    Durations,      \* time from release to end_time of a job, in ns
    Oversleeps      \* how much longer usleep() may take, in ns

BILLION == THOUSAND * MILLION

ASSUME UnitsAssumption ==
    /\ THOUSAND \in Nat \ {0} /\ MILLION \in Nat \ {0}
    /\ Scale \in Nat \ {0} /\ clock_res \in Nat
    /\ ULongSize \in Nat \ {0} /\ UIntSize \in Nat \ {0}
ASSUME TaskAssumption ==
    /\ run_time \in Nat /\ Periods \subseteq Nat \ {0} /\ exec_time \in Nat
    /\ Options \subseteq [timing : {"slope", "timer"}, locking : BOOLEAN,
                          cpu_usage : Nat, cs_length : 0 .. 100]
    /\ Slopes \subseteq (Nat \ {0}) \X (Nat \ {0})
ASSUME TimesAssumption ==
    /\ Starts \subseteq Nat /\ ChunkCosts \subseteq Nat \ {0}
    /\ Durations \subseteq Nat /\ Oversleeps \subseteq Nat

VARIABLES
    options,
    period,         \* task->period
    slope,          \* task->cached_slope
    start,          \* *global_start_time, in ns
    wall,           \* CLOCK_REALTIME, in ns
    num_releases,   \* task->num_releases
    pc,
    phase,          \* which call of workload_do_work: "locked", "unlocked"
    usage,          \* its argument
    work,           \* local variables of do_work_slope and do_work_timer
    aborted,        \* the results of workload_do_work of this job, or-ed
    abort_flag,     \* *t->abort_pointer
    deadline,       \* the deadline of the job, a struct timespec
    result          \* how the last counted job ended, and when

call == <<phase, usage, work>>
job == <<num_releases, deadline, result>>
given == <<options, period, slope, start>>
vars == <<given, wall, job, pc, call, aborted, abort_flag>>

-----------------------------------------------------------------------------
(* The figures the jobs are run with.                                      *)

\* Variant: the number of releases is rounded up.
ReleasesRoundedUp == (((run_time * MILLION) % UIntSize) + period - 1) \div period

\* calculate_releases: the product is an unsigned int.
runtime == (run_time * MILLION) % UIntSize
max_releases == runtime \div period
extra_release == runtime % period # 0

\* set_lock_usage: both are truncated to whole microseconds.
locked_usage == (exec_time * options.cpu_usage * options.cs_length) \div 10000
unlocked_usage ==
    (exec_time * options.cpu_usage * (100 - options.cs_length)) \div 10000

\* Variant: two looks at the abort flag per microsecond.
TwoChecksPerUs == slope[1] \div (2 * slope[2])

\* The iterations that take one microsecond, truncated (ABORT_CHECK_US is 1).
iters_per_abort_check == slope[1] \div slope[2]

\* do_work_slope: "this operation is truncated, not rounded"
iterations == (usage * slope[1]) \div slope[2]

\* find_job_deadline; the multiplication is one of unsigned longs.
DeadlineAt(offset) ==
    LET nsec == (start % BILLION) + ((offset * THOUSAND) % ULongSize)
    IN  [tv_sec |-> (start \div BILLION) + nsec \div BILLION,
         tv_nsec |-> nsec % BILLION]

\* Variant: the difference of the nanoseconds is taken without a borrow and
\* truncated towards zero, as a C division does.
SubtractTruncating(x, y) ==
    LET nsec == x.tv_nsec - y.tv_nsec
        us == IF nsec < 0 THEN -((-nsec) \div THOUSAND) ELSE nsec \div THOUSAND
    IN  (x.tv_sec - y.tv_sec) * MILLION + us

\* timespec_subtract_us: x - y
timespec_subtract_us(x, y) ==
    LET nsec == x.tv_nsec - y.tv_nsec
        sec == x.tv_sec - y.tv_sec
    IN  IF nsec < 0
        THEN (sec - 1) * MILLION + (nsec + BILLION) \div THOUSAND
        ELSE sec * MILLION + nsec \div THOUSAND

\* clock_gettime
Timespec(ns) == [tv_sec |-> ns \div BILLION, tv_nsec |-> ns % BILLION]

-----------------------------------------------------------------------------

\* The variables of a call of workload_do_work: iterations done, the piece
\* being done, the iterations done with the abort flag up, CPU time used, and
\* the estimated CPU time of a piece.
FreshWork == [i |-> 0, piece |-> 0, late |-> 0, cpu |-> 0, diff |-> 0]

Init ==
    /\ options \in Options
    /\ period \in Periods
    /\ slope \in Slopes
    /\ start \in Starts
    /\ wall = start
    /\ num_releases = 0
    /\ pc = "loop"
    /\ phase = "unlocked"
    /\ usage = 0
    /\ work = FreshWork
    /\ aborted = FALSE
    /\ abort_flag = FALSE
    /\ deadline = Timespec(start)
    /\ result = [outcome |-> "none", end_time |-> 0]

\* workload_do_work is called with the usage of a part of the job.
Enter(part) ==
    /\ pc' = "look"
    /\ phase' = part
    /\ usage' = IF part = "locked" THEN locked_usage ELSE unlocked_usage
    /\ work' = FreshWork

Counting == num_releases < max_releases

\* task_instance up to its first call of workload_do_work, for a counted job
\* or for the extra one.
BeginJob ==
    /\ pc = "loop"
    /\ Counting \/ extra_release
    /\ deadline' = DeadlineAt((num_releases + 1) * period)
    /\ Enter(IF options.locking THEN "locked" ELSE "unlocked")
    /\ UNCHANGED <<given, wall, num_releases, result, aborted, abort_flag>>

\* start_task leaves the job loop.
LeaveLoop ==
    /\ pc = "loop" /\ ~Counting /\ ~extra_release
    /\ pc' = "done"
    /\ UNCHANGED <<given, wall, job, call, aborted, abort_flag>>

\* The next piece of work, and where it is done.
Do(n, label) ==
    /\ work' = [work EXCEPT !.piece = n]
    /\ pc' = label
    /\ UNCHANGED <<given, wall, job, phase, usage, aborted, abort_flag>>

Goto(label) ==
    /\ pc' = label
    /\ UNCHANGED <<given, wall, job, call, aborted, abort_flag>>

\* Variant: the end of the loop is taken in microseconds.
SlopeGoesOnInUs == ~abort_flag /\ work.i + iters_per_abort_check < usage

\* The head of the loop of do_work_slope.
SlopeGoesOn == ~abort_flag /\ work.i + iters_per_abort_check < iterations

SlopeLook ==
    /\ pc = "look" /\ options.timing = "slope"
    /\ IF SlopeGoesOn THEN Do(iters_per_abort_check, "piece") ELSE Goto("rest")

\* Variant: the rest is counted from the end of the last piece but one.
SlopeRemainderTwice == iterations - work.i + iters_per_abort_check
SlopeRemainder == iterations - work.i

\* The rest of do_work_slope after its loop.
SlopeRest ==
    /\ pc = "rest" /\ options.timing = "slope"
    /\ IF ~abort_flag /\ work.i < iterations
       THEN Do(SlopeRemainder, "last") ELSE Goto("return")

\* The thread CPU time at which do_work_timer wants to end.
end_cpu == usage * Scale

\* The head of the loop of do_work_timer.
TimerGoesOn == ~abort_flag /\ work.cpu + work.diff + clock_res < end_cpu

TimerLook ==
    /\ pc = "look" /\ options.timing = "timer"
    /\ IF TimerGoesOn THEN Do(iters_per_abort_check, "piece") ELSE Goto("rest")

\* What is left of the time in iterations: the greatest integer below the
\* quotient, because of UNDERESTIMATE_BY.
last_iters == ((end_cpu - work.cpu) * iters_per_abort_check - 1) \div work.diff

\* The rest of do_work_timer after its loop.
TimerRest ==
    /\ pc = "rest" /\ options.timing = "timer"
    /\ IF work.diff # 0 /\ last_iters > 0
       THEN Do(last_iters, "last") ELSE Goto("return")

\* The work record after its piece: do_work has returned.
Done == [work EXCEPT !.i = @ + work.piece,
                     !.late = IF abort_flag THEN @ + work.piece ELSE @]

\* A piece of do_work_timer is timed.  `last' is never 0 when it is tested, so
\* the first estimate, too, is an average with the initial 0.
Timed(cost) == [Done EXCEPT !.cpu = @ + cost,
                            !.diff = (@ + 2 * cost) \div 3]

\* do_work() of the workload, in the loop.
Piece ==
    /\ pc = "piece"
    /\ IF options.timing = "slope"
       THEN work' = Done
       ELSE \E cost \in ChunkCosts : work' = Timed(cost)
    /\ pc' = "look"
    /\ UNCHANGED <<given, wall, job, phase, usage, aborted, abort_flag>>

\* do_work() of the workload, after the loop.
LastPiece ==
    /\ pc = "last"
    /\ work' = Done
    /\ pc' = "return"
    /\ UNCHANGED <<given, wall, job, phase, usage, aborted, abort_flag>>

\* workload_do_work returns: *t->abort_pointer != 0
Return ==
    /\ pc = "return"
    /\ aborted' = (aborted \/ abort_flag)
    /\ IF phase = "locked" THEN Enter("unlocked")
                           ELSE pc' = "end" /\ UNCHANGED call
    /\ UNCHANGED <<given, wall, job, abort_flag>>

\* The scheduler aborts the thread in its real-time segment.
Abort ==
    /\ pc \notin {"loop", "done"} /\ ~abort_flag
    /\ abort_flag' = TRUE
    /\ UNCHANGED <<given, wall, job, pc, call, aborted>>

\* The real-time segment ends.
EndSegment ==
    /\ abort_flag' = FALSE /\ aborted' = FALSE
    /\ usage' = 0 /\ work' = FreshWork /\ phase' = "unlocked"
    /\ UNCHANGED given

\* Variant: usleep() is not made for a second and more.
SleptBelowSecond(tardiness) == (tardiness % MILLION) * THOUSAND

\* usleep(tardiness), in ns
Slept(tardiness) == tardiness * THOUSAND

\* usleep() is called for a job that has met its deadline.
Sleeps(tardiness) == ~aborted /\ tardiness > 0

Outcome(tardiness) ==
    IF aborted THEN "aborted" ELSE IF tardiness >= 0 THEN "met" ELSE "late"

\* The end of task_instance for a counted job, and num_releases++.
EndJob ==
    /\ pc = "end" /\ Counting
    /\ \E d \in Durations :
         LET end_time == wall + d
             tardiness == timespec_subtract_us(deadline, Timespec(end_time))
         IN  /\ result' = [outcome |-> Outcome(tardiness), end_time |-> end_time]
             /\ IF Sleeps(tardiness)
                THEN \E o \in Oversleeps :
                       wall' = end_time + Slept(tardiness) + o
                ELSE wall' = end_time
    /\ num_releases' = num_releases + 1
    /\ pc' = "loop"
    /\ EndSegment
    /\ UNCHANGED deadline

\* The end of the job after the last counted one.
EndExtra ==
    /\ pc = "end" /\ ~Counting
    /\ pc' = "done"
    /\ EndSegment
    /\ UNCHANGED <<wall, job>>

-----------------------------------------------------------------------------

Step ==
    \/ BeginJob \/ LeaveLoop
    \/ SlopeLook \/ SlopeRest \/ TimerLook \/ TimerRest
    \/ Piece \/ LastPiece \/ Return \/ EndJob \/ EndExtra

Finished == pc = "done" /\ UNCHANGED vars

Next == Step \/ Abort \/ Finished

Spec == Init /\ [][Next]_vars

\* The thread is scheduled again and again.
FairSpec == Spec /\ WF_vars(Step)

-----------------------------------------------------------------------------
(* Properties.                                                             *)

Time == [tv_sec : Nat, tv_nsec : 0 .. BILLION - 1]

\* The type of every variable; deadlines are normalised.
TypeOK ==
    /\ options \in Options /\ period \in Periods
    /\ slope \in Slopes /\ start \in Starts
    /\ wall \in Nat
    /\ num_releases \in 0 .. max_releases
    /\ pc \in {"loop", "look", "piece", "rest", "last", "return", "end", "done"}
    /\ phase \in {"locked", "unlocked"}
    /\ usage \in Nat
    /\ work \in [i : Nat, piece : Nat, late : Nat, cpu : Nat, diff : Nat]
    /\ aborted \in BOOLEAN /\ abort_flag \in BOOLEAN
    /\ deadline \in Time
    /\ result \in [outcome : {"none", "aborted", "met", "late"}, end_time : Nat]

\* The instant, in ns, at which the deadline of job n (from 1) should be.
Grid(n) == start + n * period * THOUSAND

\* A job that was not aborted is counted as met exactly if it ended no later
\* than its place on the grid of periods that begins at the start time: no
\* carry, borrow or truncation shifts a deadline or lets a late job pass.
MetIffInTime ==
    /\ result.outcome = "met" => result.end_time <= Grid(num_releases)
    /\ result.outcome = "late" => result.end_time > Grid(num_releases)

\* A job begins before its period does only after an aborted job, which does
\* not sleep; but for the less than a microsecond that usleep is short of.
EarlyOnlyAfterAbort ==
    pc = "loop" /\ result.outcome # "aborted" =>
        wall > Grid(num_releases) - THOUSAND

\* With average or worst-case timing a call of workload_do_work that returns
\* without an abort has done the iterations of its usage, no more and no less;
\* an aborted one has not done more.
WorkExact ==
    options.timing = "slope" =>
        /\ work.i <= iterations
        /\ pc = "return" => abort_flag \/ work.i = iterations

\* The piece at hand takes no longer than the estimate and a tick of the clock.
LookAndTick == work.piece * work.diff <= iters_per_abort_check * (work.diff + clock_res)

\* Between two looks at the abort flag do_work runs for the iterations of one
\* look, or with timer timing for those and, at the rate measured so far, the
\* ones of a tick of the clock; except after do_work_timer has seen it raised.
PieceBounded ==
    pc \in {"piece", "last"} =>
        \/ work.piece <= iters_per_abort_check
        \/ /\ options.timing = "timer"
           /\ \/ abort_flag
              \/ LookAndTick

\* A slope below one iteration per microsecond: do_work_slope does pieces of
\* no iterations until it is aborted.
Spinning ==
    /\ options.timing = "slope" /\ pc \in {"look", "piece"}
    /\ slope[1] < slope[2] /\ iterations > 0

\* The counted jobs are those whose deadlines lie in the run time.
ReleasesFit == num_releases = (run_time * MILLION) \div period

\* A task finishes all the jobs that fit into the run time; only a slope that
\* is too small can keep it from that.
JobsEnd == <>((pc = "done" /\ ReleasesFit) \/ Spinning)

\* workload.c:154: "check the abort pointer every this many microseconds"
\* (one): no more than that is done once the flag is up.
AbortPrompt == work.late <= iters_per_abort_check
=============================================================================
