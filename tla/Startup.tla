------------------------------ MODULE Startup ------------------------------
(***************************************************************************)
(* The main process of sched_test_app from its command line to its end:    *)
(* main(), run_test() and the file that init_tasks() reads in between.     *)
(* One run() is one step here; TestRun is about what happens inside.       *)
(***************************************************************************)
EXTENDS Taskset, CommandLine

CONSTANTS
    CommandLines,  \* command lines the program may be started with
    LongMax,       \* LONG_MAX; a smaller one serves as well
    NoHyperPeriod

ASSUME CommandLinesAssumption == CommandLines \subseteq CommandLineRecord
ASSUME LongAssumption == LongMax \in Nat

VARIABLES
    options,       \* but for locking, which is Taskset's
    hyper_period   \* what -z prints in seconds, before the division

appVars == <<vars, options, hyper_period>>
testerVars == <<num_locks, seen_group, domain_masks, tasks>>

NoLine == [letters |-> {}, c |-> 0, e |-> 0, i |-> 0, l |-> 0, r |-> 0]

AppInit ==
    /\ status = "command_line"
    /\ options = OptionsOf(NoLine, "none")
    /\ locking = 0
    /\ hyper_period = NoHyperPeriod
    /\ InitTester

\* main: with less than eight words, or with one that getopt does not know,
\* the usage is printed; fatal_error for an unknown timing method.
ParseCommandLine(line) ==
    /\ status = "command_line"
    /\ \E scheduler \in Schedulers(line) :
         IF line.argc < 8 \/ ~line.understood
         THEN status' = "usage" /\ UNCHANGED <<options, locking>>
         ELSE /\ status' = IF scheduler = "fault" \/ ~TimingKnown(line)
                           THEN "fatal" ELSE "parsed"
              /\ options' = OptionsOf(line, scheduler)
              /\ locking' = Locking(line)
    /\ UNCHANGED <<testerVars, hyper_period>>

ValidateOptions ==
    /\ status = "parsed"
    /\ status' = IF Valid(options, locking) THEN "validated" ELSE "usage"
    /\ options' = FixUp(options)
    /\ UNCHANGED <<testerVars, locking, hyper_period>>

\* mlockall may fail, then the allocation of the barrier.
StartTest ==
    /\ status = "validated"
    /\ status' \in {"reading", "usage", "fatal"}
    /\ UNCHANGED <<testerVars, locking, options, hyper_period>>

ReadTaskset == ReadFile /\ UNCHANGED <<options, hyper_period>>

-----------------------------------------------------------------------------
(* -z                                                                      *)

\* Variant: a smaller number that does not divide the larger one is given up.
GcdOrOne(m, n) == IF m % n = 0 THEN n ELSE IF n % m = 0 THEN m ELSE 1

\* tester.h: gcd calls itself with the smaller number and the remainder.  Its int
\* variables hold the smaller number, which is never above a period.
gcd(m, n) ==
    LET large == IF m < n THEN n ELSE m
        small == IF m < n THEN m ELSE n
        g[b \in 1 .. large] ==
            [a \in 1 .. large |-> IF a % b = 0 THEN b ELSE g[a % b][b]]
    IN  g[small][large]

\* taskset_lcm: the periods are joined one at a time; the array of the tasks
\* begins with the one that was read last.
taskset_lcm ==
    LET lcm[k \in Index] ==
            IF k = Len(tasks) THEN tasks[k].period
            ELSE (lcm[k + 1] \div gcd(lcm[k + 1], tasks[k].period)) * tasks[k].period
    IN  lcm[1]

\* run_test returns here, without any of its cleanup.  The product grows with
\* every task: where its last value is too large for a long, what the earlier
\* ones have come to is not known.
PrintHyperPeriod ==
    /\ status = "ready" /\ options.no_run
    /\ hyper_period' = IF taskset_lcm <= LongMax THEN taskset_lcm ELSE NoHyperPeriod
    /\ status' = "printed"
    /\ UNCHANGED <<testerVars, locking, options>>

-----------------------------------------------------------------------------
(* The runs.                                                               *)

\* calc_lock_time, for the HUA abort handlers, changes nothing but lock_time.
StartRuns ==
    /\ status = "ready" /\ ~options.no_run
    /\ status' = "running"
    /\ UNCHANGED <<testerVars, locking, options, hyper_period>>

\* int arithmetic wraps around where it overflows.
AsInt(n) == ((n + IntMax + 1) % (2 * IntMax + 2)) - IntMax - 1

\* run() comes back or is fatal.
Run ==
    /\ status = "running" /\ options.cpu_usage <= options.end_usage
    /\ \/ /\ options' = [options EXCEPT !.cpu_usage = AsInt(@ + options.interval)]
          /\ UNCHANGED status
       \/ status' = "fatal" /\ UNCHANGED options
    /\ UNCHANGED <<testerVars, locking, hyper_period>>

EndRuns ==
    /\ status = "running" /\ options.cpu_usage > options.end_usage
    /\ ReleaseTasks
    /\ UNCHANGED <<options, hyper_period>>

Exited == status \in {"usage", "fatal", "printed", "cleaned"} /\ UNCHANGED appVars

AppNext ==
    \/ \E line \in CommandLines : ParseCommandLine(line)
    \/ ValidateOptions \/ StartTest \/ ReadTaskset
    \/ PrintHyperPeriod \/ StartRuns \/ Run \/ EndRuns
    \/ Exited

AppSpec == AppInit /\ [][AppNext]_appVars

-----------------------------------------------------------------------------
(* Properties.                                                             *)

\* A test runs with a scheduler, a workload and at least one task, for a time
\* and with usages that the messages of main.c allow; with locking of either
\* kind only if the file has a lock to take and there is a critical section to
\* take it for.  A batch keeps to its usages if its interval is positive and
\* its end is not within one interval of INT_MAX: nothing checks either.
ReadyIsRunnable ==
    status \in {"ready", "running"} =>
        /\ tasks # <<>>
        /\ options.scheduler \in KnownScheduler
        /\ options.workload \in KnownWorkload
        /\ options.run_time \in 1 .. MaxRunTime
        /\ locking # 0 => num_locks > 0 /\ options.cs_length \in 1 .. 100
        /\ options.interval > 0 /\ options.end_usage + options.interval <= IntMax =>
             options.cpu_usage \in 1 .. options.end_usage + options.interval

\* What -z prints, in seconds, is the least common multiple of the periods of
\* all tasks, if a long holds any multiple they have in common.
HyperPeriodLeast ==
    LET common == {n \in 1 .. LongMax : \A k \in Index : n % tasks[k].period = 0}
    IN  status = "printed" /\ common # {} =>
            hyper_period \in common /\ \A n \in common : hyper_period <= n
=============================================================================
