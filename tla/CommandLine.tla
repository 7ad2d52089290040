---------------------------- MODULE CommandLine ----------------------------
(***************************************************************************)
(* The command line of sched_test_app: how main() of main.c turns it into  *)
(* options, and what validate_options() accepts.  A command line is the    *)
(* record of what getopt finds in it: the letters given, the numbers and   *)
(* names that follow them (of two of a letter the last), the number argc   *)
(* of words, and whether getopt understood all of them.  options->locking  *)
(* is apart from the record: reading the file changes it.                  *)
(***************************************************************************)
EXTENDS Integers

CONSTANTS
    IntMax,          \* INT_MAX; a smaller one serves as well
    KnownScheduler, KnownWorkload, KnownTiming  \* names that are looked up

IntMin == -IntMax - 1

\* The bounds of a usage and of a run time, in validate_options.
MaxUsage == 10000
MaxRunTime == 3600

ASSUME IntAssumption == IntMax \in Nat /\ IntMax > MaxUsage

\* The default workload is one of those that can be looked up.
ASSUME DefaultAssumption == "burn_loop" \in KnownWorkload

CommandLineRecord ==
    [letters : SUBSET {"b", "c", "e", "f", "h", "i", "l", "n", "r", "s", "t",
                       "w", "z"},
     c : IntMin .. IntMax, e : IntMin .. IntMax, i : IntMin .. IntMax,
     l : IntMin .. IntMax, r : IntMin .. IntMax,
     s : STRING, t : STRING, w : STRING, argc : Nat, understood : BOOLEAN]

\* Numbers that atoi cannot represent are taken for 0.
get_integer(n) == IF n \in {IntMax, IntMin} THEN 0 ELSE n

\* sched_algorithms.h: the search goes on behind the end of the table of eight
\* when the name is none of them, and finds nothing there or faults.
find_scheduler(name) == IF name \in KnownScheduler THEN {name} ELSE {"none", "fault"}

find_workload(name) == IF name \in KnownWorkload THEN name ELSE "none"

LOCKING == 1
NESTED_LOCKING == 3

\* options.locking |= LOCKING, options.locking |= NESTED_LOCKING
Locking(line) ==
    IF "n" \in line.letters THEN NESTED_LOCKING
    ELSE IF "l" \in line.letters THEN LOCKING ELSE 0

\* The options after the loop over getopt and the lookup of the names, for one
\* result of find_scheduler.
OptionsOf(line, scheduler) ==
    LET Number(letter, n, default) ==
          IF letter \in line.letters THEN get_integer(n) ELSE default
    IN  [cpu_usage  |-> Number("c", line.c, 100),
         end_usage  |-> Number("e", line.e, 0),
         interval   |-> Number("i", line.i, 0),
         cs_length  |-> Number("l", line.l, 0),
         run_time   |-> Number("r", line.r, 1),
         batch_mode |-> "b" \in line.letters,
         enable_hua |-> "h" \in line.letters,
         no_run     |-> "z" \in line.letters,
         taskset    |-> "f" \in line.letters,
         scheduler  |-> scheduler,
         workload   |-> IF "w" \in line.letters THEN find_workload(line.w)
                                                ELSE "burn_loop"]

Schedulers(line) ==
    IF "s" \in line.letters THEN find_scheduler(line.s) ELSE {"none"}

TimingKnown(line) == "t" \in line.letters => line.t \in KnownTiming

\* Variant: only sequential locking needs a critical section.
CsLengthForSequential(options, locking) ==
    /\ locking = LOCKING => options.cs_length > 0
    /\ options.cs_length <= 100

\* Locking of either kind needs a critical section.
CsLengthValid(options, locking) ==
    /\ locking # 0 => options.cs_length > 0
    /\ options.cs_length <= 100

\* validate_options
Valid(options, locking) ==
    /\ options.taskset /\ options.scheduler # "none" /\ options.workload # "none"
    /\ options.batch_mode => /\ options.end_usage # 0 /\ options.interval # 0
                             /\ options.end_usage >= options.cpu_usage
    /\ options.cpu_usage \in 1 .. MaxUsage
    /\ options.run_time \in 1 .. MaxRunTime
    /\ CsLengthValid(options, locking)

\* The end of validate_options: without -b there is one run.
FixUp(options) ==
    IF options.batch_mode THEN options
    ELSE [options EXCEPT !.end_usage = options.cpu_usage, !.interval = 1]
=============================================================================
