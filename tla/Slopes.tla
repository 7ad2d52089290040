------------------------------- MODULE Slopes ------------------------------
(***************************************************************************)
(* find_slopes (slope/main.c, slope/slope.c) and the slope files it writes *)
(* and every test reads (slope.c).                                         *)
(*                                                                         *)
(* A process of Gen is one invocation of find_slopes.  It may be started   *)
(* at any time, beside others, and may die anywhere (a signal, ^C or one   *)
(* of its fatal_errors).  The invalidator threads it loads the machine     *)
(* with run SCHED_FIFO at priority 99 and never sleep: the processor one   *)
(* of them works on runs nothing else, and the measuring thread has        *)
(* priority 98 on processor 0.                                             *)
(*                                                                         *)
(* A slope is a natural number here; the average that calc_slope_average   *)
(* returns is any member of Slope.  An absent file reads as an empty one.  *)
(***************************************************************************)
EXTENDS Integers, Sequences, SequencesExt, FiniteSetsExt

CONSTANTS
    Gen,
    WorkloadOrder,     \* the array workloads[] of workload.h
    NoVariation,       \* the workloads without a WSS capability
    MinWss, MaxWss,    \* the bounds of the others
    DefaultMinWss, DefaultMaxWss,  \* DEFAULT_MIN_GROUP_WSS, ..._MAX_...
    WssSamples,        \* SLOPE_GEN_WSS_SAMPLES
    Iterations,        \* measured runs per sample: SLOPE_GEN_SAMPLES
    Cpus,              \* get_num_processors()
    MaxInvalidators,   \* MAX_INVALIDATORS
    Slope              \* what a measurement may give

Workload == ToSet(WorkloadOrder)

\* get_workload_struct refuses a workload whose bounds are out of range.
workload_wss_valid_bounds(w) ==
    w \notin NoVariation =>
        DefaultMinWss <= MinWss[w] /\ MaxWss[w] <= DefaultMaxWss

ASSUME WorkloadsAssumption ==
    /\ WorkloadOrder \in Seq(Workload) \ {<<>>} /\ IsInjective(WorkloadOrder)
    /\ NoVariation \subseteq Workload
    /\ DefaultMinWss \in Nat /\ DefaultMaxWss \in Nat
    /\ MinWss \in [Workload -> Nat] /\ MaxWss \in [Workload -> Nat]
    /\ \A w \in Workload \ NoVariation : MinWss[w] < MaxWss[w]
    /\ \A w \in Workload : workload_wss_valid_bounds(w)

ASSUME MeasuringAssumption ==
    /\ WssSamples \in Nat \ {0} /\ Iterations \in Nat \ {0}
    /\ Cpus \in Nat \ {0} /\ MaxInvalidators \in Nat \ {0}
    /\ Slope \subseteq Nat \ {0}

VARIABLES
    slope_file,  \* the (WSS, slope) lines of each file of /usr/local/chronos/slope
    exists,      \* the file is there
    pc,          \* where each process is
    force, todo, \* its -f option; the workloads it has still to check
    sample,      \* i of the loop over working set sizes
    run,         \* runs measured for this sample, the rough one included
    inv_num,     \* i of start_invalidators and stop_invalidators
    data_live,   \* its workload data is allocated
    invalidator  \* invalidators[] of each process

loops == <<sample, run, inv_num>>
files == <<slope_file, exists>>
vars == <<files, pc, force, todo, loops, data_live, invalidator>>

-----------------------------------------------------------------------------
(* The slope files.                                                        *)

\* get_slope_filename: one file per workload and kind of slope.
Filename == Workload \X {"average", "wcet"}

Line == [wss : Nat, slope : Slope]

\* What is searched for: the size the workload does not use counts for nothing.
TargetWss(w, wss) == IF w \in NoVariation THEN 0 ELSE wss

clear_workload_slope == <<>>

put_workload_slope(file, w, wss, slope) ==
    Append(file, [wss |-> TargetWss(w, wss), slope |-> slope])

\* The first line whose WSS is wss; the search of get_workload_slope keeps
\* the first of several equal sizes.
FirstAt(file, wss) ==
    file[Min({k \in DOMAIN file : file[k].wss = wss})].slope

Sizes(file) == {file[k].wss : k \in DOMAIN file}

\* Variant: one neighbour is enough.
NearestSlope(file, target) ==
    LET lower == {s \in Sizes(file) : s < target}
    IN  CASE target \in Sizes(file) -> FirstAt(file, target)
          [] target \notin Sizes(file) /\ lower = {} -> -1
          [] OTHER -> FirstAt(file, Max(lower))

get_workload_slope(file, target) ==
    LET lower  == {s \in Sizes(file) : s < target}
        higher == {s \in Sizes(file) : s > target}
    IN  CASE target \in Sizes(file) -> FirstAt(file, target)
          [] target \notin Sizes(file) /\ (lower = {} \/ higher = {}) -> -1
          [] OTHER ->
               LET low  == FirstAt(file, Max(lower))
                   high == FirstAt(file, Min(higher))
               IN  low + ((target - Max(lower)) * (high - low))
                           \div (Min(higher) - Max(lower))

\* The working set size of sample i.
SampleWss(w, i) == MinWss[w] + (i * (MaxWss[w] - MinWss[w])) \div WssSamples

SamplesOf(w) == IF w \in NoVariation THEN {0} ELSE 0 .. WssSamples - 1

-----------------------------------------------------------------------------
(* The invalidators.                                                       *)

active_invalidators ==
    IF Cpus - 1 > MaxInvalidators THEN MaxInvalidators ELSE Cpus - 1

Invalidator == 0 .. active_invalidators - 1

\* Variant: counting the invalidators from 1.
CpuFromOne(i) == (Cpus - 1) - ((i + 1) * (Cpus - 1)) \div active_invalidators

\* Spread over the processors, from the far end.
InvalidatorCpu(i) == (Cpus - 1) - (i * (Cpus - 1)) \div active_invalidators

NoInvalidators ==
    [i \in Invalidator |-> [state |-> "none", started |-> 0, done |-> 0]]

alive(g) == pc[g] \notin {"killed", "killed_writing"}

Working(g, i) == invalidator[g][i].state = "working"

Occupied(cpu) ==
    \E g \in Gen, i \in Invalidator : Working(g, i) /\ InvalidatorCpu(i) = cpu

\* The measuring thread is pinned to processor 0.
MayRun(g) == alive(g) /\ ~Occupied(0)

At(g, label) == pc[g] = label /\ MayRun(g)
Goto(g, label) == pc' = [pc EXCEPT ![g] = label]

AfterStarting(n) == IF n < active_invalidators THEN "launch" ELSE "measure"
AfterStopping(n) == IF n < active_invalidators THEN "stop" ELSE "measured"

Init ==
    /\ slope_file = [f \in Filename |-> <<>>]
    /\ exists = [f \in Filename |-> FALSE]
    /\ pc = [g \in Gen |-> "idle"]
    /\ force = [g \in Gen |-> FALSE]
    /\ todo = [g \in Gen |-> <<>>]
    /\ sample = [g \in Gen |-> 0]
    /\ run = [g \in Gen |-> 0]
    /\ inv_num = [g \in Gen |-> 0]
    /\ data_live = [g \in Gen |-> FALSE]
    /\ invalidator = [g \in Gen |-> NoInvalidators]

\* Variant: the flags keep what the round before left.
CreatedAsWas(inv) == [inv EXCEPT !.state = "created"]

\* A thread is created with its flags reset.
Created(inv) == [inv EXCEPT !.state = "created", !.started = 0, !.done = 0]

\* start_invalidators: the next thread is created ...
StartInvalidator(g) ==
    /\ At(g, "launch")
    /\ invalidator' = [invalidator EXCEPT ![g][inv_num[g]] = Created(@)]
    /\ Goto(g, "await")
    /\ UNCHANGED <<files, force, todo, loops, data_live>>

\* ... and waited for, by polling its flag.
StartedSeen(g) == invalidator[g][inv_num[g]].started = 1

AwaitInvalidator(g) ==
    /\ At(g, "await") /\ StartedSeen(g)
    /\ inv_num' = [inv_num EXCEPT ![g] = @ + 1]
    /\ Goto(g, AfterStarting(inv_num[g] + 1))
    /\ UNCHANGED <<files, force, todo, sample, run, data_live, invalidator>>

\* invalidate(): on its processor, until done is set.
InvalidatorStarts(g, i) ==
    /\ invalidator[g][i].state = "created"
    /\ ~Occupied(InvalidatorCpu(i))
    /\ invalidator' = [invalidator EXCEPT ![g][i].state = "working",
                                          ![g][i].started = 1]
    /\ UNCHANGED <<files, pc, force, todo, loops, data_live>>

InvalidatorReturns(g, i) ==
    /\ Working(g, i) /\ invalidator[g][i].done = 1
    /\ invalidator' = [invalidator EXCEPT ![g][i].state = "returned"]
    /\ UNCHANGED <<files, pc, force, todo, loops, data_live>>

\* stop_invalidators: tell the next thread ...
StopInvalidator(g) ==
    /\ At(g, "stop")
    /\ invalidator' = [invalidator EXCEPT ![g][inv_num[g]].done = 1]
    /\ Goto(g, "join")
    /\ UNCHANGED <<files, force, todo, loops, data_live>>

\* Variant: no pthread_join.
NotJoined(g) == invalidator[g][inv_num[g]].done = 1

\* ... and join it.
Joinable(g) == invalidator[g][inv_num[g]].state = "returned"

JoinInvalidator(g) ==
    /\ At(g, "join") /\ Joinable(g)
    /\ inv_num' = [inv_num EXCEPT ![g] = @ + 1]
    /\ Goto(g, AfterStopping(inv_num[g] + 1))
    /\ UNCHANGED <<files, force, todo, sample, run, data_live, invalidator>>

-----------------------------------------------------------------------------
(* calc_slope_average.                                                     *)

InitData(g) ==
    /\ At(g, "init_data")
    /\ data_live' = [data_live EXCEPT ![g] = TRUE]
    /\ run' = [run EXCEPT ![g] = 0]
    /\ inv_num' = [inv_num EXCEPT ![g] = 0]
    /\ Goto(g, AfterStarting(0))
    /\ UNCHANGED <<files, force, todo, sample, invalidator>>

measure_run(g) ==
    /\ At(g, "measure")
    /\ inv_num' = [inv_num EXCEPT ![g] = 0]
    /\ Goto(g, AfterStopping(0))
    /\ UNCHANGED <<files, force, todo, sample, run, data_live, invalidator>>

\* After the rough run the loop makes Iterations more.
NextRun(g) ==
    /\ At(g, "measured") /\ run[g] < Iterations
    /\ run' = [run EXCEPT ![g] = @ + 1]
    /\ inv_num' = [inv_num EXCEPT ![g] = 0]
    /\ Goto(g, AfterStarting(0))
    /\ UNCHANGED <<files, force, todo, sample, data_live, invalidator>>

CleanupData(g) ==
    /\ At(g, "measured") /\ run[g] = Iterations
    /\ data_live' = [data_live EXCEPT ![g] = FALSE]
    /\ Goto(g, "put")
    /\ UNCHANGED <<files, force, todo, loops, invalidator>>

-----------------------------------------------------------------------------
(* update_slopes, check_slopes and main.                                   *)

\* The file of the workload that g is at.
FileOf(g) == <<Head(todo[g]), "average">>

\* main: one workload (-w) or all of them, with or without -f.
Start(g) ==
    /\ pc[g] = "idle"
    /\ \E f \in BOOLEAN : force' = [force EXCEPT ![g] = f]
    /\ \E ws \in {WorkloadOrder} \cup {<<w>> : w \in Workload} :
           todo' = [todo EXCEPT ![g] = ws]
    /\ Goto(g, "check")
    /\ UNCHANGED <<files, loops, data_live, invalidator>>

\* What check_slopes takes for "already calculated".
AlreadyDefined(w) ==
    get_workload_slope(slope_file[<<w, "average">>], TargetWss(w, DefaultMinWss)) > 0

\* workload_slope_file_accessible, for a file that access() does not find ...
FileMissing(g) ==
    /\ At(g, "check") /\ todo[g] # <<>> /\ ~exists[FileOf(g)]
    /\ Goto(g, "create")
    /\ UNCHANGED <<files, force, todo, loops, data_live, invalidator>>

\* ... and which fopen(filename, "w+") creates, or empties if another invocation
\* has created and filled it since.
CreateFile(g) ==
    /\ At(g, "create")
    /\ slope_file' = [slope_file EXCEPT ![FileOf(g)] = <<>>]
    /\ exists' = [exists EXCEPT ![FileOf(g)] = TRUE]
    /\ Goto(g, "created")
    /\ UNCHANGED <<force, todo, loops, data_live, invalidator>>

\* A file that exists stays, so that the access() which finds it and the lookup
\* are one step.
check_slopes(g) ==
    /\ \/ At(g, "check") /\ todo[g] # <<>> /\ exists[FileOf(g)]
       \/ At(g, "created")
    /\ LET update == ~AlreadyDefined(Head(todo[g])) \/ force[g] IN
       /\ todo' = [todo EXCEPT ![g] = IF update THEN @ ELSE Tail(@)]
       /\ Goto(g, IF update THEN "clear" ELSE "check")
    /\ UNCHANGED <<files, force, loops, data_live, invalidator>>

ClearSlopes(g) ==
    /\ At(g, "clear")
    /\ slope_file' = [slope_file EXCEPT ![FileOf(g)] = clear_workload_slope]
    /\ sample' = [sample EXCEPT ![g] = 0]
    /\ Goto(g, "init_data")
    /\ UNCHANGED <<exists, force, todo, run, inv_num, data_live, invalidator>>

\* Variant: one sample less.
OneLessSample(w, i) == w \in NoVariation \/ i + 2 >= WssSamples

\* No further sample of w after sample i.
LastSample(w, i) == w \in NoVariation \/ i + 1 >= WssSamples

PutSlope(g) ==
    /\ At(g, "put")
    /\ LET w == Head(todo[g]) IN
       /\ \E average \in Slope :
            slope_file' = [slope_file EXCEPT ![FileOf(g)] =
                put_workload_slope(@, w, SampleWss(w, sample[g]), average)]
       /\ \/ /\ LastSample(w, sample[g])
             /\ todo' = [todo EXCEPT ![g] = Tail(@)]
             /\ Goto(g, "check")
             /\ UNCHANGED sample
          \/ /\ ~LastSample(w, sample[g])
             /\ sample' = [sample EXCEPT ![g] = @ + 1]
             /\ Goto(g, "init_data")
             /\ UNCHANGED todo
    /\ UNCHANGED <<exists, force, run, inv_num, data_live, invalidator>>

Exit(g) ==
    /\ At(g, "check") /\ todo[g] = <<>>
    /\ Goto(g, "done")
    /\ UNCHANGED <<files, force, todo, loops, data_live, invalidator>>

\* g has cleared the file of w and has not written its last line.
Rewriting(g, w) ==
    /\ todo[g] # <<>> /\ Head(todo[g]) = w
    /\ pc[g] \notin {"idle", "check", "create", "created", "clear", "done", "killed"}

\* g has emptied the file of w in its access check, or is about to clear it.
Pending(g, w) ==
    /\ todo[g] # <<>> /\ Head(todo[g]) = w
    /\ pc[g] \in {"created", "clear"}

\* The process and its threads are gone, and all they had in memory.
Die(g) ==
    /\ alive(g) /\ pc[g] \notin {"idle", "done"}
    /\ IF \E w \in Workload : Rewriting(g, w) \/ Pending(g, w)
       THEN Goto(g, "killed_writing") /\ todo' = [todo EXCEPT ![g] = <<Head(@)>>]
       ELSE Goto(g, "killed") /\ todo' = [todo EXCEPT ![g] = <<>>]
    /\ force' = [force EXCEPT ![g] = FALSE]
    /\ sample' = [sample EXCEPT ![g] = 0]
    /\ run' = [run EXCEPT ![g] = 0]
    /\ inv_num' = [inv_num EXCEPT ![g] = 0]
    /\ data_live' = [data_live EXCEPT ![g] = FALSE]
    /\ invalidator' = [invalidator EXCEPT ![g] = NoInvalidators]
    /\ UNCHANGED files

AllEnded == \A g \in Gen : pc[g] = "done" \/ ~alive(g)
Terminated == AllEnded /\ UNCHANGED vars

GenStep(g) ==
    \/ FileMissing(g) \/ CreateFile(g) \/ check_slopes(g) \/ ClearSlopes(g) \/ PutSlope(g) \/ Exit(g)
    \/ InitData(g) \/ measure_run(g) \/ NextRun(g) \/ CleanupData(g)
    \/ StartInvalidator(g) \/ AwaitInvalidator(g)
    \/ StopInvalidator(g) \/ JoinInvalidator(g)

InvalidatorStep(g, i) == InvalidatorStarts(g, i) \/ InvalidatorReturns(g, i)

ProgramStep ==
    \E g \in Gen : GenStep(g) \/ \E i \in Invalidator : InvalidatorStep(g, i)

Next ==
    \/ \E g \in Gen : Start(g) \/ Die(g)
    \/ ProgramStep
    \/ Terminated

Spec == Init /\ [][Next]_vars

\* The machine does not stop while some thread can run; nobody has to start
\* find_slopes or to kill it.
FairSpec == Spec /\ WF_vars(ProgramStep)

-----------------------------------------------------------------------------
(* Properties.                                                             *)

TypeOK ==
    /\ slope_file \in [Filename -> Seq(Line)]
    /\ exists \in [Filename -> BOOLEAN]
    /\ pc \in [Gen -> {"idle", "check", "create", "created", "clear", "init_data", "launch", "await",
                       "measure", "stop", "join", "measured", "put", "done",
                       "killed", "killed_writing"}]
    /\ force \in [Gen -> BOOLEAN]
    /\ todo \in [Gen -> Seq(Workload)]
    /\ sample \in [Gen -> 0 .. WssSamples - 1]
    /\ run \in [Gen -> 0 .. Iterations]
    /\ inv_num \in [Gen -> 0 .. active_invalidators]
    /\ data_live \in [Gen -> BOOLEAN]
    /\ invalidator \in [Gen -> [Invalidator ->
           [state : {"none", "created", "working", "returned"},
            started : {0, 1}, done : {0, 1}]]]

\* While a workload is measured every invalidator is at work, each on a
\* processor of its own and none on the one that measures: the flags of the
\* earlier rounds (slope/slope.c:190-206) never let the measurement start early.
MeasuredUnderLoad ==
    \A g \in Gen : pc[g] = "measure" =>
        \A i \in Invalidator :
            /\ Working(g, i) /\ invalidator[g][i].done = 0
            /\ InvalidatorCpu(i) # 0
            /\ \A k \in Invalidator \ {i} : InvalidatorCpu(i) # InvalidatorCpu(k)

\* No invalidator works on workload data that cleanup_task and cleanup_group
\* have released (slope/slope.c:303-309): all of them were joined.
WorkloadDataLive ==
    \A g \in Gen, i \in Invalidator : Working(g, i) => data_live[g]

Complete(w) ==
    \A i \in SamplesOf(w) :
        TargetWss(w, SampleWss(w, i)) \in Sizes(slope_file[<<w, "average">>])

\* However many invocations overlap, a file is empty or has a line for every
\* sample once nobody is rewriting it or about to: the last one to clear it
\* writes it all (slope/slope.c:408-455).  One whose access check empties the
\* file under another that is writing it (slope.c:64-70) leaves lines that
\* check_slopes does not take for calculated, so that it rewrites them itself.
\* Only a process that dies before its last line leaves a part behind.
PartialOnlyWhileRewritten ==
    \A w \in Workload :
        \/ \E g \in Gen : Rewriting(g, w)
        \/ (\E g \in Gen : Pending(g, w)) /\ ~AlreadyDefined(w)
        \/ slope_file[<<w, "average">>] = <<>>
        \/ Complete(w)

\* Whatever file a test reads (workload.c:79-93), complete or partly written,
\* with or without duplicate lines, the slope it gets lies between those of two
\* neighbouring sizes around its own, and it gets none only when it has none.
LookupBracketed ==
    \A f \in Filename : \A t \in 0 .. DefaultMaxWss :
        LET file  == slope_file[f]
            found == get_workload_slope(file, t)
            Around(a, b) == /\ a <= t /\ t <= b
                            /\ \A s \in Sizes(file) : ~(a < s /\ s < b)
        IN  IF \E a, b \in Sizes(file) : a <= t /\ t <= b
            THEN \E j, k \in DOMAIN file :
                    /\ Around(file[j].wss, file[k].wss)
                    /\ t \in Sizes(file) => file[j].wss = t /\ file[k].wss = t
                    /\ \/ file[j].slope <= found /\ found <= file[k].slope
                       \/ file[k].slope <= found /\ found <= file[j].slope
            ELSE found = -1

\* Every invocation ends, unless it is killed, so that there is always a later
\* moment with none under way: it waits neither for an
\* invalidator that cannot start nor behind one on its own processor, also when
\* the invalidators of two invocations compete for the same processors
\* (slope/slope.c:189-206).
EveryRunEnds ==
    []<>(\A g \in Gen : pc[g] \in {"idle", "done"} \/ ~alive(g))
=============================================================================
