---------------------------- MODULE MC_JobTiming ---------------------------
(***************************************************************************)
(* A second has four microseconds of two nanoseconds.  Two counted jobs    *)
(* and an extra one, or three; a run time whose product with MILLION is    *)
(* beyond the signed half of an unsigned int.                              *)
(***************************************************************************)
EXTENDS JobTiming

Option(timing, locking, cpu_usage, cs_length) ==
    [timing |-> timing, locking |-> locking, cpu_usage |-> cpu_usage,
     cs_length |-> cs_length]

MC_Options ==
    {Option(timing, FALSE, 100, 0) : timing \in {"slope", "timer"}}
        \cup {Option(timing, TRUE, cpu, 50) :
                timing \in {"slope", "timer"}, cpu \in {50, 100}}

\* Two iterations per microsecond, one and a half, and less than one.
MC_Slopes == {<<2, 1>>, <<3, 2>>, <<1, 2>>}

\* The timer alone, at one slope.
MC_TimerOptions == {Option("timer", FALSE, 100, 0)}
MC_OneSlope == {<<2, 1>>}
=============================================================================
