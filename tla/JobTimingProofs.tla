-------------------------- MODULE JobTimingProofs --------------------------
(***************************************************************************)
(* Proofs about JobTiming, for any units of time, periods, usages, slopes, *)
(* costs and durations.  The runs take a second of eight nanoseconds; here *)
(* it is any product THOUSAND * MILLION, so also that of the machine.      *)
(***************************************************************************)
EXTENDS JobTiming, CommonLemmas

-----------------------------------------------------------------------------
(* A hypothesis about the machine.                                         *)

\* The product in find_job_deadline stays within an unsigned long: the longest
\* offset is that of the job after the last counted one.
DeadlinesFit ==
    \A p \in Periods : (((run_time * MILLION) % UIntSize) + p) * THOUSAND < ULongSize

-----------------------------------------------------------------------------
(* The inductive invariants.                                               *)

\* The instant a struct timespec stands for.
Ns(time) == time.tv_sec * BILLION + time.tv_nsec

\* Within a job its deadline is on the grid of periods.
DeadlineOnGrid ==
    pc \notin {"loop", "done"} => Ns(deadline) = Grid(num_releases + 1)

\* do_work_slope: the iterations done, and how far the piece at hand goes.
SlopeProgress ==
    options.timing = "slope" =>
        /\ work.i <= iterations
        /\ pc = "piece" => /\ work.piece = iters_per_abort_check
                           /\ work.i + work.piece <= iterations
        /\ pc = "rest" => abort_flag \/ SlopeRemainder <= iters_per_abort_check
        /\ pc = "last" => /\ work.piece <= iters_per_abort_check
                          /\ work.i + work.piece = iterations
        /\ pc = "return" => abort_flag \/ work.i = iterations

\* do_work_timer: no more than the estimate and a tick is left for the rest.
TimerProgress ==
    options.timing = "timer" =>
        /\ pc = "piece" => work.piece = iters_per_abort_check
        /\ pc = "rest" => abort_flag \/ end_cpu - work.cpu <= work.diff + clock_res
        /\ pc = "last" => abort_flag \/ LookAndTick

-----------------------------------------------------------------------------
(* Types.                                                                  *)

\* The figures a job is run with are natural numbers.
LEMMA Figures ==
    ASSUME TypeOK
    PROVE  /\ BILLION \in Nat \ {0} /\ period \in Nat \ {0} /\ start \in Nat
           /\ slope[1] \in Nat \ {0} /\ slope[2] \in Nat \ {0}
           /\ runtime \in Nat /\ max_releases \in Nat
           /\ locked_usage \in Nat /\ unlocked_usage \in Nat
           /\ iters_per_abort_check \in Nat /\ iterations \in Nat /\ end_cpu \in Nat
<1>1. BILLION \in Nat \ {0}
  BY UnitsAssumption DEF BILLION
<1>2. period \in Nat \ {0} /\ start \in Nat
  BY TaskAssumption, TimesAssumption DEF TypeOK
<1>3. slope[1] \in Nat \ {0} /\ slope[2] \in Nat \ {0}
  BY TaskAssumption DEF TypeOK
<1>4. runtime \in Nat
  <2>1. run_time * MILLION \in Nat
    BY UnitsAssumption, TaskAssumption
  <2>2. runtime \in 0 .. UIntSize - 1
    BY <2>1, UnitsAssumption, ModNat, Zenon DEF runtime
  <2> QED
    BY <2>2, UnitsAssumption
<1>5. max_releases \in Nat
  BY <1>2, <1>4, DivNat DEF max_releases
<1>6. options.cpu_usage \in Nat /\ options.cs_length \in 0 .. 100
  BY TaskAssumption DEF TypeOK
<1>7. locked_usage \in Nat
  <2>1. exec_time * options.cpu_usage * options.cs_length \in Nat
    BY <1>6, TaskAssumption
  <2> QED
    BY <2>1, DivNat DEF locked_usage
<1>8. unlocked_usage \in Nat
  <2>1. 100 - options.cs_length \in Nat
    BY <1>6
  <2>2. exec_time * options.cpu_usage * (100 - options.cs_length) \in Nat
    BY <1>6, <2>1, TaskAssumption
  <2> QED
    BY <2>2, DivNat DEF unlocked_usage
<1>9. iters_per_abort_check \in Nat
  BY <1>3, DivNat DEF iters_per_abort_check
<1>10. iterations \in Nat /\ end_cpu \in Nat
  <2>1. usage * slope[1] \in Nat /\ usage * Scale \in Nat
    BY <1>3, UnitsAssumption DEF TypeOK
  <2> QED
    BY <1>3, <2>1, DivNat DEF iterations, end_cpu
<1> QED
  BY <1>1, <1>2, <1>3, <1>4, <1>5, <1>7, <1>8, <1>9, <1>10

\* clock_gettime yields a normalised time, and the instant it was asked for.
LEMMA TimespecFacts ==
    ASSUME NEW ns \in Nat
    PROVE  Timespec(ns) \in Time /\ Ns(Timespec(ns)) = ns
<1>1. BILLION \in Nat \ {0}
  BY UnitsAssumption DEF BILLION
<1> DEFINE sec == ns \div BILLION
           nsec == ns % BILLION
<1>2. sec \in Nat /\ nsec \in 0 .. BILLION - 1
  <2>1. sec \in Nat
    BY <1>1, DivNat
  <2>2. nsec \in 0 .. BILLION - 1
    BY <1>1, ModNat, Zenon
  <2> QED
    BY <2>1, <2>2
<1>3. ns = BILLION * sec + nsec
  BY <1>1, DivMod
<1>4. Timespec(ns) = [tv_sec |-> sec, tv_nsec |-> nsec]
  BY DEF Timespec
<1> HIDE DEF sec, nsec
<1>5. BILLION * sec = sec * BILLION
  BY <1>1, <1>2
<1> QED
  BY <1>2, <1>3, <1>4, <1>5 DEF Time, Ns

\* find_job_deadline yields a normalised time, the start time and the offset
\* away, if the product does not wrap around.
LEMMA DeadlineFacts ==
    ASSUME TypeOK, NEW offset \in Nat
    PROVE  /\ DeadlineAt(offset) \in Time
           /\ offset * THOUSAND < ULongSize =>
                Ns(DeadlineAt(offset)) = start + offset * THOUSAND
<1> DEFINE added == (offset * THOUSAND) % ULongSize
           sec == start \div BILLION
           rest == start % BILLION
           nsec == rest + added
<1>1. BILLION \in Nat \ {0} /\ start \in Nat
  BY Figures
<1>2. offset * THOUSAND \in Nat
  BY UnitsAssumption
<1>3. added \in Nat /\ (offset * THOUSAND < ULongSize => added = offset * THOUSAND)
  BY <1>2, UnitsAssumption
<1>4. /\ sec \in Nat /\ rest \in 0 .. BILLION - 1
      /\ start = BILLION * sec + rest
  <2>1. sec \in Nat
    BY <1>1, DivNat
  <2>2. rest \in 0 .. BILLION - 1
    BY <1>1, ModNat, Zenon
  <2>3. start = BILLION * sec + rest
    BY <1>1, DivMod
  <2> QED
    BY <2>1, <2>2, <2>3
<1> HIDE DEF added, sec, rest
<1>5. nsec \in Nat
  BY <1>1, <1>3, <1>4
<1> DEFINE carry == nsec \div BILLION
           left == nsec % BILLION
<1>6. DeadlineAt(offset) = [tv_sec |-> sec + carry, tv_nsec |-> left]
  BY DEF DeadlineAt, added, sec, rest
<1>7. /\ carry \in Nat /\ left \in 0 .. BILLION - 1
      /\ nsec = BILLION * carry + left
  <2> HIDE DEF nsec
  <2>1. carry \in Nat
    BY <1>1, <1>5, DivNat
  <2>2. left \in 0 .. BILLION - 1
    BY <1>1, <1>5, ModNat, Zenon
  <2>3. nsec = BILLION * carry + left
    BY <1>1, <1>5, DivMod
  <2> QED
    BY <2>1, <2>2, <2>3
<1> HIDE DEF nsec, carry, left
<1>8. DeadlineAt(offset) \in Time
  BY <1>4, <1>6, <1>7 DEF Time
<1>9. (sec + carry) * BILLION = BILLION * sec + BILLION * carry
  BY <1>1, <1>4, <1>7
<1>10. BILLION * sec \in Nat /\ BILLION * carry \in Nat
  BY <1>1, <1>4, <1>7
<1>11. Ns(DeadlineAt(offset)) = BILLION * sec + BILLION * carry + left
  BY <1>6, <1>9 DEF Ns
<1>12. Ns(DeadlineAt(offset)) = start + added
  BY <1>1, <1>3, <1>4, <1>7, <1>10, <1>11 DEF nsec
<1> QED
  BY <1>3, <1>8, <1>12

\* What every step leaves alone.
LEMMA GivenFixed == [Next]_vars => UNCHANGED given
    BY DEF Next, Step, Abort, Finished, vars, BeginJob, LeaveLoop, SlopeLook,
           SlopeRest, TimerLook, TimerRest, Do, Goto, Piece, LastPiece, Return,
           EndJob, EndExtra, EndSegment

\* A call of workload_do_work begins with a usage and no work done.
LEMMA EnterType ==
    ASSUME TypeOK, NEW part \in {"locked", "unlocked"}, Enter(part)
    PROVE  /\ pc' = "look" /\ phase' \in {"locked", "unlocked"} /\ usage' \in Nat
           /\ work' \in [i : Nat, piece : Nat, late : Nat, cpu : Nat, diff : Nat]
    BY Figures DEF Enter, FreshWork

\* The piece at hand is a number of iterations: that of a microsecond, or the
\* rest, which is taken only if there is one.
LEMMA PieceType ==
    ASSUME TypeOK, SlopeLook \/ SlopeRest \/ TimerLook \/ TimerRest
    PROVE  TypeOK'
<1>1. ASSUME NEW n \in Nat, NEW label \in {"piece", "last"}, Do(n, label)
      PROVE  TypeOK'
  BY <1>1 DEF Do, TypeOK, given, job, max_releases, runtime
<1>2. ASSUME NEW label \in {"rest", "return"}, Goto(label)
      PROVE  TypeOK'
  BY <1>2 DEF Goto, TypeOK, given, job, call, max_releases, runtime
<1>3. iters_per_abort_check \in Nat /\ iterations \in Nat /\ work.i \in Nat
  BY Figures DEF TypeOK
<1>4. CASE SlopeLook
  BY <1>1, <1>2, <1>3, <1>4 DEF SlopeLook
<1>5. CASE SlopeRest
  <2>1. work.i < iterations => SlopeRemainder \in Nat
    BY <1>3 DEF SlopeRemainder
  <2> QED
    BY <1>1, <1>2, <1>5, <2>1 DEF SlopeRest
<1>6. CASE TimerLook
  BY <1>1, <1>2, <1>3, <1>6 DEF TimerLook
<1>7. CASE TimerRest
  <2>1. ASSUME work.diff # 0, last_iters > 0
        PROVE  last_iters \in Nat
    <3>1. end_cpu \in Nat /\ work.cpu \in Nat /\ work.diff \in Nat \ {0}
      BY <2>1, Figures DEF TypeOK
    <3>2. (end_cpu - work.cpu) * iters_per_abort_check - 1 \in Int
      BY <1>3, <3>1
    <3>3. last_iters \in Int
      BY <3>1, <3>2, DivInt DEF last_iters
    <3> QED
      BY <2>1, <3>3
  <2> QED
    BY <1>1, <1>2, <1>7, <2>1 DEF TimerRest
<1> QED
  BY <1>4, <1>5, <1>6, <1>7

\* A piece done keeps the type of the work record.
LEMMA WorkType ==
    ASSUME TypeOK
    PROVE  /\ Done \in [i : Nat, piece : Nat, late : Nat, cpu : Nat, diff : Nat]
           /\ \A cost \in Nat :
                Timed(cost) \in [i : Nat, piece : Nat, late : Nat, cpu : Nat, diff : Nat]
<1>1. Done \in [i : Nat, piece : Nat, late : Nat, cpu : Nat, diff : Nat]
  <2>1. /\ work \in [i : Nat, piece : Nat, late : Nat, cpu : Nat, diff : Nat]
        /\ abort_flag \in BOOLEAN
    BY DEF TypeOK
  <2> DEFINE n == work.i + work.piece
             m == IF abort_flag THEN work.late + work.piece ELSE work.late
  <2>2. n \in Nat /\ m \in Nat
    BY <2>1
  <2>3. Done = [work EXCEPT !.i = n, !.late = m]
    BY <2>1 DEF Done
  <2> HIDE DEF n, m
  <2> QED
    BY <2>1, <2>2, <2>3
<1>2. ASSUME NEW cost \in Nat
      PROVE  Timed(cost) \in [i : Nat, piece : Nat, late : Nat, cpu : Nat, diff : Nat]
  <2>1. Done.diff \in Nat /\ Done.cpu \in Nat
    BY <1>1
  <2>2. (Done.diff + 2 * cost) \div 3 \in Nat /\ Done.cpu + cost \in Nat
    BY <2>1
  <2> QED
    BY <1>1, <2>2 DEF Timed
<1> QED
  BY <1>1, <1>2

\* A job in time sleeps for a time that is not negative.
LEMMA WallType ==
    ASSUME NEW end_time \in Nat, NEW tardiness \in Int, NEW o \in Oversleeps,
           tardiness > 0
    PROVE  end_time + Slept(tardiness) + o \in Nat
<1>1. tardiness * THOUSAND \in Nat
  BY UnitsAssumption
<1> QED
  BY <1>1, TimesAssumption DEF Slept

\* The difference of two times is a number of microseconds.
LEMMA SubtractType ==
    ASSUME NEW x \in Time, NEW y \in Time
    PROVE  timespec_subtract_us(x, y) \in Int
<1> DEFINE nsec == x.tv_nsec - y.tv_nsec
           sec == x.tv_sec - y.tv_sec
<1>1. nsec \in Int /\ sec \in Int /\ BILLION \in Nat
  BY UnitsAssumption DEF Time, BILLION
<1> HIDE DEF nsec, sec
<1>2. (nsec + BILLION) \div THOUSAND \in Int /\ nsec \div THOUSAND \in Int
  BY <1>1, UnitsAssumption, DivInt
<1>3. (sec - 1) * MILLION \in Int /\ sec * MILLION \in Int
  BY <1>1, UnitsAssumption
<1> QED
  BY <1>2, <1>3 DEF timespec_subtract_us, nsec, sec

\* Every step keeps the types.
LEMMA TypeStep == TypeOK /\ [Next]_vars => TypeOK'
<1> SUFFICES ASSUME TypeOK, [Next]_vars PROVE TypeOK'
  OBVIOUS
<1> USE DEF given, job, call
<1>1. max_releases' = max_releases
  BY GivenFixed DEF max_releases, runtime
<1>2. CASE BeginJob
  <2>1. (num_releases + 1) * period \in Nat
    BY Figures DEF TypeOK
  <2>2. deadline' \in Time
    BY <1>2, <2>1, DeadlineFacts DEF BeginJob
  <2>3. PICK part \in {"locked", "unlocked"} : Enter(part)
    BY <1>2 DEF BeginJob
  <2> QED
    BY <1>1, <1>2, <2>2, <2>3, EnterType DEF BeginJob, TypeOK
<1>3. CASE LeaveLoop
  BY <1>1, <1>3 DEF LeaveLoop, TypeOK
<1>4. CASE SlopeLook \/ SlopeRest \/ TimerLook \/ TimerRest
  BY <1>4, PieceType
<1>5. CASE Piece
  <2>1. work' \in [i : Nat, piece : Nat, late : Nat, cpu : Nat, diff : Nat]
    <3>1. \A cost \in ChunkCosts : cost \in Nat
      BY TimesAssumption
    <3> QED
      BY <1>5, <3>1, WorkType DEF Piece
  <2> QED
    BY <1>1, <1>5, <2>1 DEF Piece, TypeOK
<1>6. CASE LastPiece
  BY <1>1, <1>6, WorkType DEF LastPiece, TypeOK
<1>7. CASE Return
  <2>1. CASE phase = "locked"
    BY <1>1, <1>7, <2>1, EnterType DEF Return, TypeOK
  <2>2. CASE phase # "locked"
    BY <1>1, <1>7, <2>2 DEF Return, TypeOK
  <2> QED
    BY <2>1, <2>2
<1>8. CASE Abort
  BY <1>1, <1>8 DEF Abort, TypeOK
<1>9. CASE EndJob
  <2>1. PICK d \in Durations :
          LET end_time == wall + d
              tardiness == timespec_subtract_us(deadline, Timespec(end_time))
          IN  /\ result' = [outcome |-> Outcome(tardiness), end_time |-> end_time]
              /\ IF Sleeps(tardiness)
                 THEN \E o \in Oversleeps :
                        wall' = end_time + Slept(tardiness) + o
                 ELSE wall' = end_time
    BY <1>9 DEF EndJob
  <2> DEFINE end_time == wall + d
             tardiness == timespec_subtract_us(deadline, Timespec(end_time))
  <2>2. end_time \in Nat
    BY TimesAssumption DEF TypeOK
  <2>3. tardiness \in Int
    BY <2>2, TimespecFacts, SubtractType DEF TypeOK
  <2> HIDE DEF end_time, tardiness
  <2>4. wall' \in Nat
    BY <2>1, <2>2, <2>3, WallType DEF Sleeps, end_time, tardiness
  <2>5. result' \in [outcome : {"none", "aborted", "met", "late"}, end_time : Nat]
    BY <2>1, <2>2 DEF Outcome, end_time
  <2>6. num_releases' \in 0 .. max_releases
    BY <1>9, Figures DEF EndJob, Counting, TypeOK
  <2> QED
    BY <1>1, <1>9, <2>4, <2>5, <2>6 DEF EndJob, EndSegment, FreshWork, TypeOK
<1>10. CASE EndExtra
  BY <1>1, <1>10 DEF EndExtra, EndSegment, FreshWork, TypeOK
<1>11. CASE UNCHANGED vars
  BY <1>1, <1>11 DEF vars, TypeOK
<1> QED
  BY <1>2, <1>3, <1>4, <1>5, <1>6, <1>7, <1>8, <1>9, <1>10, <1>11
     DEF Next, Step, Finished

\* The initial states are of the types.
LEMMA TypeInit == Init => TypeOK
<1> SUFFICES ASSUME Init PROVE TypeOK
  OBVIOUS
<1>1. start \in Nat /\ period \in Nat \ {0}
  BY TaskAssumption, TimesAssumption DEF Init
<1>2. max_releases \in Nat
  <2>1. run_time * MILLION \in Nat
    BY UnitsAssumption, TaskAssumption
  <2>2. runtime \in 0 .. UIntSize - 1
    BY <2>1, UnitsAssumption, ModNat, Zenon DEF runtime
  <2>3. runtime \in Nat
    BY <2>2, UnitsAssumption
  <2> QED
    BY <1>1, <2>3, DivNat DEF max_releases
<1>3. deadline \in Time
  BY <1>1, TimespecFacts DEF Init
<1>4. work \in [i : Nat, piece : Nat, late : Nat, cpu : Nat, diff : Nat]
  BY DEF Init, FreshWork
<1>5. result \in [outcome : {"none", "aborted", "met", "late"}, end_time : Nat]
  BY DEF Init
<1>6. wall \in Nat /\ usage \in Nat /\ num_releases \in 0 .. max_releases
  BY <1>1, <1>2 DEF Init
<1> QED
  BY <1>3, <1>4, <1>5, <1>6 DEF Init, TypeOK

\* The variables keep their types: no job is counted beyond max_releases,
\* deadlines stay normalised, and no counter or estimate becomes negative.
THEOREM TypeCorrect == Spec => []TypeOK
    BY TypeInit, TypeStep, PTL DEF Spec

-----------------------------------------------------------------------------
(* The iterations of a job.                                                *)

\* A call of workload_do_work begins, and a job ends, with nothing done of
\* whatever is to do.
LEMMA FreshProgress ==
    ASSUME TypeOK', work' = FreshWork, pc' \in {"look", "loop", "done"}
    PROVE  SlopeProgress' /\ TimerProgress'
<1>1. iterations' \in Nat
  <2>1. slope'[1] \in Nat \ {0} /\ slope'[2] \in Nat \ {0} /\ usage' \in Nat
    BY TaskAssumption DEF TypeOK
  <2>2. usage' * slope'[1] \in Nat
    BY <2>1
  <2> QED
    BY <2>1, <2>2, DivNat DEF iterations
<1>2. work'.i = 0 /\ work'.diff = 0
  BY DEF FreshWork
<1> QED
  BY <1>1, <1>2 DEF SlopeProgress, TimerProgress

\* What the invariants are about, where a step leaves it alone.
LEMMA SameProgress ==
    ASSUME UNCHANGED given, UNCHANGED usage
    PROVE  /\ iterations' = iterations /\ end_cpu' = end_cpu
           /\ iters_per_abort_check' = iters_per_abort_check
    BY DEF given, iterations, end_cpu, iters_per_abort_check

\* Every step of do_work_slope keeps count of its iterations.
LEMMA SlopeStep == TypeOK /\ SlopeProgress /\ [Next]_vars => SlopeProgress'
<1> SUFFICES ASSUME TypeOK, SlopeProgress, [Next]_vars PROVE SlopeProgress'
  OBVIOUS
<1>1. TypeOK' /\ UNCHANGED given
  BY TypeStep, GivenFixed
<1>2. /\ iterations \in Nat /\ iters_per_abort_check \in Nat
      /\ work.i \in Nat /\ work.piece \in Nat /\ abort_flag \in BOOLEAN
  BY Figures DEF TypeOK
<1>3. CASE BeginJob \/ (Return /\ phase = "locked") \/ EndJob \/ EndExtra
  <2>1. work' = FreshWork /\ pc' \in {"look", "loop", "done"}
    BY <1>3 DEF BeginJob, Return, Enter, EndJob, EndExtra, EndSegment
  <2> QED
    BY <1>1, <2>1, FreshProgress
<1> USE DEF given, call
<1>4. CASE SlopeLook
  <2>1. UNCHANGED usage /\ UNCHANGED abort_flag
    BY <1>4 DEF SlopeLook, Do, Goto
  <2>2. CASE SlopeGoesOn
    <3>1. /\ pc' = "piece" /\ work'.i = work.i
          /\ work'.piece = iters_per_abort_check
      BY <1>4, <2>2 DEF SlopeLook, Do, TypeOK
    <3> QED
      BY <1>1, <1>2, <2>1, <2>2, <3>1, SameProgress DEF SlopeProgress, SlopeGoesOn
  <2>3. CASE ~SlopeGoesOn
    <3>1. pc' = "rest" /\ work' = work
      BY <1>4, <2>3 DEF SlopeLook, Goto
    <3> QED
      BY <1>1, <1>2, <2>1, <2>3, <3>1, SameProgress
         DEF SlopeProgress, SlopeGoesOn, SlopeRemainder
  <2> QED
    BY <2>2, <2>3
<1>5. CASE SlopeRest
  <2>1. UNCHANGED usage /\ UNCHANGED abort_flag
    BY <1>5 DEF SlopeRest, Do, Goto
  <2>2. CASE ~abort_flag /\ work.i < iterations
    <3>1. /\ pc' = "last" /\ work'.i = work.i
          /\ work'.piece = SlopeRemainder
      BY <1>5, <2>2 DEF SlopeRest, Do, TypeOK
    <3> QED
      BY <1>1, <1>2, <1>5, <2>1, <2>2, <3>1, SameProgress
         DEF SlopeProgress, SlopeRest, SlopeRemainder
  <2>3. CASE ~(~abort_flag /\ work.i < iterations)
    <3>1. pc' = "return" /\ work' = work
      BY <1>5, <2>3 DEF SlopeRest, Goto
    <3> QED
      BY <1>1, <1>2, <2>1, <2>3, <3>1, SameProgress DEF SlopeProgress
  <2> QED
    BY <2>2, <2>3
<1>6. CASE Piece \/ LastPiece
  <2> SUFFICES ASSUME options.timing = "slope" PROVE SlopeProgress'
    BY <1>1 DEF SlopeProgress
  <2>1. UNCHANGED usage /\ UNCHANGED abort_flag /\ work' = Done
    BY <1>6 DEF Piece, LastPiece
  <2>2. work'.i = work.i + work.piece
    BY <2>1 DEF Done, TypeOK
  <2>3. CASE Piece
    BY <1>1, <1>2, <2>1, <2>2, <2>3, SameProgress DEF SlopeProgress, Piece
  <2>4. CASE LastPiece
    BY <1>1, <1>2, <2>1, <2>2, <2>4, SameProgress DEF SlopeProgress, LastPiece
  <2> QED
    BY <1>6, <2>3, <2>4
<1>7. CASE Abort
  <2>1. UNCHANGED <<usage, work, pc>> /\ abort_flag' = TRUE
    BY <1>7 DEF Abort
  <2> QED
    BY <1>1, <1>2, <2>1, SameProgress DEF SlopeProgress
<1>8. CASE TimerLook \/ TimerRest
  BY <1>1, <1>8 DEF TimerLook, TimerRest, SlopeProgress
<1>9. CASE LeaveLoop \/ (Return /\ phase # "locked") \/ UNCHANGED vars
  <2>1. UNCHANGED <<usage, work>> /\ (pc' \in {"done", "end"} \/ UNCHANGED <<pc, abort_flag>>)
    BY <1>9 DEF LeaveLoop, Return, vars
  <2> QED
    BY <1>1, <1>2, <2>1, SameProgress DEF SlopeProgress, SlopeRemainder
<1> QED
  BY <1>3, <1>4, <1>5, <1>6, <1>7, <1>8, <1>9 DEF Next, Step, Finished

\* A call of do_work_slope that returns without an abort has done exactly the
\* iterations of its usage; an aborted one has not done more.
THEOREM SlopeExact == Spec => []WorkExact
<1>1. Init => SlopeProgress
  <2> SUFFICES ASSUME Init PROVE SlopeProgress
    OBVIOUS
  <2>1. iterations \in Nat
    BY TypeInit, Figures
  <2> QED
    BY <2>1 DEF Init, FreshWork, SlopeProgress
<1>2. SlopeProgress => WorkExact
  BY DEF SlopeProgress, WorkExact
<1> QED
  BY <1>1, <1>2, SlopeStep, TypeCorrect, PTL DEF Spec

\* The last piece fits into what is left.
LEMMA LastPieceBounded ==
    ASSUME NEW left \in Int, NEW diff \in Nat \ {0}, NEW iters \in Nat,
           NEW res \in Nat, left <= diff + res
    PROVE  ((left * iters - 1) \div diff) * diff <= iters * (diff + res)
<1> DEFINE n == left * iters - 1
           q == n \div diff
<1>1. left * iters <= (diff + res) * iters
  OBVIOUS
<1>2. (diff + res) * iters = iters * (diff + res) /\ iters * (diff + res) \in Int
  OBVIOUS
<1>3. n \in Int /\ n <= iters * (diff + res)
  <2>1. left * iters \in Int
    OBVIOUS
  <2> QED
    BY <1>1, <1>2, <2>1
<1> HIDE DEF n
<1>4. q \in Int /\ n = diff * q + (n % diff) /\ n % diff \in 0 .. diff - 1
  BY <1>3, DivInt, DivMod
<1> HIDE DEF q
<1>5. diff * q = q * diff /\ diff * q \in Int
  BY <1>4
<1>6. q * diff <= n
  BY <1>3, <1>4, <1>5
<1> QED
  BY <1>2, <1>3, <1>5, <1>6 DEF n, q

\* Every step of do_work_timer keeps its estimate and the bound of its pieces.
LEMMA TimerStep == TypeOK /\ TimerProgress /\ [Next]_vars => TimerProgress'
<1> SUFFICES ASSUME TypeOK, TimerProgress, [Next]_vars PROVE TimerProgress'
  OBVIOUS
<1>1. TypeOK' /\ UNCHANGED given
  BY TypeStep, GivenFixed
<1>2. /\ end_cpu \in Nat /\ iters_per_abort_check \in Nat /\ clock_res \in Nat
      /\ work.cpu \in Nat /\ work.diff \in Nat /\ work.piece \in Nat
      /\ abort_flag \in BOOLEAN
  BY Figures, UnitsAssumption DEF TypeOK
<1>3. CASE BeginJob \/ (Return /\ phase = "locked") \/ EndJob \/ EndExtra
  <2>1. work' = FreshWork /\ pc' \in {"look", "loop", "done"}
    BY <1>3 DEF BeginJob, Return, Enter, EndJob, EndExtra, EndSegment
  <2> QED
    BY <1>1, <2>1, FreshProgress
<1> USE DEF given, call
<1>4. CASE TimerLook
  <2>1. UNCHANGED usage /\ UNCHANGED abort_flag
    BY <1>4 DEF TimerLook, Do, Goto
  <2>2. CASE TimerGoesOn
    <3>1. /\ pc' = "piece" /\ work'.diff = work.diff
          /\ work'.piece = iters_per_abort_check
      BY <1>4, <2>2 DEF TimerLook, Do, TypeOK
    <3> QED
      BY <1>1, <3>1, <2>1, SameProgress DEF TimerProgress
  <2>3. CASE ~TimerGoesOn
    <3>1. pc' = "rest" /\ work' = work
      BY <1>4, <2>3 DEF TimerLook, Goto
    <3> QED
      BY <1>1, <1>2, <2>1, <2>3, <3>1, SameProgress DEF TimerProgress, TimerGoesOn
  <2> QED
    BY <2>2, <2>3
<1>5. CASE TimerRest
  <2>1. UNCHANGED usage /\ UNCHANGED abort_flag
    BY <1>5 DEF TimerRest, Do, Goto
  <2>2. CASE work.diff # 0 /\ last_iters > 0
    <3>1. /\ pc' = "last" /\ work'.diff = work.diff
          /\ work'.piece = last_iters
      BY <1>5, <2>2 DEF TimerRest, Do, TypeOK
    <3>2. abort_flag \/ LookAndTick'
      <4> SUFFICES ASSUME ~abort_flag PROVE LookAndTick'
        OBVIOUS
      <4>1. end_cpu - work.cpu <= work.diff + clock_res /\ end_cpu - work.cpu \in Int
        BY <1>2, <1>5 DEF TimerProgress, TimerRest
      <4>2. work.diff \in Nat \ {0}
        BY <1>2, <2>2
      <4>3. last_iters * work.diff <= iters_per_abort_check * (work.diff + clock_res)
        BY <1>2, <4>1, <4>2, LastPieceBounded DEF last_iters
      <4>4. iters_per_abort_check' = iters_per_abort_check
        BY <1>1, <2>1, SameProgress
      <4> QED
        BY <3>1, <4>3, <4>4 DEF LookAndTick
    <3> QED
      BY <1>1, <2>1, <3>1, <3>2, SameProgress DEF TimerProgress
  <2>3. CASE ~(work.diff # 0 /\ last_iters > 0)
    <3>1. pc' = "return" /\ work' = work
      BY <1>5, <2>3 DEF TimerRest, Goto
    <3> QED
      BY <1>1, <3>1 DEF TimerProgress
  <2> QED
    BY <2>2, <2>3
<1>6. CASE Piece \/ LastPiece
  <2>1. pc' \in {"look", "return"}
    BY <1>6 DEF Piece, LastPiece
  <2> QED
    BY <2>1 DEF TimerProgress
<1>7. CASE Abort
  <2>1. UNCHANGED <<usage, work, pc>> /\ abort_flag' = TRUE
    BY <1>7 DEF Abort
  <2> QED
    BY <1>1, <2>1, SameProgress DEF TimerProgress
<1>8. CASE SlopeLook \/ SlopeRest
  BY <1>1, <1>8 DEF SlopeLook, SlopeRest, TimerProgress
<1>9. CASE LeaveLoop \/ (Return /\ phase # "locked") \/ UNCHANGED vars
  <2>1. UNCHANGED <<usage, work>> /\ (pc' \in {"done", "end"} \/ UNCHANGED <<pc, abort_flag>>)
    BY <1>9 DEF LeaveLoop, Return, vars
  <2> QED
    BY <1>1, <2>1, SameProgress DEF TimerProgress, LookAndTick
<1> QED
  BY <1>3, <1>4, <1>5, <1>6, <1>7, <1>8, <1>9 DEF Next, Step, Finished

\* With either timing method, at any slope and whatever a piece of work costs,
\* no piece between two looks at the abort flag is longer than the iterations of
\* one look, and those of a tick of the clock with timer timing; except after
\* do_work_timer has seen the flag raised.
THEOREM PiecesAreBounded == Spec => []PieceBounded
<1>1. Init => SlopeProgress /\ TimerProgress
  <2> SUFFICES ASSUME Init PROVE SlopeProgress /\ TimerProgress
    OBVIOUS
  <2>1. iterations \in Nat
    BY TypeInit, Figures
  <2> QED
    BY <2>1 DEF Init, FreshWork, SlopeProgress, TimerProgress
<1>2. TypeOK /\ SlopeProgress /\ TimerProgress => PieceBounded
  <2> SUFFICES ASSUME TypeOK, SlopeProgress, TimerProgress,
                      pc \in {"piece", "last"}
               PROVE  \/ work.piece <= iters_per_abort_check
                      \/ options.timing = "timer" /\ (abort_flag \/ LookAndTick)
    BY DEF PieceBounded
  <2>1. options.timing \in {"slope", "timer"} /\ iters_per_abort_check \in Nat
    BY Figures, TaskAssumption DEF TypeOK
  <2>2. work.piece \in Nat
    BY DEF TypeOK
  <2> QED
    BY <2>1, <2>2 DEF SlopeProgress, TimerProgress
<1> QED
  BY <1>1, <1>2, SlopeStep, TimerStep, TypeCorrect, PTL DEF Spec

-----------------------------------------------------------------------------
(* Deadlines and tardiness.                                                *)

\* timespec_subtract_us is the difference of the instants in microseconds,
\* rounded down: neither the borrow nor the order of the operands matters.
LEMMA SubtractFacts ==
    ASSUME NEW x \in Time, NEW y \in Time
    PROVE  timespec_subtract_us(x, y) = (Ns(x) - Ns(y)) \div THOUSAND
<1> DEFINE nsec == x.tv_nsec - y.tv_nsec
           sec == x.tv_sec - y.tv_sec
<1>1. nsec \in Int /\ sec \in Int /\ BILLION \in Nat
  BY UnitsAssumption DEF Time, BILLION
<1>2. Ns(x) - Ns(y) = sec * BILLION + nsec
  <2>1. /\ x.tv_sec \in Nat /\ x.tv_nsec \in Nat
        /\ y.tv_sec \in Nat /\ y.tv_nsec \in Nat
    BY <1>1 DEF Time
  <2>2. sec * BILLION = x.tv_sec * BILLION - y.tv_sec * BILLION
    BY <1>1, <2>1
  <2>3. x.tv_sec * BILLION \in Nat /\ y.tv_sec * BILLION \in Nat
    BY <1>1, <2>1
  <2> HIDE DEF sec
  <2> QED
    BY <2>1, <2>2, <2>3 DEF Ns
<1> HIDE DEF nsec, sec
<1>3. THOUSAND \in Nat \ {0} /\ MILLION \in Nat \ {0}
  BY UnitsAssumption
<1>4. sec * BILLION = THOUSAND * (sec * MILLION)
  BY <1>1, <1>3 DEF BILLION
<1>5. sec * MILLION \in Int /\ (sec - 1) * MILLION \in Int
  BY <1>1, <1>3
<1>6. (nsec + THOUSAND * (sec * MILLION)) \div THOUSAND
        = nsec \div THOUSAND + sec * MILLION
  BY <1>1, <1>3, <1>5, DivShift
<1>7. ((nsec + BILLION) + THOUSAND * ((sec - 1) * MILLION)) \div THOUSAND
        = (nsec + BILLION) \div THOUSAND + (sec - 1) * MILLION
  BY <1>1, <1>3, <1>5, DivShift
<1>8. (nsec + BILLION) + THOUSAND * ((sec - 1) * MILLION)
        = nsec + THOUSAND * (sec * MILLION)
  <2>1. (sec - 1) * MILLION = sec * MILLION - MILLION
    BY <1>1, <1>3
  <2>2. THOUSAND * (sec * MILLION - MILLION)
          = THOUSAND * (sec * MILLION) - THOUSAND * MILLION
    BY <1>3, <1>5
  <2>3. THOUSAND * (sec * MILLION) \in Int
    BY <1>3, <1>5
  <2> QED
    BY <1>1, <2>1, <2>2, <2>3 DEF BILLION
<1>9. nsec \div THOUSAND \in Int /\ (nsec + BILLION) \div THOUSAND \in Int
  BY <1>1, <1>3, DivInt
<1>10. (Ns(x) - Ns(y)) \div THOUSAND = sec * MILLION + nsec \div THOUSAND
  <2>1. sec * BILLION + nsec = nsec + THOUSAND * (sec * MILLION)
    BY <1>1, <1>4, <1>5
  <2> QED
    BY <1>2, <1>5, <1>6, <1>9, <2>1
<1>11. (Ns(x) - Ns(y)) \div THOUSAND
         = (sec - 1) * MILLION + (nsec + BILLION) \div THOUSAND
  BY <1>5, <1>6, <1>7, <1>8, <1>9, <1>10
<1> QED
  BY <1>10, <1>11 DEF timespec_subtract_us, nsec, sec

\* The sign of the tardiness says on which side of the deadline a job ends,
\* and its size, in nanoseconds, is short of the distance by less than a
\* microsecond.
LEMMA TardinessFacts ==
    ASSUME NEW due \in Time, NEW end_time \in Nat,
           NEW tardiness, tardiness = timespec_subtract_us(due, Timespec(end_time))
    PROVE  /\ tardiness \in Int
           /\ tardiness >= 0 <=> end_time <= Ns(due)
           /\ tardiness > 0 => Slept(tardiness) > Ns(due) - end_time - THOUSAND
           /\ tardiness = 0 => end_time > Ns(due) - THOUSAND
<1> DEFINE d == Ns(due) - end_time
           rest == d % THOUSAND
<1>1. Ns(due) \in Nat
  <2>1. BILLION \in Nat
    BY UnitsAssumption DEF BILLION
  <2>2. due.tv_sec \in Nat /\ due.tv_nsec \in Nat
    BY <2>1 DEF Time
  <2>3. due.tv_sec * BILLION \in Nat
    BY <2>1, <2>2
  <2> QED
    BY <2>2, <2>3 DEF Ns
<1>2. d \in Int /\ THOUSAND \in Nat \ {0}
  BY <1>1, UnitsAssumption
<1>3. tardiness = d \div THOUSAND
  BY TimespecFacts, SubtractFacts
<1> HIDE DEF d
<1>4. tardiness \in Int /\ d = THOUSAND * tardiness + rest
  BY <1>2, <1>3, DivInt, DivMod
<1>5. rest \in 0 .. THOUSAND - 1
  BY <1>2
<1>6. tardiness >= 0 <=> d >= 0
  BY <1>2, <1>3
<1> HIDE DEF rest
<1>7. THOUSAND * tardiness \in Int /\ THOUSAND * tardiness = Slept(tardiness)
  BY <1>2, <1>4 DEF Slept
<1>8. Slept(tardiness) > d - THOUSAND
  BY <1>2, <1>4, <1>5, <1>7
<1>9. tardiness = 0 => Slept(tardiness) = 0
  BY <1>2 DEF Slept
<1> QED
  BY <1>1, <1>2, <1>4, <1>6, <1>8, <1>9 DEF d

\* The grid of periods is in natural numbers.
LEMMA GridType ==
    ASSUME TypeOK, NEW n \in Nat
    PROVE  Grid(n) \in Nat
<1>1. n * period \in Nat
  BY Figures
<1>2. (n * period) * THOUSAND \in Nat
  BY <1>1, UnitsAssumption
<1> QED
  BY <1>2, Figures DEF Grid

\* A new job has the next place of the grid for its deadline.
LEMMA NextDeadline ==
    ASSUME DeadlinesFit, TypeOK
    PROVE  Ns(DeadlineAt((num_releases + 1) * period)) = Grid(num_releases + 1)
<1> DEFINE offset == (num_releases + 1) * period
<1>1. /\ period \in Nat \ {0} /\ period \in Periods /\ runtime \in Nat
      /\ max_releases \in Nat /\ num_releases \in 0 .. max_releases
  BY Figures DEF TypeOK
<1>2. period * max_releases <= runtime
  <2>1. runtime = period * max_releases + (runtime % period)
    BY <1>1, DivMod DEF max_releases
  <2>2. runtime % period \in 0 .. period - 1
    BY <1>1, ModNat, Zenon
  <2>3. period * max_releases \in Nat
    BY <1>1
  <2> QED
    BY <1>1, <2>1, <2>2, <2>3
<1>3. offset \in Nat /\ offset <= runtime + period
  <2>1. num_releases * period <= max_releases * period
    BY <1>1
  <2>2. offset = num_releases * period + period
    BY <1>1
  <2>3. max_releases * period = period * max_releases
    BY <1>1
  <2>4. num_releases * period \in Nat /\ max_releases * period \in Nat
    BY <1>1
  <2> QED
    BY <1>1, <1>2, <2>1, <2>2, <2>3, <2>4
<1> HIDE DEF offset
<1>4. offset * THOUSAND <= (runtime + period) * THOUSAND
  BY <1>1, <1>3, UnitsAssumption
<1>5. (runtime + period) * THOUSAND < ULongSize
  BY <1>1 DEF DeadlinesFit, runtime
<1>6. offset * THOUSAND < ULongSize
  <2>1. offset * THOUSAND \in Nat /\ (runtime + period) * THOUSAND \in Nat
    BY <1>1, <1>3, UnitsAssumption
  <2> QED
    BY <1>4, <1>5, <2>1, UnitsAssumption
<1> QED
  BY <1>3, <1>6, DeadlineFacts DEF Grid, offset

\* The grid does not move.
LEMMA GridFixed ==
    ASSUME UNCHANGED given
    PROVE  \A n : Grid(n)' = Grid(n)
    BY DEF given, Grid

\* The deadline of a job stays on the grid until the job ends.
LEMMA DeadlineStep ==
    ASSUME DeadlinesFit
    PROVE  TypeOK /\ DeadlineOnGrid /\ [Next]_vars => DeadlineOnGrid'
<1> SUFFICES ASSUME TypeOK, DeadlineOnGrid, [Next]_vars PROVE DeadlineOnGrid'
  OBVIOUS
<1>1. UNCHANGED given
  BY GivenFixed
<1>2. CASE BeginJob
  <2>1. num_releases' = num_releases /\ deadline' = DeadlineAt((num_releases + 1) * period)
    BY <1>2 DEF BeginJob
  <2> QED
    BY <1>1, <2>1, NextDeadline, GridFixed DEF DeadlineOnGrid, Ns
<1>3. CASE EndJob \/ EndExtra \/ LeaveLoop
  BY <1>3 DEF EndJob, EndExtra, LeaveLoop, DeadlineOnGrid
<1>4. CASE ~(BeginJob \/ EndJob \/ EndExtra \/ LeaveLoop)
  <2>1. UNCHANGED <<num_releases, deadline>> /\ (pc' = pc \/ pc \notin {"loop", "done"})
    BY <1>4 DEF Next, Step, Abort, Finished, vars, job, SlopeLook, SlopeRest,
                TimerLook, TimerRest, Do, Goto, Piece, LastPiece, Return
  <2> QED
    BY <1>1, <2>1, GridFixed DEF DeadlineOnGrid, Ns
<1> QED
  BY <1>2, <1>3, <1>4

\* How a counted job ends, seen from its place on the grid.
LEMMA EndJobFacts ==
    ASSUME DeadlinesFit, TypeOK, DeadlineOnGrid, EndJob
    PROVE  /\ result'.outcome = "met" => result'.end_time <= Grid(num_releases')
           /\ result'.outcome = "late" => result'.end_time > Grid(num_releases')
           /\ result'.outcome # "aborted" => wall' > Grid(num_releases') - THOUSAND
<1>1. PICK d \in Durations :
        LET end_time == wall + d
            tardiness == timespec_subtract_us(deadline, Timespec(end_time))
        IN  /\ result' = [outcome |-> Outcome(tardiness), end_time |-> end_time]
            /\ IF Sleeps(tardiness)
               THEN \E o \in Oversleeps :
                      wall' = end_time + Slept(tardiness) + o
               ELSE wall' = end_time
  BY DEF EndJob
<1> DEFINE end_time == wall + d
           tardiness == timespec_subtract_us(deadline, Timespec(end_time))
           due == Grid(num_releases')
<1>2. end_time \in Nat
  BY TimesAssumption DEF TypeOK
<1>3. Ns(deadline) = due /\ due \in Nat
  <2>1. num_releases \in Nat /\ num_releases' = num_releases + 1
    BY Figures DEF EndJob, TypeOK
  <2> QED
    BY <2>1, GridType DEF EndJob, DeadlineOnGrid
<1>4. /\ tardiness \in Int
      /\ tardiness >= 0 <=> end_time <= due
      /\ tardiness > 0 => Slept(tardiness) > due - end_time - THOUSAND
      /\ tardiness = 0 => end_time > due - THOUSAND
  <2>1. deadline \in Time
    BY DEF TypeOK
  <2> HIDE DEF end_time, due
  <2> QED
    BY <1>2, <1>3, <2>1, TardinessFacts
<1>5. /\ result' = [outcome |-> Outcome(tardiness), end_time |-> end_time]
      /\ Sleeps(tardiness) => \E o \in Oversleeps : wall' = end_time + Slept(tardiness) + o
      /\ ~Sleeps(tardiness) => wall' = end_time
  BY <1>1
<1> HIDE DEF end_time, tardiness, due
<1>6. result'.outcome = "met" => result'.end_time <= due
  BY <1>4, <1>5 DEF Outcome
<1>7. result'.outcome = "late" => result'.end_time > due
  BY <1>2, <1>3, <1>4, <1>5 DEF Outcome
<1>8. result'.outcome # "aborted" => wall' > due - THOUSAND
  <2> SUFFICES ASSUME ~aborted PROVE wall' > due - THOUSAND
    BY <1>5 DEF Outcome
  <2>1. CASE tardiness > 0
    <3>1. PICK o \in Oversleeps : wall' = end_time + Slept(tardiness) + o
      BY <1>5, <2>1 DEF Sleeps
    <3>2. o \in Nat /\ Slept(tardiness) \in Int
      BY <1>4, TimesAssumption, UnitsAssumption DEF Slept
    <3> QED
      BY <1>2, <1>3, <1>4, <2>1, <3>1, <3>2, UnitsAssumption
  <2>2. CASE ~(tardiness > 0)
    <3>1. wall' = end_time
      BY <1>5, <2>2 DEF Sleeps
    <3> QED
      BY <1>2, <1>3, <1>4, <2>2, <3>1, UnitsAssumption
  <2> QED
    BY <2>1, <2>2
<1> QED
  BY <1>6, <1>7, <1>8 DEF due

\* What a step other than the end of a counted job leaves alone.
LEMMA ResultKept ==
    ASSUME [Next]_vars, ~EndJob
    PROVE  UNCHANGED <<result, num_releases, wall>> /\ (pc' = "loop" => pc = "loop")
    BY DEF Next, Step, Abort, Finished, vars, job, BeginJob, Enter, LeaveLoop,
           SlopeLook, SlopeRest, TimerLook, TimerRest, Do, Goto, Piece, LastPiece,
           Return, EndExtra

\* A counted job that was not aborted is met exactly if it ended no later than
\* its place on the grid of periods from the start time: no carry, borrow or
\* truncation of the time conversions shifts a deadline or lets a late job
\* pass; provided that the product of find_job_deadline does not wrap around.
THEOREM MetInTime == ASSUME DeadlinesFit PROVE Spec => []MetIffInTime
<1>1. Init => DeadlineOnGrid /\ MetIffInTime
  BY DEF Init, DeadlineOnGrid, MetIffInTime
<1>2. TypeOK /\ DeadlineOnGrid /\ MetIffInTime /\ [Next]_vars => MetIffInTime'
  <2> SUFFICES ASSUME TypeOK, DeadlineOnGrid, MetIffInTime, [Next]_vars
               PROVE  MetIffInTime'
    OBVIOUS
  <2>1. \A n : Grid(n)' = Grid(n)
    BY GivenFixed, GridFixed
  <2>2. CASE EndJob
    BY <2>1, <2>2, EndJobFacts DEF MetIffInTime
  <2>3. CASE ~EndJob
    BY <2>1, <2>3, ResultKept DEF MetIffInTime
  <2> QED
    BY <2>2, <2>3
<1> QED
  BY <1>1, <1>2, DeadlineStep, TypeCorrect, PTL DEF Spec

\* A job begins before its period does only after an aborted one: usleep()
\* takes a job in time to within a microsecond of its deadline.
THEOREM NoEarlyRelease == ASSUME DeadlinesFit PROVE Spec => []EarlyOnlyAfterAbort
<1>1. Init => DeadlineOnGrid /\ EarlyOnlyAfterAbort
  <2> SUFFICES ASSUME Init PROVE DeadlineOnGrid /\ EarlyOnlyAfterAbort
    OBVIOUS
  <2>1. period \in Nat /\ start \in Nat /\ THOUSAND \in Nat \ {0}
    BY TypeInit, Figures, UnitsAssumption
  <2>2. 0 * period * THOUSAND = 0
    BY <2>1
  <2>3. Grid(num_releases) = start
    BY <2>1, <2>2 DEF Grid, Init
  <2> QED
    BY <2>1, <2>3 DEF Init, DeadlineOnGrid, EarlyOnlyAfterAbort
<1>2. /\ TypeOK /\ DeadlineOnGrid /\ EarlyOnlyAfterAbort /\ [Next]_vars
      => EarlyOnlyAfterAbort'
  <2> SUFFICES ASSUME TypeOK, DeadlineOnGrid, EarlyOnlyAfterAbort, [Next]_vars
               PROVE  EarlyOnlyAfterAbort'
    OBVIOUS
  <2>1. \A n : Grid(n)' = Grid(n)
    BY GivenFixed, GridFixed
  <2>2. CASE EndJob
    BY <2>1, <2>2, EndJobFacts DEF EarlyOnlyAfterAbort
  <2>3. CASE ~EndJob
    BY <2>1, <2>3, ResultKept DEF EarlyOnlyAfterAbort
  <2> QED
    BY <2>2, <2>3
<1> QED
  BY <1>1, <1>2, DeadlineStep, TypeCorrect, PTL DEF Spec

=============================================================================
