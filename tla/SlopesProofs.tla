---------------------------- MODULE SlopesProofs ----------------------------
(***************************************************************************)
(* Proofs about Slopes, for any number of overlapping invocations of       *)
(* find_slopes, any workloads, samples and processors, and any deaths.     *)
(***************************************************************************)
EXTENDS Slopes, CommonLemmas, SequenceTheorems

USE DEF files

-----------------------------------------------------------------------------
(* The inductive invariant of the invalidators.                            *)

\* Where the flags of an invalidator and its thread may be: never created or
\* gone; created; loading its processor; told to stop.
Idle(inv) == inv.state \in {"none", "returned"}
Loading(inv) == inv.state = "working" /\ inv.started = 1 /\ inv.done = 0
Starting(inv) ==
    /\ inv.state \in {"created", "working"} /\ inv.done = 0
    /\ inv.started = IF inv.state = "created" THEN 0 ELSE 1
Stopping(inv) == inv.state \in {"working", "returned"} /\ inv.done = 1

\* From the first thread created to the last one joined.
InRound(g) == pc[g] \in {"launch", "await", "measure", "stop", "join"}

\* start_invalidators goes up through them and stop_invalidators too; between
\* the rounds none is left.
RoundInOrder(g) ==
    \A i \in Invalidator :
        LET inv == invalidator[g][i]
            n == inv_num[g]
        IN  /\ pc[g] = "launch"  => IF i < n THEN Loading(inv) ELSE Idle(inv)
            /\ pc[g] = "await"   => /\ i < n => Loading(inv)
                                    /\ i = n => Starting(inv)
                                    /\ i > n => Idle(inv)
            /\ pc[g] = "measure" => Loading(inv)
            /\ pc[g] = "stop"    => IF i < n THEN Idle(inv) ELSE Loading(inv)
            /\ pc[g] = "join"    => /\ i < n => Idle(inv)
                                    /\ i = n => Stopping(inv)
                                    /\ i > n => Loading(inv)
            /\ ~InRound(g)       => Idle(inv)

\* In a loop over the invalidators there is one to go, and the workload data
\* lives from before the first round until after the last.
RoundInData(g) ==
    /\ pc[g] \in {"launch", "await", "stop", "join"} => inv_num[g] < active_invalidators
    /\ InRound(g) => data_live[g]
    /\ pc[g] = "measured" => data_live[g]

-----------------------------------------------------------------------------
(* The inductive invariant of the files.                                   *)

\* Between check_slopes and its last PutSlope a process is at a workload.
AtWorkload(g) ==
    pc[g] \notin {"idle", "check", "done", "killed"} => todo[g] # <<>>

\* The last one to clear the file of w, as far as it has come.
WrittenBy(g, w) ==
    /\ Rewriting(g, w)
    /\ \A i \in SamplesOf(w) : i < sample[g] =>
           TargetWss(w, SampleWss(w, i)) \in Sizes(slope_file[<<w, "average">>])

\* The size of the first sample, the least of all; a file without a line for it
\* has been emptied under those that write it.
FirstSize(w) == TargetWss(w, SampleWss(w, 0))
FirstMissing(w) == FirstSize(w) \notin Sizes(slope_file[<<w, "average">>])

\* Some process that rewrites the file has all its lines in it so far, or the
\* file has all, or nobody has touched it, or the process that has emptied it
\* will find no slope in it and rewrite it.
FileKept(w) ==
    \/ \E g \in Gen : WrittenBy(g, w)
    \/ Complete(w)
    \/ slope_file[<<w, "average">>] = <<>> /\ \A g \in Gen : ~Rewriting(g, w)
    \/ FirstMissing(w) /\ \E g \in Gen : Pending(g, w)

\* Every line is one for a sample.
FromFirst(w) ==
    \A s \in Sizes(slope_file[<<w, "average">>]) : FirstSize(w) <= s

Local(g) == RoundInOrder(g) /\ RoundInData(g) /\ AtWorkload(g)

Inv ==
    /\ TypeOK /\ \A g \in Gen : Local(g)
    /\ \A w \in Workload : FileKept(w) /\ FromFirst(w)

-----------------------------------------------------------------------------
(* The types.                                                              *)

Label == {"idle", "check", "create", "created", "clear", "init_data", "launch", "await", "measure", "stop",
          "join", "measured", "put", "done", "killed", "killed_writing"}

Thread == [state : {"none", "created", "working", "returned"},
           started : {0, 1}, done : {0, 1}]

\* TypeOK in these words.
LEMMA TypeParts ==
    TypeOK <=> /\ slope_file \in [Filename -> Seq(Line)]
               /\ exists \in [Filename -> BOOLEAN]
               /\ pc \in [Gen -> Label]
               /\ force \in [Gen -> BOOLEAN]
               /\ todo \in [Gen -> Seq(Workload)]
               /\ sample \in [Gen -> 0 .. WssSamples - 1]
               /\ run \in [Gen -> 0 .. Iterations]
               /\ inv_num \in [Gen -> 0 .. active_invalidators]
               /\ data_live \in [Gen -> BOOLEAN]
               /\ invalidator \in [Gen -> [Invalidator -> Thread]]
BY DEF TypeOK, Label, Thread

\* Every processor but the last may have an invalidator.
LEMMA ActiveNat ==
    /\ active_invalidators \in Nat
    /\ active_invalidators <= Cpus - 1
    /\ Invalidator \subseteq Nat
    /\ Invalidator = 0 .. active_invalidators - 1
BY MeasuringAssumption DEF active_invalidators, Invalidator

\* A workload has a first sample and its sizes are natural numbers.
LEMMA SamplesNat ==
    ASSUME NEW w \in Workload, NEW i \in 0 .. WssSamples - 1
    PROVE  /\ TargetWss(w, SampleWss(w, i)) \in Nat
           /\ SamplesOf(w) \subseteq 0 .. WssSamples - 1
<1> DEFINE d == MaxWss[w] - MinWss[w]
<1>1. SamplesOf(w) \subseteq 0 .. WssSamples - 1
  BY MeasuringAssumption DEF SamplesOf
<1>2. CASE w \in NoVariation
  BY <1>1, <1>2 DEF TargetWss
<1>3. CASE w \notin NoVariation
  <2>1. MinWss[w] \in Nat /\ d \in Nat
    BY <1>3, WorkloadsAssumption
  <2> HIDE DEF d
  <2>2. i * d \in Nat
    BY <2>1
  <2>3. (i * d) \div WssSamples \in Nat
    BY <2>2, DivNat, MeasuringAssumption
  <2>4. SampleWss(w, i) = MinWss[w] + ((i * d) \div WssSamples)
    BY DEF SampleWss, d
  <2> QED
    BY <1>1, <1>3, <2>1, <2>3, <2>4 DEF TargetWss
<1> QED
  BY <1>2, <1>3

\* What put_workload_slope leaves is a slope file.
LEMMA LinePut ==
    ASSUME NEW w \in Workload, NEW i \in 0 .. WssSamples - 1, NEW average \in Slope,
           NEW file \in Seq(Line)
    PROVE  /\ put_workload_slope(file, w, SampleWss(w, i), average) \in Seq(Line)
           /\ Sizes(put_workload_slope(file, w, SampleWss(w, i), average)) =
                Sizes(file) \cup {TargetWss(w, SampleWss(w, i))}
<1> DEFINE wss == TargetWss(w, SampleWss(w, i))
           line == [wss |-> wss, slope |-> average]
           new == Append(file, line)
<1>1. wss \in Nat
  BY SamplesNat
<1> HIDE DEF wss
<1>2. line \in Line /\ line.wss = wss
  BY <1>1 DEF Line
<1> HIDE DEF line
<1>3. /\ new \in Seq(Line) /\ Len(file) \in Nat /\ Len(new) = Len(file) + 1
      /\ DOMAIN file = 1 .. Len(file) /\ DOMAIN new = 1 .. Len(new)
      /\ \A k \in 1 .. Len(file) : new[k] = file[k]
      /\ new[Len(file) + 1] = line
  BY <1>2, AppendProperties, LenProperties
<1>4. DOMAIN new = DOMAIN file \cup {Len(file) + 1}
  BY <1>3
<1> HIDE DEF new
<1>5. Sizes(new) = Sizes(file) \cup {wss}
  <2>1. ASSUME NEW x \in Sizes(new) PROVE x \in Sizes(file) \cup {wss}
    <3>1. PICK k \in DOMAIN new : x = new[k].wss
      BY <2>1 DEF Sizes
    <3>2. CASE k \in DOMAIN file
      BY <1>3, <3>1, <3>2 DEF Sizes
    <3>3. CASE k = Len(file) + 1
      BY <1>2, <1>3, <3>1, <3>3
    <3> QED
      BY <1>4, <3>1, <3>2, <3>3
  <2>2. ASSUME NEW k \in DOMAIN file PROVE file[k].wss \in Sizes(new)
    <3>1. k \in DOMAIN new /\ new[k] = file[k]
      BY <1>3, <1>4
    <3> QED
      BY <3>1 DEF Sizes
  <2>3. wss \in Sizes(new)
    <3>1. Len(file) + 1 \in DOMAIN new /\ new[Len(file) + 1].wss = wss
      BY <1>2, <1>3, <1>4
    <3> QED
      BY <3>1 DEF Sizes
  <2> QED
    BY <2>1, <2>2, <2>3 DEF Sizes
<1> QED
  BY <1>3, <1>5 DEF put_workload_slope, new, line, wss

\* The loop over workloads takes them one after the other.
LEMMA HeadTail ==
    ASSUME NEW ws \in Seq(Workload), ws # <<>>
    PROVE  Head(ws) \in Workload /\ Tail(ws) \in Seq(Workload) /\ <<Head(ws)>> \in Seq(Workload)
           /\ Head(<<Head(ws)>>) = Head(ws) /\ <<Head(ws)>> # <<>>
BY HeadTailProperties

\* One thread of one process changes.
LEMMA ThreadChanged ==
    ASSUME invalidator \in [Gen -> [Invalidator -> Thread]],
           NEW g \in Gen, NEW i \in Invalidator, NEW inv \in Thread,
           invalidator' = [invalidator EXCEPT ![g][i] = inv]
    PROVE  /\ invalidator' \in [Gen -> [Invalidator -> Thread]]
           /\ invalidator'[g][i] = inv
           /\ \A k \in Invalidator : k # i => invalidator'[g][k] = invalidator[g][k]
           /\ \A h \in Gen : h # g => invalidator'[h] = invalidator[h]
OBVIOUS

\* How the flags of a thread change.
LEMMA FlagsChanged ==
    ASSUME NEW inv \in Thread
    PROVE  /\ Created(inv) \in Thread /\ Starting(Created(inv))
           /\ [inv EXCEPT !.done = 1] \in Thread
           /\ Loading(inv) => Stopping([inv EXCEPT !.done = 1])
           /\ [inv EXCEPT !.state = "returned"] \in Thread
           /\ Stopping(inv) => Stopping([inv EXCEPT !.state = "returned"])
           /\ [[inv EXCEPT !.state = "working"] EXCEPT !.started = 1] \in Thread
           /\ Starting(inv) => Starting([[inv EXCEPT !.state = "working"] EXCEPT !.started = 1])
<1>1. Created(inv) \in Thread /\ Starting(Created(inv))
  BY DEF Created, Thread, Starting
<1>2. [inv EXCEPT !.done = 1] \in Thread /\ (Loading(inv) => Stopping([inv EXCEPT !.done = 1]))
  BY DEF Thread, Loading, Stopping
<1>3. /\ [inv EXCEPT !.state = "returned"] \in Thread
      /\ Stopping(inv) => Stopping([inv EXCEPT !.state = "returned"])
  BY DEF Thread, Stopping
<1> DEFINE working == [inv EXCEPT !.state = "working"]
<1>4. working \in Thread /\ working.state = "working" /\ working.done = inv.done
  BY DEF Thread
<1> HIDE DEF working
<1>5. [working EXCEPT !.started = 1] \in Thread
  BY <1>4 DEF Thread
<1>6. Starting(inv) => Starting([working EXCEPT !.started = 1])
  BY <1>4 DEF Thread, Starting
<1> QED
  BY <1>1, <1>2, <1>3, <1>5, <1>6 DEF working

\* The steps that concern one thread, in the terms of ThreadChanged.
LEMMA ThreadSteps ==
    ASSUME invalidator \in [Gen -> [Invalidator -> Thread]],
           NEW g \in Gen, NEW i \in Invalidator
    PROVE  /\ InvalidatorStarts(g, i) =>
                invalidator' = [invalidator EXCEPT ![g][i] =
                    [[invalidator[g][i] EXCEPT !.state = "working"] EXCEPT !.started = 1]]
           /\ InvalidatorReturns(g, i) =>
                invalidator' = [invalidator EXCEPT ![g][i] =
                    [invalidator[g][i] EXCEPT !.state = "returned"]]
<1>1. ASSUME InvalidatorStarts(g, i)
      PROVE  invalidator' = [invalidator EXCEPT ![g][i] =
                 [[invalidator[g][i] EXCEPT !.state = "working"] EXCEPT !.started = 1]]
  <2> DEFINE working == [invalidator EXCEPT ![g][i] =
                            [invalidator[g][i] EXCEPT !.state = "working"]]
  <2>1. invalidator' = [working EXCEPT ![g][i] = [working[g][i] EXCEPT !.started = 1]]
    BY <1>1 DEF InvalidatorStarts
  <2>2. working[g][i] = [invalidator[g][i] EXCEPT !.state = "working"]
    OBVIOUS
  <2>3. \A inv : [working EXCEPT ![g][i] = inv] = [invalidator EXCEPT ![g][i] = inv]
    OBVIOUS
  <2> HIDE DEF working
  <2> QED
    BY <2>1, <2>2, <2>3, Zenon
<1>2. ASSUME InvalidatorReturns(g, i)
      PROVE  invalidator' = [invalidator EXCEPT ![g][i] =
                 [invalidator[g][i] EXCEPT !.state = "returned"]]
  BY <1>2 DEF InvalidatorReturns
<1> QED
  BY <1>1, <1>2, Zenon

\* The steps of find_slopes and of its threads keep the types.
LEMMA StepTypes ==
    ASSUME TypeOK, NEW g \in Gen, AtWorkload(g), RoundInData(g),
           GenStep(g) \/ \E i \in Invalidator : InvalidatorStep(g, i)
    PROVE  TypeOK'
<1>1. /\ slope_file \in [Filename -> Seq(Line)]
      /\ exists \in [Filename -> BOOLEAN]
      /\ pc \in [Gen -> Label]
      /\ force \in [Gen -> BOOLEAN]
      /\ todo \in [Gen -> Seq(Workload)]
      /\ sample \in [Gen -> 0 .. WssSamples - 1]
      /\ run \in [Gen -> 0 .. Iterations]
      /\ inv_num \in [Gen -> 0 .. active_invalidators]
      /\ data_live \in [Gen -> BOOLEAN]
      /\ invalidator \in [Gen -> [Invalidator -> Thread]]
  BY TypeParts
<1>2. /\ 0 \in 0 .. WssSamples - 1 /\ 0 \in 0 .. active_invalidators /\ 0 \in 0 .. Iterations
      /\ \A n \in 0 .. active_invalidators : AfterStarting(n) \in Label /\ AfterStopping(n) \in Label
  BY ActiveNat, MeasuringAssumption DEF AfterStarting, AfterStopping, Label
<1>3. SUFFICES /\ slope_file' \in [Filename -> Seq(Line)]
               /\ exists' \in [Filename -> BOOLEAN]
               /\ pc' \in [Gen -> Label]
               /\ force' \in [Gen -> BOOLEAN]
               /\ todo' \in [Gen -> Seq(Workload)]
               /\ sample' \in [Gen -> 0 .. WssSamples - 1]
               /\ run' \in [Gen -> 0 .. Iterations]
               /\ inv_num' \in [Gen -> 0 .. active_invalidators]
               /\ data_live' \in [Gen -> BOOLEAN]
               /\ invalidator' \in [Gen -> [Invalidator -> Thread]]
  BY DEF TypeOK, Label, Thread, active_invalidators, Invalidator, Filename, Line
<1>4. ASSUME NEW label \in Label, Goto(g, label) PROVE pc' \in [Gen -> Label]
  BY <1>1, <1>4 DEF Goto
<1>5. CASE check_slopes(g)
  <2>1. todo[g] \in Seq(Workload) /\ todo[g] # <<>>
    BY <1>1, <1>5 DEF check_slopes, At, AtWorkload
  <2>2. Tail(todo[g]) \in Seq(Workload)
    BY <2>1, HeadTail
  <2>3. PICK update \in BOOLEAN :
          /\ todo' = [todo EXCEPT ![g] = IF update THEN todo[g] ELSE Tail(todo[g])]
          /\ Goto(g, IF update THEN "clear" ELSE "check")
    BY <1>5 DEF check_slopes
  <2>4. todo' \in [Gen -> Seq(Workload)]
    BY <1>1, <2>1, <2>2, <2>3
  <2>5. pc' \in [Gen -> Label]
    BY <1>4, <2>3 DEF Label
  <2> QED
    BY <1>1, <1>5, <2>4, <2>5 DEF check_slopes, loops
<1>15. CASE FileMissing(g) \/ CreateFile(g)
  <2>1. pc' \in [Gen -> Label]
    BY <1>4, <1>15 DEF FileMissing, CreateFile, Label
  <2>2. CASE FileMissing(g)
    BY <1>1, <2>1, <2>2 DEF FileMissing, loops
  <2>3. CASE CreateFile(g)
    <3>1. <<>> \in Seq(Line)
      OBVIOUS
    <3>2. slope_file' \in [Filename -> Seq(Line)] /\ exists' \in [Filename -> BOOLEAN]
      BY <1>1, <2>3, <3>1 DEF CreateFile
    <3> QED
      BY <1>1, <2>1, <2>3, <3>2 DEF CreateFile, loops
  <2> QED
    BY <1>15, <2>2, <2>3
<1>6. CASE ClearSlopes(g)
  <2>1. slope_file' \in [Filename -> Seq(Line)]
    <3>1. slope_file' = [slope_file EXCEPT ![FileOf(g)] = <<>>] /\ <<>> \in Seq(Line)
      BY <1>6 DEF ClearSlopes, clear_workload_slope
    <3> QED
      BY <1>1, <3>1
  <2>2. sample' \in [Gen -> 0 .. WssSamples - 1]
    BY <1>1, <1>2, <1>6 DEF ClearSlopes
  <2>3. pc' \in [Gen -> Label]
    BY <1>4, <1>6 DEF ClearSlopes, Label
  <2> QED
    BY <1>1, <1>6, <2>1, <2>2, <2>3 DEF ClearSlopes
<1>7. CASE PutSlope(g)
  <2> DEFINE w == Head(todo[g])
  <2>1. todo[g] \in Seq(Workload) /\ todo[g] # <<>> /\ sample[g] \in 0 .. WssSamples - 1
    BY <1>1, <1>7 DEF PutSlope, At, AtWorkload
  <2>2. w \in Workload /\ Tail(todo[g]) \in Seq(Workload)
    BY <2>1, HeadTail
  <2>3. PICK average \in Slope :
          slope_file' = [slope_file EXCEPT ![FileOf(g)] =
              put_workload_slope(slope_file[FileOf(g)], w, SampleWss(w, sample[g]), average)]
    BY <1>7 DEF PutSlope
  <2>4. FileOf(g) \in Filename
    BY <2>2 DEF FileOf, Filename
  <2>5. put_workload_slope(slope_file[FileOf(g)], w, SampleWss(w, sample[g]), average) \in Seq(Line)
    BY <1>1, <2>1, <2>2, <2>4, LinePut
  <2>6. slope_file' \in [Filename -> Seq(Line)]
    BY <1>1, <2>3, <2>5
  <2>7. \/ /\ todo' = [todo EXCEPT ![g] = Tail(todo[g])]
           /\ Goto(g, "check") /\ UNCHANGED sample
        \/ /\ ~LastSample(w, sample[g])
           /\ sample' = [sample EXCEPT ![g] = sample[g] + 1]
           /\ Goto(g, "init_data") /\ UNCHANGED todo
    BY <1>7 DEF PutSlope
  <2>8. ~LastSample(w, sample[g]) => sample[g] + 1 \in 0 .. WssSamples - 1
    BY <2>1, MeasuringAssumption DEF LastSample
  <2>9. todo' \in [Gen -> Seq(Workload)] /\ sample' \in [Gen -> 0 .. WssSamples - 1]
    BY <1>1, <2>2, <2>7, <2>8
  <2>10. pc' \in [Gen -> Label]
    BY <1>4, <2>7 DEF Label
  <2> QED
    BY <1>1, <1>7, <2>6, <2>9, <2>10 DEF PutSlope
<1>8. CASE Exit(g)
  <2>1. pc' \in [Gen -> Label]
    BY <1>4, <1>8 DEF Exit, Label
  <2> QED
    BY <1>1, <1>8, <2>1 DEF Exit, loops
<1>9. CASE InitData(g) \/ measure_run(g) \/ CleanupData(g)
  <2>1. pc' \in [Gen -> Label]
    BY <1>2, <1>4, <1>9 DEF InitData, measure_run, CleanupData, Label
  <2>2. /\ data_live' \in [Gen -> BOOLEAN] /\ run' \in [Gen -> 0 .. Iterations]
        /\ inv_num' \in [Gen -> 0 .. active_invalidators]
    <3>1. CASE InitData(g)
      BY <1>1, <1>2, <3>1 DEF InitData, loops
    <3>2. CASE measure_run(g)
      BY <1>1, <1>2, <3>2 DEF measure_run, loops
    <3>3. CASE CleanupData(g)
      BY <1>1, <1>2, <3>3 DEF CleanupData, loops
    <3> QED
      BY <1>9, <3>1, <3>2, <3>3
  <2> QED
    BY <1>1, <1>9, <2>1, <2>2 DEF InitData, measure_run, CleanupData, loops
<1>10. CASE NextRun(g)
  <2>1. pc' \in [Gen -> Label]
    BY <1>2, <1>4, <1>10 DEF NextRun
  <2>2. run[g] + 1 \in 0 .. Iterations
    BY <1>1, <1>10, MeasuringAssumption DEF NextRun
  <2>3. run' \in [Gen -> 0 .. Iterations] /\ inv_num' \in [Gen -> 0 .. active_invalidators]
    BY <1>1, <1>2, <1>10, <2>2 DEF NextRun
  <2> QED
    BY <1>1, <1>10, <2>1, <2>3 DEF NextRun
<1>11. CASE AwaitInvalidator(g) \/ JoinInvalidator(g)
  <2>1. inv_num[g] + 1 \in 0 .. active_invalidators
    BY <1>1, <1>11, ActiveNat DEF AwaitInvalidator, JoinInvalidator, At, RoundInData
  <2>2. pc' \in [Gen -> Label]
    BY <1>2, <1>4, <1>11, <2>1 DEF AwaitInvalidator, JoinInvalidator
  <2>3. inv_num' \in [Gen -> 0 .. active_invalidators]
    BY <1>1, <1>11, <2>1 DEF AwaitInvalidator, JoinInvalidator
  <2> QED
    BY <1>1, <1>11, <2>2, <2>3 DEF AwaitInvalidator, JoinInvalidator
<1>12. \A i \in Invalidator : invalidator[g][i] \in Thread
  BY <1>1
<1>13. CASE StartInvalidator(g) \/ StopInvalidator(g)
  <2>1. inv_num[g] \in Invalidator
    BY <1>1, <1>13, ActiveNat DEF StartInvalidator, StopInvalidator, At, RoundInData
  <2>2. pc' \in [Gen -> Label]
    BY <1>4, <1>13 DEF StartInvalidator, StopInvalidator, Label
  <2>3. PICK inv \in Thread : invalidator' = [invalidator EXCEPT ![g][inv_num[g]] = inv]
    <3>1. CASE StartInvalidator(g)
      <4>1. invalidator' = [invalidator EXCEPT ![g][inv_num[g]] =
                                Created(invalidator[g][inv_num[g]])]
        BY <3>1 DEF StartInvalidator
      <4> QED
        BY <1>12, <2>1, <4>1, FlagsChanged
    <3>2. CASE StopInvalidator(g)
      <4>1. invalidator' = [invalidator EXCEPT ![g][inv_num[g]] =
                                [invalidator[g][inv_num[g]] EXCEPT !.done = 1]]
        BY <3>2 DEF StopInvalidator
      <4> QED
        BY <1>12, <2>1, <4>1, FlagsChanged
    <3> QED
      BY <1>13, <3>1, <3>2
  <2>4. invalidator' \in [Gen -> [Invalidator -> Thread]]
    BY <1>1, <2>1, <2>3, ThreadChanged
  <2> QED
    BY <1>1, <1>13, <2>2, <2>4 DEF StartInvalidator, StopInvalidator, loops
<1>14. ASSUME NEW i \in Invalidator, InvalidatorStep(g, i)
       PROVE  /\ invalidator' \in [Gen -> [Invalidator -> Thread]]
              /\ UNCHANGED <<files, pc, force, todo, loops, data_live>>
  <2>1. PICK inv \in Thread : invalidator' = [invalidator EXCEPT ![g][i] = inv]
    <3>1. invalidator[g][i] \in Thread
      BY <1>12
    <3>2. CASE InvalidatorStarts(g, i)
      <4> DEFINE inv == [[invalidator[g][i] EXCEPT !.state = "working"] EXCEPT !.started = 1]
      <4>1. inv \in Thread
        BY <3>1, FlagsChanged
      <4>2. invalidator' = [invalidator EXCEPT ![g][i] = inv]
        BY <1>1, <3>2, ThreadSteps, Zenon
      <4> HIDE DEF inv
      <4> QED
        BY <4>1, <4>2, Zenon
    <3>3. CASE InvalidatorReturns(g, i)
      <4> DEFINE inv == [invalidator[g][i] EXCEPT !.state = "returned"]
      <4>1. inv \in Thread
        BY <3>1, FlagsChanged
      <4>2. invalidator' = [invalidator EXCEPT ![g][i] = inv]
        BY <1>1, <3>3, ThreadSteps, Zenon
      <4> HIDE DEF inv
      <4> QED
        BY <4>1, <4>2, Zenon
    <3> QED
      BY <1>14, <3>2, <3>3, Zenon DEF InvalidatorStep
  <2>2. invalidator' \in [Gen -> [Invalidator -> Thread]]
    BY <1>1, <2>1, ThreadChanged
  <2> QED
    BY <1>14, <2>2 DEF InvalidatorStep, InvalidatorStarts, InvalidatorReturns
<1> QED
  BY <1>1, <1>5, <1>6, <1>7, <1>8, <1>9, <1>10, <1>11, <1>13, <1>14, <1>15
     DEF GenStep, loops

\* So do the start of an invocation and its death.
LEMMA OutsideTypes ==
    ASSUME TypeOK, NEW g \in Gen, Start(g) \/ Die(g)
    PROVE  TypeOK'
<1>1. /\ slope_file \in [Filename -> Seq(Line)]
      /\ exists \in [Filename -> BOOLEAN]
      /\ pc \in [Gen -> Label]
      /\ force \in [Gen -> BOOLEAN]
      /\ todo \in [Gen -> Seq(Workload)]
      /\ sample \in [Gen -> 0 .. WssSamples - 1]
      /\ run \in [Gen -> 0 .. Iterations]
      /\ inv_num \in [Gen -> 0 .. active_invalidators]
      /\ data_live \in [Gen -> BOOLEAN]
      /\ invalidator \in [Gen -> [Invalidator -> Thread]]
  BY TypeParts
<1>2. /\ 0 \in 0 .. WssSamples - 1 /\ 0 \in 0 .. active_invalidators /\ 0 \in 0 .. Iterations
      /\ NoInvalidators \in [Invalidator -> Thread]
  BY ActiveNat, MeasuringAssumption DEF NoInvalidators, Thread
<1>3. SUFFICES /\ slope_file' \in [Filename -> Seq(Line)]
               /\ exists' \in [Filename -> BOOLEAN]
               /\ pc' \in [Gen -> Label]
               /\ force' \in [Gen -> BOOLEAN]
               /\ todo' \in [Gen -> Seq(Workload)]
               /\ sample' \in [Gen -> 0 .. WssSamples - 1]
               /\ run' \in [Gen -> 0 .. Iterations]
               /\ inv_num' \in [Gen -> 0 .. active_invalidators]
               /\ data_live' \in [Gen -> BOOLEAN]
               /\ invalidator' \in [Gen -> [Invalidator -> Thread]]
  BY DEF TypeOK, Label, Thread, active_invalidators, Invalidator, Filename, Line
<1>4. CASE Start(g)
  <2>1. \A w \in Workload : <<w>> \in Seq(Workload)
    OBVIOUS
  <2>2. PICK ws \in Seq(Workload) : todo' = [todo EXCEPT ![g] = ws]
    BY <1>4, <2>1, WorkloadsAssumption DEF Start
  <2>3. pc' \in [Gen -> Label] /\ force' \in [Gen -> BOOLEAN]
    BY <1>1, <1>4 DEF Start, Goto, Label
  <2> QED
    BY <1>1, <1>4, <2>2, <2>3 DEF Start, loops
<1>5. CASE Die(g)
  <2>1. todo' \in [Gen -> Seq(Workload)]
    <3>1. CASE \E w \in Workload : Rewriting(g, w) \/ Pending(g, w)
      <4>1. todo[g] \in Seq(Workload) /\ todo[g] # <<>>
        BY <1>1, <3>1 DEF Rewriting, Pending
      <4>2. <<Head(todo[g])>> \in Seq(Workload)
        BY <4>1, HeadTail
      <4>3. todo' = [todo EXCEPT ![g] = <<Head(todo[g])>>]
        BY <1>5, <3>1 DEF Die
      <4> QED
        BY <1>1, <4>2, <4>3
    <3>2. CASE ~\E w \in Workload : Rewriting(g, w) \/ Pending(g, w)
      <4>1. todo' = [todo EXCEPT ![g] = <<>>] /\ <<>> \in Seq(Workload)
        BY <1>5, <3>2 DEF Die
      <4> QED
        BY <1>1, <4>1
    <3> QED
      BY <3>1, <3>2
  <2>2. Goto(g, "killed_writing") \/ Goto(g, "killed")
    BY <1>5 DEF Die
  <2>3. pc' \in [Gen -> Label]
    BY <1>1, <2>2 DEF Goto, Label
  <2>4. /\ force' \in [Gen -> BOOLEAN] /\ data_live' \in [Gen -> BOOLEAN]
        /\ sample' \in [Gen -> 0 .. WssSamples - 1] /\ run' \in [Gen -> 0 .. Iterations]
        /\ inv_num' \in [Gen -> 0 .. active_invalidators]
    BY <1>1, <1>2, <1>5 DEF Die
  <2>5. invalidator' \in [Gen -> [Invalidator -> Thread]]
    BY <1>1, <1>2, <1>5 DEF Die
  <2> QED
    BY <1>1, <1>5, <2>1, <2>3, <2>4, <2>5 DEF Die
<1> QED
  BY <1>4, <1>5

-----------------------------------------------------------------------------
(* The rounds of the invalidators.                                         *)

\* What concerns one process only does not depend on the others.
LEMMA LocalKept ==
    ASSUME NEW h \in Gen, Local(h), pc'[h] = pc[h], inv_num'[h] = inv_num[h],
           invalidator'[h] = invalidator[h], data_live'[h] = data_live[h],
           todo'[h] = todo[h]
    PROVE  Local(h)'
<1>1. RoundInOrder(h)'
  BY DEF Local, RoundInOrder, InRound, Idle, Loading, Starting, Stopping,
     Invalidator, active_invalidators
<1>2. RoundInData(h)' /\ AtWorkload(h)'
  BY DEF Local, RoundInData, InRound, AtWorkload, active_invalidators
<1> QED
  BY <1>1, <1>2 DEF Local

\* A step of one process changes nothing of another.
LEMMA OthersKept ==
    ASSUME TypeOK, NEW g \in Gen, NEW h \in Gen, h # g,
           \/ GenStep(g) \/ Start(g) \/ Die(g)
           \/ \E i \in Invalidator : InvalidatorStep(g, i)
    PROVE  /\ pc'[h] = pc[h] /\ inv_num'[h] = inv_num[h]
           /\ invalidator'[h] = invalidator[h] /\ data_live'[h] = data_live[h]
           /\ todo'[h] = todo[h] /\ sample'[h] = sample[h]
<1>1. ASSUME NEW label, Goto(g, label) PROVE pc'[h] = pc[h]
  BY <1>1, TypeParts DEF Goto
<1>2. pc'[h] = pc[h]
  BY <1>1 DEF GenStep, Start, Die, InvalidatorStep, FileMissing, CreateFile, check_slopes, ClearSlopes, PutSlope,
     Exit, InitData, measure_run, NextRun, CleanupData, StartInvalidator,
     AwaitInvalidator, StopInvalidator, JoinInvalidator, InvalidatorStarts,
     InvalidatorReturns
<1>3. /\ inv_num'[h] = inv_num[h] /\ data_live'[h] = data_live[h]
      /\ sample'[h] = sample[h]
  BY TypeParts DEF GenStep, Start, Die, InvalidatorStep, FileMissing, CreateFile, check_slopes, ClearSlopes,
     PutSlope, Exit, InitData, measure_run, NextRun, CleanupData, StartInvalidator,
     AwaitInvalidator, StopInvalidator, JoinInvalidator, InvalidatorStarts,
     InvalidatorReturns, loops
<1>4. todo'[h] = todo[h]
  <2>1. ASSUME NEW ws, todo' = [todo EXCEPT ![g] = ws] PROVE todo'[h] = todo[h]
    BY <2>1, TypeParts
  <2>2. CASE check_slopes(g)
    BY <2>1, <2>2, Zenon DEF check_slopes
  <2>3. CASE PutSlope(g)
    BY <2>1, <2>3, Zenon DEF PutSlope
  <2>4. CASE Start(g)
    BY <2>1, <2>4, Zenon DEF Start
  <2>5. CASE Die(g)
    BY <2>1, <2>5, Zenon DEF Die
  <2> QED
    BY <2>2, <2>3, <2>4, <2>5 DEF GenStep, InvalidatorStep, FileMissing, CreateFile, ClearSlopes,
       Exit, InitData, measure_run, NextRun, CleanupData, StartInvalidator, AwaitInvalidator,
       StopInvalidator, JoinInvalidator, InvalidatorStarts, InvalidatorReturns
<1>5. invalidator'[h] = invalidator[h]
  BY TypeParts DEF GenStep, Start, Die, InvalidatorStep, FileMissing, CreateFile, check_slopes, ClearSlopes,
     PutSlope, Exit, InitData, measure_run, NextRun, CleanupData, StartInvalidator,
     AwaitInvalidator, StopInvalidator, JoinInvalidator, InvalidatorStarts,
     InvalidatorReturns
<1> QED
  BY <1>2, <1>3, <1>4, <1>5

\* Steps that leave the threads alone and are taken outside a round.
LEMMA OutsideRound ==
    ASSUME TypeOK, NEW g \in Gen, Local(g), ~InRound(g), ~InRound(g)',
           UNCHANGED invalidator, pc'[g] # "measured" \/ data_live'[g], AtWorkload(g)'
    PROVE  Local(g)'
<1>1. \A i \in Invalidator : Idle(invalidator[g][i])
  BY DEF Local, RoundInOrder
<1>2. RoundInOrder(g)'
  BY <1>1 DEF RoundInOrder, InRound, Idle, Invalidator, active_invalidators
<1>3. RoundInData(g)'
  BY DEF RoundInData, InRound
<1> QED
  BY <1>2, <1>3 DEF Local

\* The loops over workloads, samples and runs.
LEMMA SlopesStep ==
    ASSUME TypeOK, NEW g \in Gen, Local(g),
           \/ FileMissing(g) \/ CreateFile(g) \/ check_slopes(g) \/ ClearSlopes(g)
           \/ PutSlope(g) \/ Exit(g) \/ CleanupData(g)
    PROVE  Local(g)'
<1>1. /\ pc \in [Gen -> Label] /\ todo \in [Gen -> Seq(Workload)]
      /\ \A label : Goto(g, label) => pc'[g] = label
  BY TypeParts DEF Goto
<1>2. CASE check_slopes(g)
  <2>1. PICK update \in BOOLEAN :
          /\ todo' = [todo EXCEPT ![g] = IF update THEN todo[g] ELSE Tail(todo[g])]
          /\ Goto(g, IF update THEN "clear" ELSE "check")
    BY <1>2 DEF check_slopes
  <2>4. todo[g] # <<>>
    BY <1>2 DEF check_slopes, At, Local, AtWorkload
  <2>2. (pc'[g] = "clear" /\ todo'[g] # <<>>) \/ pc'[g] = "check"
    BY <1>1, <2>1, <2>4
  <2>3. pc[g] \in {"check", "created"} /\ UNCHANGED invalidator
    BY <1>2 DEF check_slopes, At
  <2> QED
    BY <2>2, <2>3, OutsideRound DEF InRound, AtWorkload
<1>7. CASE FileMissing(g) \/ CreateFile(g)
  <2>1. /\ pc[g] \in {"check", "create"} /\ pc'[g] \in {"create", "created"}
        /\ todo[g] # <<>> /\ UNCHANGED <<invalidator, todo>>
    BY <1>1, <1>7 DEF FileMissing, CreateFile, At, Local, AtWorkload
  <2> QED
    BY <2>1, OutsideRound DEF InRound, AtWorkload
<1>3. CASE ClearSlopes(g)
  <2>1. pc[g] = "clear" /\ pc'[g] = "init_data" /\ UNCHANGED <<invalidator, todo>>
    BY <1>1, <1>3 DEF ClearSlopes, At
  <2> QED
    BY <2>1, OutsideRound DEF InRound, Local, AtWorkload
<1>4. CASE PutSlope(g)
  <2>1. /\ pc[g] = "put" /\ UNCHANGED invalidator
        /\ Goto(g, "check") \/ (Goto(g, "init_data") /\ UNCHANGED todo)
    BY <1>4, Zenon DEF PutSlope, At
  <2>2. pc'[g] = "check" \/ (pc'[g] = "init_data" /\ UNCHANGED todo)
    BY <1>1, <2>1, Zenon
  <2> QED
    BY <2>1, <2>2, OutsideRound DEF InRound, Local, AtWorkload
<1>5. CASE Exit(g)
  <2>1. pc[g] = "check" /\ pc'[g] = "done" /\ UNCHANGED invalidator
    BY <1>1, <1>5 DEF Exit, At
  <2> QED
    BY <2>1, OutsideRound DEF InRound, AtWorkload
<1>6. CASE CleanupData(g)
  <2>1. pc[g] = "measured" /\ pc'[g] = "put" /\ UNCHANGED <<invalidator, todo>>
    BY <1>1, <1>6 DEF CleanupData, At
  <2> QED
    BY <2>1, OutsideRound DEF InRound, Local, AtWorkload
<1> QED
  BY <1>2, <1>3, <1>4, <1>5, <1>6, <1>7

\* The first thread is created after none is left, and stopped after all work.
LEMMA LoopStarts ==
    ASSUME TypeOK, NEW g \in Gen, Local(g), InitData(g) \/ NextRun(g) \/ measure_run(g)
    PROVE  Local(g)'
<1>1. /\ pc \in [Gen -> Label] /\ inv_num \in [Gen -> 0 .. active_invalidators]
      /\ data_live \in [Gen -> BOOLEAN]
      /\ \A label : Goto(g, label) => pc'[g] = label
  BY TypeParts DEF Goto
<1>2. inv_num'[g] = 0 /\ UNCHANGED <<invalidator, todo>>
  BY <1>1 DEF InitData, NextRun, measure_run
<1>3. AtWorkload(g)'
  BY <1>2 DEF Local, AtWorkload, InitData, NextRun, measure_run, At
<1>4. CASE InitData(g) \/ NextRun(g)
  <2>1. pc'[g] = IF 0 < active_invalidators THEN "launch" ELSE "measure"
    BY <1>1, <1>4 DEF InitData, NextRun, AfterStarting
  <2>2. pc[g] \in {"init_data", "measured"} /\ data_live'[g]
    BY <1>1, <1>4 DEF InitData, NextRun, At, Local, RoundInData
  <2>3. \A i \in Invalidator : Idle(invalidator[g][i])
    BY <2>2 DEF Local, RoundInOrder, InRound
  <2>4. \A i \in Invalidator : ~(i < 0) /\ 0 < active_invalidators
    BY ActiveNat
  <2>5. RoundInOrder(g)'
    BY <1>2, <2>1, <2>3, <2>4 DEF RoundInOrder, InRound, Idle, Invalidator, active_invalidators
  <2>6. RoundInData(g)'
    BY <1>2, <2>1, <2>2 DEF RoundInData, InRound, active_invalidators
  <2> QED
    BY <1>3, <2>5, <2>6 DEF Local
<1>5. CASE measure_run(g)
  <2>1. pc'[g] = IF 0 < active_invalidators THEN "stop" ELSE "measured"
    BY <1>1, <1>5 DEF measure_run, AfterStopping
  <2>2. pc[g] = "measure" /\ data_live'[g]
    BY <1>1, <1>5 DEF measure_run, At, Local, RoundInData, InRound
  <2>3. \A i \in Invalidator : Loading(invalidator[g][i])
    BY <2>2 DEF Local, RoundInOrder
  <2>4. \A i \in Invalidator : ~(i < 0) /\ 0 < active_invalidators
    BY ActiveNat
  <2>5. RoundInOrder(g)'
    BY <1>2, <2>1, <2>3, <2>4 DEF RoundInOrder, InRound, Idle, Loading, Invalidator, active_invalidators
  <2>6. RoundInData(g)'
    BY <1>2, <2>1, <2>2 DEF RoundInData, InRound, active_invalidators
  <2> QED
    BY <1>3, <2>5, <2>6 DEF Local
<1> QED
  BY <1>4, <1>5

\* A thread is created, begins to work, and is seen to.
LEMMA ThreadsStart ==
    ASSUME TypeOK, NEW g \in Gen, Local(g), StartInvalidator(g) \/ AwaitInvalidator(g)
    PROVE  Local(g)'
<1> DEFINE n == inv_num[g]
<1>1. /\ pc \in [Gen -> Label] /\ inv_num \in [Gen -> 0 .. active_invalidators]
      /\ data_live \in [Gen -> BOOLEAN]
      /\ invalidator \in [Gen -> [Invalidator -> Thread]]
      /\ \A label : Goto(g, label) => pc'[g] = label
  BY TypeParts DEF Goto
<1>2. n \in Invalidator /\ n \in Nat /\ data_live[g] /\ todo[g] # <<>>
  BY <1>1, ActiveNat DEF StartInvalidator, AwaitInvalidator, At, Local, RoundInData,
     AtWorkload, InRound
<1>3. CASE StartInvalidator(g)
  <2>1. /\ pc[g] = "launch" /\ pc'[g] = "await"
        /\ UNCHANGED <<inv_num, data_live, todo>>
        /\ invalidator' = [invalidator EXCEPT ![g][n] = Created(invalidator[g][n])]
    BY <1>1, <1>3 DEF StartInvalidator, At, loops
  <2>2. invalidator[g][n] \in Thread
    BY <1>1, <1>2
  <2>3. Created(invalidator[g][n]) \in Thread /\ Starting(Created(invalidator[g][n]))
    BY <2>2, FlagsChanged
  <2>4. /\ invalidator'[g][n] = Created(invalidator[g][n])
        /\ \A k \in Invalidator : k # n => invalidator'[g][k] = invalidator[g][k]
    BY <1>1, <1>2, <2>1, <2>3, ThreadChanged
  <2>5. \A i \in Invalidator : IF i < n THEN Loading(invalidator[g][i]) ELSE Idle(invalidator[g][i])
    BY <2>1 DEF Local, RoundInOrder
  <2>6. \A i \in Invalidator : /\ i < n => Loading(invalidator'[g][i])
                               /\ i = n => Starting(invalidator'[g][i])
                               /\ i > n => Idle(invalidator'[g][i])
    BY <1>2, <2>3, <2>4, <2>5, ActiveNat
  <2>7. RoundInOrder(g)'
    BY <2>1, <2>6 DEF RoundInOrder, InRound, Idle, Loading, Starting, Invalidator, active_invalidators
  <2>8. RoundInData(g)' /\ AtWorkload(g)'
    BY <1>2, <2>1, ActiveNat DEF RoundInData, AtWorkload, InRound, active_invalidators, Invalidator
  <2> QED
    BY <2>7, <2>8 DEF Local
<1>4. CASE AwaitInvalidator(g)
  <2>1. /\ pc[g] = "await" /\ UNCHANGED <<data_live, todo, invalidator>>
        /\ invalidator[g][n].started = 1
        /\ inv_num'[g] = n + 1
        /\ pc'[g] = IF n + 1 < active_invalidators THEN "launch" ELSE "measure"
    BY <1>1, <1>4 DEF AwaitInvalidator, At, StartedSeen, AfterStarting
  <2>2. \A i \in Invalidator : /\ i < n => Loading(invalidator[g][i])
                               /\ i = n => Starting(invalidator[g][i])
                               /\ i > n => Idle(invalidator[g][i])
    BY <2>1 DEF Local, RoundInOrder
  <2>3. Loading(invalidator[g][n])
    BY <1>2, <2>1, <2>2 DEF Starting, Loading
  <2>4. \A i \in Invalidator : IF i < n + 1 THEN Loading(invalidator[g][i]) ELSE Idle(invalidator[g][i])
    BY <1>2, <2>2, <2>3, ActiveNat
  <2>5. n + 1 >= active_invalidators => \A i \in Invalidator : i < n + 1
    BY <1>2, ActiveNat
  <2>6. RoundInOrder(g)'
    <3>1. CASE n + 1 < active_invalidators
      BY <2>1, <2>4, <3>1 DEF RoundInOrder, InRound, Idle, Loading, Invalidator, active_invalidators
    <3>2. CASE ~(n + 1 < active_invalidators)
      <4>1. \A i \in Invalidator : Loading(invalidator[g][i])
        BY <1>2, <2>4, <2>5, <3>2, ActiveNat
      <4> QED
        BY <2>1, <3>2, <4>1 DEF RoundInOrder, InRound, Loading, Invalidator, active_invalidators
    <3> QED
      BY <3>1, <3>2
  <2>7. RoundInData(g)' /\ AtWorkload(g)'
    BY <1>2, <2>1, ActiveNat DEF RoundInData, AtWorkload, InRound, active_invalidators, Invalidator
  <2> QED
    BY <2>6, <2>7 DEF Local
<1> QED
  BY <1>3, <1>4

\* A thread is told to stop, returns, and is joined.
LEMMA ThreadsStop ==
    ASSUME TypeOK, NEW g \in Gen, Local(g), StopInvalidator(g) \/ JoinInvalidator(g)
    PROVE  Local(g)'
<1> DEFINE n == inv_num[g]
<1>1. /\ pc \in [Gen -> Label] /\ inv_num \in [Gen -> 0 .. active_invalidators]
      /\ data_live \in [Gen -> BOOLEAN]
      /\ invalidator \in [Gen -> [Invalidator -> Thread]]
      /\ \A label : Goto(g, label) => pc'[g] = label
  BY TypeParts DEF Goto
<1>2. n \in Invalidator /\ n \in Nat /\ data_live[g] /\ todo[g] # <<>>
  BY <1>1, ActiveNat DEF StopInvalidator, JoinInvalidator, At, Local, RoundInData,
     AtWorkload, InRound
<1>3. CASE StopInvalidator(g)
  <2> DEFINE stopped == [invalidator[g][n] EXCEPT !.done = 1]
  <2>1. /\ pc[g] = "stop" /\ pc'[g] = "join"
        /\ UNCHANGED <<inv_num, data_live, todo>>
        /\ invalidator' = [invalidator EXCEPT ![g][n] = stopped]
    BY <1>1, <1>3 DEF StopInvalidator, At, loops
  <2>2. \A i \in Invalidator : IF i < n THEN Idle(invalidator[g][i]) ELSE Loading(invalidator[g][i])
    BY <2>1 DEF Local, RoundInOrder
  <2>3. invalidator[g][n] \in Thread /\ Loading(invalidator[g][n])
    BY <1>1, <1>2, <2>2
  <2>4. stopped \in Thread /\ Stopping(stopped)
    BY <2>3, FlagsChanged
  <2> HIDE DEF stopped
  <2>5. /\ invalidator'[g][n] = stopped
        /\ \A k \in Invalidator : k # n => invalidator'[g][k] = invalidator[g][k]
    BY <1>1, <1>2, <2>1, <2>4, ThreadChanged
  <2>6. \A i \in Invalidator : /\ i < n => Idle(invalidator'[g][i])
                               /\ i = n => Stopping(invalidator'[g][i])
                               /\ i > n => Loading(invalidator'[g][i])
    BY <1>2, <2>2, <2>4, <2>5, ActiveNat
  <2>7. RoundInOrder(g)'
    BY <2>1, <2>6 DEF RoundInOrder, InRound, Idle, Loading, Stopping, Invalidator, active_invalidators
  <2>8. RoundInData(g)' /\ AtWorkload(g)'
    BY <1>2, <2>1, ActiveNat DEF RoundInData, AtWorkload, InRound, active_invalidators, Invalidator
  <2> QED
    BY <2>7, <2>8 DEF Local
<1>4. CASE JoinInvalidator(g)
  <2>1. /\ pc[g] = "join" /\ UNCHANGED <<data_live, todo, invalidator>>
        /\ invalidator[g][n].state = "returned"
        /\ inv_num'[g] = n + 1
        /\ pc'[g] = IF n + 1 < active_invalidators THEN "stop" ELSE "measured"
    BY <1>1, <1>4 DEF JoinInvalidator, At, Joinable, AfterStopping
  <2>2. \A i \in Invalidator : /\ i < n => Idle(invalidator[g][i])
                               /\ i > n => Loading(invalidator[g][i])
    BY <2>1 DEF Local, RoundInOrder
  <2>3. Idle(invalidator[g][n])
    BY <2>1 DEF Idle
  <2>4. \A i \in Invalidator : IF i < n + 1 THEN Idle(invalidator[g][i]) ELSE Loading(invalidator[g][i])
    BY <1>2, <2>2, <2>3, ActiveNat
  <2>5. n + 1 >= active_invalidators => \A i \in Invalidator : i < n + 1
    BY <1>2, ActiveNat
  <2>6. RoundInOrder(g)'
    <3>1. CASE n + 1 < active_invalidators
      BY <2>1, <2>4, <3>1 DEF RoundInOrder, InRound, Idle, Loading, Invalidator, active_invalidators
    <3>2. CASE ~(n + 1 < active_invalidators)
      <4>1. \A i \in Invalidator : Idle(invalidator[g][i])
        BY <1>2, <2>4, <2>5, <3>2, ActiveNat
      <4> QED
        BY <2>1, <3>2, <4>1 DEF RoundInOrder, InRound, Idle, Invalidator, active_invalidators
    <3> QED
      BY <3>1, <3>2
  <2>7. RoundInData(g)' /\ AtWorkload(g)'
    BY <1>2, <2>1, ActiveNat DEF RoundInData, AtWorkload, InRound, active_invalidators, Invalidator
  <2> QED
    BY <2>6, <2>7 DEF Local
<1> QED
  BY <1>3, <1>4

\* The steps of a thread, at the only places where there is one to take them.
LEMMA ThreadsRun ==
    ASSUME TypeOK, NEW g \in Gen, Local(g), NEW i \in Invalidator, InvalidatorStep(g, i)
    PROVE  Local(g)'
<1> DEFINE n == inv_num[g]
<1>1. /\ pc \in [Gen -> Label] /\ inv_num \in [Gen -> 0 .. active_invalidators]
      /\ invalidator \in [Gen -> [Invalidator -> Thread]]
      /\ invalidator[g][i] \in Thread /\ n \in Nat /\ i \in Nat
  BY TypeParts, ActiveNat
<1>2. UNCHANGED <<pc, inv_num, data_live, todo>>
  BY DEF InvalidatorStep, InvalidatorStarts, InvalidatorReturns, loops
<1>3. RoundInData(g)' /\ AtWorkload(g)'
  BY <1>2 DEF Local, RoundInData, AtWorkload, InRound, active_invalidators
<1>4. CASE InvalidatorStarts(g, i)
  <2> DEFINE inv == [[invalidator[g][i] EXCEPT !.state = "working"] EXCEPT !.started = 1]
  <2>1. invalidator[g][i].state = "created"
    BY <1>4 DEF InvalidatorStarts
  <2>2. pc[g] = "await" /\ i = n /\ Starting(invalidator[g][i])
    BY <1>1, <2>1, ActiveNat DEF Local, RoundInOrder, InRound, Idle, Loading, Stopping
  <2>3. inv \in Thread /\ Starting(inv)
    BY <1>1, <2>2, FlagsChanged
  <2>4. invalidator' = [invalidator EXCEPT ![g][i] = inv]
    BY <1>1, <1>4, ThreadSteps, Zenon
  <2> HIDE DEF inv
  <2>5. /\ invalidator'[g][i] = inv
        /\ \A k \in Invalidator : k # i => invalidator'[g][k] = invalidator[g][k]
    BY <1>1, <2>3, <2>4, ThreadChanged
  <2>6. \A k \in Invalidator : /\ k < n => Loading(invalidator[g][k])
                               /\ k > n => Idle(invalidator[g][k])
    BY <2>2 DEF Local, RoundInOrder
  <2>7. \A k \in Invalidator : /\ k < n => Loading(invalidator'[g][k])
                               /\ k = n => Starting(invalidator'[g][k])
                               /\ k > n => Idle(invalidator'[g][k])
    BY <1>1, <2>2, <2>3, <2>5, <2>6, ActiveNat
  <2>8. RoundInOrder(g)'
    BY <1>2, <2>2, <2>7 DEF RoundInOrder, InRound, Idle, Loading, Starting, Invalidator, active_invalidators
  <2> QED
    BY <1>3, <2>8 DEF Local
<1>5. CASE InvalidatorReturns(g, i)
  <2> DEFINE inv == [invalidator[g][i] EXCEPT !.state = "returned"]
  <2>1. invalidator[g][i].state = "working" /\ invalidator[g][i].done = 1
    BY <1>5 DEF InvalidatorReturns, Working
  <2>2. pc[g] = "join" /\ i = n /\ Stopping(invalidator[g][i])
    BY <1>1, <2>1, ActiveNat DEF Local, RoundInOrder, InRound, Idle, Loading, Starting
  <2>3. inv \in Thread /\ Stopping(inv)
    BY <1>1, <2>2, FlagsChanged
  <2>4. invalidator' = [invalidator EXCEPT ![g][i] = inv]
    BY <1>1, <1>5, ThreadSteps, Zenon
  <2> HIDE DEF inv
  <2>5. /\ invalidator'[g][i] = inv
        /\ \A k \in Invalidator : k # i => invalidator'[g][k] = invalidator[g][k]
    BY <1>1, <2>3, <2>4, ThreadChanged
  <2>6. \A k \in Invalidator : /\ k < n => Idle(invalidator[g][k])
                               /\ k > n => Loading(invalidator[g][k])
    BY <2>2 DEF Local, RoundInOrder
  <2>7. \A k \in Invalidator : /\ k < n => Idle(invalidator'[g][k])
                               /\ k = n => Stopping(invalidator'[g][k])
                               /\ k > n => Loading(invalidator'[g][k])
    BY <1>1, <2>2, <2>3, <2>5, <2>6, ActiveNat
  <2>8. RoundInOrder(g)'
    BY <1>2, <2>2, <2>7 DEF RoundInOrder, InRound, Idle, Loading, Stopping, Invalidator, active_invalidators
  <2> QED
    BY <1>3, <2>8 DEF Local
<1> QED
  BY <1>4, <1>5 DEF InvalidatorStep

\* A process begins, or ends with all its threads.
LEMMA ProcessEnds ==
    ASSUME TypeOK, NEW g \in Gen, Local(g), Start(g) \/ Die(g)
    PROVE  Local(g)'
<1>1. /\ pc \in [Gen -> Label] /\ todo \in [Gen -> Seq(Workload)]
      /\ invalidator \in [Gen -> [Invalidator -> Thread]]
      /\ \A label : Goto(g, label) => pc'[g] = label
  BY TypeParts DEF Goto
<1>2. CASE Start(g)
  <2>1. pc[g] = "idle" /\ pc'[g] = "check" /\ UNCHANGED invalidator
    BY <1>1, <1>2 DEF Start
  <2> QED
    BY <2>1, OutsideRound DEF InRound, AtWorkload
<1>3. CASE Die(g)
  <2>1. invalidator'[g] = NoInvalidators
    BY <1>1, <1>3 DEF Die
  <2>2. \A i \in Invalidator : Idle(NoInvalidators[i])
    BY DEF NoInvalidators, Idle
  <2>3. \/ pc'[g] = "killed"
        \/ pc'[g] = "killed_writing" /\ todo'[g] # <<>>
    <3>1. CASE \E w \in Workload : Rewriting(g, w) \/ Pending(g, w)
      <4>1. todo[g] \in Seq(Workload) /\ todo[g] # <<>>
        BY <1>1, <3>1 DEF Rewriting, Pending
      <4>2. Goto(g, "killed_writing") /\ todo' = [todo EXCEPT ![g] = <<Head(todo[g])>>]
        BY <1>3, <3>1 DEF Die
      <4>3. <<Head(todo[g])>> # <<>>
        BY <4>1, HeadTail
      <4> QED
        BY <1>1, <4>2, <4>3
    <3>2. CASE ~\E w \in Workload : Rewriting(g, w) \/ Pending(g, w)
      BY <1>1, <1>3, <3>2, Zenon DEF Die
    <3> QED
      BY <3>1, <3>2
  <2>4. RoundInOrder(g)'
    BY <2>1, <2>2, <2>3 DEF RoundInOrder, InRound, Idle, Invalidator, active_invalidators
  <2>5. RoundInData(g)' /\ AtWorkload(g)'
    BY <2>3 DEF RoundInData, AtWorkload, InRound
  <2> QED
    BY <2>4, <2>5 DEF Local
<1> QED
  BY <1>2, <1>3

\* Every step keeps the part of the invariant that is about one process.
LEMMA LocalStep ==
    ASSUME TypeOK, \A g \in Gen : Local(g), NEW g \in Gen,
           \/ GenStep(g) \/ Start(g) \/ Die(g)
           \/ \E i \in Invalidator : InvalidatorStep(g, i)
    PROVE  \A h \in Gen : Local(h)'
<1>1. Local(g)'
  BY SlopesStep, LoopStarts, ThreadsStart, ThreadsStop, ThreadsRun, ProcessEnds DEF GenStep
<1>2. ASSUME NEW h \in Gen, h # g PROVE Local(h)'
  BY <1>2, OthersKept, LocalKept
<1> QED
  BY <1>1, <1>2

-----------------------------------------------------------------------------
(* The processors of the invalidators.                                     *)

\* Each invalidator has a processor of its own, and none the first: there are
\* at most as many of them as other processors.
LEMMA CpusApart ==
    ASSUME NEW i \in Invalidator
    PROVE  /\ InvalidatorCpu(i) \in 1 .. Cpus - 1
           /\ \A k \in Invalidator : i < k => InvalidatorCpu(k) < InvalidatorCpu(i)
<1> DEFINE N == Cpus - 1
           a == active_invalidators
<1>1. /\ i \in Nat /\ N \in Nat /\ a \in Nat \ {0} /\ a <= N /\ i < a /\ N >= 1
  BY ActiveNat, MeasuringAssumption
<1> HIDE DEF N, a
<1>2. \A k \in Invalidator : k \in Nat /\ k < a
  BY ActiveNat DEF a
<1>3. \A k : InvalidatorCpu(k) = N - ((k * N) \div a)
  BY DEF InvalidatorCpu, N, a
<1>4. (i * N) \div a \in Nat
  <2>1. i * N \in Nat
    BY <1>1
  <2> HIDE DEF N
  <2> QED
    BY <1>1, <2>1, DivNat
<1>5. (i * N) \div a <= N - 1
  <2> DEFINE q == (i * N) \div a
  <2>1. i * N \in Int /\ i * N \in Nat
    BY <1>1
  <2>2. q \in Nat /\ a * q <= i * N
    <3>1. (i * N) % a \in 0 .. a - 1 /\ i * N = a * q + ((i * N) % a) /\ q \in Int
      BY <1>1, <2>1, DivInt, DivMod
    <3> HIDE DEF q
    <3>2. a * q \in Int
      BY <1>1, <3>1
    <3> QED
      BY <1>1, <1>4, <2>1, <3>1, <3>2 DEF q
  <2> HIDE DEF q
  <2>3. i * N + N <= a * N
    <3>1. a - 1 - i \in Nat
      BY <1>1
    <3>2. (a - 1 - i) * N \in Nat /\ a * N = (a - 1 - i) * N + i * N + N
      BY <1>1, <3>1
    <3> QED
      BY <1>1, <2>1, <3>2
  <2>4. ASSUME q >= N PROVE FALSE
    <3>1. a * q = a * N + a * (q - N) /\ q - N \in Nat
      BY <1>1, <2>2, <2>4
    <3>2. a * (q - N) \in Nat /\ a * N \in Nat /\ a * q \in Nat
      BY <1>1, <2>2, <3>1
    <3> QED
      BY <1>1, <2>1, <2>2, <2>3, <3>1, <3>2
  <2> QED
    BY <1>1, <2>2, <2>4 DEF q
<1>6. ASSUME NEW k \in Invalidator, i < k
      PROVE  (i * N) \div a + 1 <= (k * N) \div a
  <2>1. k \in Nat /\ k - i - 1 \in Nat
    BY <1>1, <1>2, <1>6
  <2>2. /\ k * N = (k - i - 1) * N + i * N + N
        /\ (k - i - 1) * N \in Nat /\ i * N \in Nat /\ k * N \in Nat
    BY <1>1, <2>1
  <2>3. i * N + a * 1 <= k * N /\ i * N + a * 1 \in Int
    BY <1>1, <2>2
  <2> DEFINE m == i * N
             q == m \div a
             x == k * N
  <2>4. m \in Nat /\ x \in Nat /\ m + a <= x
    BY <2>2, <2>3, <1>1
  <2> HIDE DEF m, q, x
  <2>5. m % a \in 0 .. a - 1 /\ m = a * q + (m % a) /\ q \in Int
    <3>1. m % a \in 0 .. a - 1 /\ m \div a \in Int
      BY <1>1, <2>4, DivInt
    <3>2. m = a * (m \div a) + (m % a)
      BY <1>1, <2>4, DivMod
    <3> QED
      BY <3>1, <3>2 DEF q
  <2> DEFINE rest == m % a
  <2>6. rest \in 0 .. a - 1 /\ m = a * q + rest
    BY <2>5
  <2> HIDE DEF rest
  <2>7. a * (q + 1) = a * q + a /\ a * q \in Int
    BY <1>1, <2>5
  <2>8. a * (q + 1) <= x
    BY <1>1, <2>4, <2>6, <2>7
  <2>9. q + 1 <= x \div a
    <3>1. q + 1 \in Int /\ x \in Int /\ a \in Nat \ {0}
      BY <1>1, <2>4, <2>5
    <3> QED
      BY <2>8, <3>1, DivGe, Zenon
  <2> QED
    BY <2>9 DEF q, m, x
<1>7. InvalidatorCpu(i) \in 1 .. N
  BY <1>1, <1>3, <1>4, <1>5
<1>8. ASSUME NEW k \in Invalidator, i < k PROVE InvalidatorCpu(k) < InvalidatorCpu(i)
  <2>1. k * N \in Nat
    BY <1>1, <1>2
  <2>2. (k * N) \div a \in Nat
    BY <1>1, <2>1, DivNat
  <2> QED
    BY <1>1, <1>3, <1>4, <1>6, <1>8, <2>2
<1> QED
  BY <1>7, <1>8 DEF N

\* What is measured is measured under load.
LEMMA LoadFromInv ==
    ASSUME \A g \in Gen : Local(g)
    PROVE  MeasuredUnderLoad /\ WorkloadDataLive
<1>1. ASSUME NEW g \in Gen, pc[g] = "measure", NEW i \in Invalidator
      PROVE  /\ Working(g, i) /\ invalidator[g][i].done = 0
             /\ InvalidatorCpu(i) # 0
             /\ \A k \in Invalidator \ {i} : InvalidatorCpu(i) # InvalidatorCpu(k)
  <2>1. Loading(invalidator[g][i])
    BY <1>1 DEF Local, RoundInOrder
  <2>2. InvalidatorCpu(i) # 0
    BY CpusApart, MeasuringAssumption
  <2>3. ASSUME NEW k \in Invalidator \ {i} PROVE InvalidatorCpu(i) # InvalidatorCpu(k)
    <3>1. (i < k \/ k < i) /\ k \in Invalidator
      BY ActiveNat
    <3>2. InvalidatorCpu(i) \in Int /\ InvalidatorCpu(k) \in Int
      BY <3>1, CpusApart
    <3>3. InvalidatorCpu(k) < InvalidatorCpu(i) \/ InvalidatorCpu(i) < InvalidatorCpu(k)
      BY <3>1, CpusApart
    <3> QED
      BY <3>2, <3>3
  <2> QED
    BY <2>1, <2>2, <2>3 DEF Loading, Working
<1>2. ASSUME NEW g \in Gen, NEW i \in Invalidator, Working(g, i)
      PROVE  data_live[g]
  <2>1. InRound(g)
    BY <1>2 DEF Local, RoundInOrder, Working, Idle
  <2> QED
    BY <2>1 DEF Local, RoundInData
<1> QED
  BY <1>1, <1>2 DEF MeasuredUnderLoad, WorkloadDataLive

-----------------------------------------------------------------------------
(* The files.                                                              *)

\* Sizes and slopes are numbers.
LEMMA LineNumbers ==
    ASSUME NEW file \in Seq(Line)
    PROVE  Sizes(file) \subseteq Nat /\ \A k \in DOMAIN file : file[k].slope \in Int
<1>1. \A k \in DOMAIN file : file[k] \in Line
  BY LenProperties, ElementOfSeq
<1>2. \A line \in Line : line.wss \in Nat /\ line.slope \in Slope
  BY DEF Line
<1>3. Slope \subseteq Int
  BY MeasuringAssumption
<1>4. \A k \in DOMAIN file : file[k].wss \in Nat /\ file[k].slope \in Int
  BY <1>1, <1>2, <1>3, Zenon
<1> QED
  BY <1>4 DEF Sizes

\* Of two samples with the same size all in between have it too.
LEMMA SizesInOrder ==
    ASSUME NEW w \in Workload, NEW i \in 0 .. WssSamples - 1
    PROVE  /\ FirstSize(w) \in Nat
           /\ TargetWss(w, DefaultMinWss) \in Int
           /\ TargetWss(w, DefaultMinWss) <= FirstSize(w)
           /\ FirstSize(w) <= TargetWss(w, SampleWss(w, i))
           /\ \A k \in 0 .. i : TargetWss(w, SampleWss(w, k)) <= TargetWss(w, SampleWss(w, i))
<1> DEFINE d == MaxWss[w] - MinWss[w]
           size(k) == TargetWss(w, SampleWss(w, k))
<1>1. 0 \in 0 .. WssSamples - 1 /\ WssSamples \in Nat \ {0}
  BY MeasuringAssumption
<1>2. FirstSize(w) \in Nat /\ FirstSize(w) = size(0)
  BY <1>1, SamplesNat DEF FirstSize
<1>3. CASE w \in NoVariation
  BY <1>2, <1>3 DEF TargetWss, FirstSize
<1>4. CASE w \notin NoVariation
  <2>1. MinWss[w] \in Nat /\ d \in Nat /\ DefaultMinWss \in Nat /\ DefaultMinWss <= MinWss[w]
    BY <1>4, WorkloadsAssumption DEF workload_wss_valid_bounds
  <2>2. \A k : size(k) = MinWss[w] + ((k * d) \div WssSamples)
    BY <1>4 DEF TargetWss, SampleWss
  <2> HIDE DEF d, size
  <2>3. ASSUME NEW k \in 0 .. i
        PROVE  size(k) <= size(i) /\ MinWss[w] <= size(k)
    <3>1. i - k \in Nat /\ k \in Nat /\ i \in Nat
      OBVIOUS
    <3>2. (i - k) * d \in Nat /\ k * d \in Nat /\ i * d \in Nat /\ i * d = k * d + (i - k) * d
      BY <2>1, <3>1
    <3> DEFINE x == k * d
               y == i * d
    <3>3. x \in Nat /\ y \in Nat /\ x <= y
      BY <3>2
    <3> HIDE DEF x, y
    <3>4. x \div WssSamples \in Nat /\ y \div WssSamples \in Nat
      BY <1>1, <3>3, DivNat
    <3>5. x % WssSamples \in Nat /\ x = WssSamples * (x \div WssSamples) + (x % WssSamples)
      BY <1>1, <3>3, DivMod, ModNat
    <3>6. WssSamples * (x \div WssSamples) <= y
      <4> DEFINE q == WssSamples * (x \div WssSamples)
      <4>1. q \in Nat
        BY <1>1, <3>4
      <4> HIDE DEF q
      <4>2. x = q + (x % WssSamples)
        BY <3>5 DEF q
      <4>3. q <= y
        BY <3>3, <3>5, <4>1, <4>2
      <4> QED
        BY <4>3 DEF q
    <3>7. x \div WssSamples <= y \div WssSamples
      BY <1>1, <3>3, <3>4, <3>6, DivGe
    <3>8. size(k) = MinWss[w] + (x \div WssSamples) /\ size(i) = MinWss[w] + (y \div WssSamples)
      BY <2>2 DEF x, y
    <3> QED
      BY <2>1, <3>4, <3>7, <3>8
  <2>4. size(0) <= size(i) /\ MinWss[w] <= size(0)
    BY <2>3
  <2>5. TargetWss(w, DefaultMinWss) = DefaultMinWss
    BY <1>4 DEF TargetWss
  <2>6. TargetWss(w, DefaultMinWss) <= FirstSize(w)
    BY <1>2, <2>1, <2>4, <2>5
  <2> QED
    BY <1>2, <2>1, <2>3, <2>4, <2>5, <2>6 DEF size
<1> QED
  BY <1>3, <1>4

\* A file without the first sample has no slope for the smallest size.
LEMMA NotDefined ==
    ASSUME TypeOK, NEW w \in Workload, FromFirst(w), FirstMissing(w)
    PROVE  ~AlreadyDefined(w)
<1> DEFINE file == slope_file[<<w, "average">>]
           target == TargetWss(w, DefaultMinWss)
<1>1. file \in Seq(Line)
  BY TypeParts DEF Filename
<1>2. Sizes(file) \subseteq Nat
  BY <1>1, LineNumbers
<1>3. /\ FirstSize(w) \in Nat /\ target \in Int /\ target <= FirstSize(w)
      /\ \A s \in Sizes(file) : FirstSize(w) <= s /\ s # FirstSize(w)
  BY SizesInOrder, MeasuringAssumption DEF FromFirst, FirstMissing
<1> HIDE DEF file, target
<1>4. target \notin Sizes(file) /\ {s \in Sizes(file) : s < target} = {}
  BY <1>2, <1>3
<1>5. get_workload_slope(file, target) = -1
  BY <1>4, Zenon DEF get_workload_slope
<1> QED
  BY <1>5 DEF AlreadyDefined, file, target

\* Steps that rewrite no file.
LEMMA FilesLeft ==
    ASSUME \A w \in Workload : FileKept(w), UNCHANGED slope_file,
           \A g \in Gen : sample[g] \in Nat /\ sample'[g] \in Nat /\ sample'[g] <= sample[g],
           \A g \in Gen, w \in Workload :
               /\ Rewriting(g, w)' <=> Rewriting(g, w)
               /\ Pending(g, w) /\ FirstMissing(w) => Pending(g, w)'
    PROVE  \A w \in Workload : FileKept(w)'
<1> TAKE w \in Workload
<1>1. SamplesOf(w) \subseteq Nat
  BY MeasuringAssumption DEF SamplesOf
<1>2. CASE \E g \in Gen : WrittenBy(g, w)
  <2>1. PICK g \in Gen : WrittenBy(g, w)
    BY <1>2
  <2>2. \A i \in SamplesOf(w) : i < sample'[g] => i < sample[g]
    BY <1>1
  <2>3. WrittenBy(g, w)'
    BY <2>1, <2>2 DEF WrittenBy, SamplesOf, TargetWss, SampleWss, Sizes
  <2> QED
    BY <2>3 DEF FileKept
<1>3. CASE Complete(w)
  BY <1>3 DEF FileKept, Complete, SamplesOf, TargetWss, SampleWss, Sizes
<1>4. CASE slope_file[<<w, "average">>] = <<>> /\ \A g \in Gen : ~Rewriting(g, w)
  BY <1>4 DEF FileKept
<1>5. CASE FirstMissing(w) /\ \E g \in Gen : Pending(g, w)
  <2>1. FirstMissing(w)'
    BY <1>5 DEF FirstMissing, FirstSize, TargetWss, SampleWss, Sizes
  <2>2. \E g \in Gen : Pending(g, w)'
    BY <1>5
  <2> QED
    BY <2>1, <2>2 DEF FileKept
<1> QED
  BY <1>2, <1>3, <1>4, <1>5 DEF FileKept

\* Who rewrites a file is told by its place and its workload alone.
LEMMA RewritingSame ==
    ASSUME NEW g \in Gen, NEW w \in Workload, todo'[g] = todo[g],
           (pc[g] \in {"idle", "check", "create", "created", "clear", "done", "killed"}) <=>
               (pc'[g] \in {"idle", "check", "create", "created", "clear", "done", "killed"})
    PROVE  Rewriting(g, w)' <=> Rewriting(g, w)
BY DEF Rewriting

\* Neither the start nor the end of a process, nor a measurement, does; one that
\* has emptied a file looks for a slope in it in vain.
LEMMA FilesKeptByOthers ==
    ASSUME Inv, NEW g \in Gen,
           \/ GenStep(g) \/ Start(g) \/ Die(g)
           \/ \E i \in Invalidator : InvalidatorStep(g, i),
           ~ClearSlopes(g), ~PutSlope(g), ~CreateFile(g),
           ~(Die(g) /\ \E w \in Workload : Pending(g, w))
    PROVE  \A w \in Workload : FileKept(w)'
<1>1. /\ TypeOK /\ pc \in [Gen -> Label] /\ todo \in [Gen -> Seq(Workload)]
      /\ sample \in [Gen -> 0 .. WssSamples - 1]
      /\ \A label : Goto(g, label) => pc'[g] = label
      /\ \A n : AfterStarting(n) \in {"launch", "measure"} /\ AfterStopping(n) \in {"stop", "measured"}
  BY TypeParts DEF Inv, Goto, AfterStarting, AfterStopping
<1>2. UNCHANGED slope_file
  BY DEF GenStep, Start, Die, InvalidatorStep, FileMissing, check_slopes, Exit, InitData, measure_run,
     NextRun, CleanupData, StartInvalidator, AwaitInvalidator, StopInvalidator,
     JoinInvalidator, InvalidatorStarts, InvalidatorReturns
<1>3. \A h \in Gen : sample[h] \in Nat /\ sample'[h] \in Nat /\ sample'[h] <= sample[h]
  <2>1. sample' = sample \/ sample' = [sample EXCEPT ![g] = 0]
    BY DEF GenStep, Start, Die, InvalidatorStep, FileMissing, check_slopes, Exit, InitData, measure_run,
       NextRun, CleanupData, StartInvalidator, AwaitInvalidator, StopInvalidator,
       JoinInvalidator, InvalidatorStarts, InvalidatorReturns, loops
  <2> QED
    BY <1>1, <2>1, MeasuringAssumption
<1> DEFINE Outside == {"idle", "check", "create", "created", "clear", "done", "killed"}
<1>4. ASSUME NEW h \in Gen, NEW w \in Workload PROVE Rewriting(h, w)' <=> Rewriting(h, w)
  <2>1. CASE h # g
    BY <1>1, <2>1, OthersKept, RewritingSame
  <2>2. CASE h = g /\ (FileMissing(g) \/ check_slopes(g) \/ Exit(g) \/ Start(g))
    <3>1. CASE FileMissing(g) \/ Exit(g) \/ Start(g)
      <4>1. /\ pc[g] \in {"idle", "check"}
            /\ pc'[g] \in {"check", "create", "done"}
        BY <1>1, <3>1 DEF FileMissing, Exit, Start, At
      <4> QED
        BY <2>2, <4>1 DEF Rewriting
    <3>2. CASE check_slopes(g)
      <4>1. /\ pc[g] \in {"check", "created"}
            /\ pc'[g] \in {"clear", "check"}
        BY <1>1, <3>2 DEF check_slopes, At
      <4> QED
        BY <2>2, <4>1 DEF Rewriting
    <3> QED
      BY <2>2, <3>1, <3>2
  <2>3. CASE h = g /\ Die(g)
    <3>1. CASE \E x \in Workload : Rewriting(g, x) \/ Pending(g, x)
      <4>0. \E x \in Workload : Rewriting(g, x)
        BY <2>3, <3>1
      <4>1. /\ todo[g] \in Seq(Workload) /\ todo[g] # <<>> /\ pc[g] \notin Outside
        BY <1>1, <4>0 DEF Rewriting
      <4>2. Goto(g, "killed_writing") /\ todo' = [todo EXCEPT ![g] = <<Head(todo[g])>>]
        BY <2>3, <3>1 DEF Die
      <4>3. pc'[g] = "killed_writing" /\ todo'[g] = <<Head(todo[g])>>
        BY <1>1, <4>2
      <4>4. todo'[g] # <<>> /\ Head(todo'[g]) = Head(todo[g])
        BY <4>1, <4>3, HeadTail
      <4> QED
        BY <2>3, <4>1, <4>3, <4>4 DEF Rewriting
    <3>2. CASE ~\E x \in Workload : Rewriting(g, x) \/ Pending(g, x)
      <4>1. pc'[g] = "killed"
        BY <1>1, <2>3, <3>2, Zenon DEF Die
      <4> QED
        BY <2>3, <3>2, <4>1 DEF Rewriting
    <3> QED
      BY <3>1, <3>2
  <2>4. CASE h = g /\ ~(FileMissing(g) \/ check_slopes(g) \/ Exit(g) \/ Start(g) \/ Die(g))
    <3>1. /\ UNCHANGED todo
          /\ UNCHANGED pc \/ (pc[g] \notin Outside /\ pc'[g] \notin Outside)
      BY <1>1, <2>4 DEF GenStep, InvalidatorStep, InitData, measure_run, NextRun,
         CleanupData, StartInvalidator, AwaitInvalidator, StopInvalidator,
         JoinInvalidator, InvalidatorStarts, InvalidatorReturns, At
    <3> QED
      BY <2>4, <3>1, RewritingSame
  <2> QED
    BY <2>1, <2>2, <2>3, <2>4
<1>5. ASSUME NEW h \in Gen, NEW w \in Workload, Pending(h, w), FirstMissing(w)
      PROVE  Pending(h, w)'
  <2>1. CASE h # g
    <3>1. pc'[h] = pc[h] /\ todo'[h] = todo[h]
      BY <1>1, <2>1, OthersKept
    <3> QED
      BY <1>5, <3>1 DEF Pending
  <2>2. CASE h = g
    <3>1. pc[g] \in {"created", "clear"} /\ w = Head(todo[g])
      BY <1>5, <2>2 DEF Pending
    <3>2. ~Die(g)
      BY <1>5, <2>2
    <3>3. CASE check_slopes(g)
      <4>1. ~AlreadyDefined(Head(todo[g]))
        BY <1>1, <1>5, <3>1, NotDefined DEF Inv
      <4>2. todo' = [todo EXCEPT ![g] = todo[g]] /\ Goto(g, "clear")
        BY <3>3, <4>1 DEF check_slopes
      <4>3. todo'[g] = todo[g] /\ pc'[g] = "clear"
        BY <1>1, <4>2
      <4> QED
        BY <1>5, <2>2, <4>3 DEF Pending
    <3>4. CASE ~check_slopes(g)
      <4>1. UNCHANGED pc /\ UNCHANGED todo
        BY <3>1, <3>2, <3>4 DEF GenStep, Start, InvalidatorStep, FileMissing, Exit, InitData,
           measure_run, NextRun, CleanupData, StartInvalidator, AwaitInvalidator,
           StopInvalidator, JoinInvalidator, InvalidatorStarts, InvalidatorReturns, At
      <4> QED
        BY <1>5, <2>2, <4>1 DEF Pending
    <3> QED
      BY <3>3, <3>4
  <2> QED
    BY <2>1, <2>2
<1> QED
  BY <1>2, <1>3, <1>4, <1>5, FilesLeft DEF Inv

\* A file that g does not write is as it was, whoever rewrites it.
LEMMA FilesElsewhere ==
    ASSUME NEW g \in Gen, NEW w \in Workload, FileKept(w),
           slope_file'[<<w, "average">>] = slope_file[<<w, "average">>],
           \A h \in Gen : h # g => /\ Rewriting(h, w)' = Rewriting(h, w)
                                   /\ Pending(h, w)' = Pending(h, w)
                                   /\ sample'[h] = sample[h],
           ~Rewriting(g, w), ~Rewriting(g, w)', ~Pending(g, w)
    PROVE  FileKept(w)'
<1>1. CASE \E h \in Gen : WrittenBy(h, w)
  <2>1. PICK h \in Gen : WrittenBy(h, w)
    BY <1>1
  <2>2. h # g
    BY <2>1 DEF WrittenBy
  <2>3. Rewriting(h, w)' /\ sample'[h] = sample[h]
    BY <2>1, <2>2, Zenon DEF WrittenBy
  <2>4. WrittenBy(h, w)'
    BY <2>1, <2>3 DEF WrittenBy, SamplesOf, TargetWss, SampleWss
  <2> QED
    BY <2>4 DEF FileKept
<1>2. CASE Complete(w)
  BY <1>2 DEF FileKept, Complete, SamplesOf, TargetWss, SampleWss
<1>3. CASE slope_file[<<w, "average">>] = <<>> /\ \A h \in Gen : ~Rewriting(h, w)
  <2>1. \A h \in Gen : ~Rewriting(h, w)'
    BY <1>3, Zenon
  <2> QED
    BY <1>3, <2>1 DEF FileKept
<1>4. CASE FirstMissing(w) /\ \E h \in Gen : Pending(h, w)
  <2>1. PICK h \in Gen : Pending(h, w)
    BY <1>4
  <2>2. Pending(h, w)'
    BY <2>1, Zenon
  <2>3. FirstMissing(w)'
    BY <1>4 DEF FirstMissing, FirstSize, TargetWss, SampleWss
  <2> QED
    BY <2>2, <2>3 DEF FileKept
<1> QED
  BY <1>1, <1>2, <1>3, <1>4 DEF FileKept

\* What the others do does not depend on the step of g.
LEMMA OthersAsWere ==
    ASSUME TypeOK, NEW g \in Gen, GenStep(g) \/ Die(g),
           NEW h \in Gen, h # g, NEW w \in Workload
    PROVE  /\ Rewriting(h, w)' = Rewriting(h, w) /\ Pending(h, w)' = Pending(h, w)
           /\ sample'[h] = sample[h]
<1>1. pc'[h] = pc[h] /\ todo'[h] = todo[h] /\ sample'[h] = sample[h]
  BY OthersKept
<1> QED
  BY <1>1 DEF Rewriting, Pending

\* The process whose access check empties a file will rewrite it.
LEMMA FileCreated ==
    ASSUME Inv, NEW g \in Gen, CreateFile(g)
    PROVE  \A w \in Workload : FileKept(w)'
<1>1. /\ TypeOK /\ pc \in [Gen -> Label] /\ slope_file \in [Filename -> Seq(Line)] /\ GenStep(g)
  BY TypeParts DEF Inv, GenStep
<1>2. /\ pc[g] = "create" /\ pc'[g] = "created" /\ todo' = todo
      /\ slope_file' = [slope_file EXCEPT ![FileOf(g)] = <<>>]
  BY <1>1 DEF CreateFile, At, Goto
<1>3. todo[g] # <<>>
  BY <1>2 DEF Inv, Local, AtWorkload
<1> TAKE w \in Workload
<1>4. CASE w = Head(todo[g])
  <2>1. Pending(g, w)'
    BY <1>2, <1>3, <1>4 DEF Pending
  <2>2. slope_file'[<<w, "average">>] = <<>>
    BY <1>1, <1>2, <1>4 DEF FileOf, Filename
  <2>3. Sizes(<<>>) = {}
    BY DEF Sizes
  <2>4. FirstMissing(w)'
    BY <2>2, <2>3 DEF FirstMissing
  <2> QED
    BY <2>1, <2>4 DEF FileKept
<1>5. CASE w # Head(todo[g])
  <2>1. slope_file'[<<w, "average">>] = slope_file[<<w, "average">>]
    BY <1>1, <1>2, <1>5 DEF FileOf, Filename
  <2>2. ~Rewriting(g, w) /\ ~Rewriting(g, w)' /\ ~Pending(g, w)
    BY <1>2, <1>5 DEF Rewriting, Pending
  <2> QED
    BY <1>1, <2>1, <2>2, OthersAsWere, FilesElsewhere DEF Inv
<1> QED
  BY <1>4, <1>5

\* So it does unless it is killed.
LEMMA PendingKilled ==
    ASSUME Inv, NEW g \in Gen, Die(g), \E w \in Workload : Pending(g, w)
    PROVE  \A w \in Workload : FileKept(w)'
<1>1. /\ TypeOK /\ pc \in [Gen -> Label] /\ todo \in [Gen -> Seq(Workload)]
      /\ sample \in [Gen -> 0 .. WssSamples - 1]
  BY TypeParts DEF Inv
<1>2. todo[g] \in Seq(Workload) /\ todo[g] # <<>> /\ pc[g] \in {"created", "clear"}
  BY <1>1 DEF Pending
<1>3. /\ Goto(g, "killed_writing") /\ todo' = [todo EXCEPT ![g] = <<Head(todo[g])>>]
      /\ sample' = [sample EXCEPT ![g] = 0] /\ slope_file' = slope_file
  BY DEF Die
<1>4. pc'[g] = "killed_writing" /\ todo'[g] = <<Head(todo[g])>> /\ sample'[g] = 0
  BY <1>1, <1>3 DEF Goto
<1>5. todo'[g] # <<>> /\ Head(todo'[g]) = Head(todo[g])
  BY <1>2, <1>4, HeadTail
<1> TAKE w \in Workload
<1>6. CASE w = Head(todo[g])
  <2>1. Rewriting(g, w)'
    BY <1>4, <1>5, <1>6 DEF Rewriting
  <2>2. \A i \in SamplesOf(w) : ~(i < 0)
    BY MeasuringAssumption DEF SamplesOf
  <2>3. WrittenBy(g, w)'
    BY <1>4, <2>1, <2>2 DEF WrittenBy, SamplesOf
  <2> QED
    BY <2>3 DEF FileKept
<1>7. CASE w # Head(todo[g])
  <2>1. ~Rewriting(g, w) /\ ~Rewriting(g, w)' /\ ~Pending(g, w)
    BY <1>5, <1>7 DEF Rewriting, Pending
  <2> QED
    BY <1>1, <1>3, <2>1, OthersAsWere, FilesElsewhere DEF Inv
<1> QED
  BY <1>6, <1>7

\* The process that clears a file is the one to write it.
LEMMA FileCleared ==
    ASSUME Inv, NEW g \in Gen, ClearSlopes(g)
    PROVE  \A w \in Workload : FileKept(w)'
<1>1. /\ TypeOK /\ pc \in [Gen -> Label] /\ todo \in [Gen -> Seq(Workload)]
      /\ sample \in [Gen -> 0 .. WssSamples - 1] /\ slope_file \in [Filename -> Seq(Line)]
      /\ GenStep(g)
  BY TypeParts DEF Inv, GenStep
<1>2. /\ pc[g] = "clear" /\ pc'[g] = "init_data" /\ todo' = todo /\ sample'[g] = 0
      /\ slope_file' = [slope_file EXCEPT ![FileOf(g)] = <<>>]
  BY <1>1 DEF ClearSlopes, At, Goto, clear_workload_slope
<1>3. todo[g] # <<>>
  BY <1>2 DEF Inv, Local, AtWorkload
<1> TAKE w \in Workload
<1>4. CASE w = Head(todo[g])
  <2>1. Rewriting(g, w)'
    BY <1>2, <1>3, <1>4 DEF Rewriting
  <2>2. \A i \in SamplesOf(w) : ~(i < 0)
    BY MeasuringAssumption DEF SamplesOf
  <2>3. WrittenBy(g, w)'
    BY <1>2, <2>1, <2>2 DEF WrittenBy, SamplesOf
  <2> QED
    BY <2>3 DEF FileKept
<1>5. CASE w # Head(todo[g])
  <2>1. slope_file'[<<w, "average">>] = slope_file[<<w, "average">>]
    BY <1>1, <1>2, <1>5 DEF FileOf, Filename
  <2>2. ~Rewriting(g, w) /\ ~Rewriting(g, w)' /\ ~Pending(g, w)
    BY <1>2, <1>5 DEF Rewriting, Pending
  <2> QED
    BY <1>1, <2>1, <2>2, OthersAsWere, FilesElsewhere DEF Inv
<1> QED
  BY <1>4, <1>5

\* A line more is one that the writer has come to, and never takes one away.
LEMMA FilePut ==
    ASSUME Inv, NEW g \in Gen, PutSlope(g)
    PROVE  \A w \in Workload : FileKept(w)'
<1> DEFINE n == sample[g]
<1>1. /\ TypeOK /\ pc \in [Gen -> Label] /\ todo \in [Gen -> Seq(Workload)]
      /\ sample \in [Gen -> 0 .. WssSamples - 1] /\ slope_file \in [Filename -> Seq(Line)]
      /\ \A label : Goto(g, label) => pc'[g] = label
      /\ GenStep(g)
  BY TypeParts DEF Inv, GenStep, Goto
<1>2. pc[g] = "put" /\ todo[g] # <<>> /\ n \in 0 .. WssSamples - 1
  BY <1>1 DEF PutSlope, At, Inv, Local, AtWorkload
<1>3. PICK v \in Workload : v = Head(todo[g])
  BY <1>1, <1>2, HeadTail
<1> DEFINE file == <<v, "average">>
<1>4. Rewriting(g, v) /\ FileOf(g) = file
  BY <1>2, <1>3 DEF Rewriting, FileOf
<1>5. PICK average \in Slope :
        slope_file' = [slope_file EXCEPT ![file] =
            put_workload_slope(slope_file[file], v, SampleWss(v, n), average)]
  BY <1>3, <1>4 DEF PutSlope
<1>6. file \in Filename
  BY <1>3 DEF Filename
<1>7. Sizes(slope_file'[file]) = Sizes(slope_file[file]) \cup {TargetWss(v, SampleWss(v, n))}
  <2>1. slope_file'[file] = put_workload_slope(slope_file[file], v, SampleWss(v, n), average)
    BY <1>1, <1>5, <1>6
  <2>2. slope_file[file] \in Seq(Line)
    BY <1>1, <1>6
  <2>3. Sizes(put_workload_slope(slope_file[file], v, SampleWss(v, n), average)) =
          Sizes(slope_file[file]) \cup {TargetWss(v, SampleWss(v, n))}
    BY <1>2, <1>3, <2>2, LinePut
  <2> QED
    BY <2>1, <2>3
<1>8. \/ LastSample(v, n) /\ Goto(g, "check")
      \/ /\ ~LastSample(v, n)
         /\ sample' = [sample EXCEPT ![g] = n + 1]
         /\ Goto(g, "init_data") /\ UNCHANGED todo
  BY <1>3 DEF PutSlope
<1>9. \/ LastSample(v, n) /\ pc'[g] = "check"
      \/ sample'[g] = n + 1 /\ pc'[g] = "init_data" /\ todo' = todo
  BY <1>1, <1>8
<1>10. ASSUME NEW w \in Workload, NEW h \in Gen, h # g
      PROVE  /\ Rewriting(h, w)' = Rewriting(h, w) /\ Pending(h, w)' = Pending(h, w)
             /\ sample'[h] = sample[h]
  BY <1>1, <1>10, OthersAsWere
<1>11. ASSUME NEW w \in Workload, w # v PROVE FileKept(w)'
  <2>1. slope_file'[<<w, "average">>] = slope_file[<<w, "average">>]
    BY <1>1, <1>5, <1>11 DEF Filename
  <2>2. ~Rewriting(g, w) /\ ~Rewriting(g, w)' /\ ~Pending(g, w)
    BY <1>3, <1>9, <1>11 DEF Rewriting, Pending
  <2> QED
    BY <1>10, <2>1, <2>2, FilesElsewhere DEF Inv
<1> DEFINE size(i) == TargetWss(v, SampleWss(v, i))
           Has(i) == size(i) \in Sizes(slope_file[file])
<1>12. SamplesOf(v) \subseteq Nat
  BY MeasuringAssumption DEF SamplesOf
<1>14. ASSUME \A i \in SamplesOf(v) : i <= n => size(i) \in Sizes(slope_file'[file])
       PROVE  FileKept(v)'
  <2>1. CASE LastSample(v, n) /\ pc'[g] = "check"
    <3>1. \A i \in SamplesOf(v) : i <= n
      BY <1>2, <2>1, MeasuringAssumption DEF LastSample, SamplesOf
    <3>2. Complete(v)'
      BY <1>14, <3>1 DEF Complete, SamplesOf, TargetWss, SampleWss
    <3> QED
      BY <3>2 DEF FileKept
  <2>2. CASE sample'[g] = n + 1 /\ pc'[g] = "init_data" /\ todo' = todo
    <3>1. Rewriting(g, v)'
      BY <1>2, <1>3, <2>2 DEF Rewriting
    <3>2. \A i \in SamplesOf(v) : i < sample'[g] => i <= n
      BY <1>2, <1>12, <2>2
    <3>3. \A i \in SamplesOf(v) : i < sample'[g] => size(i) \in Sizes(slope_file'[file])
      BY <1>14, <3>2
    <3>4. WrittenBy(g, v)'
      BY <2>2, <3>1, <3>3 DEF WrittenBy, SamplesOf, TargetWss, SampleWss
    <3> QED
      BY <1>3, <3>4 DEF FileKept
  <2> QED
    BY <1>9, <2>1, <2>2
<1>13. FileKept(v)'
  <2>1. CASE \E h \in Gen : WrittenBy(h, v)
    <3>1. PICK h \in Gen : WrittenBy(h, v)
      BY <2>1
    <3>2. CASE h # g
      <4>1. Rewriting(h, v)' /\ sample'[h] = sample[h]
        BY <1>10, <3>1, <3>2, Zenon DEF WrittenBy
      <4>2. WrittenBy(h, v)'
        BY <1>7, <3>1, <4>1 DEF WrittenBy, SamplesOf, TargetWss, SampleWss
      <4> QED
        BY <4>2 DEF FileKept
    <3>3. CASE h = g
      <4>1. \A i \in SamplesOf(v) : i < n => size(i) \in Sizes(slope_file[file])
        BY <3>1, <3>3 DEF WrittenBy
      <4>2. \A i \in SamplesOf(v) : i <= n => size(i) \in Sizes(slope_file'[file])
        BY <1>2, <1>7, <1>12, <4>1
      <4> QED
        BY <1>14, <4>2
    <3> QED
      BY <3>2, <3>3
  <2>2. CASE Complete(v)
    <3>1. Complete(v)'
      BY <1>7, <2>2 DEF Complete, SamplesOf, TargetWss, SampleWss
    <3> QED
      BY <3>1 DEF FileKept
  <2>3. CASE FirstMissing(v) /\ \E h \in Gen : Pending(h, v)
    <3>1. \E h \in Gen : Pending(h, v)'
      <4>1. PICK h \in Gen : Pending(h, v)
        BY <2>3
      <4>2. h # g
        BY <1>2, <4>1 DEF Pending
      <4> QED
        BY <1>10, <4>1, <4>2
    <3>2. CASE size(n) # FirstSize(v)
      <4>1. FirstSize(v)' = FirstSize(v)
        BY DEF FirstSize, TargetWss, SampleWss
      <4>2. FirstMissing(v)'
        BY <1>7, <2>3, <3>2, <4>1 DEF FirstMissing
      <4> QED
        BY <3>1, <4>2 DEF FileKept
    <3>3. CASE size(n) = FirstSize(v)
      <4>1. ASSUME NEW i \in SamplesOf(v), i <= n PROVE size(i) = FirstSize(v)
        <5>0. SamplesOf(v) \subseteq 0 .. WssSamples - 1
          BY MeasuringAssumption DEF SamplesOf
        <5>1. i \in 0 .. n /\ i \in 0 .. WssSamples - 1
          <6>1. i \in 0 .. WssSamples - 1 /\ i <= n /\ n \in 0 .. WssSamples - 1
            BY <1>2, <4>1, <5>0
          <6> HIDE DEF n
          <6> QED
            BY <6>1, MeasuringAssumption
        <5>2. size(i) <= size(n) /\ FirstSize(v) <= size(i) /\ FirstSize(v) \in Nat
          BY <1>2, <5>1, SizesInOrder
        <5>3. size(i) \in Nat
          BY <5>1, SamplesNat
        <5> QED
          BY <3>3, <5>2, <5>3
      <4>2. \A i \in SamplesOf(v) : i <= n => size(i) \in Sizes(slope_file'[file])
        BY <1>7, <3>3, <4>1
      <4> QED
        BY <1>14, <4>2
    <3> QED
      BY <3>2, <3>3
  <2> QED
    BY <1>4, <2>1, <2>2, <2>3 DEF Inv, FileKept
<1> QED
  BY <1>11, <1>13

\* No line is for less than the first sample.
LEMMA LinesFromFirst ==
    ASSUME Inv, NEW g \in Gen,
           \/ GenStep(g) \/ Start(g) \/ Die(g)
           \/ \E i \in Invalidator : InvalidatorStep(g, i),
           NEW w \in Workload
    PROVE  FromFirst(w)'
<1> DEFINE file == <<w, "average">>
<1>1. /\ TypeOK /\ todo \in [Gen -> Seq(Workload)] /\ sample \in [Gen -> 0 .. WssSamples - 1]
      /\ slope_file \in [Filename -> Seq(Line)] /\ file \in Filename
  BY TypeParts DEF Inv, Filename
<1>2. FirstSize(w)' = FirstSize(w)
  BY DEF FirstSize, TargetWss, SampleWss
<1>3. \A s \in Sizes(slope_file[file]) : FirstSize(w) <= s
  BY DEF Inv, FromFirst
<1>4. SUFFICES \A s \in Sizes(slope_file'[file]) : FirstSize(w) <= s
  BY <1>2 DEF FromFirst
<1>5. CASE slope_file' = slope_file
  BY <1>3, <1>5
<1>6. CASE slope_file' = [slope_file EXCEPT ![FileOf(g)] = <<>>]
  <2>1. slope_file'[file] \in {<<>>, slope_file[file]}
    BY <1>1, <1>6
  <2>2. Sizes(<<>>) = {}
    BY DEF Sizes
  <2> QED
    BY <1>3, <2>1, <2>2
<1>7. CASE PutSlope(g)
  <2> DEFINE v == Head(todo[g])
             n == sample[g]
  <2>1. pc[g] = "put" /\ todo[g] # <<>> /\ n \in 0 .. WssSamples - 1
    BY <1>1, <1>7 DEF PutSlope, At, Inv, Local, AtWorkload
  <2>2. v \in Workload
    BY <1>1, <2>1, HeadTail
  <2>3. PICK average \in Slope :
          slope_file' = [slope_file EXCEPT ![FileOf(g)] =
              put_workload_slope(slope_file[FileOf(g)], v, SampleWss(v, n), average)]
    BY <1>7 DEF PutSlope
  <2>4. CASE file # FileOf(g)
    BY <1>1, <1>3, <2>3, <2>4
  <2>5. CASE file = FileOf(g)
    <3>1. v = w
      BY <2>5 DEF FileOf
    <3>2. slope_file'[file] = put_workload_slope(slope_file[file], w, SampleWss(w, n), average)
      BY <1>1, <2>3, <2>5, <3>1
    <3>3. slope_file[file] \in Seq(Line)
      BY <1>1
    <3>4. Sizes(slope_file'[file]) =
              Sizes(slope_file[file]) \cup {TargetWss(w, SampleWss(w, n))}
      BY <2>1, <3>2, <3>3, LinePut
    <3>5. FirstSize(w) <= TargetWss(w, SampleWss(w, n))
      BY <2>1, SizesInOrder
    <3> QED
      BY <1>3, <3>4, <3>5
  <2> QED
    BY <2>4, <2>5
<1>8. \/ slope_file' = slope_file \/ PutSlope(g)
      \/ slope_file' = [slope_file EXCEPT ![FileOf(g)] = <<>>]
  BY DEF GenStep, Start, Die, InvalidatorStep, FileMissing, CreateFile, check_slopes,
     ClearSlopes, clear_workload_slope, Exit, InitData, measure_run, NextRun, CleanupData,
     StartInvalidator, AwaitInvalidator, StopInvalidator, JoinInvalidator,
     InvalidatorStarts, InvalidatorReturns
<1> QED
  BY <1>5, <1>6, <1>7, <1>8

-----------------------------------------------------------------------------
(* The theorems.                                                           *)

\* However many invocations there are, and whenever they start and die, every
\* step keeps the invariant (slope/slope.c).
THEOREM Invariance == Spec => []Inv
<1>1. Init => Inv
  <2> SUFFICES ASSUME Init PROVE Inv
    OBVIOUS
  <2>1. /\ 0 \in 0 .. WssSamples - 1 /\ 0 \in 0 .. active_invalidators /\ 0 \in 0 .. Iterations
        /\ NoInvalidators \in [Invalidator -> Thread]
    BY ActiveNat, MeasuringAssumption DEF NoInvalidators, Thread
  <2>2. TypeOK
    BY <2>1, TypeParts DEF Init, Label
  <2>3. ASSUME NEW g \in Gen PROVE Local(g)
    <3>1. pc[g] = "idle" /\ invalidator[g] = NoInvalidators
      BY DEF Init
    <3>2. \A i \in Invalidator : Idle(NoInvalidators[i])
      BY DEF NoInvalidators, Idle
    <3> QED
      BY <3>1, <3>2 DEF Local, RoundInOrder, RoundInData, AtWorkload, InRound
  <2>4. ASSUME NEW w \in Workload PROVE FileKept(w)
    <3>1. slope_file[<<w, "average">>] = <<>> /\ \A g \in Gen : ~Rewriting(g, w)
      BY DEF Init, Filename, Rewriting
    <3> QED
      BY <3>1 DEF FileKept
  <2>5. ASSUME NEW w \in Workload PROVE FromFirst(w)
    <3>1. slope_file[<<w, "average">>] = <<>>
      BY DEF Init, Filename
    <3> QED
      BY <3>1 DEF FromFirst, Sizes
  <2> QED
    BY <2>2, <2>3, <2>4, <2>5 DEF Inv
<1>2. Inv /\ [Next]_vars => Inv'
  <2> SUFFICES ASSUME Inv, [Next]_vars PROVE Inv'
    OBVIOUS
  <2>1. ASSUME NEW g \in Gen,
               \/ GenStep(g) \/ Start(g) \/ Die(g)
               \/ \E i \in Invalidator : InvalidatorStep(g, i)
        PROVE  Inv'
    <3>1. TypeOK'
      BY <2>1, StepTypes, OutsideTypes DEF Inv, Local
    <3>2. \A h \in Gen : Local(h)'
      BY <2>1, LocalStep DEF Inv
    <3>3. \A w \in Workload : FileKept(w)'
      BY <2>1, FileCreated, PendingKilled, FileCleared, FilePut, FilesKeptByOthers
    <3>4. \A w \in Workload : FromFirst(w)'
      BY <2>1, LinesFromFirst
    <3> QED
      BY <3>1, <3>2, <3>3, <3>4 DEF Inv, Workload
  <2>2. CASE UNCHANGED vars
    <3>1. UNCHANGED <<files, pc, force, todo, sample, run, inv_num, data_live, invalidator>>
      BY <2>2 DEF vars, loops
    <3>2. TypeOK'
      BY <3>1 DEF Inv, TypeOK, active_invalidators, Invalidator, Filename, Line
    <3>3. \A h \in Gen : Local(h)'
      BY <3>1, LocalKept DEF Inv
    <3>4. \A w \in Workload : FileKept(w)'
      <4>1. \A g \in Gen : sample[g] \in Nat /\ sample'[g] \in Nat /\ sample'[g] <= sample[g]
        BY <3>1, TypeParts DEF Inv
      <4>2. \A g \in Gen, w \in Workload :
                Rewriting(g, w)' = Rewriting(g, w) /\ Pending(g, w)' = Pending(g, w)
        BY <3>1 DEF Rewriting, Pending
      <4> QED
        BY <3>1, <4>1, <4>2, FilesLeft DEF Inv
    <3>5. \A w \in Workload : FromFirst(w)'
      BY <3>1 DEF Inv, FromFirst, FirstSize, TargetWss, SampleWss, Sizes
    <3> QED
      BY <3>2, <3>3, <3>4, <3>5 DEF Inv, Workload
  <2> QED
    BY <2>1, <2>2 DEF Next, ProgramStep, Terminated
<1> QED
  BY <1>1, <1>2, PTL DEF Spec

\* Every variable of find_slopes keeps its type.
THEOREM TypeCorrect == Spec => []TypeOK
<1>1. Inv => TypeOK
  BY DEF Inv
<1> QED
  BY <1>1, Invariance, PTL

\* The flags and the joins keep every measurement under the load of all
\* invalidators (slope/slope.c: measure_run, start_invalidators).
THEOREM LoadIsOn == Spec => []MeasuredUnderLoad
<1>1. Inv => MeasuredUnderLoad
  BY LoadFromInv DEF Inv
<1> QED
  BY <1>1, Invariance, PTL

\* ... and none of them at work on released data (slope/slope.c:
\* stop_invalidators, calc_slope_average).
THEOREM DataOutlivesLoad == Spec => []WorkloadDataLive
<1>1. Inv => WorkloadDataLive
  BY LoadFromInv DEF Inv
<1> QED
  BY <1>1, Invariance, PTL

\* Of any overlapping invocations the last one to clear a file writes all of
\* it, if it lives, and one whose access check has emptied a file clears it
\* (slope/slope.c: update_slopes; slope.c: workload_slope_file_accessible).
THEOREM FilesWhole == Spec => []PartialOnlyWhileRewritten
<1>1. ASSUME Inv, NEW w \in Workload
      PROVE  \/ \E g \in Gen : Rewriting(g, w)
             \/ (\E g \in Gen : Pending(g, w)) /\ ~AlreadyDefined(w)
             \/ slope_file[<<w, "average">>] = <<>>
             \/ Complete(w)
  <2>1. FirstMissing(w) => ~AlreadyDefined(w)
    BY <1>1, NotDefined DEF Inv
  <2>2. FileKept(w)
    BY <1>1 DEF Inv
  <2> QED
    BY <2>1, <2>2 DEF FileKept, WrittenBy
<1>2. Inv => PartialOnlyWhileRewritten
  BY <1>1 DEF PartialOnlyWhileRewritten
<1> QED
  BY <1>2, Invariance, PTL

-----------------------------------------------------------------------------
(* Looking up a slope.                                                     *)

\* A size that the file has is found in one of its lines.
LEMMA FirstLine ==
    ASSUME NEW file \in Seq(Line), NEW s \in Sizes(file)
    PROVE  \E k \in DOMAIN file : file[k].wss = s /\ file[k].slope = FirstAt(file, s)
<1> DEFINE K == {k \in DOMAIN file : file[k].wss = s}
<1>1. DOMAIN file = 1 .. Len(file) /\ Len(file) \in Nat
  BY LenProperties
<1>2. K \subseteq Nat /\ K # {}
  BY <1>1 DEF Sizes
<1>3. \E m \in K : \A k \in K : m <= k
  BY <1>2, LeastElement
<1>4. Min(K) \in K
  BY <1>3 DEF Min
<1>5. FirstAt(file, s) = file[Min(K)].slope
  BY DEF FirstAt
<1> HIDE DEF K
<1> QED
  BY <1>4, <1>5 DEF K

\* A point between two sizes is given a slope between theirs.
LEMMA Interpolated ==
    ASSUME NEW low \in Int, NEW high \in Int, NEW d \in Nat \ {0}, NEW x \in 0 .. d
    PROVE  \/ low <= low + ((x * (high - low)) \div d) /\ low + ((x * (high - low)) \div d) <= high
           \/ high <= low + ((x * (high - low)) \div d) /\ low + ((x * (high - low)) \div d) <= low
<1> DEFINE D == high - low
           p == x * D
<1>1. D \in Int /\ x \in Nat /\ d - x \in Nat
  OBVIOUS
<1> HIDE DEF D
<1>2. p \in Int /\ d * D \in Int /\ d * 0 = 0
  BY <1>1
<1>3. CASE D >= 0
  <2>1. 0 <= p
    BY <1>1, <1>3
  <2>2. (d - x) * D >= 0 /\ d * D = (d - x) * D + x * D
    BY <1>1, <1>3
  <2>3. p <= d * D
    <3>1. (d - x) * D \in Int
      BY <1>1
    <3> QED
      BY <1>2, <2>2, <3>1
  <2> HIDE DEF p
  <2>4. 0 <= p \div d /\ p \div d <= D /\ p \div d \in Int
    BY <1>1, <1>2, <2>1, <2>3, DivGe, DivLe, DivInt
  <2> QED
    BY <1>1, <2>4 DEF D, p
<1>4. CASE D < 0
  <2>1. p <= 0
    BY <1>1, <1>4
  <2>2. (d - x) * D <= 0 /\ d * D = (d - x) * D + x * D
    BY <1>1, <1>4
  <2>3. d * D <= p
    <3>1. (d - x) * D \in Int
      BY <1>1
    <3> QED
      BY <1>2, <2>2, <3>1
  <2> HIDE DEF p
  <2>4. D <= p \div d /\ p \div d <= 0 /\ p \div d \in Int
    BY <1>1, <1>2, <2>1, <2>3, DivGe, DivLe, DivInt
  <2> QED
    BY <1>1, <2>4 DEF D, p
<1> QED
  BY <1>1, <1>3, <1>4

\* Between two sizes around it, the lookup takes the nearest ones.
LEMMA LookupBetween ==
    ASSUME NEW file \in Seq(Line), NEW t \in Nat, t \notin Sizes(file),
           {s \in Sizes(file) : s < t} # {}, {s \in Sizes(file) : s > t} # {}
    PROVE  \E j, k \in DOMAIN file :
             /\ file[j].wss <= t /\ t <= file[k].wss
             /\ \A s \in Sizes(file) : ~(file[j].wss < s /\ s < file[k].wss)
             /\ LET found == get_workload_slope(file, t) IN
                  \/ file[j].slope <= found /\ found <= file[k].slope
                  \/ file[k].slope <= found /\ found <= file[j].slope
<1> DEFINE lower == {s \in Sizes(file) : s < t}
           higher == {s \in Sizes(file) : s > t}
           a == Max(lower)
           b == Min(higher)
<1>1. DOMAIN file = 1 .. Len(file)
  BY LenProperties
<1>2. /\ Sizes(file) \subseteq Nat
      /\ \A k \in DOMAIN file : file[k].slope \in Int
  BY LineNumbers
<1>3. a \in lower /\ \A s \in lower : s <= a
  <2>1. lower \subseteq Nat /\ \A s \in lower : s <= t
    BY <1>2
  <2>2. \E m \in lower : \A s \in lower : s <= m
    BY <2>1, GreatestElement
  <2>3. \E m \in lower : \A s \in lower : m >= s
    BY <2>1, <2>2
  <2> QED
    BY <2>1, <2>3 DEF Max
<1>4. b \in higher /\ \A s \in higher : b <= s
  <2>1. higher \subseteq Nat
    BY <1>2
  <2>2. \E m \in higher : \A s \in higher : m <= s
    BY <2>1, LeastElement
  <2> QED
    BY <2>2 DEF Min
<1>5. get_workload_slope(file, t) =
        FirstAt(file, a) + (((t - a) * (FirstAt(file, b) - FirstAt(file, a))) \div (b - a))
  BY DEF get_workload_slope
<1> HIDE DEF a, b
<1>6. a \in Sizes(file) /\ b \in Sizes(file) /\ a < t /\ t < b /\ a \in Nat /\ b \in Nat
  BY <1>2, <1>3, <1>4
<1>7. \A s \in Sizes(file) : ~(a < s /\ s < b)
  BY <1>2, <1>3, <1>4, <1>6
<1>8. PICK j \in DOMAIN file : file[j].wss = a /\ file[j].slope = FirstAt(file, a)
  BY <1>6, FirstLine
<1>9. PICK k \in DOMAIN file : file[k].wss = b /\ file[k].slope = FirstAt(file, b)
  BY <1>6, FirstLine
<1> DEFINE low == file[j].slope
           high == file[k].slope
           found == get_workload_slope(file, t)
<1>10. low \in Int /\ high \in Int /\ b - a \in Nat \ {0} /\ t - a \in 0 .. b - a
  BY <1>2, <1>6
<1>11. found = low + (((t - a) * (high - low)) \div (b - a))
  BY <1>5, <1>8, <1>9
<1> DEFINE d == b - a
           x == t - a
<1> HIDE DEF low, high, found
<1>12. (low <= found /\ found <= high) \/ (high <= found /\ found <= low)
  <2>1. found = low + ((x * (high - low)) \div d) /\ d \in Nat \ {0} /\ x \in 0 .. d
    BY <1>10, <1>11
  <2> HIDE DEF d, x
  <2>2. \/ low <= low + ((x * (high - low)) \div d) /\ low + ((x * (high - low)) \div d) <= high
        \/ high <= low + ((x * (high - low)) \div d) /\ low + ((x * (high - low)) \div d) <= low
    BY <1>10, <2>1, Interpolated, Zenon
  <2> QED
    BY <2>1, <2>2, Zenon
<1>13. /\ file[j].wss <= t /\ t <= file[k].wss
       /\ \A s \in Sizes(file) : ~(file[j].wss < s /\ s < file[k].wss)
  BY <1>6, <1>7, <1>8, <1>9
<1> QED
  BY <1>12, <1>13 DEF low, high, found

\* The slope looked up for any size lies between those of its neighbours
\* (slope.c: get_workload_slope).
THEOREM LookupsBracketed == Spec => []LookupBracketed
<1>1. ASSUME TypeOK, NEW f \in Filename, NEW t \in 0 .. DefaultMaxWss
      PROVE  LET file  == slope_file[f]
                 found == get_workload_slope(file, t)
                 Around(a, b) == /\ a <= t /\ t <= b
                                 /\ \A s \in Sizes(file) : ~(a < s /\ s < b)
             IN  IF \E a, b \in Sizes(file) : a <= t /\ t <= b
                 THEN \E j, k \in DOMAIN file :
                         /\ Around(file[j].wss, file[k].wss)
                         /\ t \in Sizes(file) => file[j].wss = t /\ file[k].wss = t
                         /\ \/ file[j].slope <= found /\ found <= file[k].slope
                            \/ file[k].slope <= found /\ found <= file[j].slope
                 ELSE found = -1
  <2> DEFINE file == slope_file[f]
             S == Sizes(file)
             found == get_workload_slope(file, t)
             Enclosed == \E a, b \in S : a <= t /\ t <= b
             Bracket(j, k) ==
                /\ file[j].wss <= t /\ t <= file[k].wss
                /\ \A s \in S : ~(file[j].wss < s /\ s < file[k].wss)
                /\ t \in S => file[j].wss = t /\ file[k].wss = t
                /\ \/ file[j].slope <= found /\ found <= file[k].slope
                   \/ file[k].slope <= found /\ found <= file[j].slope
  <2>1. file \in Seq(Line) /\ t \in Nat
    BY <1>1 DEF TypeOK
  <2> HIDE DEF file
  <2>2. DOMAIN file = 1 .. Len(file)
    BY <2>1, LenProperties
  <2>3. S \subseteq Nat /\ \A k \in DOMAIN file : file[k].slope \in Int
    BY <2>1, LineNumbers
  <2>4. CASE t \in S
    <3>1. PICK k \in DOMAIN file : file[k].wss = t /\ file[k].slope = FirstAt(file, t)
      BY <2>1, <2>4, FirstLine
    <3>2. found = FirstAt(file, t)
      BY <2>4 DEF get_workload_slope
    <3>3. Bracket(k, k)
      <4>1. found = file[k].slope /\ found \in Int
        BY <2>3, <3>1, <3>2
      <4> HIDE DEF found
      <4>2. \A s \in S : ~(t < s /\ s < t)
        BY <2>1, <2>3
      <4> QED
        BY <2>1, <3>1, <4>1, <4>2
    <3>4. Enclosed
      BY <2>1, <2>4
    <3> QED
      BY <3>3, <3>4 DEF file
  <2>5. CASE t \notin S /\ {s \in S : s < t} # {} /\ {s \in S : s > t} # {}
    <3>1. \E j, k \in DOMAIN file : Bracket(j, k)
      BY <2>1, <2>5, LookupBetween
    <3>2. Enclosed
      <4>1. PICK a \in S : a < t
        BY <2>5
      <4>2. PICK b \in S : b > t
        BY <2>5
      <4> QED
        BY <2>1, <2>3, <4>1, <4>2
    <3> HIDE DEF S, found
    <3> QED
      BY <3>1, <3>2 DEF file, S, found
  <2>6. CASE t \notin S /\ ({s \in S : s < t} = {} \/ {s \in S : s > t} = {})
    <3>1. found = -1
      BY <2>6 DEF get_workload_slope
    <3>2. ~Enclosed
      BY <2>1, <2>3, <2>6
    <3> QED
      BY <3>1, <3>2 DEF file
  <2> QED
    BY <2>4, <2>5, <2>6
<1>2. TypeOK => LookupBracketed
  BY <1>1 DEF LookupBracketed
<1> QED
  BY <1>2, TypeCorrect, PTL
=============================================================================
