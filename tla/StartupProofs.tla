--------------------------- MODULE StartupProofs ---------------------------
(***************************************************************************)
(* Proofs about Taskset and Startup, for any number of processors, any     *)
(* file of any length and any command line.  The lemmas about the lines of *)
(* a file serve both specifications: that of the file alone, Spec, and     *)
(* that of the whole main process, AppSpec.                                *)
(***************************************************************************)
EXTENDS Startup, CommonLemmas, SequenceTheorems

-----------------------------------------------------------------------------
(* The inductive invariant of the file.                                    *)

\* The masks fill domain_masks from its start, and none is entered twice.
MasksInOrder ==
    \A j, k \in Cpus : j < k /\ domain_masks[k] # {} => domain_masks[j] # {}

MasksDistinct ==
    \A j, k \in Cpus :
        domain_masks[j] # {} /\ domain_masks[j] = domain_masks[k] => j = k

\* Every task has a mask, and it is entered.
MasksEntered ==
    \A k \in Index :
        /\ tasks[k].cpu_mask # {}
        /\ \E j \in Cpus : domain_masks[j] = tasks[k].cpu_mask

\* Until the tasks are released, every entry is the mask of a task.
MasksNeeded ==
    IF status = "cleaned" THEN tasks = <<>>
    ELSE \A j \in Cpus : domain_masks[j] # {} =>
             \E k \in Index : tasks[k].cpu_mask = domain_masks[j]

FileInv ==
    /\ TypeOK
    /\ MasksInOrder /\ MasksDistinct /\ MasksEntered /\ MasksNeeded
    /\ OneLeaderPerGroup
    /\ GroupWssAtLeader

-----------------------------------------------------------------------------
(* The operators.                                                          *)

\* The least element that First chooses.
LEMMA FirstIsLeast ==
    ASSUME NEW S, S \subseteq Nat, S # {}
    PROVE  First(S) \in S /\ \A j \in S : First(S) <= j
BY LeastElement DEF First

\* The greatest one that Last chooses from some of the tasks.
LEMMA LastIsGreatest ==
    ASSUME tasks \in Seq(TaskStruct), NEW S, S \subseteq Index, S # {}
    PROVE  Last(S) \in S /\ \A j \in S : j <= Last(S)
<1>1. Len(tasks) \in Nat /\ S \subseteq Nat /\ \A k \in S : k <= Len(tasks)
  BY LenProperties DEF Index
<1>2. \E m \in S : \A k \in S : k <= m
  BY <1>1, GreatestElement
<1> QED
  BY <1>2 DEF Last

\* Whatever a G line holds, the size kept is one of the workload's.
LEMMA ClampInRange ==
    ASSUME NEW wss \in WssValues
    PROVE  /\ Clamp(wss) \in 0 .. MaxWss
           /\ GroupWssCap => Clamp(wss) \in MinWss .. MaxWss
BY WssAssumption, LinesAssumption DEF Clamp

\* The number of processors, and the entries of domain_masks.
LEMMA CpusNat == Cpus \subseteq Nat /\ num_processors \in Nat \ {0}
BY ProcessorsAssumption DEF Cpus

-----------------------------------------------------------------------------
(* A T line.                                                               *)

\* The struct that init_task makes of a line.
NewTask(line) ==
    [cpu_mask     |-> line.cpus,
     thread_group |-> line.group,
     period       |-> line.period,
     group_leader |-> LeaderFor(line.group),
     my_locks     |-> TaskLocks(line),
     group_wss    |-> -1]

\* A line that init_task accepts.
Accepted(line) ==
    /\ num_locks >= 0 /\ ~seen_group
    /\ line.cpus \subseteq Cpus
    /\ SameMask(line.cpus) \cup Unused # {}

\* The leader is the new task itself if its group is new, and otherwise the
\* leader that all tasks of the group already have.
LEMMA LeaderFound ==
    ASSUME TypeOK, OneLeaderPerGroup, NEW group
    PROVE  \/ /\ \A k \in Index : tasks[k].thread_group # group
              /\ LeaderFor(group) = Len(tasks) + 1
           \/ /\ LeaderFor(group) \in Index
              /\ tasks[LeaderFor(group)].group_leader = LeaderFor(group)
              /\ tasks[LeaderFor(group)].thread_group = group
              /\ \A k \in Index : tasks[k].thread_group = group =>
                     tasks[k].group_leader = LeaderFor(group)
<1>1. CASE SameGroup(group) = {}
  BY <1>1 DEF SameGroup, LeaderFor
<1>2. CASE SameGroup(group) # {}
  <2> DEFINE m == Last(SameGroup(group))
  <2>1. SameGroup(group) \subseteq Index
    BY DEF SameGroup
  <2>2. m \in SameGroup(group)
    BY <1>2, <2>1, LastIsGreatest DEF TypeOK
  <2> HIDE DEF m
  <2>3. m \in Index /\ tasks[m].thread_group = group
    BY <2>2 DEF SameGroup
  <2>4. LeaderFor(group) = tasks[m].group_leader
    BY <1>2 DEF LeaderFor, m
  <2>5. tasks[m].group_leader \in 1 .. m /\ m \in 1 .. Len(tasks)
    BY <2>3 DEF OneLeaderPerGroup, Index
  <2>6. tasks[m].group_leader \in Index
    BY <2>5, LenProperties DEF TypeOK, Index
  <2>7. /\ group_leader(tasks[m].group_leader)
        /\ tasks[tasks[m].group_leader].thread_group = tasks[m].thread_group
        /\ \A k \in Index : tasks[k].thread_group = tasks[m].thread_group =>
               tasks[k].group_leader = tasks[m].group_leader
    BY <2>3 DEF OneLeaderPerGroup
  <2> QED
    BY <2>3, <2>4, <2>6, <2>7 DEF group_leader
<1> QED
  BY <1>1, <1>2

\* The struct has the type of a task.
LEMMA NewTaskType ==
    ASSUME TypeOK, OneLeaderPerGroup, NEW line \in TaskLines, Accepted(line)
    PROVE  NewTask(line) \in TaskStruct
<1>1. /\ line.cpus \in Mask /\ line.group \in Groups /\ line.period \in Nat
      /\ line.all \in BOOLEAN /\ line.locks \in Seq(Nat)
  BY LinesAssumption DEF Accepted, Mask
<1>2. num_locks \in Nat
  BY DEF TypeOK, Accepted
<1>3. TaskLocks(line) \in Seq(Nat)
  <2>1. [k \in 1 .. num_locks |-> k - 1] \in [1 .. num_locks -> Nat]
    BY <1>2
  <2>2. [k \in 1 .. num_locks |-> k - 1] \in Seq(Nat)
    BY <1>2, <2>1, SeqDef
  <2> QED
    BY <1>1, <2>2 DEF TaskLocks
<1>4. Len(tasks) \in Nat /\ Index \subseteq Nat
  BY LenProperties DEF TypeOK, Index
<1>5. LeaderFor(line.group) \in Nat
  <2>1. LeaderFor(line.group) = Len(tasks) + 1 \/ LeaderFor(line.group) \in Index
    BY LeaderFound, Zenon
  <2>2. Len(tasks) + 1 \in Nat
    BY <1>4
  <2> QED
    BY <1>4, <2>1, <2>2, Zenon
<1>6. -1 \in -1 .. MaxWss
  BY WssAssumption
<1> QED
  BY <1>1, <1>3, <1>5, <1>6 DEF NewTask, TaskStruct

\* The list with one more task.
LEMMA TaskAdded ==
    ASSUME tasks \in Seq(TaskStruct), NEW task \in TaskStruct,
           tasks' = Append(tasks, task)
    PROVE  /\ tasks' \in Seq(TaskStruct)
           /\ Len(tasks) \in Nat
           /\ Len(tasks') = Len(tasks) + 1
           /\ Index' = Index \cup {Len(tasks) + 1}
           /\ \A k \in Index : tasks'[k] = tasks[k]
           /\ tasks'[Len(tasks) + 1] = task
<1>1. /\ tasks' \in Seq(TaskStruct) /\ Len(tasks) \in Nat
      /\ Len(tasks') = Len(tasks) + 1
      /\ \A k \in 1 .. Len(tasks) : tasks'[k] = tasks[k]
      /\ tasks'[Len(tasks) + 1] = task
  BY AppendProperties, LenProperties
<1> QED
  BY <1>1 DEF Index

\* A new task joins the group of its leader or leads a new one.
LEMMA LeadersKept ==
    ASSUME TypeOK, OneLeaderPerGroup, NEW line \in TaskLines, Accepted(line),
           tasks' = Append(tasks, NewTask(line))
    PROVE  OneLeaderPerGroup'
<1> DEFINE n == Len(tasks) + 1
           L == LeaderFor(line.group)
           new == NewTask(line)
<1>1. /\ Len(tasks) \in Nat /\ Index' = Index \cup {n}
      /\ \A k \in Index : tasks'[k] = tasks[k]
      /\ tasks'[n] = new
  BY NewTaskType, TaskAdded DEF TypeOK
<1>2. new.thread_group = line.group /\ new.group_leader = L
  BY DEF NewTask
<1>3. Index = 1 .. Len(tasks)
  BY DEF Index
<1>4. \/ /\ \A k \in Index : tasks[k].thread_group # line.group
         /\ L = n
      \/ /\ L \in Index
         /\ tasks[L].group_leader = L
         /\ tasks[L].thread_group = line.group
         /\ \A k \in Index : tasks[k].thread_group = line.group =>
                tasks[k].group_leader = L
  BY LeaderFound
<1>5. \A k \in Index :
         /\ tasks[k].group_leader \in Index
         /\ tasks[k].group_leader \in 1 .. k
         /\ tasks[tasks[k].group_leader].group_leader = tasks[k].group_leader
         /\ tasks[tasks[k].group_leader].thread_group = tasks[k].thread_group
  BY <1>1, <1>3 DEF OneLeaderPerGroup, group_leader
<1>6. \A j, k \in Index : tasks[j].thread_group = tasks[k].thread_group =>
         tasks[j].group_leader = tasks[k].group_leader
  BY DEF OneLeaderPerGroup
<1>7. n \in Nat \ {0} /\ n \notin Index
  BY <1>1, <1>3
<1> HIDE DEF n, L, new
<1>8. ASSUME NEW k \in Index'
      PROVE  /\ tasks'[k].group_leader \in 1 .. k
             /\ tasks'[tasks'[k].group_leader].group_leader = tasks'[k].group_leader
             /\ tasks'[tasks'[k].group_leader].thread_group = tasks'[k].thread_group
  <2>1. CASE k \in Index
    <3>1. tasks'[k] = tasks[k] /\ tasks[k].group_leader \in Index
      BY <1>1, <1>5, <2>1, Zenon
    <3>2. tasks'[tasks[k].group_leader] = tasks[tasks[k].group_leader]
      BY <1>1, <3>1, Zenon
    <3>3. /\ tasks'[k].group_leader = tasks[k].group_leader
          /\ tasks'[k].thread_group = tasks[k].thread_group
          /\ tasks'[tasks'[k].group_leader] = tasks[tasks[k].group_leader]
      BY <3>1, <3>2, Zenon
    <3>4. /\ tasks'[k].group_leader \in 1 .. k
          /\ tasks[tasks[k].group_leader].group_leader = tasks[k].group_leader
          /\ tasks[tasks[k].group_leader].thread_group = tasks[k].thread_group
      BY <1>5, <2>1, <3>3, Zenon
    <3> QED
      BY <3>3, <3>4, Zenon
  <2>2. CASE k = n
    <3>1. tasks'[k].group_leader = L /\ tasks'[k].thread_group = line.group
      BY <1>1, <1>2, <2>2
    <3>2. CASE L = n
      <4>1. n \in 1 .. n
        BY <1>7
      <4>2. tasks'[k].group_leader = k
        BY <2>2, <3>1, <3>2, Zenon
      <4> QED
        BY <2>2, <4>1, <4>2, Zenon
    <3>3. CASE L # n
      <4>1. L \in Index /\ L \in 1 .. n
        BY <1>1, <1>3, <1>4, <3>3 DEF n
      <4> QED
        BY <1>1, <1>4, <2>2, <3>1, <3>3, <4>1
    <3> QED
      BY <3>2, <3>3
  <2> QED
    BY <1>1, <2>1, <2>2
<1>9. ASSUME NEW j \in Index', NEW k \in Index',
             tasks'[j].thread_group = tasks'[k].thread_group
      PROVE  tasks'[j].group_leader = tasks'[k].group_leader
  <2>1. CASE j \in Index /\ k \in Index
    BY <1>1, <1>6, <1>9, <2>1, Zenon
  <2>2. CASE j \in Index /\ k = n
    <3>1. tasks[j].thread_group = line.group /\ tasks'[j] = tasks[j]
      BY <1>1, <1>2, <1>9, <2>2, Zenon
    <3> QED
      BY <1>1, <1>2, <1>4, <2>2, <3>1, Zenon
  <2>3. CASE j = n /\ k \in Index
    <3>1. tasks[k].thread_group = line.group /\ tasks'[k] = tasks[k]
      BY <1>1, <1>2, <1>9, <2>3, Zenon
    <3> QED
      BY <1>1, <1>2, <1>4, <2>3, <3>1, Zenon
  <2>4. CASE j = n /\ k = n
    BY <2>4, Zenon
  <2>5. (j \in Index \/ j = n) /\ (k \in Index \/ k = n)
    BY <1>1, Zenon
  <2> QED
    BY <2>1, <2>2, <2>3, <2>4, <2>5, Zenon
<1> QED
  BY <1>8, <1>9 DEF OneLeaderPerGroup, group_leader

\* Its mask is entered already, or goes into the first unused entry.
LEMMA MasksKept ==
    ASSUME FileInv, status # "cleaned", status' # "cleaned",
           NEW line \in TaskLines, Accepted(line),
           domain_masks' = WithMask(line.cpus),
           tasks' = Append(tasks, NewTask(line))
    PROVE  /\ domain_masks' \in [Cpus -> Mask]
           /\ MasksInOrder' /\ MasksDistinct' /\ MasksEntered' /\ MasksNeeded'
<1> DEFINE mask == line.cpus
           S == SameMask(mask) \cup Unused
           e == First(S)
           n == Len(tasks) + 1
           new == NewTask(line)
<1>1. mask \in Mask /\ mask # {}
  BY LinesAssumption DEF Accepted, Mask
<1>2. domain_masks \in [Cpus -> Mask] /\ S # {}
  BY DEF FileInv, TypeOK, Accepted
<1>3. S \subseteq Cpus /\ S \subseteq Nat
  BY CpusNat DEF SameMask, Unused
<1>4. e \in S /\ \A j \in S : e <= j
  BY <1>2, <1>3, FirstIsLeast
<1>5. domain_masks' = [domain_masks EXCEPT ![e] = mask]
  BY DEF WithMask
<1>6. new.cpu_mask = mask
  BY DEF NewTask
<1>7. /\ Index' = Index \cup {n}
      /\ \A k \in Index : tasks'[k] = tasks[k]
      /\ tasks'[n] = new
  BY NewTaskType, TaskAdded DEF FileInv, TypeOK
<1>8. \A j \in Cpus : j \in S <=> domain_masks[j] = mask \/ domain_masks[j] = {}
  BY DEF SameMask, Unused
<1> HIDE DEF mask, S, e, n, new
<1>9. e \in Cpus /\ (domain_masks[e] = mask \/ domain_masks[e] = {})
  BY <1>3, <1>4, <1>8
<1>10. \A j \in Cpus : domain_masks'[j] = IF j = e THEN mask ELSE domain_masks[j]
  BY <1>2, <1>5
<1>11. domain_masks' \in [Cpus -> Mask]
  BY <1>1, <1>2, <1>5, <1>9
<1>12. \A j \in Cpus : j < e => domain_masks[j] # {} /\ domain_masks[j] # mask
  BY <1>3, <1>4, <1>8, CpusNat
<1>13. MasksInOrder'
  <2>1. ASSUME NEW j \in Cpus, NEW k \in Cpus, j < k, domain_masks'[k] # {}
        PROVE  domain_masks'[j] # {}
    <3>1. CASE j = e
      BY <1>1, <1>10, <3>1
    <3>2. CASE j # e /\ k = e
      BY <1>10, <1>12, <2>1, <3>2
    <3>3. CASE j # e /\ k # e
      BY <1>10, <2>1, <3>3 DEF FileInv, MasksInOrder
    <3> QED
      BY <3>1, <3>2, <3>3
  <2> QED
    BY <2>1, CpusNat DEF MasksInOrder, Cpus
<1>14. \A j \in Cpus : domain_masks[j] = mask => j = e
  <2>1. ASSUME NEW j \in Cpus, domain_masks[j] = mask, j # e PROVE FALSE
    <3>1. e < j
      BY <1>4, <1>8, <1>9, <2>1, CpusNat
    <3>2. domain_masks[e] # {}
      BY <1>1, <1>9, <2>1, <3>1 DEF FileInv, MasksInOrder
    <3> QED
      BY <1>1, <1>9, <2>1, <3>2 DEF FileInv, MasksDistinct
  <2> QED
    BY <2>1
<1>15. MasksDistinct'
  <2>1. ASSUME NEW j \in Cpus, NEW k \in Cpus, domain_masks'[j] # {},
               domain_masks'[j] = domain_masks'[k]
        PROVE  j = k
    BY <1>10, <1>14, <2>1 DEF FileInv, MasksDistinct
  <2> QED
    BY <2>1 DEF MasksDistinct, Cpus
<1>16. ASSUME NEW k \in Index'
       PROVE  tasks'[k].cpu_mask # {} /\ \E j \in Cpus : domain_masks'[j] = tasks'[k].cpu_mask
  <2>1. CASE k = n
    <3>1. tasks'[k].cpu_mask = mask
      BY <1>6, <1>7, <2>1
    <3> QED
      BY <1>1, <1>9, <1>10, <3>1
  <2>2. CASE k \in Index
    <3>1. tasks'[k] = tasks[k] /\ tasks[k].cpu_mask # {}
      BY <1>7, <2>2 DEF FileInv, MasksEntered
    <3>2. PICK j \in Cpus : domain_masks[j] = tasks[k].cpu_mask
      BY <2>2 DEF FileInv, MasksEntered
    <3>3. domain_masks'[j] = domain_masks[j]
      BY <1>9, <1>10, <3>1, <3>2
    <3> QED
      BY <3>1, <3>2, <3>3
  <2> QED
    BY <1>7, <2>1, <2>2
<1>17. ASSUME NEW j \in Cpus, domain_masks'[j] # {}
       PROVE  \E k \in Index' : tasks'[k].cpu_mask = domain_masks'[j]
  <2>1. CASE j = e
    BY <1>6, <1>7, <1>10, <2>1
  <2>2. CASE j # e
    <3>1. domain_masks'[j] = domain_masks[j]
      BY <1>10, <2>2
    <3>2. PICK k \in Index : tasks[k].cpu_mask = domain_masks[j]
      BY <1>17, <3>1 DEF FileInv, MasksNeeded
    <3>3. k \in Index' /\ tasks'[k] = tasks[k]
      BY <1>7
    <3> QED
      BY <3>1, <3>2, <3>3
  <2> QED
    BY <2>1, <2>2
<1> QED
  BY <1>11, <1>13, <1>15, <1>16, <1>17 DEF MasksEntered, MasksNeeded, Cpus

\* A task starts without a working set size.
LEMMA WssKept ==
    ASSUME FileInv, NEW line \in TaskLines, Accepted(line),
           tasks' = Append(tasks, NewTask(line))
    PROVE  GroupWssAtLeader'
<1> DEFINE n == Len(tasks) + 1
<1>1. /\ Index' = Index \cup {n}
      /\ \A k \in Index : tasks'[k] = tasks[k]
      /\ tasks'[n] = NewTask(line)
  BY NewTaskType, TaskAdded DEF FileInv, TypeOK
<1>2. NewTask(line).group_wss = -1
  BY DEF NewTask
<1> HIDE DEF n
<1>3. ASSUME NEW k \in Index', tasks'[k].group_wss # -1
      PROVE  /\ tasks'[k].group_leader = k
             /\ GroupWssCap => tasks'[k].group_wss \in MinWss .. MaxWss
  <2>1. k \in Index /\ tasks'[k] = tasks[k]
    BY <1>1, <1>2, <1>3, Zenon
  <2>2. tasks[k].group_wss # -1
    BY <1>3, <2>1, Zenon
  <2>3. /\ tasks[k].group_leader = k
        /\ GroupWssCap => tasks[k].group_wss \in MinWss .. MaxWss
    BY <2>1, <2>2, Zenon DEF FileInv, GroupWssAtLeader, group_leader
  <2> QED
    BY <2>1, <2>3, Zenon
<1> QED
  BY <1>3, Zenon DEF GroupWssAtLeader, group_leader

-----------------------------------------------------------------------------
(* A G line.                                                               *)

\* It changes one field of the leader that it finds.
LEMMA LeaderWritten ==
    ASSUME TypeOK, NEW group, NEW wss \in WssValues, LeadersOf(group) # {},
           tasks' = [tasks EXCEPT ![Last(LeadersOf(group))].group_wss = Clamp(wss)]
    PROVE  /\ tasks' \in Seq(TaskStruct)
           /\ Index' = Index
           /\ \A k \in Index :
                /\ tasks'[k].cpu_mask = tasks[k].cpu_mask
                /\ tasks'[k].thread_group = tasks[k].thread_group
                /\ tasks'[k].period = tasks[k].period
                /\ tasks'[k].group_leader = tasks[k].group_leader
                /\ \/ tasks'[k].group_wss = tasks[k].group_wss
                   \/ tasks'[k].group_wss = Clamp(wss) /\ group_leader(k)
<1> DEFINE m == Last(LeadersOf(group))
           task == [tasks[m] EXCEPT !.group_wss = Clamp(wss)]
<1>1. LeadersOf(group) \subseteq Index
  BY DEF LeadersOf, SameGroup
<1>2. m \in LeadersOf(group)
  BY <1>1, LastIsGreatest DEF TypeOK
<1>3. m \in 1 .. Len(tasks) /\ group_leader(m)
  BY <1>1, <1>2 DEF LeadersOf, Index
<1>4. tasks' = [tasks EXCEPT ![m] = task]
  OBVIOUS
<1> HIDE DEF m
<1>5. tasks \in Seq(TaskStruct) /\ tasks[m] \in TaskStruct
  BY <1>3, ElementOfSeq DEF TypeOK
<1>6. Clamp(wss) \in -1 .. MaxWss
  BY ClampInRange, WssAssumption
<1>7. task \in TaskStruct
  BY <1>5, <1>6 DEF TaskStruct
<1>8. /\ task.cpu_mask = tasks[m].cpu_mask
      /\ task.thread_group = tasks[m].thread_group
      /\ task.period = tasks[m].period
      /\ task.group_leader = tasks[m].group_leader
      /\ task.group_wss = Clamp(wss)
  BY <1>5 DEF TaskStruct
<1> HIDE DEF task
<1>9. /\ tasks' \in Seq(TaskStruct)
      /\ Len(tasks') = Len(tasks)
      /\ \A k \in 1 .. Len(tasks) : tasks'[k] = IF k = m THEN task ELSE tasks[k]
  <2> DEFINE new == [tasks EXCEPT ![m] = task]
  <2>1. /\ new \in Seq(TaskStruct) /\ Len(new) = Len(tasks)
        /\ \A k \in 1 .. Len(tasks) : new[k] = IF k = m THEN task ELSE tasks[k]
    BY <1>3, <1>5, <1>7, ExceptSeq
  <2>2. tasks' = new
    BY <1>4
  <2> HIDE DEF new
  <2> QED
    BY <2>1, <2>2
<1>10. Index' = Index
  BY <1>9 DEF Index
<1>11. ASSUME NEW k \in Index
       PROVE  /\ tasks'[k].cpu_mask = tasks[k].cpu_mask
              /\ tasks'[k].thread_group = tasks[k].thread_group
              /\ tasks'[k].period = tasks[k].period
              /\ tasks'[k].group_leader = tasks[k].group_leader
              /\ \/ tasks'[k].group_wss = tasks[k].group_wss
                 \/ tasks'[k].group_wss = Clamp(wss) /\ group_leader(k)
  <2>1. tasks'[k] = IF k = m THEN task ELSE tasks[k]
    BY <1>9 DEF Index
  <2>2. CASE k = m
    BY <1>3, <1>8, <2>1, <2>2, Zenon
  <2>3. CASE k # m
    BY <2>1, <2>3, Zenon
  <2> QED
    BY <2>2, <2>3
<1> QED
  BY <1>9, <1>10, <1>11

\* So neither masks nor leaders change, and the size is where it belongs.
LEMMA GroupRead ==
    ASSUME FileInv, status = "reading", status' = "reading",
           NEW group, NEW wss \in WssValues, LeadersOf(group) # {},
           tasks' = [tasks EXCEPT ![Last(LeadersOf(group))].group_wss = Clamp(wss)],
           UNCHANGED domain_masks
    PROVE  /\ tasks' \in Seq(TaskStruct)
           /\ MasksInOrder' /\ MasksDistinct' /\ MasksEntered' /\ MasksNeeded'
           /\ OneLeaderPerGroup'
           /\ GroupWssAtLeader'
<1>1. /\ tasks' \in Seq(TaskStruct)
      /\ Index' = Index
      /\ \A k \in Index :
           /\ tasks'[k].cpu_mask = tasks[k].cpu_mask
           /\ tasks'[k].thread_group = tasks[k].thread_group
           /\ tasks'[k].group_leader = tasks[k].group_leader
           /\ \/ tasks'[k].group_wss = tasks[k].group_wss
              \/ tasks'[k].group_wss = Clamp(wss) /\ group_leader(k)
  BY LeaderWritten DEF FileInv
<1>2. MasksInOrder' /\ MasksDistinct'
  BY DEF FileInv, MasksInOrder, MasksDistinct, Cpus
<1>3. MasksEntered'
  <2>1. \A k \in Index : tasks[k].cpu_mask # {} /\ \E j \in Cpus : domain_masks[j] = tasks[k].cpu_mask
    BY DEF FileInv, MasksEntered
  <2>2. \A k \in Index : tasks'[k].cpu_mask # {} /\ \E j \in Cpus : domain_masks'[j] = tasks'[k].cpu_mask
    BY <1>1, <2>1
  <2> QED
    BY <1>1, <2>2 DEF MasksEntered, Cpus
<1>4. MasksNeeded'
  <2>1. \A j \in Cpus : domain_masks[j] # {} => \E k \in Index : tasks[k].cpu_mask = domain_masks[j]
    BY DEF FileInv, MasksNeeded
  <2>2. \A j \in Cpus : domain_masks'[j] # {} => \E k \in Index : tasks'[k].cpu_mask = domain_masks'[j]
    BY <1>1, <2>1
  <2> QED
    BY <1>1, <2>2 DEF MasksNeeded, Cpus
<1>5. OneLeaderPerGroup'
  <2>1. \A k \in Index : tasks[k].group_leader \in Index
    BY LenProperties DEF FileInv, TypeOK, OneLeaderPerGroup, Index
  <2>2. \A k \in Index :
          /\ tasks[k].group_leader \in 1 .. k
          /\ tasks[tasks[k].group_leader].group_leader = tasks[k].group_leader
          /\ tasks[tasks[k].group_leader].thread_group = tasks[k].thread_group
    BY DEF FileInv, OneLeaderPerGroup, group_leader
  <2>3. \A j, k \in Index : tasks[j].thread_group = tasks[k].thread_group =>
          tasks[j].group_leader = tasks[k].group_leader
    BY DEF FileInv, OneLeaderPerGroup
  <2>4. \A k \in Index :
          /\ tasks'[k].group_leader \in 1 .. k
          /\ tasks'[tasks'[k].group_leader].group_leader = tasks'[k].group_leader
          /\ tasks'[tasks'[k].group_leader].thread_group = tasks'[k].thread_group
    <3> TAKE k \in Index
    <3>1. tasks'[k].group_leader = tasks[k].group_leader /\ tasks[k].group_leader \in Index
      BY <1>1, <2>1, Zenon
    <3>2. /\ tasks'[tasks[k].group_leader].group_leader = tasks[tasks[k].group_leader].group_leader
          /\ tasks'[tasks[k].group_leader].thread_group = tasks[tasks[k].group_leader].thread_group
      BY <1>1, <3>1, Zenon
    <3>3. tasks'[tasks'[k].group_leader] = tasks'[tasks[k].group_leader]
      BY <3>1, Zenon
    <3>4. tasks'[k].thread_group = tasks[k].thread_group
      BY <1>1, Zenon
    <3>5. /\ tasks[k].group_leader \in 1 .. k
          /\ tasks[tasks[k].group_leader].group_leader = tasks[k].group_leader
          /\ tasks[tasks[k].group_leader].thread_group = tasks[k].thread_group
      BY <2>2, Zenon
    <3> QED
      BY <3>1, <3>2, <3>3, <3>4, <3>5
  <2>5. \A j, k \in Index : tasks'[j].thread_group = tasks'[k].thread_group =>
          tasks'[j].group_leader = tasks'[k].group_leader
    <3> TAKE j, k \in Index
    <3>1. /\ tasks'[j].thread_group = tasks[j].thread_group
          /\ tasks'[k].thread_group = tasks[k].thread_group
          /\ tasks'[j].group_leader = tasks[j].group_leader
          /\ tasks'[k].group_leader = tasks[k].group_leader
      BY <1>1, Zenon
    <3> QED
      BY <2>3, <3>1
  <2> QED
    BY <1>1, <2>4, <2>5, Zenon DEF OneLeaderPerGroup, group_leader
<1>6. GroupWssAtLeader'
  <2>1. ASSUME NEW k \in Index, tasks'[k].group_wss # -1
        PROVE  /\ tasks[k].group_leader = k
               /\ GroupWssCap => tasks'[k].group_wss \in MinWss .. MaxWss
    <3>1. CASE tasks'[k].group_wss = tasks[k].group_wss
      BY <2>1, <3>1, Zenon DEF FileInv, GroupWssAtLeader, group_leader
    <3>2. CASE tasks'[k].group_wss = Clamp(wss) /\ group_leader(k)
      BY <3>2, ClampInRange, Zenon DEF group_leader
    <3> QED
      BY <1>1, <3>1, <3>2, Zenon
  <2> QED
    BY <1>1, <2>1, Zenon DEF GroupWssAtLeader, group_leader
<1> QED
  BY <1>1, <1>2, <1>3, <1>4, <1>5, <1>6, Zenon

-----------------------------------------------------------------------------
(* The steps of the file.                                                  *)

\* The tester as it is before the file is read.
LEMMA TesterReady ==
    ASSUME InitTester, status # "cleaned", status \in Status, locking \in {0, 1, 3}
    PROVE  FileInv
<1>1. tasks = <<>> /\ Index = {}
  BY DEF InitTester, Index
<1>2. domain_masks = [k \in Cpus |-> {}]
  BY DEF InitTester
<1>3. TypeOK
  <2>1. domain_masks \in [Cpus -> Mask]
    BY <1>2 DEF Mask
  <2>2. tasks \in Seq(TaskStruct)
    BY <1>1
  <2> QED
    BY <2>1, <2>2 DEF InitTester, TypeOK
<1>4. MasksInOrder /\ MasksDistinct /\ MasksNeeded
  BY <1>2 DEF MasksInOrder, MasksDistinct, MasksNeeded
<1>5. MasksEntered /\ OneLeaderPerGroup /\ GroupWssAtLeader
  BY <1>1 DEF MasksEntered, OneLeaderPerGroup, GroupWssAtLeader
<1> QED
  BY <1>3, <1>4, <1>5 DEF FileInv

\* Steps that leave the tester alone do not concern the invariant.
LEMMA TesterLeft ==
    ASSUME FileInv, status # "cleaned", status' # "cleaned", status' \in Status,
           num_locks' \in Nat \cup {-1}, locking' \in {0, 1, 3},
           UNCHANGED <<seen_group, domain_masks, tasks>>
    PROVE  FileInv'
<1>1. Index' = Index
  BY DEF Index
<1>2. TypeOK'
  BY DEF FileInv, TypeOK, Cpus, Mask, TaskStruct
<1>3. MasksInOrder' /\ MasksDistinct' /\ MasksEntered' /\ MasksNeeded'
  BY <1>1, Zenon DEF FileInv, MasksInOrder, MasksDistinct, MasksEntered, MasksNeeded, Cpus
<1>4. OneLeaderPerGroup' /\ GroupWssAtLeader'
  BY <1>1, Zenon DEF FileInv, OneLeaderPerGroup, GroupWssAtLeader, group_leader
<1> QED
  BY <1>2, <1>3, <1>4 DEF FileInv

\* So does the release of everything.
LEMMA TasksReleased ==
    ASSUME FileInv, ReleaseTasks
    PROVE  FileInv'
<1>1. tasks' = <<>> /\ Index' = {}
  BY DEF ReleaseTasks, Index
<1>2. TypeOK'
  <2>1. tasks' \in Seq(TaskStruct)
    BY <1>1
  <2>2. num_locks' \in Nat /\ status' \in Status
    BY DEF ReleaseTasks, Status
  <2> QED
    BY <2>1, <2>2 DEF FileInv, TypeOK, ReleaseTasks, Cpus, Mask, TaskStruct
<1>3. MasksInOrder' /\ MasksDistinct'
  BY DEF FileInv, MasksInOrder, MasksDistinct, Cpus, ReleaseTasks
<1>4. MasksNeeded'
  BY DEF MasksNeeded, ReleaseTasks
<1>5. MasksEntered' /\ OneLeaderPerGroup' /\ GroupWssAtLeader'
  BY <1>1 DEF MasksEntered, OneLeaderPerGroup, GroupWssAtLeader
<1> QED
  BY <1>2, <1>3, <1>4, <1>5 DEF FileInv

\* Every line, and the end of the file, keeps the invariant.
LEMMA FileRead ==
    ASSUME FileInv, ReadFile
    PROVE  FileInv'
<1>1. status = "reading"
  BY DEF ReadFile, ReadLocks, ReadTask, ReadGroup, ReadBadLine, EndOfFile
<1>2. CASE Fatal
  <2>1. status' = "fatal" /\ UNCHANGED <<num_locks, locking, seen_group, domain_masks, tasks>>
    BY <1>2 DEF Fatal
  <2>2. num_locks \in Nat \cup {-1} /\ locking \in {0, 1, 3}
    BY DEF FileInv, TypeOK
  <2> QED
    BY <1>1, <2>1, <2>2, TesterLeft DEF Status
<1>3. ASSUME NEW count \in LockCounts, ReadLocks(count), ~Fatal PROVE FileInv'
  <2>1. count \in Nat
    BY <1>3, LinesAssumption DEF ReadLocks
  <2> QED
    BY <1>1, <1>3, <2>1, TesterLeft DEF ReadLocks, LockingWith, FileInv, TypeOK
<1>4. ASSUME NEW line \in TaskLines, ReadTask(line), ~Fatal PROVE FileInv'
  <2>1. /\ Accepted(line)
        /\ domain_masks' = WithMask(line.cpus)
        /\ tasks' = Append(tasks, NewTask(line))
        /\ UNCHANGED <<status, num_locks, locking, seen_group>>
    BY <1>4 DEF ReadTask, Accepted, NewTask
  <2>2. /\ domain_masks' \in [Cpus -> Mask]
        /\ MasksInOrder' /\ MasksDistinct' /\ MasksEntered' /\ MasksNeeded'
    BY <1>1, <2>1, MasksKept
  <2>3. tasks' \in Seq(TaskStruct)
    BY <2>1, NewTaskType, TaskAdded DEF FileInv, TypeOK
  <2>4. TypeOK'
    BY <2>1, <2>2, <2>3 DEF FileInv, TypeOK, Cpus, Mask, TaskStruct
  <2>5. OneLeaderPerGroup' /\ GroupWssAtLeader'
    BY <2>1, LeadersKept, WssKept DEF FileInv
  <2> QED
    BY <2>2, <2>4, <2>5 DEF FileInv
<1>5. ASSUME NEW group \in Groups, NEW wss \in WssValues, ReadGroup(group, wss), ~Fatal
      PROVE  FileInv'
  <2>1. /\ LeadersOf(group) # {}
        /\ tasks' = [tasks EXCEPT ![Last(LeadersOf(group))].group_wss = Clamp(wss)]
        /\ seen_group' = TRUE
        /\ UNCHANGED <<status, num_locks, locking, domain_masks>>
    BY <1>5 DEF ReadGroup
  <2>2. /\ tasks' \in Seq(TaskStruct)
        /\ MasksInOrder' /\ MasksDistinct' /\ MasksEntered' /\ MasksNeeded'
        /\ OneLeaderPerGroup' /\ GroupWssAtLeader'
    BY <1>1, <2>1, GroupRead
  <2>3. TypeOK'
    BY <2>1, <2>2 DEF FileInv, TypeOK, Cpus, Mask, TaskStruct
  <2> QED
    BY <2>2, <2>3 DEF FileInv
<1>6. CASE EndOfFile
  <2>1. status' \in {"ready", "fatal"} /\ UNCHANGED <<num_locks, locking, seen_group, domain_masks, tasks>>
    BY <1>6 DEF EndOfFile
  <2>2. num_locks \in Nat \cup {-1} /\ locking \in {0, 1, 3}
    BY DEF FileInv, TypeOK
  <2> QED
    BY <1>1, <2>1, <2>2, TesterLeft DEF Status
<1> QED
  BY <1>2, <1>3, <1>4, <1>5, <1>6 DEF ReadFile, ReadBadLine

\* The entries up to the first unused one are the masks in use.
LEMMA DomainsScheduled ==
    ASSUME FileInv
    PROVE  DomainsMatchTasks
<1> SUFFICES ASSUME tasks # <<>> PROVE DomainsMatchTasks
  BY DEF DomainsMatchTasks
<1> DEFINE scheduled == {k \in Cpus : \A j \in 0 .. k : domain_masks[j] # {}}
<1>1. \A k \in Cpus : k \in scheduled <=> domain_masks[k] # {}
  <2>1. ASSUME NEW k \in Cpus, domain_masks[k] # {}, NEW j \in 0 .. k
        PROVE  domain_masks[j] # {}
    <3>1. j \in Cpus /\ (j < k \/ j = k)
      BY <2>1, CpusNat DEF Cpus
    <3> QED
      BY <2>1, <3>1 DEF FileInv, MasksInOrder
  <2>2. \A k \in Cpus : k \in 0 .. k
    BY CpusNat
  <2> QED
    BY <2>1, <2>2
<1> HIDE DEF scheduled
<1>2. scheduled \subseteq Cpus
  BY DEF scheduled
<1>3. ASSUME NEW k \in scheduled PROVE \E i \in Index : tasks[i].cpu_mask = domain_masks[k]
  BY <1>1, <1>2, <1>3 DEF FileInv, MasksNeeded
<1>4. ASSUME NEW i \in Index PROVE \E k \in scheduled : domain_masks[k] = tasks[i].cpu_mask
  BY <1>1, <1>4 DEF FileInv, MasksEntered
<1>5. \A j, k \in scheduled : domain_masks[j] = domain_masks[k] => j = k
  BY <1>1, <1>2 DEF FileInv, MasksDistinct
<1>6. {domain_masks[k] : k \in scheduled} = {tasks[k].cpu_mask : k \in Index}
  <2>1. \A k \in scheduled : domain_masks[k] \in {tasks[i].cpu_mask : i \in Index}
    BY <1>3
  <2>2. \A i \in Index : tasks[i].cpu_mask \in {domain_masks[k] : k \in scheduled}
    BY <1>4
  <2> QED
    BY <2>1, <2>2, Zenon
<1> QED
  BY <1>5, <1>6 DEF DomainsMatchTasks, scheduled

-----------------------------------------------------------------------------
(* The file alone.                                                         *)

\* A step that touches nothing of the file.
LEMMA FileUnchanged ==
    ASSUME FileInv, UNCHANGED vars
    PROVE  FileInv'
<1>1. /\ status' = status /\ num_locks' = num_locks /\ locking' = locking
      /\ seen_group' = seen_group /\ domain_masks' = domain_masks /\ tasks' = tasks
  BY DEF vars
<1>2. TypeOK'
  BY <1>1 DEF FileInv, TypeOK
<1>3. MasksInOrder' /\ MasksDistinct'
  BY <1>1 DEF FileInv, MasksInOrder, MasksDistinct
<1>4. Index' = Index
  BY <1>1 DEF Index
<1>5. MasksEntered' /\ MasksNeeded'
  BY <1>1, <1>4 DEF FileInv, MasksEntered, MasksNeeded
<1>6. OneLeaderPerGroup' /\ GroupWssAtLeader'
  BY <1>1, <1>4 DEF FileInv, OneLeaderPerGroup, GroupWssAtLeader, group_leader
<1> QED
  BY <1>2, <1>3, <1>5, <1>6 DEF FileInv

\* Whatever the lines of the file are, and whenever it is given up, each task
\* has one leader and one entry for its mask (tester.c: init_tasks).
THEOREM FileInvariance == Spec => []FileInv
<1>1. Init => FileInv
  BY TesterReady, LinesAssumption DEF Init, Status
<1>2. FileInv /\ [Next]_vars => FileInv'
  <2> SUFFICES ASSUME FileInv, [Next]_vars PROVE FileInv'
    OBVIOUS
  <2>1. CASE ReadFile
    BY <2>1, FileRead
  <2>2. CASE Cleanup
    BY <2>2, TasksReleased DEF Cleanup
  <2>3. CASE UNCHANGED vars
    BY <2>3, FileUnchanged
  <2> QED
    BY <2>1, <2>2, <2>3 DEF Next, Ended
<1> QED
  BY <1>1, <1>2, PTL DEF Spec

-----------------------------------------------------------------------------
(* The inductive invariant of the main process.                            *)

OptionsRecord ==
    [cpu_usage : Int, end_usage : Int, interval : Int, cs_length : Int, run_time : Int,
     batch_mode : BOOLEAN, enable_hua : BOOLEAN, no_run : BOOLEAN, taskset : BOOLEAN,
     scheduler : KnownScheduler \cup {"none", "fault"},
     workload : KnownWorkload \cup {"none"}]

\* A name that made find_scheduler fault has ended the program.
SchedulerFound ==
    status = "parsed" => options.scheduler \in KnownScheduler \cup {"none"}

\* What validate_options has checked stays so.
OptionsValid ==
    status \in {"validated", "reading", "ready", "running"} =>
        /\ options.scheduler \in KnownScheduler
        /\ options.workload \in KnownWorkload
        /\ options.run_time \in 1 .. MaxRunTime
        /\ locking # 0 => options.cs_length \in 1 .. 100

\* The usage of the first run is within the batch, and if the last addition
\* cannot overflow, so are those of the others.
UsageInRange ==
    /\ status \in {"validated", "reading", "ready"} =>
         options.cpu_usage \in 1 .. options.end_usage
    /\ status = "running" /\ options.interval > 0
                          /\ options.end_usage + options.interval <= IntMax =>
         options.cpu_usage \in 1 .. options.end_usage + options.interval

\* Locking is off once the file is known to have no locks.
LocksToTake ==
    /\ status = "command_line" => num_locks = -1
    /\ status # "cleaned" /\ num_locks = 0 => locking = 0

\* Only a file with an L line and a task makes a test.
TestComplete ==
    status \in {"ready", "running"} => tasks # <<>> /\ num_locks >= 0

AppInv ==
    /\ FileInv
    /\ options \in OptionsRecord
    /\ SchedulerFound /\ OptionsValid /\ UsageInRange
    /\ LocksToTake /\ TestComplete

-----------------------------------------------------------------------------
(* The steps of the main process.                                          *)

\* Whatever getopt found makes a record of options.
LEMMA OptionsType ==
    ASSUME NEW line \in CommandLines, NEW scheduler \in Schedulers(line)
    PROVE  OptionsOf(line, scheduler) \in OptionsRecord
<1>1. line \in CommandLineRecord
  BY CommandLinesAssumption
<1>2. /\ line.c \in Int /\ line.e \in Int /\ line.i \in Int /\ line.l \in Int /\ line.r \in Int
  BY <1>1, IntAssumption DEF CommandLineRecord, IntMin
<1>3. \A n \in Int : get_integer(n) \in Int
  BY DEF get_integer
<1>4. scheduler \in KnownScheduler \cup {"none", "fault"}
  BY DEF Schedulers, find_scheduler
<1>5. find_workload(line.w) \in KnownWorkload \cup {"none"}
  BY DEF find_workload
<1> QED
  BY <1>2, <1>3, <1>4, <1>5, DefaultAssumption DEF OptionsOf, OptionsRecord

\* An int that fits is left as it is.
LEMMA AsIntExact ==
    ASSUME NEW n \in 0 .. IntMax
    PROVE  AsInt(n) = n
<1> DEFINE m == n + IntMax + 1
           b == 2 * IntMax + 2
<1>1. IntMax \in Nat /\ n \in Nat /\ n <= IntMax
  BY IntAssumption
<1>2. b \in Nat \ {0} /\ m \in 0 .. b - 1 /\ b * 0 + m = m
  BY <1>1
<1> HIDE DEF m, b
<1>3. m % b = m
  BY <1>2, DivUnique
<1> QED
  BY <1>1, <1>3 DEF AsInt, m, b

\* Any other is still one.
LEMMA AsIntType ==
    ASSUME NEW n \in Int
    PROVE  AsInt(n) \in Int
<1> DEFINE m == n + IntMax + 1
           b == 2 * IntMax + 2
<1>1. IntMax \in Nat
  BY IntAssumption
<1>2. b \in Nat \ {0} /\ m \in Int
  BY <1>1
<1> HIDE DEF m, b
<1>3. m % b \in Int
  BY <1>2, DivInt
<1> QED
  BY <1>1, <1>3 DEF AsInt, m, b

\* Without -b the batch is one run.
LEMMA FixUpType ==
    ASSUME options \in OptionsRecord
    PROVE  /\ FixUp(options) \in OptionsRecord
           /\ FixUp(options).scheduler = options.scheduler
           /\ FixUp(options).workload = options.workload
           /\ FixUp(options).run_time = options.run_time
           /\ FixUp(options).cs_length = options.cs_length
           /\ FixUp(options).cpu_usage = options.cpu_usage
           /\ FixUp(options).end_usage =
                IF options.batch_mode THEN options.end_usage ELSE options.cpu_usage
<1> DEFINE one == [options EXCEPT !.end_usage = options.cpu_usage]
           two == [one EXCEPT !.interval = 1]
<1>1. /\ one \in OptionsRecord
      /\ one.scheduler = options.scheduler /\ one.workload = options.workload
      /\ one.run_time = options.run_time /\ one.cs_length = options.cs_length
      /\ one.cpu_usage = options.cpu_usage /\ one.end_usage = options.cpu_usage
  BY DEF OptionsRecord
<1>2. FixUp(options) = IF options.batch_mode THEN options ELSE two
  BY DEF FixUp
<1> HIDE DEF one
<1>3. /\ two \in OptionsRecord
      /\ two.scheduler = one.scheduler /\ two.workload = one.workload
      /\ two.run_time = one.run_time /\ two.cs_length = one.cs_length
      /\ two.cpu_usage = one.cpu_usage /\ two.end_usage = one.end_usage
  BY <1>1 DEF OptionsRecord
<1> HIDE DEF two
<1>4. CASE options.batch_mode
  <2>1. FixUp(options) = options
    BY <1>2, <1>4
  <2> QED
    BY <1>4, <2>1
<1>5. CASE ~options.batch_mode
  <2>1. FixUp(options) = two
    BY <1>2, <1>5
  <2> QED
    BY <1>1, <1>3, <1>5, <2>1, Zenon
<1> QED
  BY <1>4, <1>5

\* What validate_options accepts, and leaves, is a test that can be run.
LEMMA ValidOptions ==
    ASSUME options \in OptionsRecord, SchedulerFound, status = "parsed",
           Valid(options, locking)
    PROVE  /\ FixUp(options) \in OptionsRecord
           /\ FixUp(options).scheduler \in KnownScheduler
           /\ FixUp(options).workload \in KnownWorkload
           /\ FixUp(options).run_time \in 1 .. MaxRunTime
           /\ locking # 0 => FixUp(options).cs_length \in 1 .. 100
           /\ FixUp(options).cpu_usage \in 1 .. FixUp(options).end_usage
<1>1. /\ options.scheduler \in KnownScheduler /\ options.workload \in KnownWorkload
      /\ options.run_time \in 1 .. MaxRunTime
  BY DEF Valid, SchedulerFound, OptionsRecord
<1>2. locking # 0 => options.cs_length \in 1 .. 100
  BY DEF Valid, CsLengthValid, OptionsRecord
<1> DEFINE usage == options.cpu_usage
           last == options.end_usage
<1>3. usage \in 1 .. usage
  <2>1. usage \in Int /\ usage \in 1 .. MaxUsage
    BY DEF Valid, OptionsRecord
  <2> HIDE DEF usage
  <2> QED
    BY <2>1
<1>4. ASSUME options.batch_mode PROVE usage \in 1 .. last
  <2>1. usage \in 1 .. MaxUsage /\ last >= usage
    BY <1>4 DEF Valid
  <2>2. last \in Int
    BY DEF OptionsRecord
  <2> HIDE DEF usage, last
  <2> QED
    BY <2>1, <2>2
<1>5. /\ FixUp(options).scheduler \in KnownScheduler
      /\ FixUp(options).workload \in KnownWorkload
      /\ FixUp(options).run_time \in 1 .. MaxRunTime
      /\ locking # 0 => FixUp(options).cs_length \in 1 .. 100
  BY <1>1, <1>2, FixUpType
<1>6. CASE options.batch_mode
  <2>1. /\ FixUp(options).end_usage = options.end_usage
        /\ FixUp(options).cpu_usage = options.cpu_usage
    BY <1>6, FixUpType
  <2> QED
    BY <1>4, <1>5, <1>6, <2>1, FixUpType
<1>7. CASE ~options.batch_mode
  <2>1. /\ FixUp(options).end_usage = options.cpu_usage
        /\ FixUp(options).cpu_usage = options.cpu_usage
    BY <1>7, FixUpType
  <2> QED
    BY <1>3, <1>5, <2>1, FixUpType
<1> QED
  BY <1>6, <1>7

\* main: from its start to the start of the test.
LEMMA BeforeTest ==
    ASSUME AppInv,
           \/ \E line \in CommandLines : ParseCommandLine(line)
           \/ ValidateOptions \/ StartTest
    PROVE  AppInv'
<1>1. ASSUME NEW line \in CommandLines, ParseCommandLine(line) PROVE AppInv'
  <2>1. /\ status = "command_line" /\ status' \in {"usage", "fatal", "parsed"}
        /\ UNCHANGED testerVars
    BY <1>1 DEF ParseCommandLine
  <2>2. options' \in OptionsRecord
    BY <1>1, OptionsType DEF ParseCommandLine, AppInv
  <2>3. locking' \in {0, 1, 3}
    BY <1>1 DEF ParseCommandLine, Locking, NESTED_LOCKING, LOCKING, AppInv, FileInv, TypeOK
  <2>4. status' = "parsed" => options'.scheduler \in KnownScheduler \cup {"none"}
    <3>1. PICK scheduler \in Schedulers(line) :
            status' = "parsed" =>
              scheduler # "fault" /\ options' = OptionsOf(line, scheduler)
      BY <1>1 DEF ParseCommandLine
    <3>2. scheduler \in KnownScheduler \cup {"none", "fault"}
      BY DEF Schedulers, find_scheduler
    <3>3. OptionsOf(line, scheduler).scheduler = scheduler
      BY DEF OptionsOf
    <3> QED
      BY <3>1, <3>2, <3>3
  <2>5. num_locks = -1 /\ num_locks' = -1
    BY <2>1 DEF AppInv, LocksToTake, testerVars
  <2>6. FileInv'
    BY <2>1, <2>3, <2>5, TesterLeft DEF AppInv, testerVars, Status
  <2> QED
    BY <2>1, <2>2, <2>4, <2>5, <2>6 DEF AppInv, SchedulerFound, OptionsValid,
       UsageInRange, LocksToTake, TestComplete
<1>2. CASE ValidateOptions
  <2>1. /\ status = "parsed" /\ UNCHANGED <<testerVars, locking>>
        /\ options' = FixUp(options)
        /\ status' \in {"validated", "usage"}
        /\ status' = "validated" => Valid(options, locking)
    BY <1>2 DEF ValidateOptions
  <2>2. options \in OptionsRecord /\ SchedulerFound
    BY DEF AppInv
  <2>3. options' \in OptionsRecord
    BY <2>1, <2>2, FixUpType, Zenon
  <2>4. status' = "validated" =>
          /\ options'.scheduler \in KnownScheduler /\ options'.workload \in KnownWorkload
          /\ options'.run_time \in 1 .. MaxRunTime
          /\ locking # 0 => options'.cs_length \in 1 .. 100
          /\ options'.cpu_usage \in 1 .. options'.end_usage
    BY <2>1, <2>2, ValidOptions
  <2>5. FileInv'
    BY <2>1, TesterLeft DEF AppInv, FileInv, TypeOK, testerVars, Status
  <2>6. LocksToTake'
    BY <2>1 DEF AppInv, LocksToTake, testerVars
  <2> QED
    BY <2>1, <2>3, <2>4, <2>5, <2>6 DEF AppInv, SchedulerFound, OptionsValid,
       UsageInRange, TestComplete
<1>3. CASE StartTest
  <2>1. /\ status = "validated" /\ status' \in {"reading", "usage", "fatal"}
        /\ UNCHANGED <<testerVars, locking, options>>
    BY <1>3 DEF StartTest
  <2>2. FileInv'
    BY <2>1, TesterLeft DEF AppInv, FileInv, TypeOK, testerVars, Status
  <2> QED
    BY <2>1, <2>2 DEF AppInv, SchedulerFound, OptionsValid, UsageInRange, LocksToTake,
       TestComplete, testerVars
<1> QED
  BY <1>1, <1>2, <1>3

\* Reading the file, which may turn off the locking that was asked for.
LEMMA InTest ==
    ASSUME AppInv, ReadTaskset
    PROVE  AppInv'
<1>1. ReadFile /\ UNCHANGED options
  BY DEF ReadTaskset
<1>2. FileInv'
  BY <1>1, FileRead DEF AppInv
<1>3. /\ status = "reading" /\ status' \in {"reading", "ready", "fatal"}
      /\ status' = "ready" => tasks' # <<>> /\ num_locks' >= 0
      /\ locking' = locking \/ locking' = 0
  BY <1>1 DEF ReadFile, ReadLocks, ReadTask, ReadGroup, ReadBadLine, EndOfFile, Fatal,
     LockingWith
<1>4. (num_locks' = num_locks /\ locking' = locking) \/ (num_locks' = 0 => locking' = 0)
  BY <1>1 DEF ReadFile, ReadLocks, ReadTask, ReadGroup, ReadBadLine, EndOfFile, Fatal,
     LockingWith
<1> QED
  BY <1>1, <1>2, <1>3, <1>4 DEF AppInv, SchedulerFound, OptionsValid, UsageInRange,
     LocksToTake, TestComplete

\* From the first run to the end, and -z.
LEMMA AfterReading ==
    ASSUME AppInv, PrintHyperPeriod \/ StartRuns \/ Run \/ EndRuns
    PROVE  AppInv'
<1>1. CASE PrintHyperPeriod
  <2>1. /\ status = "ready" /\ status' = "printed"
        /\ UNCHANGED <<testerVars, locking, options>>
    BY <1>1 DEF PrintHyperPeriod
  <2>2. FileInv'
    BY <2>1, TesterLeft DEF AppInv, FileInv, TypeOK, testerVars, Status
  <2> QED
    BY <2>1, <2>2 DEF AppInv, SchedulerFound, OptionsValid, UsageInRange, LocksToTake,
       TestComplete, testerVars
<1>2. CASE StartRuns
  <2>1. /\ status = "ready" /\ status' = "running"
        /\ UNCHANGED <<testerVars, locking, options>>
    BY <1>2 DEF StartRuns
  <2>2. FileInv'
    BY <2>1, TesterLeft DEF AppInv, FileInv, TypeOK, testerVars, Status
  <2>3. UsageInRange'
    BY <2>1 DEF AppInv, UsageInRange, OptionsRecord
  <2> QED
    BY <2>1, <2>2, <2>3 DEF AppInv, SchedulerFound, OptionsValid, LocksToTake,
       TestComplete, testerVars
<1>3. CASE Run
  <2>1. /\ status = "running" /\ options.cpu_usage <= options.end_usage
        /\ UNCHANGED <<testerVars, locking>>
        /\ \/ /\ options' = [options EXCEPT
                               !.cpu_usage = AsInt(options.cpu_usage + options.interval)]
              /\ UNCHANGED status
           \/ status' = "fatal" /\ UNCHANGED options
    BY <1>3 DEF Run
  <2>2. FileInv'
    BY <2>1, TesterLeft DEF AppInv, FileInv, TypeOK, testerVars, Status
  <2>3. CASE status' = "fatal" /\ UNCHANGED options
    BY <2>1, <2>2, <2>3 DEF AppInv, SchedulerFound, OptionsValid, UsageInRange,
       LocksToTake, TestComplete, testerVars
  <2>4. CASE /\ options' = [options EXCEPT
                              !.cpu_usage = AsInt(options.cpu_usage + options.interval)]
             /\ UNCHANGED status
    <3> DEFINE sum == options.cpu_usage + options.interval
    <3>1. /\ options \in OptionsRecord /\ options.cpu_usage \in Int
          /\ options.interval \in Int /\ options.end_usage \in Int /\ sum \in Int
      BY DEF AppInv, OptionsRecord
    <3>2. AsInt(sum) \in Int
      BY <3>1, AsIntType
    <3> HIDE DEF sum
    <3>3. options' = [options EXCEPT !.cpu_usage = AsInt(sum)]
      BY <2>4 DEF sum
    <3>4. /\ options' \in OptionsRecord /\ options'.cpu_usage = AsInt(sum)
          /\ options'.end_usage = options.end_usage /\ options'.interval = options.interval
          /\ options'.scheduler = options.scheduler /\ options'.workload = options.workload
          /\ options'.run_time = options.run_time /\ options'.cs_length = options.cs_length
      BY <3>1, <3>2, <3>3 DEF OptionsRecord
    <3>5. ASSUME options.interval > 0, options.end_usage + options.interval <= IntMax
          PROVE  AsInt(sum) \in 1 .. options.end_usage + options.interval
      <4>1. options.cpu_usage \in 1 .. options.end_usage + options.interval
        BY <2>1, <3>5 DEF AppInv, UsageInRange
      <4>2. sum \in 0 .. IntMax /\ sum \in 1 .. options.end_usage + options.interval
        BY <2>1, <3>1, <3>5, <4>1, IntAssumption DEF sum
      <4> QED
        BY <4>2, AsIntExact
    <3>6. UsageInRange'
      BY <2>1, <2>4, <3>4, <3>5 DEF UsageInRange
    <3> QED
      BY <2>1, <2>2, <2>4, <3>4, <3>6 DEF AppInv, SchedulerFound, OptionsValid,
         LocksToTake, TestComplete, testerVars
  <2> QED
    BY <2>1, <2>3, <2>4
<1>4. CASE EndRuns
  <2>1. ReleaseTasks /\ UNCHANGED options
    BY <1>4 DEF EndRuns
  <2>2. FileInv'
    BY <2>1, TasksReleased DEF AppInv
  <2> QED
    BY <2>1, <2>2 DEF AppInv, SchedulerFound, OptionsValid, UsageInRange, LocksToTake,
       TestComplete, ReleaseTasks
<1> QED
  BY <1>1, <1>2, <1>3, <1>4

-----------------------------------------------------------------------------
(* The hyper-period.                                                       *)

\* What the theorem about it assumes of the file, and the code does not check:
\* gcd divides by the periods and keeps them in variables of type int.
OrdinaryPeriods == \A line \in TaskLines : line.period \in 1 .. IntMax

\* d divides a and b, and every common divisor divides it.
IsGcd(d, a, b) ==
    /\ d \in Nat \ {0}
    /\ \E q \in Nat \ {0} : a = d * q
    /\ \E q \in Nat \ {0} : b = d * q
    /\ \E u, v \in Int : d = u * a + v * b

\* A number is its own greatest common divisor with a multiple.
LEMMA GcdOfMultiple ==
    ASSUME NEW a \in Nat \ {0}, NEW b \in Nat \ {0}, a % b = 0
    PROVE  IsGcd(b, a, b)
<1>1. PICK q \in Int : a = b * q
  <2>1. a % b = 0 <=> \E q \in Int : a = b * q
    <3>1. a \in Int
      OBVIOUS
    <3> QED
      BY <3>1, Divides, Zenon
  <2> QED
    BY <2>1
<1>2. q \in Nat \ {0}
  <2>1. CASE q <= 0
    <3>1. b * q <= 0
      BY <2>1
    <3> QED
      BY <1>1, <3>1
  <2> QED
    BY <2>1
<1>3. b = b * 1 /\ b = 0 * a + 1 * b
  OBVIOUS
<1>4. 0 \in Int /\ 1 \in Int /\ 1 \in Nat \ {0}
  OBVIOUS
<1>5. \E u, v \in Int : b = u * a + v * b
  BY <1>3, <1>4, Zenon
<1>6. (\E i \in Nat \ {0} : a = b * i) /\ \E i \in Nat \ {0} : b = b * i
  BY <1>1, <1>2, <1>3, <1>4, Zenon
<1> QED
  BY <1>5, <1>6 DEF IsGcd

\* Otherwise the remainder may take the place of the larger number.
LEMMA GcdOfRemainder ==
    ASSUME NEW a \in Nat \ {0}, NEW b \in Nat \ {0}, NEW d, a % b # 0,
           IsGcd(d, b, a % b)
    PROVE  IsGcd(d, a, b)
<1> DEFINE c == a \div b
           r == a % b
<1>1. c \in Nat /\ r \in Nat \ {0} /\ a = b * c + r
  <2>1. a \div b \in Nat /\ a % b \in 0 .. b - 1 /\ a = b * (a \div b) + (a % b)
    <3>1. a \in Int /\ a \in Nat
      OBVIOUS
    <3> QED
      BY <3>1, DivNat, ModNat, DivMod, Zenon
  <2> QED
    BY <2>1
<1>2. IsGcd(d, b, r)
  OBVIOUS
<1> HIDE DEF c, r
<1>3. /\ d \in Nat \ {0}
      /\ \E q \in Nat \ {0} : b = d * q
      /\ \E q \in Nat \ {0} : r = d * q
      /\ \E u, v \in Int : d = u * b + v * r
  BY <1>2 DEF IsGcd
<1>4. PICK i \in Nat \ {0} : b = d * i
  BY <1>3
<1>5. PICK j \in Nat \ {0} : r = d * j
  BY <1>3
<1>6. PICK u, v \in Int : d = u * b + v * r
  BY <1>3
<1>7. a = d * (i * c + j) /\ i * c + j \in Nat \ {0}
  <2>1. i * c \in Nat
    BY <1>1
  <2>2. b * c = d * (i * c)
    BY <1>1, <1>3, <1>4
  <2>3. d * (i * c + j) = d * (i * c) + d * j
    BY <1>3, <2>1
  <2> QED
    BY <1>1, <1>5, <2>1, <2>2, <2>3
<1>8. d = v * a + (u - v * c) * b /\ u - v * c \in Int
  <2>1. v * c \in Int /\ v * b \in Int /\ b * c \in Int
    BY <1>1
  <2>2. v * a = v * (b * c) + v * r
    BY <1>1, <2>1
  <2>3. (u - v * c) * b = u * b - (v * c) * b
    BY <2>1
  <2>4. (v * c) * b = v * (b * c)
    BY <1>1
  <2>5. v * (b * c) \in Int /\ v * r \in Int /\ u * b \in Int
    BY <1>1, <2>1
  <2> QED
    BY <1>6, <2>1, <2>2, <2>3, <2>4, <2>5
<1> QED
  BY <1>3, <1>4, <1>7, <1>8 DEF IsGcd

\* The order of the numbers does not matter.
LEMMA GcdSymmetric ==
    ASSUME NEW a \in Nat \ {0}, NEW b \in Nat \ {0}, NEW d, IsGcd(d, a, b)
    PROVE  IsGcd(d, b, a)
<1>1. PICK u, v \in Int : d = u * a + v * b
  BY DEF IsGcd
<1>2. u * a \in Int /\ v * b \in Int
  OBVIOUS
<1>3. d = v * b + u * a
  BY <1>1, <1>2
<1> QED
  BY <1>3 DEF IsGcd

\* The table that gcd is defined by, for smaller numbers up to n.
GcdTable(t, large) ==
    t = [b \in 1 .. large |->
            [a \in 1 .. large |-> IF a % b = 0 THEN b ELSE t[a % b][b]]]

\* There is one ...
LEMMA GcdTableExists ==
    ASSUME NEW large \in Nat
    PROVE  \E t : GcdTable(t, large)
<1> DEFINE Row(t, b) == [a \in 1 .. large |-> IF a % b = 0 THEN b ELSE t[a % b][b]]
           S == {n \in Nat : \E t \in [1 .. n -> [1 .. large -> Nat]] :
                     n <= large => \A b \in 1 .. n : t[b] = Row(t, b)}
<1>1. 0 \in S
  <2> DEFINE t == [b \in 1 .. 0 |-> [a \in 1 .. large |-> 0]]
  <2>1. t \in [1 .. 0 -> [1 .. large -> Nat]]
    OBVIOUS
  <2>2. \A b \in 1 .. 0 : t[b] = Row(t, b)
    OBVIOUS
  <2> HIDE DEF t, Row
  <2> QED
    BY <2>1, <2>2
<1>2. ASSUME NEW n \in Nat, n \in S PROVE n + 1 \in S
  <2>1. PICK t \in [1 .. n -> [1 .. large -> Nat]] :
          n <= large => \A b \in 1 .. n : t[b] = Row(t, b)
    BY <1>2
  <2> DEFINE new == [b \in 1 .. n + 1 |->
                       IF b = n + 1 THEN IF n + 1 <= large THEN Row(t, n + 1)
                                         ELSE [a \in 1 .. large |-> 0]
                       ELSE t[b]]
  <2>2. n + 1 <= large => Row(t, n + 1) \in [1 .. large -> Nat]
    <3> SUFFICES ASSUME n + 1 <= large, NEW a \in 1 .. large
                 PROVE  (IF a % (n + 1) = 0 THEN n + 1 ELSE t[a % (n + 1)][n + 1]) \in Nat
      OBVIOUS
    <3>1. a % (n + 1) \in 0 .. (n + 1) - 1
      BY ModNat
    <3>2. CASE a % (n + 1) # 0
      <4>1. a % (n + 1) \in 1 .. n /\ n + 1 \in 1 .. large
        BY <3>1, <3>2
      <4> QED
        BY <3>2, <4>1
    <3> QED
      BY <3>2
  <2>3. new \in [1 .. n + 1 -> [1 .. large -> Nat]]
    <3> HIDE DEF Row
    <3>1. ASSUME NEW b \in 1 .. n + 1 PROVE new[b] \in [1 .. large -> Nat]
      <4>1. CASE b = n + 1
        <5>1. [a \in 1 .. large |-> 0] \in [1 .. large -> Nat]
          OBVIOUS
        <5> QED
          BY <2>2, <4>1, <5>1
      <4>2. CASE b # n + 1
        <5>1. b \in 1 .. n /\ new[b] = t[b]
          BY <4>2
        <5> QED
          BY <5>1
      <4> QED
        BY <4>1, <4>2
    <3> QED
      BY <3>1
  <2>4. \A b \in 1 .. n : new[b] = t[b]
    OBVIOUS
  <2>5. n + 1 <= large => new[n + 1] = Row(t, n + 1)
    <3> HIDE DEF Row
    <3> QED
      OBVIOUS
  <2> HIDE DEF new
  <2>6. ASSUME n + 1 <= large, NEW b \in 1 .. n + 1 PROVE new[b] = Row(new, b)
    <3>1. ASSUME NEW a \in 1 .. large, a % b # 0 PROVE new[a % b][b] = t[a % b][b]
      <4>1. a % b \in 0 .. b - 1
        BY ModNat
      <4>2. a % b \in 1 .. n
        BY <3>1, <4>1
      <4> QED
        BY <2>4, <4>2
    <3>2. Row(new, b) = Row(t, b)
      BY <3>1
    <3> HIDE DEF Row
    <3>3. CASE b = n + 1
      BY <2>5, <2>6, <3>2, <3>3
    <3>4. CASE b # n + 1
      <4>1. b \in 1 .. n /\ n <= large
        BY <2>6, <3>4
      <4> QED
        BY <2>1, <2>4, <3>2, <4>1
    <3> QED
      BY <3>3, <3>4
  <2> HIDE DEF Row
  <2>7. n + 1 <= large => \A b \in 1 .. n + 1 : new[b] = Row(new, b)
    BY <2>6
  <2>8. n + 1 \in Nat
    OBVIOUS
  <2> QED
    BY <2>3, <2>7, <2>8, Zenon
<1>3. large \in S
  <2> HIDE DEF S
  <2> QED
    BY <1>1, <1>2, SetInduction
<1>4. PICK t \in [1 .. large -> [1 .. large -> Nat]] : \A b \in 1 .. large : t[b] = Row(t, b)
  <2> HIDE DEF Row
  <2> QED
    BY <1>3
<1> HIDE DEF Row
<1>5. t = [b \in 1 .. large |-> Row(t, b)]
  BY <1>4
<1>6. GcdTable(t, large)
  BY <1>5 DEF GcdTable, Row
<1> QED
  BY <1>6

\* ... and it holds greatest common divisors.
LEMMA GcdTableRight ==
    ASSUME NEW large \in Nat, NEW t, GcdTable(t, large)
    PROVE  \A b, a \in 1 .. large : IsGcd(t[b][a], a, b)
<1> DEFINE Good(b) == \A a \in 1 .. large : IsGcd(t[b][a], a, b)
           S == {n \in Nat : \A b \in 1 .. n : b <= large => Good(b)}
<1>1. ASSUME NEW b \in 1 .. large, NEW a \in 1 .. large
      PROVE  t[b][a] = IF a % b = 0 THEN b ELSE t[a % b][b]
  <2>1. t = [c \in 1 .. large |->
               [e \in 1 .. large |-> IF e % c = 0 THEN c ELSE t[e % c][c]]]
    BY Zenon DEF GcdTable
  <2>2. t[b] = [e \in 1 .. large |-> IF e % b = 0 THEN b ELSE t[e % b][b]]
    BY <2>1, Zenon
  <2> QED
    BY <2>2, Zenon
<1>2. 0 \in S
  OBVIOUS
<1>3. ASSUME NEW n \in Nat, n \in S PROVE n + 1 \in S
  <2>1. \A b \in 1 .. n : b <= large => Good(b)
    BY <1>3
  <2>2. ASSUME n + 1 <= large PROVE Good(n + 1)
    <3> SUFFICES ASSUME NEW a \in 1 .. large PROVE IsGcd(t[n + 1][a], a, n + 1)
      OBVIOUS
    <3>1. /\ n + 1 \in 1 .. large /\ n + 1 \in Nat \ {0} /\ a \in Nat \ {0}
          /\ t[n + 1][a] = IF a % (n + 1) = 0 THEN n + 1 ELSE t[a % (n + 1)][n + 1]
      BY <1>1, <2>2
    <3>2. CASE a % (n + 1) = 0
      <4>1. IsGcd(n + 1, a, n + 1)
        BY <3>1, <3>2, GcdOfMultiple
      <4> QED
        BY <3>1, <3>2, <4>1
    <3>3. CASE a % (n + 1) # 0
      <4>1. a % (n + 1) \in 0 .. (n + 1) - 1
        BY <3>1, ModNat
      <4>2. a % (n + 1) \in 1 .. n /\ a % (n + 1) <= large
        BY <2>2, <3>3, <4>1
      <4>3. IsGcd(t[a % (n + 1)][n + 1], n + 1, a % (n + 1))
        BY <2>1, <3>1, <4>2
      <4>4. IsGcd(t[a % (n + 1)][n + 1], a, n + 1)
        BY <3>1, <3>3, <4>3, GcdOfRemainder
      <4> QED
        BY <3>1, <3>3, <4>4
    <3> QED
      BY <3>2, <3>3
  <2> HIDE DEF Good
  <2>3. ASSUME NEW b \in 1 .. n + 1, b <= large PROVE Good(b)
    <3>1. CASE b = n + 1
      BY <2>2, <2>3, <3>1
    <3>2. CASE b # n + 1
      <4>1. b \in 1 .. n
        BY <3>2
      <4> QED
        BY <2>1, <2>3, <4>1
    <3> QED
      BY <3>1, <3>2
  <2> QED
    BY <2>3
<1>4. large \in S
  <2> HIDE DEF S
  <2> QED
    BY <1>2, <1>3, SetInduction
<1> QED
  BY <1>4

\* So gcd is one (tester.h: gcd).
LEMMA gcdRight ==
    ASSUME NEW m \in Nat \ {0}, NEW n \in Nat \ {0}
    PROVE  IsGcd(gcd(m, n), m, n)
<1> DEFINE large == IF m < n THEN n ELSE m
           small == IF m < n THEN m ELSE n
           t == CHOOSE g : GcdTable(g, large)
<1>1. gcd(m, n) = t[small][large]
  BY Zenon DEF gcd, GcdTable
<1>2. large \in Nat \ {0} /\ small \in 1 .. large /\ large \in 1 .. large
  OBVIOUS
<1>3. /\ m < n => large = n /\ small = m
      /\ ~(m < n) => large = m /\ small = n
  OBVIOUS
<1> HIDE DEF large, small
<1>4. GcdTable(t, large)
  BY <1>2, GcdTableExists, Zenon
<1> HIDE DEF t
<1>5. IsGcd(t[small][large], large, small)
  BY <1>2, <1>4, GcdTableRight
<1>6. CASE m < n
  <2>1. IsGcd(gcd(m, n), n, m)
    BY <1>1, <1>3, <1>5, <1>6
  <2> QED
    BY <2>1, GcdSymmetric
<1>7. CASE ~(m < n)
  BY <1>1, <1>3, <1>5, <1>7
<1> QED
  BY <1>6, <1>7

\* One step of taskset_lcm.
Join(v, p) == (v \div gcd(v, p)) * p

\* l has for multiples the common multiples of a and b.
JoinsMultiples(l, a, b) ==
    /\ l \in Nat \ {0}
    /\ \A x \in Nat : x % l = 0 <=> x % a = 0 /\ x % b = 0

\* It joins its two numbers.
LEMMA JoinRight ==
    ASSUME NEW a \in Nat \ {0}, NEW b \in Nat \ {0}
    PROVE  JoinsMultiples(Join(a, b), a, b)
<1> DEFINE d == gcd(a, b)
<1>1. IsGcd(d, a, b)
  BY gcdRight
<1>2. Join(a, b) = (a \div d) * b
  BY DEF Join
<1> HIDE DEF d
<1>3. d \in Nat \ {0}
  BY <1>1 DEF IsGcd
<1>4. PICK i \in Nat \ {0} : a = d * i
  BY <1>1 DEF IsGcd
<1>5. PICK j \in Nat \ {0} : b = d * j
  BY <1>1 DEF IsGcd
<1>6. PICK u, v \in Int : d = u * a + v * b
  BY <1>1 DEF IsGcd
<1>7. a \div d = i
  <2>1. 0 \in 0 .. d - 1 /\ d * i \in Int /\ d * i + 0 = d * i
    BY <1>3
  <2>2. (d * i + 0) \div d = i
    BY <1>3, <2>1, DivUnique
  <2> QED
    BY <1>4, <2>1, <2>2
<1>8. u * i + v * j = 1
  <2>1. u * i \in Int /\ v * j \in Int
    OBVIOUS
  <2>2. u * (d * i) = d * (u * i) /\ v * (d * j) = d * (v * j)
    BY <1>3
  <2>3. d * (u * i + v * j) = d * (u * i) + d * (v * j)
    BY <1>3, <2>1
  <2>4. d * (u * i + v * j) = d * 1
    BY <1>3, <1>4, <1>5, <1>6, <2>2, <2>3
  <2> DEFINE e == u * i + v * j
  <2>5. e \in Int /\ d * e = d
    BY <1>3, <2>1, <2>4
  <2> HIDE DEF e
  <2>6. e = 1
    <3>1. CASE e <= 0
      <4>1. d * e <= 0
        BY <1>3, <2>5, <3>1
      <4> QED
        BY <1>3, <2>5, <4>1
    <3>2. CASE e >= 2
      <4>1. d * e >= d * 2
        BY <1>3, <2>5, <3>2
      <4> QED
        BY <1>3, <2>5, <4>1
    <3> QED
      BY <2>5, <3>1, <3>2
  <2> QED
    BY <2>6 DEF e
<1>9. Join(a, b) = i * b /\ i * b \in Nat \ {0}
  <2>1. i * b \in Nat \ {0}
    <3>1. i * b >= 1 * b
      OBVIOUS
    <3> QED
      BY <3>1
  <2> QED
    BY <1>2, <1>7, <2>1
<1>10. ASSUME NEW x \in Nat, x % (i * b) = 0
       PROVE  x % a = 0 /\ x % b = 0
  <2>1. PICK q \in Int : x = (i * b) * q
    <3>1. x \in Int
      OBVIOUS
    <3> QED
      BY <1>9, <1>10, <3>1, Divides, Zenon
  <2>2. x = a * (j * q) /\ j * q \in Int
    <3>1. (i * (d * j)) * q = (d * i) * (j * q)
      BY <1>3
    <3> QED
      BY <1>4, <1>5, <2>1, <3>1
  <2>3. x = b * (i * q) /\ i * q \in Int
    BY <2>1
  <2>4. x \in Int
    OBVIOUS
  <2>5. x % a = 0
    BY <2>2, <2>4, Divides
  <2>6. x % b = 0
    BY <2>3, <2>4, Divides
  <2> QED
    BY <2>5, <2>6
<1>11. ASSUME NEW x \in Nat, x % a = 0, x % b = 0
       PROVE  x % (i * b) = 0
  <2>0. x \in Int
    OBVIOUS
  <2>1. PICK s \in Int : x = a * s
    BY <1>11, <2>0, Divides, Zenon
  <2>2. PICK t \in Int : x = b * t
    BY <1>11, <2>0, Divides, Zenon
  <2>3. x = x * (u * i) + x * (v * j)
    <3>1. u * i \in Int /\ v * j \in Int
      OBVIOUS
    <3>2. x * (u * i + v * j) = x * (u * i) + x * (v * j)
      BY <3>1
    <3> QED
      BY <1>8, <3>1, <3>2
  <2>4. x * (u * i) = (i * b) * (t * u)
    <3>1. (b * t) * (u * i) = (i * b) * (t * u)
      OBVIOUS
    <3> QED
      BY <2>2, <3>1
  <2>5. x * (v * j) = (i * b) * (s * v)
    <3>1. ((d * i) * s) * (v * j) = (i * (d * j)) * (s * v)
      BY <1>3
    <3> QED
      BY <1>4, <1>5, <2>1, <3>1
  <2>6. x = (i * b) * (t * u + s * v) /\ t * u + s * v \in Int
    <3>1. t * u \in Int /\ s * v \in Int
      OBVIOUS
    <3>2. (i * b) * (t * u + s * v) = (i * b) * (t * u) + (i * b) * (s * v)
      BY <1>9, <3>1
    <3> QED
      BY <2>3, <2>4, <2>5, <3>1, <3>2
  <2> QED
    BY <1>9, <2>0, <2>6, Divides
<1> QED
  BY <1>9, <1>10, <1>11 DEF JoinsMultiples

\* The list that taskset_lcm is defined by.
LcmList(f) ==
    f = [k \in Index |-> IF k = Len(tasks) THEN tasks[k].period
                         ELSE (f[k + 1] \div gcd(f[k + 1], tasks[k].period)) * tasks[k].period]

PeriodsPositive == \A k \in Index : tasks[k].period \in Nat \ {0}

LEMMA LcmListExists ==
    ASSUME Len(tasks) \in Nat, PeriodsPositive
    PROVE  \E f : LcmList(f)
<1> DEFINE m == Len(tasks)
           Item(f, k) == IF k = m THEN tasks[k].period ELSE Join(f[k + 1], tasks[k].period)
           S == {n \in Nat : \E f \in [1 .. m -> Nat \ {0}] :
                     \A k \in 1 .. m : k > m - n => f[k] = Item(f, k)}
<1>1. m \in Nat /\ \A k \in 1 .. m : tasks[k].period \in Nat \ {0}
  BY DEF PeriodsPositive, Index
<1>2. Index = 1 .. m
  BY DEF Index
<1> HIDE DEF m
<1>3. ASSUME NEW f \in [1 .. m -> Nat \ {0}], NEW k \in 1 .. m
      PROVE  Item(f, k) \in Nat \ {0}
  <2>1. CASE k = m
    BY <1>1, <2>1
  <2>2. CASE k # m
    <3>1. k + 1 \in 1 .. m
      BY <1>1, <2>2
    <3>2. f[k + 1] \in Nat \ {0}
      BY <3>1
    <3>3. Join(f[k + 1], tasks[k].period) \in Nat \ {0}
      BY <1>1, <3>2, JoinRight DEF JoinsMultiples
    <3> QED
      BY <2>2, <3>3
  <2> QED
    BY <2>1, <2>2
<1>4. 0 \in S
  <2> DEFINE f == [k \in 1 .. m |-> 1]
  <2>1. f \in [1 .. m -> Nat \ {0}]
    OBVIOUS
  <2>2. \A k \in 1 .. m : ~(k > m - 0)
    BY <1>1
  <2> HIDE DEF f, Item
  <2> QED
    BY <2>1, <2>2
<1>5. ASSUME NEW n \in Nat, n \in S PROVE n + 1 \in S
  <2>1. PICK f \in [1 .. m -> Nat \ {0}] : \A k \in 1 .. m : k > m - n => f[k] = Item(f, k)
    BY <1>5
  <2> DEFINE c == m - n
             g == [k \in 1 .. m |-> IF k = c THEN Item(f, k) ELSE f[k]]
  <2>2. c \in Int /\ m - (n + 1) = c - 1 /\ c <= m
    BY <1>1
  <2>3. /\ g \in [1 .. m -> Nat \ {0}]
        /\ \A k \in 1 .. m : g[k] = IF k = c THEN Item(f, k) ELSE f[k]
    <3> HIDE DEF Item, c
    <3>1. \A k \in 1 .. m : Item(f, k) \in Nat \ {0}
      BY <1>3
    <3> QED
      BY <3>1
  <2>4. \A k \in 1 .. m : k > c => f[k] = Item(f, k)
    BY <2>1
  <2> HIDE DEF c, g
  <2>5. ASSUME NEW k \in 1 .. m, k > c - 1 PROVE g[k] = Item(g, k)
    <3>1. g[k] = Item(f, k)
      <4> HIDE DEF Item
      <4> QED
        BY <2>2, <2>3, <2>4, <2>5
    <3>2. k # m => g[k + 1] = f[k + 1]
      <4>1. k # m => k + 1 \in 1 .. m /\ k + 1 # c
        BY <1>1, <2>2, <2>5
      <4> HIDE DEF Item
      <4> QED
        BY <2>3, <4>1
    <3> QED
      BY <3>1, <3>2
  <2>6. \A k \in 1 .. m : k > m - (n + 1) => g[k] = Item(g, k)
    <3> HIDE DEF Item
    <3> QED
      BY <2>2, <2>5
  <2>7. n + 1 \in Nat
    OBVIOUS
  <2> HIDE DEF Item
  <2> QED
    BY <2>3, <2>6, <2>7, Zenon
<1>6. m \in S
  <2> HIDE DEF S
  <2> QED
    BY <1>1, <1>4, <1>5, SetInduction
<1>7. PICK f \in [1 .. m -> Nat \ {0}] : \A k \in 1 .. m : k > m - m => f[k] = Item(f, k)
  <2> HIDE DEF Item
  <2> QED
    BY <1>6, Zenon
<1>8. \A k \in 1 .. m : f[k] = Item(f, k)
  <2> HIDE DEF Item
  <2> QED
    BY <1>1, <1>7
<1>9. f = [k \in 1 .. m |-> Item(f, k)]
  <2> HIDE DEF Item
  <2> QED
    BY <1>8
<1>10. LcmList(f)
  BY <1>2, <1>9, Zenon DEF LcmList, Join, m
<1> QED
  BY <1>10

\* l has for multiples the common multiples of the periods from task k on.
JoinsPeriods(l, k) ==
    /\ l \in Nat \ {0}
    /\ \A x \in Nat : x % l = 0 <=> \A j \in k .. Len(tasks) : x % tasks[j].period = 0

LEMMA LcmListRight ==
    ASSUME Len(tasks) \in Nat, PeriodsPositive, NEW f, LcmList(f)
    PROVE  \A k \in Index : JoinsPeriods(f[k], k)
<1> DEFINE m == Len(tasks)
           p == [k \in 1 .. m |-> tasks[k].period]
           S == {n \in Nat : n < m => JoinsPeriods(f[m - n], m - n)}
<1>1. m \in Nat /\ \A k \in 1 .. m : tasks[k].period \in Nat \ {0}
  BY DEF PeriodsPositive, Index
<1>2. \A k \in 1 .. m : f[k] = IF k = m THEN tasks[k].period ELSE Join(f[k + 1], tasks[k].period)
  <2>1. f = [k \in 1 .. m |-> IF k = m THEN tasks[k].period
                              ELSE Join(f[k + 1], tasks[k].period)]
    BY Zenon DEF LcmList, Join, Index
  <2> QED
    BY <2>1, Zenon
<1>3. 0 \in S
  <2> SUFFICES ASSUME 0 < m PROVE JoinsPeriods(f[m - 0], m - 0)
    OBVIOUS
  <2>1. m - 0 = m /\ m \in 1 .. m /\ m .. m = {m}
    BY <1>1
  <2>2. f[m] = tasks[m].period /\ tasks[m].period \in Nat \ {0}
    BY <1>1, <1>2, <2>1
  <2> QED
    BY <2>1, <2>2 DEF JoinsPeriods
<1>4. ASSUME NEW n \in Nat, n \in S PROVE n + 1 \in S
  <2> DEFINE k == m - (n + 1)
  <2> SUFFICES ASSUME n + 1 < m PROVE JoinsPeriods(f[k], k)
    OBVIOUS
  <2>1. k \in 1 .. m /\ k # m /\ k + 1 = m - n /\ n < m /\ k + 1 \in 1 .. m
    BY <1>1
  <2>2. JoinsPeriods(f[k + 1], k + 1)
    BY <1>4, <2>1
  <2> HIDE DEF k, m
  <2>3. f[k] = Join(f[k + 1], tasks[k].period) /\ tasks[k].period \in Nat \ {0}
    BY <1>1, <1>2, <2>1
  <2>4. f[k + 1] \in Nat \ {0}
    BY <2>2 DEF JoinsPeriods
  <2>5. JoinsMultiples(f[k], f[k + 1], tasks[k].period)
    BY <2>3, <2>4, JoinRight
  <2>6. ASSUME NEW x \in Nat
        PROVE  x % f[k] = 0 <=> \A j \in k .. m : x % tasks[j].period = 0
    <3>1. x % f[k] = 0 <=> x % f[k + 1] = 0 /\ x % tasks[k].period = 0
      BY <2>5 DEF JoinsMultiples
    <3>2. x % f[k + 1] = 0 <=> \A j \in k + 1 .. m : x % tasks[j].period = 0
      BY <2>2 DEF JoinsPeriods, m
    <3>3. k .. m = {k} \cup (k + 1 .. m)
      BY <1>1, <2>1
    <3> QED
      BY <3>1, <3>2, <3>3
  <2>7. f[k] \in Nat \ {0}
    BY <2>5 DEF JoinsMultiples
  <2> QED
    BY <2>6, <2>7 DEF JoinsPeriods, m
<1>5. Nat \subseteq S
  <2> HIDE DEF S
  <2> QED
    BY <1>3, <1>4, SetInduction
<1>6. ASSUME NEW k \in 1 .. m PROVE JoinsPeriods(f[k], k)
  <2>1. m - k \in Nat /\ m - k < m /\ m - (m - k) = k
    BY <1>1
  <2> HIDE DEF m
  <2> QED
    BY <1>5, <2>1
<1> QED
  BY <1>6 DEF Index

\* So the number that -z prints has for multiples the common multiples of all
\* periods (tester.h: taskset_lcm).
LEMMA taskset_lcmRight ==
    ASSUME Len(tasks) \in Nat \ {0}, PeriodsPositive
    PROVE  JoinsPeriods(taskset_lcm, 1)
<1> DEFINE f == CHOOSE g : LcmList(g)
<1>1. taskset_lcm = f[1]
  BY Zenon DEF taskset_lcm, LcmList
<1>2. LcmList(f)
  BY LcmListExists, Zenon
<1> HIDE DEF f
<1>3. 1 \in Index
  BY DEF Index
<1> QED
  BY <1>1, <1>2, <1>3, LcmListRight

\* Periods stay positive if those in the file are.
LEMMA PeriodsKept ==
    ASSUME OrdinaryPeriods, AppInv, PeriodsPositive, AppNext
    PROVE  PeriodsPositive'
<1>1. CASE UNCHANGED tasks
  <2>1. Index' = Index
    BY <1>1 DEF Index
  <2> QED
    BY <1>1, <2>1 DEF PeriodsPositive
<1>2. CASE ReleaseTasks
  <2>1. Index' = {}
    BY <1>2 DEF ReleaseTasks, Index
  <2> QED
    BY <2>1 DEF PeriodsPositive
<1>3. ASSUME NEW line \in TaskLines, ReadTask(line), ~Fatal PROVE PeriodsPositive'
  <2>1. Accepted(line) /\ tasks' = Append(tasks, NewTask(line))
    BY <1>3 DEF ReadTask, Accepted, NewTask
  <2>2. /\ Index' = Index \cup {Len(tasks) + 1}
        /\ \A k \in Index : tasks'[k] = tasks[k]
        /\ tasks'[Len(tasks) + 1] = NewTask(line)
    BY <2>1, NewTaskType, TaskAdded DEF AppInv, FileInv, TypeOK
  <2>3. NewTask(line).period = line.period
    BY DEF NewTask
  <2>4. line.period \in Nat \ {0}
    BY IntAssumption DEF OrdinaryPeriods
  <2> QED
    BY <2>2, <2>3, <2>4, Zenon DEF PeriodsPositive
<1>4. ASSUME NEW group \in Groups, NEW wss \in WssValues, ReadGroup(group, wss), ~Fatal
      PROVE  PeriodsPositive'
  <2>1. /\ LeadersOf(group) # {}
        /\ tasks' = [tasks EXCEPT ![Last(LeadersOf(group))].group_wss = Clamp(wss)]
    BY <1>4 DEF ReadGroup
  <2>2. Index' = Index /\ \A k \in Index : tasks'[k].period = tasks[k].period
    BY <2>1, LeaderWritten DEF AppInv, FileInv
  <2> QED
    BY <2>2, Zenon DEF PeriodsPositive
<1>5. ReadFile =>
        \/ UNCHANGED tasks
        \/ \E line \in TaskLines : ReadTask(line) /\ ~Fatal
        \/ \E group \in Groups, wss \in WssValues : ReadGroup(group, wss) /\ ~Fatal
  BY DEF ReadFile, ReadLocks, ReadBadLine, EndOfFile, Fatal
<1>6. UNCHANGED tasks \/ ReleaseTasks \/ ReadFile
  BY DEF AppNext, ParseCommandLine, ValidateOptions, StartTest, ReadTaskset,
     PrintHyperPeriod, StartRuns, Run, EndRuns, Exited, testerVars, appVars, vars
<1> QED
  BY <1>1, <1>2, <1>3, <1>4, <1>5, <1>6

\* What is printed is the least common multiple.
LEMMA LeastPrinted ==
    ASSUME AppInv, PeriodsPositive, PrintHyperPeriod
    PROVE  HyperPeriodLeast'
<1> DEFINE l == taskset_lcm
           Common(x) == \A k \in Index : x % tasks[k].period = 0
<1>1. tasks # <<>> /\ Len(tasks) \in Nat
  BY LenProperties DEF PrintHyperPeriod, AppInv, TestComplete, FileInv, TypeOK
<1>2. Len(tasks) \in Nat \ {0}
  BY <1>1, EmptySeq DEF AppInv, FileInv, TypeOK
<1>3. JoinsPeriods(l, 1)
  BY <1>2, taskset_lcmRight
<1>4. hyper_period' = IF l <= LongMax THEN l ELSE NoHyperPeriod
  BY DEF PrintHyperPeriod
<1> HIDE DEF l
<1>5. l \in Nat \ {0} /\ \A x \in Nat : x % l = 0 <=> Common(x)
  BY <1>3 DEF JoinsPeriods, Index
<1>6. ASSUME NEW x \in 1 .. LongMax, Common(x) PROVE l <= x
  <2>1. x % l = 0 /\ x \in Int
    BY <1>5, <1>6
  <2>2. PICK q \in Int : x = l * q
    BY <1>5, <2>1, Divides, Zenon
  <2>3. q >= 1
    <3>1. CASE q <= 0
      <4>1. l * q <= 0
        BY <1>5, <3>1
      <4> QED
        BY <2>2, <4>1
    <3> QED
      BY <3>1
  <2>4. l * q >= l * 1
    BY <1>5, <2>3
  <2> QED
    BY <1>5, <2>2, <2>4
<1>7. Common(l)
  <2>1. l \in Int /\ 1 \in Int /\ l = l * 1
    BY <1>5
  <2>2. l % l = 0
    BY <1>5, <2>1, Divides, Zenon
  <2> QED
    BY <1>5, <2>2
<1> HIDE DEF Common
<1>8. ASSUME NEW x \in 1 .. LongMax, Common(x)
      PROVE  hyper_period' = l /\ l \in 1 .. LongMax
  <2>1. l <= x
    BY <1>6, <1>8
  <2> QED
    BY <1>4, <1>5, <2>1, LongAssumption
<1> DEFINE common == {x \in 1 .. LongMax : Common(x)}
<1>9. common # {} => hyper_period' \in common /\ \A x \in common : hyper_period' <= x
  BY <1>6, <1>7, <1>8
<1>10. tasks' = tasks /\ Index' = Index
  BY DEF PrintHyperPeriod, testerVars, Index
<1>11. common = {n \in 1 .. LongMax : \A k \in Index' : n % tasks'[k].period = 0}
  BY <1>10, Zenon DEF Common
<1> HIDE DEF common
<1> QED
  BY <1>9, <1>11, Zenon DEF HyperPeriodLeast

-----------------------------------------------------------------------------
(* The theorems.                                                           *)

\* The main process keeps the invariant, whatever the command line, the file
\* and the runs are (main.c: main, tester.c: run_test).
THEOREM Invariance == AppSpec => []AppInv
<1>1. AppInit => AppInv
  <2> SUFFICES ASSUME AppInit PROVE AppInv
    OBVIOUS
  <2>1. status = "command_line" /\ locking = 0 /\ num_locks = -1 /\ InitTester
    BY DEF AppInit, InitTester
  <2>2. FileInv
    BY <2>1, TesterReady DEF Status
  <2>3. options = OptionsOf(NoLine, "none")
    BY DEF AppInit
  <2>4. OptionsOf(NoLine, "none") \in OptionsRecord
    BY DefaultAssumption DEF OptionsOf, NoLine, OptionsRecord
  <2> QED
    BY <2>1, <2>2, <2>3, <2>4 DEF AppInv, SchedulerFound, OptionsValid, UsageInRange,
       LocksToTake, TestComplete
<1>2. AppInv /\ [AppNext]_appVars => AppInv'
  <2> SUFFICES ASSUME AppInv, [AppNext]_appVars PROVE AppInv'
    OBVIOUS
  <2>1. CASE UNCHANGED appVars
    <3>1. UNCHANGED <<vars, options>>
      BY <2>1 DEF appVars
    <3>2. FileInv'
      BY <3>1, FileUnchanged DEF AppInv
    <3> QED
      BY <3>1, <3>2 DEF vars, AppInv, SchedulerFound, OptionsValid, UsageInRange,
         LocksToTake, TestComplete, OptionsRecord
  <2> QED
    BY <2>1, BeforeTest, InTest, AfterReading DEF AppNext, Exited
<1> QED
  BY <1>1, <1>2, PTL DEF AppSpec

\* Every variable that the file fills keeps its type.
THEOREM TypeCorrect == AppSpec => []TypeOK
<1>1. AppInv => TypeOK
  BY DEF AppInv, FileInv
<1> QED
  BY <1>1, Invariance, PTL

\* A thread group has one leader, which leads itself, so that one process is
\* created for it (task_init.c: init_group_leader).
THEOREM LeadersUnique == AppSpec => []OneLeaderPerGroup
<1>1. AppInv => OneLeaderPerGroup
  BY DEF AppInv, FileInv
<1> QED
  BY <1>1, Invariance, PTL

\* Every mask of a task is scheduled for, and no other (task_init.c:
\* initialize_task_cpus, tester.c: run).
THEOREM DomainsMatch == AppSpec => []DomainsMatchTasks
<1>1. AppInv => DomainsMatchTasks
  BY DomainsScheduled DEF AppInv
<1> QED
  BY <1>1, Invariance, PTL

\* A working set size is kept where it is read, within the bounds of the
\* workload (task_init.c: init_group).
THEOREM WssWithLeader == AppSpec => []GroupWssAtLeader
<1>1. AppInv => GroupWssAtLeader
  BY DEF AppInv, FileInv
<1> QED
  BY <1>1, Invariance, PTL

\* A test that starts is one that validate_options meant to let through, also
\* after the file has turned its locking off (main.c: validate_options).
THEOREM TestsAreRunnable == AppSpec => []ReadyIsRunnable
<1>1. AppInv => ReadyIsRunnable
  <2> SUFFICES ASSUME AppInv, status \in {"ready", "running"} PROVE ReadyIsRunnable
    BY DEF ReadyIsRunnable
  <2>1. locking # 0 => num_locks > 0
    BY DEF AppInv, LocksToTake, TestComplete, FileInv, TypeOK
  <2>2. options.interval > 0 /\ options.end_usage + options.interval <= IntMax =>
          options.cpu_usage \in 1 .. options.end_usage + options.interval
    BY DEF AppInv, UsageInRange, OptionsRecord
  <2> QED
    BY <2>1, <2>2 DEF AppInv, OptionsValid, TestComplete, ReadyIsRunnable
<1> QED
  BY <1>1, Invariance, PTL

\* With -z, the number that is printed is the least common multiple of the
\* periods of the file, however many tasks it has, unless it is too large for a
\* long (tester.h: taskset_lcm, gcd).
THEOREM HyperPeriod == ASSUME OrdinaryPeriods PROVE AppSpec => []HyperPeriodLeast
<1>1. AppInit => PeriodsPositive /\ HyperPeriodLeast
  <2> SUFFICES ASSUME AppInit PROVE PeriodsPositive /\ HyperPeriodLeast
    OBVIOUS
  <2>1. status = "command_line" /\ Index = {}
    BY DEF AppInit, InitTester, Index
  <2> QED
    BY <2>1 DEF PeriodsPositive, HyperPeriodLeast
<1>2. AppInv /\ PeriodsPositive /\ HyperPeriodLeast /\ [AppNext]_appVars =>
        (PeriodsPositive /\ HyperPeriodLeast)'
  <2> SUFFICES ASSUME AppInv, PeriodsPositive, HyperPeriodLeast, [AppNext]_appVars
               PROVE  PeriodsPositive' /\ HyperPeriodLeast'
    OBVIOUS
  <2>1. CASE UNCHANGED appVars
    <3>1. UNCHANGED <<status, tasks, hyper_period>>
      BY <2>1 DEF appVars, vars
    <3>2. Index' = Index
      BY <3>1 DEF Index
    <3> QED
      BY <3>1, <3>2 DEF PeriodsPositive, HyperPeriodLeast
  <2>2. CASE AppNext /\ ~UNCHANGED appVars
    <3>1. PeriodsPositive'
      BY <2>2, PeriodsKept
    <3>2. CASE PrintHyperPeriod
      BY <3>1, <3>2, LeastPrinted
    <3>3. CASE status' # "printed"
      BY <3>1, <3>3 DEF HyperPeriodLeast
    <3>4. PrintHyperPeriod \/ status' # "printed"
      BY <2>2 DEF AppNext, ParseCommandLine, ValidateOptions, StartTest, ReadTaskset,
         ReadFile, ReadLocks, ReadTask, ReadGroup, ReadBadLine, EndOfFile, Fatal,
         StartRuns, Run, EndRuns, ReleaseTasks, Exited
    <3> QED
      BY <3>1, <3>2, <3>3, <3>4
  <2> QED
    BY <2>1, <2>2
<1> QED
  BY <1>1, <1>2, Invariance, PTL DEF AppSpec
=============================================================================
