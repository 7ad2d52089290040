---------------------------- MODULE CommonLemmas ---------------------------
(***************************************************************************)
(* Facts that the proofs about the components share: the division of       *)
(* integers, the least element of a set of natural numbers, induction and  *)
(* recursion, and the statistics of a task.                                *)
(***************************************************************************)
EXTENDS TaskStats, WellFoundedInduction, TLAPS

-----------------------------------------------------------------------------
(* Division.                                                               *)

\* A quotient is an integer and a remainder one below the divisor.
LEMMA DivInt ==
    ASSUME NEW a \in Int, NEW b \in Nat \ {0}
    PROVE  a \div b \in Int /\ a % b \in 0 .. b - 1
    OBVIOUS

\* The quotient of a natural number is one.
LEMMA DivNat ==
    ASSUME NEW a \in Nat, NEW b \in Nat \ {0}
    PROVE  a \div b \in Nat
    OBVIOUS

\* Its remainder is below the divisor.
LEMMA ModNat ==
    ASSUME NEW a \in Nat, NEW b \in Nat \ {0}
    PROVE  a % b \in 0 .. b - 1
    OBVIOUS

\* Quotient and remainder make up the number divided.
LEMMA DivMod ==
    ASSUME NEW a \in Int, NEW b \in Nat \ {0}
    PROVE  a = b * (a \div b) + (a % b)
    OBVIOUS

\* They are the only ones.
LEMMA DivUnique ==
    ASSUME NEW b \in Nat \ {0}, NEW q \in Int, NEW r \in 0 .. b - 1
    PROVE  (b * q + r) \div b = q /\ (b * q + r) % b = r
    OBVIOUS

\* A bound of the number divided bounds the quotient.
LEMMA DivLe ==
    ASSUME NEW a \in Int, NEW b \in Nat \ {0}, NEW c \in Int, a <= b * c
    PROVE  a \div b <= c
    OBVIOUS

LEMMA DivGe ==
    ASSUME NEW a \in Int, NEW b \in Nat \ {0}, NEW c \in Int, b * c <= a
    PROVE  c <= a \div b
    OBVIOUS

\* A multiple of the divisor leaves the remainder and adds to the quotient.
LEMMA DivShift ==
    ASSUME NEW a \in Int, NEW b \in Nat \ {0}, NEW c \in Int
    PROVE  (a + b * c) \div b = a \div b + c
<1> DEFINE q == a \div b
           r == a % b
<1>1. q \in Int /\ r \in 0 .. b - 1 /\ a = b * q + r
  BY DivInt, DivMod
<1> HIDE DEF q, r
<1>2. a + b * c = b * (q + c) + r
  BY <1>1
<1>3. q + c \in Int
  BY <1>1
<1>4. (b * (q + c) + r) \div b = q + c
  BY <1>1, <1>3, DivUnique
<1> QED
  BY <1>2, <1>4 DEF q

\* A number leaves no remainder if it is a multiple of the divisor.
LEMMA Divides ==
    ASSUME NEW x \in Int, NEW d \in Nat \ {0}
    PROVE  x % d = 0 <=> \E q \in Int : x = d * q
<1>1. ASSUME x % d = 0 PROVE \E q \in Int : x = d * q
  <2>1. x \div d \in Int /\ x = d * (x \div d) + (x % d)
    BY DivInt, DivMod
  <2> DEFINE k == x \div d
  <2>2. k \in Int /\ x = d * k
    <3>1. d * k \in Int
      BY <2>1
    <3> QED
      BY <1>1, <2>1, <3>1
  <2> QED
    BY <2>2
<1>2. ASSUME NEW q \in Int, x = d * q PROVE x % d = 0
  <2>1. d * q \in Int /\ x = d * q + 0
    BY <1>2
  <2>2. 0 \in 0 .. d - 1
    OBVIOUS
  <2>3. (d * q + 0) % d = 0
    BY <2>2, DivUnique
  <2> QED
    BY <2>1, <2>3
<1> QED
  BY <1>1, <1>2

-----------------------------------------------------------------------------
(* The least element of a set, and induction in the form of a fact about a *)
(* set.  The induction theorems of the library take a predicate for a      *)
(* parameter, which the provers cannot instantiate; that the order of the  *)
(* natural numbers is well-founded, and that then a non-empty set has a    *)
(* minimal element, are facts about sets, and from them these follow.      *)

\* The order of the natural numbers, as a set of pairs.
LessThan == {p \in Nat \X Nat : p[1] < p[2]}

\* It has no infinite descending sequence.
LEMMA LessThanWellFounded == IsWellFoundedOn(LessThan, Nat)
<1>1. OpToRel(<, Nat) = LessThan
  BY Zenon DEF OpToRel, LessThan
<1> QED
  BY <1>1, NatLessThanWellFounded, Zenon

\* A set of natural numbers that is not empty has a least element.
LEMMA LeastElement ==
    ASSUME NEW S, S \subseteq Nat, S # {}
    PROVE  \E m \in S : \A k \in S : m <= k
<1>1. PICK m \in S : \A k \in S : ~(<<k, m>> \in LessThan)
  BY LessThanWellFounded, WFMin, Zenon
<1>2. ASSUME NEW k \in S PROVE m <= k
  <2>1. <<k, m>> \in Nat \X Nat /\ <<k, m>>[1] = k /\ <<k, m>>[2] = m
    OBVIOUS
  <2>2. ~(k < m)
    BY <1>1, <2>1 DEF LessThan
  <2> QED
    BY <2>2
<1> QED
  BY <1>2

\* ... and if it is bounded, a greatest.
LEMMA GreatestElement ==
    ASSUME NEW S, S \subseteq Nat, S # {}, NEW n \in Nat, \A k \in S : k <= n
    PROVE  \E m \in S : \A k \in S : k <= m
<1> DEFINE T == {j \in Nat : n - j \in S}
<1>1. PICK k \in S : TRUE
  OBVIOUS
<1>2. n - k \in Nat /\ n - (n - k) = k
  BY <1>1
<1>3. T \subseteq Nat /\ T # {}
  BY <1>1, <1>2
<1>4. PICK least \in T : \A j \in T : least <= j
  BY <1>3, LeastElement
<1>5. n - least \in S
  BY <1>4
<1>6. ASSUME NEW j \in S PROVE j <= n - least
  <2>1. j \in Nat /\ n - j \in Nat /\ n - (n - j) = j /\ least \in Nat
    OBVIOUS
  <2>2. n - j \in T
    BY <2>1
  <2> QED
    BY <1>4, <2>1, <2>2
<1> QED
  BY <1>5, <1>6

\* A set that has 0, and with every number the next, has them all.
LEMMA SetInduction ==
    ASSUME NEW S, 0 \in S, \A n \in Nat : n \in S => n + 1 \in S
    PROVE  Nat \subseteq S
<1> DEFINE T == {n \in Nat : n \notin S}
<1> SUFFICES ASSUME T # {} PROVE FALSE
  OBVIOUS
<1>1. PICK m \in T : \A k \in T : m <= k
  BY LeastElement
<1>2. m \in Nat /\ m # 0
  OBVIOUS
<1>3. m - 1 \in Nat /\ m - 1 \notin T
  BY <1>1, <1>2
<1>4. m - 1 \in S /\ (m - 1) + 1 = m
  BY <1>2, <1>3
<1> QED
  BY <1>3, <1>4
-----------------------------------------------------------------------------
(* Walks: functions that are defined by recursion over 0 .. n.             *)

\* A walk of n steps from start.
IsWalk(w, start, step, n) ==
    w = [k \in 0 .. n |-> IF k = 0 THEN start ELSE step[w[k - 1]]]

Walk(start, step, n) == CHOOSE w : IsWalk(w, start, step, n)

\* There is one,
LEMMA IterationExists ==
    ASSUME NEW V, NEW start \in V, NEW step \in [V -> V], NEW n \in Nat
    PROVE  \E w \in [0 .. n -> V] : IsWalk(w, start, step, n)
<1> DEFINE Steps(f, m) == f[0] = start /\ \A k \in 1 .. m : f[k] = step[f[k - 1]]
           S == {m \in Nat : \E f \in [Nat -> V] : Steps(f, m)}
<1>1. 0 \in S
  <2> DEFINE f == [k \in Nat |-> start]
  <2>1. f \in [Nat -> V] /\ Steps(f, 0)
    OBVIOUS
  <2> QED
    BY <2>1
<1>2. ASSUME NEW m \in Nat, m \in S PROVE m + 1 \in S
  <2>1. PICK f \in [Nat -> V] : Steps(f, m)
    BY <1>2
  <2> DEFINE g == [f EXCEPT ![m + 1] = step[f[m]]]
  <2>2. g \in [Nat -> V] /\ g[m + 1] = step[f[m]] /\ \A k \in Nat : k # m + 1 => g[k] = f[k]
    OBVIOUS
  <2> HIDE DEF g
  <2>3. ASSUME NEW k \in 1 .. m + 1 PROVE g[k] = step[g[k - 1]]
    <3>1. k - 1 \in Nat /\ k - 1 # m + 1 /\ g[k - 1] = f[k - 1]
      BY <2>2
    <3>2. CASE k = m + 1
      BY <2>2, <3>1, <3>2
    <3>3. CASE k # m + 1
      <4>1. k \in 1 .. m /\ g[k] = f[k]
        BY <2>2, <3>3
      <4> QED
        BY <2>1, <3>1, <4>1
    <3> QED
      BY <3>2, <3>3
  <2>4. g[0] = start
    BY <2>1, <2>2
  <2> QED
    BY <2>2, <2>3, <2>4
<1>3. n \in S
  <2> HIDE DEF S
  <2> QED
    BY <1>1, <1>2, SetInduction
<1>4. PICK f \in [Nat -> V] : Steps(f, n)
  BY <1>3
<1> DEFINE w == [k \in 0 .. n |-> f[k]]
<1>5. w \in [0 .. n -> V]
  OBVIOUS
<1>6. ASSUME NEW k \in 0 .. n
      PROVE  w[k] = IF k = 0 THEN start ELSE step[w[k - 1]]
  <2>1. CASE k = 0
    BY <1>4, <2>1
  <2>2. CASE k # 0
    <3>1. k \in 1 .. n /\ k - 1 \in 0 .. n
      BY <2>2
    <3> QED
      BY <1>4, <3>1
  <2> QED
    BY <2>1, <2>2
<1>7. IsWalk(w, start, step, n)
  BY <1>6 DEF IsWalk
<1> QED
  BY <1>5, <1>7

\* and where it goes.
WalksIn(w, V, start, then, n) ==
    /\ w \in [0 .. n -> V]
    /\ w[0] = start
    /\ \A k \in 1 .. n : w[k] = then[w[k - 1]]

\* V is a set that then does not leave.
LEMMA Iteration ==
    ASSUME NEW V, NEW start \in V, NEW then, \A v \in V : then[v] \in V, NEW n \in Nat,
           NEW w, w = Walk(start, then, n)
    PROVE  WalksIn(w, V, start, then, n)
<1> DEFINE step == [v \in V |-> then[v]]
<1>1. PICK f \in [0 .. n -> V] : IsWalk(f, start, step, n)
  <2>1. step \in [V -> V]
    OBVIOUS
  <2> HIDE DEF step
  <2> QED
    BY <2>1, IterationExists
<1>2. IsWalk(f, start, then, n)
  <2>1. ASSUME NEW k \in 0 .. n
        PROVE  f[k] = IF k = 0 THEN start ELSE then[f[k - 1]]
    <3>1. f[k] = IF k = 0 THEN start ELSE step[f[k - 1]]
      <4> HIDE DEF step
      <4>1. f = [j \in 0 .. n |-> IF j = 0 THEN start ELSE step[f[j - 1]]]
        BY <1>1, Zenon DEF IsWalk
      <4> QED
        BY <4>1, Zenon
    <3>2. k # 0 => k - 1 \in 0 .. n /\ f[k - 1] \in V
      BY <1>1
    <3> QED
      BY <3>1, <3>2
  <2>2. DOMAIN f = 0 .. n /\ f = [k \in 0 .. n |-> f[k]]
    BY <1>1
  <2> QED
    BY <2>1, <2>2 DEF IsWalk
<1>3. IsWalk(w, start, then, n)
  BY <1>2, Zenon DEF Walk
<1>4. \A k \in 0 .. n : w[k] = IF k = 0 THEN start ELSE then[w[k - 1]]
  <2>1. w = [k \in 0 .. n |-> IF k = 0 THEN start ELSE then[w[k - 1]]]
    BY <1>3, Zenon DEF IsWalk
  <2> QED
    BY <2>1, Zenon
<1>5. w[0] = start /\ \A k \in 1 .. n : w[k] = then[w[k - 1]]
  BY <1>4
<1> DEFINE S == {k \in Nat : k <= n => w[k] \in V}
<1>6. 0 \in S
  BY <1>5
<1>7. ASSUME NEW k \in Nat, k \in S PROVE k + 1 \in S
  <2>1. CASE k + 1 <= n
    <3>1. k + 1 \in 1 .. n /\ (k + 1) - 1 = k /\ k <= n
      BY <2>1
    <3>2. w[k + 1] = then[w[k]]
      BY <1>5, <3>1, Zenon
    <3>3. w[k] \in V
      BY <1>7, <3>1
    <3>4. w[k + 1] \in V
      BY <3>2, <3>3, Zenon
    <3> QED
      BY <3>4
  <2> QED
    BY <2>1
<1>8. \A k \in 0 .. n : w[k] \in V
  <2> HIDE DEF S
  <2>1. Nat \subseteq S
    BY <1>6, <1>7, SetInduction
  <2> QED
    BY <2>1 DEF S
<1>9. w \in [0 .. n -> V]
  <2>1. w = [k \in 0 .. n |-> IF k = 0 THEN start ELSE then[w[k - 1]]]
    BY <1>3, Zenon DEF IsWalk
  <2>2. w = [k \in 0 .. n |-> w[k]]
    BY <2>1, <1>4
  <2> QED
    BY <1>8, <2>2
<1> QED
  BY <1>5, <1>9 DEF WalksIn

-----------------------------------------------------------------------------
(* The statistics of a task.                                               *)

\* The statistics with any set of values for the tardiness.
StatsOver(W) ==
    [num_releases : Nat, num_aborted : Nat, deadlines_met : Nat,
     utility_accrued : Nat, max_tardiness : W]

\* Resetting every field stays within the record type.
LEMMA FieldsReset ==
    ASSUME NEW W, NEW s \in StatsOver(W), NEW z \in W
    PROVE  [s EXCEPT !.num_releases = 0, !.num_aborted = 0, !.deadlines_met = 0,
                     !.utility_accrued = 0, !.max_tardiness = z] \in StatsOver(W)
    BY DEF StatsOver

\* So does a change of the two fields that count a met deadline.
LEMMA FieldsMet ==
    ASSUME NEW W, NEW s \in StatsOver(W), NEW m \in Nat, NEW a \in Nat
    PROVE  [s EXCEPT !.deadlines_met = m, !.utility_accrued = a] \in StatsOver(W)
    BY DEF StatsOver

\* The ways a job changes the statistics of its task keep their type.
LEMMA StatsClosed ==
    ASSUME NEW worst \in Nat, NEW s \in StatsType(worst)
    PROVE  /\ clear_task_stats(s) \in StatsType(worst)
           /\ NextRelease(s) \in StatsType(worst)
           /\ [s EXCEPT !.num_releases = 0] \in StatsType(worst)
           /\ CountAborted(s) \in StatsType(worst)
           /\ \A u \in Nat : CountMet(s, u) \in StatsType(worst)
           /\ \A tardiness \in -worst .. -1 :
                CountLate(s, tardiness) \in StatsType(worst)
<1> DEFINE W == -worst .. 0
<1>1. StatsType(worst) = StatsOver(W)
  BY DEF StatsType, StatsOver
<1>2. 0 \in W
  OBVIOUS
<1>3. clear_task_stats(s) \in StatsType(worst)
  <2> HIDE DEF W
  <2> QED
    BY <1>1, <1>2, FieldsReset DEF clear_task_stats
<1>4. NextRelease(s) \in StatsType(worst)
  BY DEF StatsType, NextRelease
<1>5. [s EXCEPT !.num_releases = 0] \in StatsType(worst)
  BY DEF StatsType
<1>6. CountAborted(s) \in StatsType(worst)
  BY DEF StatsType, CountAborted
<1>7. ASSUME NEW u \in Nat
      PROVE  CountMet(s, u) \in StatsType(worst)
  <2> DEFINE met == s.deadlines_met + 1
             accrued == s.utility_accrued + u
  <2>1. met \in Nat /\ accrued \in Nat
    BY DEF StatsType
  <2>2. CountMet(s, u) =
          [s EXCEPT !.deadlines_met = met, !.utility_accrued = accrued]
    BY DEF CountMet, StatsType
  <2> HIDE DEF met, accrued, W
  <2>3. [s EXCEPT !.deadlines_met = met, !.utility_accrued = accrued] \in StatsOver(W)
    BY <2>1, <1>1, FieldsMet, Zenon
  <2> QED
    BY <2>2, <2>3, <1>1, Zenon
<1>8. ASSUME NEW tardiness \in -worst .. -1
      PROVE  CountLate(s, tardiness) \in StatsType(worst)
  BY DEF StatsType, CountLate
<1> QED
  BY <1>3, <1>4, <1>5, <1>6, <1>7, <1>8

\* After clear_task_stats every counter is zero.
LEMMA ClearedFields ==
    ASSUME NEW worst \in Nat, NEW s \in StatsType(worst)
    PROVE  /\ clear_task_stats(s).num_releases = 0
           /\ clear_task_stats(s).num_aborted = 0
           /\ clear_task_stats(s).deadlines_met = 0
           /\ clear_task_stats(s).utility_accrued = 0
    BY DEF clear_task_stats, StatsType

\* A new task struct has statistics of that type.
LEMMA ClearedStatsType ==
    ASSUME NEW worst \in Nat
    PROVE  ClearedStats \in StatsType(worst)
    BY DEF ClearedStats, StatsType
=============================================================================
