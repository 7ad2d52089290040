-------------------------- MODULE WorkloadsProofs --------------------------
(***************************************************************************)
(* The properties of Workloads, for every number of threads, nodes and     *)
(* values and every size of the arrays.                                    *)
(*                                                                         *)
(* What holds the proofs together is a picture of the data structures that *)
(* does not need recursion: a list is a function from 0 .. m that goes     *)
(* through its m nodes, and a tree of m nodes is a relation between        *)
(* parents and children in which a child has the greater number, because   *)
(* it was allocated later.  That makes every descent end, and makes the    *)
(* nodes of a subtree the least set that is closed under children.         *)
(***************************************************************************)
EXTENDS Workloads, CommonLemmas, FiniteSetTheorems

-----------------------------------------------------------------------------
(* The invariant.                                                          *)

Pointer == Node \cup {NULL}

StoreType ==
    [head : Pointer, next : [Node -> Pointer], left : [Node -> Pointer],
     right : [Node -> Pointer], value : [Node -> Value],
     false_value : [Node -> {0, 1}]]

TaskRecord ==
    [phase : {"none", "working", "gone"}, head : Pointer, next_node : Pointer,
     next_element : Nat, finding_value : Value]

TypeOK ==
    /\ workload \in Nodes \cup Arrays \cup {"burn_loop"}
    /\ stage \in {"init_group", "run", "done"}
    /\ workload \in Nodes => num_elements \in 1 .. MaxNodes
    /\ workload \in Arrays => num_elements \in ArraySizes
    /\ store \in StoreType
    /\ nodes \subseteq Node
    /\ first \in TaskRecord
    /\ task \in [Thread -> TaskRecord]

\* The threads start after init_group and are gone before cleanup_group.
Stages ==
    /\ stage = "init_group" => first = NoTask /\ \A t \in Thread : task[t].phase = "none"
    /\ stage = "done" => AllGone

\* The nodes are those of a list or tree that is not freed yet.
InUse == stage = "init_group" \/ (stage = "run" /\ ~AllGone)

\* What is allocated beside the nodes.
Allocated ==
    /\ workload \notin Nodes => nodes = {}
    /\ stage = "init_group" => blocks = IF nodes = {} THEN {} ELSE {"group_data"}
    /\ stage = "run" =>
         blocks = IF workload \in Nodes THEN {"group_data"}
                  ELSE IF workload \in Arrays
                  THEN {"group_data", "array_unaligned", "array"} ELSE {}
    /\ AllFreed

\* Where the group's record and its copies point.
Cursors ==
    /\ first.next_element = 0
    /\ stage = "run" /\ workload \in Nodes /\ ~AllGone =>
         /\ first.head = store.head /\ first.next_node = store.head
         /\ store.head \in nodes
    /\ \A t \in Thread : Working(t) =>
         /\ workload \in Nodes =>
              task[t].head = store.head /\ task[t].next_node \in nodes
         /\ workload \in Arrays => task[t].next_element \in 0 .. num_elements - 1

\* p goes through the m nodes of S, from the head of the list to its end.
IsList(list, p, S, m) ==
    /\ p \in [0 .. m -> Pointer]
    /\ p[0] = list.head /\ p[m] = NULL
    /\ \A k \in 0 .. m - 1 : p[k] \in S /\ list.next[p[k]] = p[k + 1]
    /\ \A j, k \in 0 .. m - 1 : p[j] = p[k] => j = k
    /\ \A n \in S : \E k \in 0 .. m - 1 : p[k] = n

Listed ==
    workload = "linked_list" =>
      \E m \in 0 .. MaxNodes : \E p \in [0 .. m -> Pointer] :
        /\ IsList(store, p, nodes, m)
        /\ stage = "init_group" => nodes = 1 .. m

\* y is a child of x.
Child(tree, x, y) == tree.left[x] = y \/ tree.right[x] = y

\* The nodes 1 .. m make up a tree, in which the parent is older.
IsTree(tree, m) ==
    /\ tree.head = IF m = 0 THEN NULL ELSE 1
    /\ \A x, y \in Node : Child(tree, x, y) => x < y /\ y <= m
    /\ \A y \in 2 .. m : \E x \in Node : Child(tree, x, y)
    /\ \A y, x, z \in Node : Child(tree, x, y) /\ Child(tree, z, y) => x = z
    /\ \A x \in Node : tree.left[x] # NULL => tree.left[x] # tree.right[x]

\* The values to the left of x and to the right of it.
InOrder(tree, x) ==
    /\ \A y \in Subtree(tree, tree.left[x]) : tree.value[y] < tree.value[x]
    /\ \A y \in Subtree(tree, tree.right[x]) : tree.value[y] >= tree.value[x]

\* Those in S are left: a node goes after its children.
IsLive(tree, S, m) ==
    /\ S \subseteq 1 .. m
    /\ \A x, y \in Node : Child(tree, x, y) /\ y \in S => x \in S

Planted ==
    workload = "bst" =>
      \E m \in 0 .. MaxNodes :
        /\ IsTree(store, m)
        /\ \A x \in 1 .. m : InOrder(store, x)
        /\ IsLive(store, nodes, m)
        /\ InUse => nodes = 1 .. m

Inv ==
    /\ TypeOK /\ Stages /\ Allocated /\ Cursors
    /\ Listed /\ Planted /\ SearchOnPath
-----------------------------------------------------------------------------
(* Lists.                                                                  *)

\* Node numbers and the null pointer are apart.
LEMMA NodeNat == MaxNodes \in Nat \ {0} /\ Node \subseteq Nat /\ NULL \notin Node
  BY WorkloadsAssumption DEF Node, NULL

\* The walk of the code starts at the head and follows next, until NULL.
LEMMA ListWalkFacts ==
    ASSUME NEW list \in StoreType, NEW w, w = ListWalk(list)
    PROVE  /\ w[0] = list.head
           /\ \A k \in 1 .. MaxNodes + 1 :
                w[k] = IF w[k - 1] = NULL THEN NULL ELSE list.next[w[k - 1]]
<1> DEFINE after == [n \in Pointer |-> IF n = NULL THEN NULL ELSE list.next[n]]
           N == MaxNodes + 1
<1>1. list.head \in Pointer /\ list.next \in [Node -> Pointer]
  BY DEF StoreType
<1>2. w = Walk(list.head, after, N)
  BY Zenon DEF ListWalk, Walk, IsWalk, Pointer
<1>3. \A n \in Pointer : after[n] \in Pointer
  BY <1>1 DEF Pointer
<1>4. \A n \in Pointer : after[n] = IF n = NULL THEN NULL ELSE list.next[n]
  OBVIOUS
<1>5. N \in Nat
  BY NodeNat
<1> HIDE DEF after
<1>6. WalksIn(w, Pointer, list.head, after, N)
  BY <1>1, <1>2, <1>3, <1>5, Iteration
<1>7. w[0] = list.head /\ \A k \in 1 .. N : k - 1 \in 0 .. N /\ w[k - 1] \in Pointer /\ w[k] = after[w[k - 1]]
  BY <1>5, <1>6 DEF WalksIn
<1> QED
  BY <1>4, <1>7, Zenon

\* So it goes along p, and stays at NULL.
LEMMA ListWalkIs ==
    ASSUME NEW list \in StoreType, NEW m \in 0 .. MaxNodes, NEW S \in SUBSET Node,
           NEW p, IsList(list, p, S, m), NEW w, w = ListWalk(list)
    PROVE  \A k \in 0 .. MaxNodes + 1 : w[k] = IF k <= m THEN p[k] ELSE NULL
<1> DEFINE T == {k \in Nat : k <= MaxNodes + 1 => w[k] = IF k <= m THEN p[k] ELSE NULL}
<1>1. w[0] = list.head /\ \A k \in 1 .. MaxNodes + 1 :
          w[k] = IF w[k - 1] = NULL THEN NULL ELSE list.next[w[k - 1]]
  BY ListWalkFacts
<1>2. /\ p[0] = list.head /\ p[m] = NULL
      /\ \A k \in 0 .. m - 1 : p[k] \in S /\ list.next[p[k]] = p[k + 1]
  BY DEF IsList
<1>3. 0 \in T
  BY <1>1, <1>2
<1>4. ASSUME NEW k \in Nat, k \in T PROVE k + 1 \in T
  <2> SUFFICES ASSUME k + 1 <= MaxNodes + 1
               PROVE  w[k + 1] = IF k + 1 <= m THEN p[k + 1] ELSE NULL
    OBVIOUS
  <2>1. w[k] = IF k <= m THEN p[k] ELSE NULL
    BY <1>4, NodeNat
  <2>2. w[k + 1] = IF w[k] = NULL THEN NULL ELSE list.next[w[k]]
    <3>1. k + 1 \in 1 .. MaxNodes + 1 /\ (k + 1) - 1 = k
      BY NodeNat
    <3> QED
      BY <1>1, <3>1, Zenon
  <2>3. CASE k + 1 <= m
    <3>1. k \in 0 .. m - 1 /\ k <= m
      BY <2>3
    <3>2. p[k] # NULL /\ list.next[p[k]] = p[k + 1]
      BY <1>2, <3>1, NodeNat
    <3> QED
      BY <2>1, <2>2, <2>3, <3>1, <3>2
  <2>4. CASE ~(k + 1 <= m)
    <3>1. k = m \/ ~(k <= m)
      BY <2>4
    <3>2. w[k] = NULL
      BY <1>2, <2>1, <3>1
    <3> QED
      BY <2>2, <2>4, <3>2
  <2> QED
    BY <2>3, <2>4
<1>5. Nat \subseteq T
  <2> HIDE DEF T
  <2> QED
    BY <1>3, <1>4, SetInduction
<1> QED
  BY <1>5, NodeNat

\* The nodes of the list are those of S, each once.
LEMMA ListIsBuilt ==
    ASSUME NEW list \in StoreType, NEW m \in 0 .. MaxNodes, NEW S \in SUBSET Node,
           NEW p, IsList(list, p, S, m)
    PROVE  /\ ListNodes(list) = S
           /\ EachOnce(list)
<1> DEFINE w == ListWalk(list)
<1>1. \A k \in 0 .. MaxNodes + 1 : w[k] = IF k <= m THEN p[k] ELSE NULL
  BY ListWalkIs
<1>2. /\ p[m] = NULL
      /\ \A k \in 0 .. m - 1 : p[k] \in S
      /\ \A j, k \in 0 .. m - 1 : p[j] = p[k] => j = k
      /\ \A n \in S : \E k \in 0 .. m - 1 : p[k] = n
  BY DEF IsList
<1>3. ListNodes(list) = {w[k] : k \in 0 .. MaxNodes} \ {NULL}
  BY DEF ListNodes
<1>4. EachOnce(list) <=>
        \A k \in 0 .. MaxNodes : w[k] # NULL => \A j \in 0 .. k - 1 : w[j] # w[k]
  BY DEF EachOnce
<1> HIDE DEF w
<1>5. \A k \in 0 .. MaxNodes : w[k] # NULL => k \in 0 .. m - 1
  <2> TAKE k \in 0 .. MaxNodes
  <2>1. w[k] = IF k <= m THEN p[k] ELSE NULL
    BY <1>1, NodeNat
  <2>2. k \in 0 .. m - 1 \/ k = m \/ ~(k <= m)
    OBVIOUS
  <2> QED
    BY <1>2, <2>1, <2>2
<1>6. \A k \in 0 .. m - 1 : k \in 0 .. MaxNodes /\ w[k] = p[k] /\ p[k] \in S /\ p[k] # NULL
  <2> TAKE k \in 0 .. m - 1
  <2>1. k \in 0 .. MaxNodes + 1 /\ k \in 0 .. MaxNodes /\ k <= m
    BY NodeNat
  <2>2. w[k] = p[k]
    BY <1>1, <2>1
  <2>3. p[k] \in S
    BY <1>2
  <2> QED
    BY <2>1, <2>2, <2>3, NodeNat
<1>7. ListNodes(list) = S
  <2>1. ASSUME NEW n \in S PROVE n \in ListNodes(list)
    <3>1. PICK k \in 0 .. m - 1 : p[k] = n
      BY <1>2
    <3> QED
      BY <1>3, <1>6, <3>1
  <2>2. ASSUME NEW n \in ListNodes(list) PROVE n \in S
    <3>1. PICK k \in 0 .. MaxNodes : w[k] = n
      BY <1>3, <2>2
    <3>2. n # NULL
      BY <1>3, <2>2
    <3> QED
      BY <1>5, <1>6, <3>1, <3>2
  <2> QED
    BY <2>1, <2>2
<1>8. EachOnce(list)
  <2> SUFFICES ASSUME NEW k \in 0 .. MaxNodes, w[k] # NULL, NEW j \in 0 .. k - 1
               PROVE  w[j] # w[k]
    BY <1>4
  <2>1. k \in 0 .. m - 1
    BY <1>5
  <2>2. j \in 0 .. m - 1 /\ j # k
    BY <2>1
  <2> QED
    BY <1>2, <1>6, <2>1, <2>2
<1> QED
  BY <1>7, <1>8

\* insert_node stops at some node or at the end; those before it are greater.
LEMMA InsertPositionFacts ==
    ASSUME NEW list \in StoreType, NEW m \in 0 .. MaxNodes, NEW S \in SUBSET Node,
           NEW p, IsList(list, p, S, m), NEW n \in Node,
           NEW k, k = InsertPosition(list, n)
    PROVE  /\ k \in 0 .. m
           /\ k < m => list.value[p[k]] <= list.value[n]
           /\ \A j \in 0 .. k - 1 : ~(list.value[p[j]] <= list.value[n])
<1> DEFINE w == ListWalk(list)
           Stop(i) == w[i] = NULL \/ list.value[w[i]] <= list.value[n]
           Q(i) == Stop(i) /\ \A j \in 0 .. i - 1 : ~Stop(j)
           T == {i \in 0 .. MaxNodes : Stop(i)}
<1>1. k = CHOOSE i \in 0 .. MaxNodes : Q(i)
  BY DEF InsertPosition
<1>2. \A i \in 0 .. MaxNodes + 1 : w[i] = IF i <= m THEN p[i] ELSE NULL
  BY ListWalkIs
<1>3. p[m] = NULL /\ \A i \in 0 .. m - 1 : p[i] \in S
  BY DEF IsList
<1> HIDE DEF w
<1>4. m \in 0 .. MaxNodes + 1 /\ w[m] = NULL
  BY <1>2, <1>3, NodeNat
<1>5. T \subseteq Nat /\ m \in T
  BY <1>4, NodeNat
<1>6. PICK i \in T : \A j \in T : i <= j
  BY <1>5, LeastElement
<1>7. Q(i)
  <2>1. ASSUME NEW j \in 0 .. i - 1 PROVE ~Stop(j)
    <3>1. j \in 0 .. MaxNodes /\ ~(i <= j)
      BY NodeNat
    <3> QED
      BY <1>6, <3>1
  <2> QED
    BY <2>1
<1>8. k \in 0 .. MaxNodes /\ Q(k)
  <2> HIDE DEF Q
  <2> QED
    BY <1>1, <1>7, Zenon
<1>9. k <= m
  <2> SUFFICES ASSUME ~(k <= m) PROVE FALSE
    OBVIOUS
  <2>1. m \in 0 .. k - 1
    BY <1>8
  <2> QED
    BY <1>4, <1>8, <2>1
<1>10. \A j \in 0 .. m - 1 : w[j] = p[j] /\ w[j] # NULL
  <2> TAKE j \in 0 .. m - 1
  <2>1. j \in 0 .. MaxNodes + 1 /\ j <= m
    BY NodeNat
  <2>2. w[j] = p[j] /\ p[j] \in S
    BY <1>2, <1>3, <2>1
  <2> QED
    BY <2>2, NodeNat
<1>11. ASSUME k < m PROVE list.value[p[k]] <= list.value[n]
  <2>1. k \in 0 .. m - 1
    BY <1>8, <1>11
  <2> QED
    BY <1>8, <1>10, <2>1
<1>12. ASSUME NEW j \in 0 .. k - 1 PROVE ~(list.value[p[j]] <= list.value[n])
  <2>1. j \in 0 .. m - 1
    BY <1>8, <1>9
  <2>2. ~Stop(j) /\ w[j] = p[j]
    BY <1>8, <1>10, <2>1
  <2> QED
    BY <2>2
<1> QED
  BY <1>8, <1>9, <1>11, <1>12

\* insert_node puts n between p[k - 1] and p[k].
InsertIn(p, m, k, n) ==
    [i \in 0 .. m + 1 |-> IF i < k THEN p[i] ELSE IF i = k THEN n ELSE p[i - 1]]

IsInserted(new, list, p, k, n) ==
    /\ new \in StoreType
    /\ new.value = list.value
    /\ new.head = IF k = 0 THEN n ELSE list.head
    /\ new.next = IF k = 0 THEN [list.next EXCEPT ![n] = p[0]]
                  ELSE [list.next EXCEPT ![n] = p[k], ![p[k - 1]] = n]

\* It changes head and next only.
LEMMA insert_nodeFacts ==
    ASSUME NEW list \in StoreType, NEW m \in 0 .. MaxNodes, NEW S \in SUBSET Node,
           NEW p, IsList(list, p, S, m), NEW n \in Node,
           NEW k, k = InsertPosition(list, n), NEW new, new = insert_node(list, n)
    PROVE  IsInserted(new, list, p, k, n)
<1> DEFINE w == ListWalk(list)
           last == w[k - 1]
           cur == w[k]
<1>1. k \in 0 .. m
  BY InsertPositionFacts
<1>2. \A i \in 0 .. MaxNodes + 1 : w[i] = IF i <= m THEN p[i] ELSE NULL
  BY ListWalkIs
<1>3. new = IF k = 0 THEN InsertFront(list, n) ELSE InsertAfter(list, last, cur, n)
  BY Zenon DEF insert_node
<1>4. p[0] = list.head /\ list.head \in Pointer /\ list.next \in [Node -> Pointer]
  BY DEF IsList, StoreType
<1> HIDE DEF w
<1>5. CASE k = 0
  <2> DEFINE next == [list.next EXCEPT ![n] = p[0]]
  <2>1. next \in [Node -> Pointer]
    BY <1>4
  <2>2. new = [list EXCEPT !.next = next, !.head = n]
    BY <1>3, <1>4, <1>5, Zenon DEF InsertFront
  <2> HIDE DEF next
  <2>3. new \in StoreType /\ new.value = list.value /\ new.head = n /\ new.next = next
    BY <2>1, <2>2 DEF StoreType, Pointer
  <2> QED
    BY <1>5, <2>3 DEF next, IsInserted
<1>6. CASE k # 0
  <2> DEFINE next == [list.next EXCEPT ![n] = p[k], ![p[k - 1]] = n]
  <2>1. k \in 0 .. MaxNodes + 1 /\ k - 1 \in 0 .. MaxNodes + 1 /\ k <= m /\ k - 1 <= m
    BY <1>1, <1>6, NodeNat
  <2>2. cur = p[k] /\ last = p[k - 1]
    BY <1>2, <2>1
  <2>3. p[k] \in Pointer
    BY <1>1 DEF IsList
  <2>4. next \in [Node -> Pointer]
    BY <1>4, <2>3 DEF Pointer
  <2>5. new = [list EXCEPT !.next = next]
    BY <1>3, <1>6, <2>2, Zenon DEF InsertAfter
  <2> HIDE DEF next
  <2>6. new \in StoreType /\ new.value = list.value /\ new.head = list.head /\ new.next = next
    BY <2>4, <2>5 DEF StoreType
  <2> QED
    BY <1>6, <2>6 DEF next, IsInserted
<1> QED
  BY <1>5, <1>6

\* So a list of m nodes becomes one of m + 1.
LEMMA ListGrows ==
    ASSUME NEW list \in StoreType, NEW m \in 0 .. MaxNodes, NEW S \in SUBSET Node,
           NEW p, IsList(list, p, S, m), NEW n \in Node \ S,
           NEW k, k = InsertPosition(list, n), NEW new, new = insert_node(list, n)
    PROVE  /\ InsertIn(p, m, k, n) \in [0 .. m + 1 -> Pointer]
           /\ IsList(new, InsertIn(p, m, k, n), S \cup {n}, m + 1)
<1> DEFINE q == InsertIn(p, m, k, n)
           L == m + 1
<1>1. /\ p \in [0 .. m -> Pointer] /\ p[0] = list.head /\ p[m] = NULL
      /\ \A i \in 0 .. m - 1 : p[i] \in S /\ list.next[p[i]] = p[i + 1]
      /\ \A i, j \in 0 .. m - 1 : p[i] = p[j] => i = j
      /\ \A x \in S : \E i \in 0 .. m - 1 : p[i] = x
  BY DEF IsList
<1>2. /\ k \in 0 .. m
      /\ k < m => list.value[p[k]] <= list.value[n]
      /\ \A j \in 0 .. k - 1 : ~(list.value[p[j]] <= list.value[n])
  BY InsertPositionFacts
<1>3. /\ new.value = list.value
      /\ new.head = IF k = 0 THEN n ELSE list.head
      /\ new.next = IF k = 0 THEN [list.next EXCEPT ![n] = p[0]]
                    ELSE [list.next EXCEPT ![n] = p[k], ![p[k - 1]] = n]
  <2>1. n \in Node
    OBVIOUS
  <2>2. IsInserted(new, list, p, k, n)
    BY <2>1, insert_nodeFacts
  <2> QED
    BY <2>2 DEF IsInserted
<1>4. list.next \in [Node -> Pointer] /\ list.value \in [Node -> Value]
  BY DEF StoreType
<1>5. m \in Nat /\ L \in Nat /\ L = m + 1 /\ L - 1 = m
  OBVIOUS
<1>6. \A i \in 0 .. L : q[i] = IF i < k THEN p[i] ELSE IF i = k THEN n ELSE p[i - 1]
  BY DEF InsertIn
<1>7. q \in [0 .. L -> Pointer]
  <2>1. q = [i \in 0 .. L |-> q[i]]
    BY DEF InsertIn
  <2>2. ASSUME NEW i \in 0 .. L PROVE q[i] \in Pointer
    <3>1. i < k => i \in 0 .. m
      BY <1>2
    <3>2. ~(i < k) /\ i # k => i - 1 \in 0 .. m
      BY <1>2
    <3>3. n \in Pointer
      BY DEF Pointer
    <3>4. CASE i < k
      BY <1>1, <1>6, <3>1, <3>4
    <3>5. CASE i = k
      BY <1>2, <1>6, <3>3, <3>5
    <3>6. CASE ~(i < k) /\ i # k
      <4>1. q[i] = p[i - 1]
        BY <1>6, <3>6
      <4> QED
        BY <1>1, <3>2, <3>6, <4>1
    <3> QED
      BY <3>4, <3>5, <3>6
  <2> QED
    BY <2>1, <2>2
<1> HIDE DEF q, L
<1>8. q[k] = n /\ (\A i \in 0 .. k - 1 : q[i] = p[i]) /\ (\A i \in k .. m : q[i + 1] = p[i])
  <2>1. q[k] = n
    BY <1>2, <1>5, <1>6
  <2>2. ASSUME NEW i \in 0 .. k - 1 PROVE q[i] = p[i]
    BY <1>2, <1>5, <1>6
  <2>3. ASSUME NEW i \in k .. m PROVE q[i + 1] = p[i]
    <3>1. i + 1 \in 0 .. L /\ ~(i + 1 < k) /\ i + 1 # k /\ (i + 1) - 1 = i
      BY <1>2, <1>5
    <3> QED
      BY <1>6, <3>1
  <2> QED
    BY <2>1, <2>2, <2>3
<1>9. q[0] = new.head /\ q[L] = NULL
  <2>1. q[L] = NULL
    BY <1>1, <1>2, <1>5, <1>8
  <2>2. CASE k = 0
    BY <1>3, <1>8, <2>1, <2>2
  <2>3. CASE k # 0
    <3>1. 0 \in 0 .. k - 1
      BY <1>2, <2>3
    <3>2. q[0] = p[0]
      BY <1>8, <3>1
    <3> QED
      BY <1>1, <1>3, <2>1, <2>3, <3>2
  <2> QED
    BY <2>2, <2>3
<1>10. \A i \in 0 .. m - 1 : p[i] \in Node /\ p[i] # n
  BY <1>1
<1>11. new.next[n] = p[k]
  <2>1. CASE k = 0
    BY <1>3, <1>4, <2>1
  <2>2. CASE k # 0
    <3>1. k - 1 \in 0 .. m - 1
      BY <1>2, <2>2
    <3>2. p[k - 1] # n
      BY <1>10, <3>1
    <3> QED
      BY <1>3, <1>4, <2>2, <3>2
  <2> QED
    BY <2>1, <2>2
<1>12. \A x \in S : (k # 0 => x # p[k - 1]) => new.next[x] = list.next[x]
  BY <1>3, <1>4
<1>13. k # 0 => new.next[p[k - 1]] = n
  <2> SUFFICES ASSUME k # 0 PROVE new.next[p[k - 1]] = n
    OBVIOUS
  <2>1. k - 1 \in 0 .. m - 1
    BY <1>2
  <2>2. p[k - 1] \in Node
    BY <1>10, <2>1
  <2> QED
    BY <1>3, <1>4, <2>2
<1>14. ASSUME NEW i \in 0 .. m - 1, i # k - 1 PROVE new.next[p[i]] = p[i + 1]
  <2>1. k # 0 => p[i] # p[k - 1]
    <3> SUFFICES ASSUME k # 0 PROVE p[i] # p[k - 1]
      OBVIOUS
    <3>1. k - 1 \in 0 .. m - 1
      BY <1>2
    <3> QED
      BY <1>1, <1>14, <3>1
  <2> QED
    BY <1>1, <1>12, <2>1
<1>15. ASSUME NEW i \in 0 .. L - 1 PROVE q[i] \in S \cup {n} /\ new.next[q[i]] = q[i + 1]
  <2>1. CASE i < k - 1
    <3>1. i \in 0 .. m - 1 /\ i \in 0 .. k - 1 /\ i + 1 \in 0 .. k - 1 /\ i # k - 1
      BY <1>2, <1>5, <2>1
    <3>2. q[i] = p[i] /\ q[i + 1] = p[i + 1]
      BY <1>8, <3>1
    <3> QED
      BY <1>1, <1>14, <3>1, <3>2
  <2>2. CASE i = k - 1
    <3>1. k # 0 /\ k - 1 \in 0 .. m - 1 /\ i \in 0 .. k - 1 /\ i + 1 = k
      BY <1>2, <1>5, <2>2
    <3>2. q[i] = p[k - 1] /\ p[k - 1] \in S
      BY <1>1, <1>8, <2>2, <3>1
    <3> QED
      BY <1>8, <1>13, <3>1, <3>2
  <2>3. CASE i = k
    <3>1. i \in k .. m
      BY <1>2, <2>3
    <3> QED
      BY <1>8, <1>11, <2>3, <3>1
  <2>4. CASE i > k
    <3>1. i - 1 \in k .. m /\ i \in k .. m /\ i - 1 \in 0 .. m - 1 /\ i - 1 # k - 1 /\ (i - 1) + 1 = i
      BY <1>2, <1>5, <2>4
    <3>2. q[i] = p[i - 1] /\ q[i + 1] = p[i]
      BY <1>8, <3>1
    <3>3. new.next[p[i - 1]] = p[i] /\ p[i - 1] \in S
      BY <1>1, <1>14, <3>1
    <3> QED
      BY <3>2, <3>3
  <2> QED
    BY <1>2, <1>5, <2>1, <2>2, <2>3, <2>4
<1>16. ASSUME NEW i \in 0 .. L - 1, NEW j \in 0 .. L - 1, q[i] = q[j] PROVE i = j
  <2> DEFINE Old(x) == IF x < k THEN x ELSE x - 1
  <2>1. ASSUME NEW x \in 0 .. L - 1, x # k PROVE Old(x) \in 0 .. m - 1 /\ q[x] = p[Old(x)]
    <3>1. CASE x < k
      BY <1>2, <1>5, <1>8, <3>1
    <3>2. CASE x > k
      <4>1. x - 1 \in k .. m /\ x - 1 \in 0 .. m - 1 /\ (x - 1) + 1 = x
        BY <1>2, <1>5, <3>2
      <4> QED
        BY <1>2, <1>8, <3>2, <4>1
    <3> QED
      BY <1>2, <2>1, <3>1, <3>2
  <2>2. ASSUME NEW x \in 0 .. L - 1, x # k PROVE q[x] # n
    BY <1>10, <2>1, <2>2
  <2>3. CASE i = k \/ j = k
    BY <1>8, <1>16, <2>2, <2>3
  <2>4. CASE i # k /\ j # k
    <3>1. Old(i) = Old(j)
      BY <1>1, <1>16, <2>1, <2>4
    <3> QED
      BY <1>2, <2>4, <3>1
  <2> QED
    BY <2>3, <2>4
<1>17. ASSUME NEW x \in S \cup {n} PROVE \E i \in 0 .. L - 1 : q[i] = x
  <2>1. CASE x = n
    BY <1>2, <1>5, <1>8, <2>1
  <2>2. CASE x # n
    <3>1. PICK i \in 0 .. m - 1 : p[i] = x
      BY <1>1, <2>2
    <3>2. CASE i < k
      <4>1. i \in 0 .. k - 1 /\ i \in 0 .. L - 1
        BY <1>2, <1>5, <3>2
      <4> QED
        BY <1>8, <3>1, <4>1
    <3>3. CASE ~(i < k)
      <4>1. i \in k .. m /\ i + 1 \in 0 .. L - 1
        BY <1>2, <1>5, <3>3
      <4> QED
        BY <1>8, <3>1, <4>1
    <3> QED
      BY <3>2, <3>3
  <2> QED
    BY <2>1, <2>2
<1>18. IsList(new, q, S \cup {n}, L)
  BY <1>7, <1>9, <1>15, <1>16, <1>17 DEF IsList
<1> QED
  BY <1>5, <1>7, <1>18 DEF q

\* linked_list_cleanup_group: without its first node it is a list of m - 1.
LEMMA ListShrinks ==
    ASSUME NEW list \in StoreType, NEW m \in 0 .. MaxNodes, NEW S \in SUBSET Node,
           NEW p, IsList(list, p, S, m), list.head # NULL,
           NEW new, new.head = list.next[list.head], new.next = list.next
    PROVE  /\ m # 0 /\ list.head \in S
           /\ IsList(new, [i \in 0 .. m - 1 |-> p[i + 1]], S \ {list.head}, m - 1)
<1> DEFINE q == [i \in 0 .. m - 1 |-> p[i + 1]]
<1>1. /\ p \in [0 .. m -> Pointer] /\ p[0] = list.head /\ p[m] = NULL
      /\ \A i \in 0 .. m - 1 : p[i] \in S /\ list.next[p[i]] = p[i + 1]
      /\ \A i, j \in 0 .. m - 1 : p[i] = p[j] => i = j
      /\ \A x \in S : \E i \in 0 .. m - 1 : p[i] = x
  BY DEF IsList
<1>2. m # 0 /\ m - 1 \in Nat /\ 0 \in 0 .. m - 1 /\ p[0] \in S
  BY <1>1
<1>3. q \in [0 .. m - 1 -> Pointer] /\ \A i \in 0 .. m - 1 : q[i] = p[i + 1]
  BY <1>1
<1> HIDE DEF q
<1>4. q[0] = new.head /\ q[m - 1] = NULL
  <2>1. q[0] = p[0 + 1] /\ list.next[p[0]] = p[0 + 1]
    BY <1>1, <1>2, <1>3
  <2>2. m - 1 \in 0 .. m - 1 /\ (m - 1) + 1 = m
    BY <1>2
  <2> QED
    BY <1>1, <1>3, <2>1, <2>2
<1>5. ASSUME NEW i \in 0 .. (m - 1) - 1
      PROVE  /\ i \in 0 .. m - 1 /\ i + 1 \in 0 .. m - 1
             /\ q[i] \in S \ {list.head} /\ new.next[q[i]] = q[i + 1]
  <2>1. i \in 0 .. m - 1 /\ i + 1 \in 0 .. m - 1 /\ i + 1 # 0
    OBVIOUS
  <2>2. p[i + 1] \in S /\ p[i + 1] # p[0] /\ list.next[p[i + 1]] = p[(i + 1) + 1]
    BY <1>1, <1>2, <2>1
  <2> QED
    BY <1>1, <1>3, <2>1, <2>2
<1>6. ASSUME NEW i \in 0 .. (m - 1) - 1, NEW j \in 0 .. (m - 1) - 1, q[i] = q[j] PROVE i = j
  <2>1. p[i + 1] = p[j + 1]
    BY <1>3, <1>5, <1>6
  <2>2. i + 1 = j + 1
    BY <1>1, <1>5, <2>1
  <2> QED
    BY <2>2
<1>7. ASSUME NEW x \in S \ {list.head} PROVE \E i \in 0 .. (m - 1) - 1 : q[i] = x
  <2>1. PICK i \in 0 .. m - 1 : p[i] = x
    BY <1>1
  <2>2. i # 0
    BY <1>1, <2>1
  <2>3. i - 1 \in 0 .. (m - 1) - 1 /\ i - 1 \in 0 .. m - 1 /\ (i - 1) + 1 = i
    BY <2>2
  <2>4. q[i - 1] = x
    BY <1>3, <2>1, <2>3
  <2> QED
    BY <2>3, <2>4
<1>8. IsList(new, q, S \ {list.head}, m - 1)
  BY <1>3, <1>4, <1>5, <1>6, <1>7 DEF IsList
<1> QED
  BY <1>1, <1>2, <1>8 DEF q
-----------------------------------------------------------------------------
(* Subtrees.                                                               *)

\* The children of a tree's nodes are younger.
Younger(tree) == \A x, y \in Node : Child(tree, x, y) => x < y

\* A set of nodes with the children of its nodes.
Closed(tree, S) == \A x \in S, y \in Node : Child(tree, x, y) => y \in S

\* The nodes of the tree at c are closed,
LEMMA SubtreeClosed ==
    ASSUME NEW tree \in StoreType, Younger(tree), NEW c \in Pointer
    PROVE  /\ Subtree(tree, c) \subseteq Node
           /\ c # NULL => c \in Subtree(tree, c)
           /\ Closed(tree, Subtree(tree, c))
           /\ \A S \in SUBSET Node :
                Closed(tree, S) /\ (c # NULL => c \in S) => Subtree(tree, c) \subseteq S
<1> DEFINE Children(S) == ({tree.left[n] : n \in S} \cup {tree.right[n] : n \in S}) \ {NULL}
           deeper == [S \in SUBSET Node |-> S \cup Children(S)]
           start == {c} \ {NULL}
           below == Walk(start, deeper, MaxNodes)
<1>1. MaxNodes \in Nat /\ Node = 1 .. MaxNodes /\ NULL \notin Node
  BY NodeNat DEF Node
<1>2. tree.left \in [Node -> Pointer] /\ tree.right \in [Node -> Pointer]
  BY DEF StoreType
<1>3. start \in SUBSET Node
  BY DEF Pointer
<1>4. Subtree(tree, c) = below[MaxNodes]
  BY Zenon DEF Subtree, Walk, IsWalk
<1>5. \A S \in SUBSET Node : deeper[S] = S \cup Children(S)
  OBVIOUS
<1>6. \A S \in SUBSET Node : Children(S) \in SUBSET Node
  BY <1>2 DEF Pointer
<1>7. \A S \in SUBSET Node : deeper[S] \in SUBSET Node
  BY <1>6
<1>8. \A S \in SUBSET Node : \A y \in Node : y \in Children(S) <=> \E x \in S : Child(tree, x, y)
  BY <1>1 DEF Child
<1> HIDE DEF deeper, Children
<1>9. WalksIn(below, SUBSET Node, start, deeper, MaxNodes)
  <2> HIDE DEF start
  <2> QED
    BY <1>1, <1>3, <1>7, Iteration
<1>10. /\ below[0] = start
       /\ \A k \in 0 .. MaxNodes : below[k] \in SUBSET Node
       /\ \A k \in 1 .. MaxNodes : below[k] = deeper[below[k - 1]]
  BY <1>9 DEF WalksIn
<1> HIDE DEF below
<1>11. ASSUME NEW k \in 1 .. MaxNodes, NEW y \in Node
       PROVE  y \in below[k] <=> (y \in below[k - 1] \/ \E x \in below[k - 1] : Child(tree, x, y))
  <2>1. k - 1 \in 0 .. MaxNodes
    BY <1>1
  <2>2. below[k - 1] \in SUBSET Node
    BY <1>10, <2>1
  <2>3. below[k] = below[k - 1] \cup Children(below[k - 1])
    BY <1>5, <1>10, <2>2
  <2> QED
    BY <1>8, <2>2, <2>3
<1>12. ASSUME NEW j \in 0 .. MaxNodes
       PROVE  \A k \in j .. MaxNodes : below[j] \subseteq below[k]
  <2> DEFINE T == {i \in Nat : j + i <= MaxNodes => below[j] \subseteq below[j + i]}
  <2>1. 0 \in T
    OBVIOUS
  <2>2. ASSUME NEW i \in Nat, i \in T PROVE i + 1 \in T
    <3> SUFFICES ASSUME j + (i + 1) <= MaxNodes PROVE below[j] \subseteq below[j + (i + 1)]
      OBVIOUS
    <3>1. j + (i + 1) \in 1 .. MaxNodes /\ (j + (i + 1)) - 1 = j + i /\ j + i <= MaxNodes
      BY <1>1
    <3>2. below[j] \subseteq below[j + i]
      BY <2>2, <3>1
    <3>3. below[j] \subseteq Node
      BY <1>10
    <3> QED
      BY <1>11, <3>1, <3>2, <3>3
  <2>3. Nat \subseteq T
    <3> HIDE DEF T
    <3> QED
      BY <2>1, <2>2, SetInduction
  <2> TAKE k \in j .. MaxNodes
  <2>4. k - j \in Nat /\ j + (k - j) = k /\ k <= MaxNodes
    BY <1>1
  <2>5. k - j \in T
    BY <2>3, <2>4
  <2> QED
    BY <2>4, <2>5
<1>13. ASSUME NEW x \in Node, x \in below[MaxNodes] PROVE x \in below[x]
  <2> DEFINE T == {k \in Nat : k <= MaxNodes => \A y \in below[k] : y \in below[y]}
  <2>1. 0 \in T
    <3>1. ASSUME NEW y \in below[0] PROVE y \in below[y]
      <4>1. y \in Node /\ 0 \in 0 .. MaxNodes /\ y \in 0 .. MaxNodes
        BY <1>1, <1>10
      <4> QED
        BY <1>12, <3>1, <4>1
    <3> QED
      BY <3>1
  <2>2. ASSUME NEW k \in Nat, k \in T PROVE k + 1 \in T
    <3> SUFFICES ASSUME k + 1 <= MaxNodes, NEW y \in below[k + 1] PROVE y \in below[y]
      OBVIOUS
    <3>1. k + 1 \in 1 .. MaxNodes /\ k + 1 \in 0 .. MaxNodes /\ (k + 1) - 1 = k /\ k <= MaxNodes
          /\ k \in 0 .. MaxNodes
      BY <1>1
    <3>2. y \in Node /\ below[k] \in SUBSET Node
      BY <1>10, <3>1
    <3>3. \A z \in below[k] : z \in below[z]
      BY <2>2, <3>1
    <3>4. CASE y \in below[k]
      BY <3>3, <3>4
    <3>5. CASE y \notin below[k]
      <4>1. PICK z \in below[k] : Child(tree, z, y)
        BY <1>11, <3>1, <3>2, <3>5
      <4>2. z \in Node /\ z < y
        BY <3>2, <4>1 DEF Younger
      <4>3. z + 1 \in 1 .. MaxNodes /\ z + 1 \in 0 .. MaxNodes /\ (z + 1) - 1 = z
            /\ y \in z + 1 .. MaxNodes
        BY <1>1, <3>2, <4>2
      <4>4. y \in below[z + 1]
        BY <1>11, <3>2, <3>3, <4>1, <4>3
      <4> QED
        BY <1>12, <4>3, <4>4
    <3> QED
      BY <3>4, <3>5
  <2>3. MaxNodes \in T
    <3> HIDE DEF T
    <3> QED
      BY <1>1, <2>1, <2>2, SetInduction
  <2> QED
    BY <1>1, <1>13, <2>3
<1>14. Subtree(tree, c) \subseteq Node
  BY <1>1, <1>4, <1>10
<1>15. ASSUME c # NULL PROVE c \in Subtree(tree, c)
  <2>1. c \in below[0] /\ 0 \in 0 .. MaxNodes /\ MaxNodes \in 0 .. MaxNodes
    BY <1>1, <1>10, <1>15
  <2> QED
    BY <1>4, <1>12, <2>1
<1>16. ASSUME NEW x \in Subtree(tree, c), NEW y \in Node, Child(tree, x, y)
       PROVE  y \in Subtree(tree, c)
  <2>1. x \in Node /\ x < y
    BY <1>14, <1>16 DEF Younger
  <2>2. x \in below[x]
    BY <1>4, <1>13, <2>1
  <2>3. x + 1 \in 1 .. MaxNodes /\ x + 1 \in 0 .. MaxNodes /\ (x + 1) - 1 = x
        /\ MaxNodes \in x + 1 .. MaxNodes
    BY <1>1, <2>1
  <2>4. y \in below[x + 1]
    BY <1>11, <1>16, <2>2, <2>3
  <2> QED
    BY <1>4, <1>12, <2>3, <2>4
<1>17. ASSUME NEW S \in SUBSET Node, Closed(tree, S), c # NULL => c \in S
       PROVE  Subtree(tree, c) \subseteq S
  <2> DEFINE T == {k \in Nat : k <= MaxNodes => below[k] \subseteq S}
  <2>1. 0 \in T
    BY <1>10, <1>17
  <2>2. ASSUME NEW k \in Nat, k \in T PROVE k + 1 \in T
    <3> SUFFICES ASSUME k + 1 <= MaxNodes, NEW y \in below[k + 1] PROVE y \in S
      OBVIOUS
    <3>1. k + 1 \in 1 .. MaxNodes /\ k + 1 \in 0 .. MaxNodes /\ (k + 1) - 1 = k /\ k <= MaxNodes
      BY <1>1
    <3>2. y \in Node /\ below[k] \subseteq S
      BY <1>10, <2>2, <3>1
    <3>3. y \in below[k] \/ \E x \in below[k] : Child(tree, x, y)
      BY <1>11, <3>1, <3>2
    <3> QED
      BY <1>17, <3>2, <3>3 DEF Closed
  <2>3. MaxNodes \in T
    <3> HIDE DEF T
    <3> QED
      BY <1>1, <2>1, <2>2, SetInduction
  <2> QED
    BY <1>1, <1>4, <2>3
<1>18. Closed(tree, Subtree(tree, c))
  BY <1>16 DEF Closed
<1> QED
  BY <1>14, <1>15, <1>17, <1>18

\* and nothing else: there is no node in the empty tree,
LEMMA EmptySubtree ==
    ASSUME NEW tree \in StoreType, Younger(tree)
    PROVE  Subtree(tree, NULL) = {}
<1>1. NULL \in Pointer /\ {} \in SUBSET Node /\ Closed(tree, {})
  BY DEF Pointer, Closed
<1> QED
  BY <1>1, SubtreeClosed

\* none below c that is older than c,
LEMMA SubtreeYounger ==
    ASSUME NEW tree \in StoreType, Younger(tree), NEW c \in Node, NEW y \in Subtree(tree, c)
    PROVE  c <= y
<1> DEFINE S == {x \in Node : c <= x}
<1>1. Closed(tree, S) /\ c \in S /\ c \in Pointer
  <2>1. ASSUME NEW x \in S, NEW z \in Node, Child(tree, x, z) PROVE z \in S
    <3>1. x \in Nat /\ z \in Nat /\ c \in Nat /\ x < z /\ c <= x
      BY <2>1, NodeNat DEF Younger
    <3> QED
      BY <3>1
  <2>2. c \in S
    BY NodeNat
  <2> HIDE DEF S
  <2> QED
    BY <2>1, <2>2 DEF Closed, Pointer
<1>2. Subtree(tree, c) \subseteq S
  <2>1. S \in SUBSET Node
    OBVIOUS
  <2> HIDE DEF S
  <2> QED
    BY <1>1, <2>1, SubtreeClosed
<1> QED
  BY <1>2

\* none that is not below one of the children of c,
LEMMA SubtreeDown ==
    ASSUME NEW tree \in StoreType, Younger(tree), NEW c \in Node, NEW y \in Subtree(tree, c)
    PROVE  \/ y = c
           \/ y \in Subtree(tree, tree.left[c])
           \/ y \in Subtree(tree, tree.right[c])
<1> DEFINE l == tree.left[c]
           r == tree.right[c]
           S == {c} \cup Subtree(tree, l) \cup Subtree(tree, r)
<1>1. l \in Pointer /\ r \in Pointer
  BY DEF StoreType
<1> HIDE DEF l, r
<1>2. /\ Subtree(tree, l) \subseteq Node /\ Closed(tree, Subtree(tree, l))
      /\ Subtree(tree, r) \subseteq Node /\ Closed(tree, Subtree(tree, r))
      /\ (l # NULL => l \in Subtree(tree, l)) /\ (r # NULL => r \in Subtree(tree, r))
  BY <1>1, SubtreeClosed
<1>3. ASSUME NEW x \in S, NEW z \in Node, Child(tree, x, z) PROVE z \in S
  <2>1. CASE x = c
    <3>1. z = l \/ z = r
      BY <1>3, <2>1 DEF Child, l, r
    <3> QED
      BY <1>2, <3>1, NodeNat
  <2>2. CASE x # c
    BY <1>2, <1>3, <2>2 DEF Closed
  <2> QED
    BY <2>1, <2>2
<1>4. S \in SUBSET Node /\ c \in S
  BY <1>2
<1> HIDE DEF S
<1>5. Closed(tree, S) /\ c \in Pointer
  BY <1>3 DEF Closed, Pointer
<1>6. y \in S
  BY <1>4, <1>5, SubtreeClosed
<1> QED
  BY <1>6 DEF S, l, r

\* none but c whose parent is not below c.
LEMMA SubtreeUp ==
    ASSUME NEW tree \in StoreType, Younger(tree), NEW c \in Pointer, NEW y \in Subtree(tree, c)
    PROVE  y = c \/ \E x \in Subtree(tree, c) : Child(tree, x, y)
<1> DEFINE T == Subtree(tree, c)
           S == {z \in T : z = c \/ \E x \in T : Child(tree, x, z)}
<1>1. T \subseteq Node /\ (c # NULL => c \in T) /\ Closed(tree, T)
  BY SubtreeClosed
<1> HIDE DEF T
<1>2. S \in SUBSET Node /\ (c # NULL => c \in S)
  BY <1>1
<1>3. Closed(tree, S)
  BY <1>1 DEF Closed
<1>4. T \subseteq S
  <2> HIDE DEF S
  <2> QED
    BY <1>2, <1>3, SubtreeClosed DEF T
<1> QED
  BY <1>4 DEF T

\* Only left and right matter.
LEMMA SameSubtree ==
    ASSUME NEW tree \in StoreType, NEW new \in StoreType, Younger(tree),
           new.left = tree.left, new.right = tree.right, NEW c \in Pointer
    PROVE  Younger(new) /\ Subtree(new, c) = Subtree(tree, c)
<1>1. \A x, y : Child(new, x, y) <=> Child(tree, x, y)
  BY DEF Child
<1>2. Younger(new) /\ \A S : Closed(new, S) <=> Closed(tree, S)
  BY <1>1 DEF Younger, Closed
<1>3. Subtree(new, c) \subseteq Subtree(tree, c)
  <2>1. /\ Subtree(tree, c) \in SUBSET Node /\ Closed(tree, Subtree(tree, c))
        /\ c # NULL => c \in Subtree(tree, c)
    BY SubtreeClosed
  <2> QED
    BY <1>2, <2>1, SubtreeClosed
<1>4. Subtree(tree, c) \subseteq Subtree(new, c)
  <2>1. /\ Subtree(new, c) \in SUBSET Node /\ Closed(new, Subtree(new, c))
        /\ c # NULL => c \in Subtree(new, c)
    BY <1>2, SubtreeClosed
  <2> QED
    BY <1>2, <2>1, SubtreeClosed
<1> QED
  BY <1>2, <1>3, <1>4

\* A tree of m nodes in the sense of IsTree has exactly these.
LEMMA WholeTree ==
    ASSUME NEW tree \in StoreType, NEW m \in 0 .. MaxNodes, IsTree(tree, m)
    PROVE  Younger(tree) /\ TreeNodes(tree) = 1 .. m
<1> DEFINE T == Subtree(tree, tree.head)
           Missing == {y \in 1 .. m : y \notin T}
<1>1. /\ tree.head = IF m = 0 THEN NULL ELSE 1
      /\ \A x, y \in Node : Child(tree, x, y) => x < y /\ y <= m
      /\ \A y \in 2 .. m : \E x \in Node : Child(tree, x, y)
  BY DEF IsTree
<1>2. Younger(tree) /\ tree.head \in Pointer
  BY <1>1 DEF Younger, StoreType
<1>3. /\ T \subseteq Node /\ (tree.head # NULL => tree.head \in T) /\ Closed(tree, T)
      /\ \A S \in SUBSET Node :
           Closed(tree, S) /\ (tree.head # NULL => tree.head \in S) => T \subseteq S
  BY <1>2, SubtreeClosed
<1> HIDE DEF T
<1>4. 1 .. m \in SUBSET Node /\ Node \subseteq Nat
  BY NodeNat DEF Node
<1>5. T \subseteq 1 .. m
  <2>1. Closed(tree, 1 .. m)
    <3>1. ASSUME NEW x \in 1 .. m, NEW y \in Node, Child(tree, x, y) PROVE y \in 1 .. m
      <4>1. x \in Node /\ y <= m /\ y \in Nat /\ x < y
        BY <1>1, <1>4, <3>1
      <4> QED
        BY <4>1
    <3> QED
      BY <3>1 DEF Closed
  <2>2. tree.head # NULL => tree.head \in 1 .. m
    BY <1>1
  <2> QED
    BY <1>3, <1>4, <2>1, <2>2
<1>6. Missing = {}
  <2> SUFFICES ASSUME Missing # {} PROVE FALSE
    OBVIOUS
  <2>1. Missing \subseteq Nat
    OBVIOUS
  <2>2. PICK y \in Missing : \A z \in Missing : y <= z
    BY <2>1, LeastElement
  <2>3. y \in 1 .. m /\ y \notin T /\ m # 0
    OBVIOUS
  <2>4. y # 1
    BY <1>1, <1>3, <2>3, NodeNat DEF NULL
  <2>5. y \in 2 .. m
    BY <2>3, <2>4
  <2>6. PICK x \in Node : Child(tree, x, y)
    BY <1>1, <2>5
  <2>7. x < y /\ x \in Nat /\ y \in Node
    BY <1>1, <1>4, <2>3, <2>6
  <2>8. x \in 1 .. m /\ ~(y <= x)
    BY <2>3, <2>7, NodeNat DEF Node
  <2>9. x \in T
    BY <2>2, <2>8
  <2> QED
    BY <1>3, <2>3, <2>6, <2>7, <2>9 DEF Closed
<1>7. T = 1 .. m
  BY <1>5, <1>6
<1> QED
  BY <1>2, <1>7 DEF TreeNodes, T
-----------------------------------------------------------------------------
(* Descents.                                                               *)

\* A descent to younger and younger nodes ends: there is a last node on it.
LEMMA LastOnPath ==
    ASSUME NEW path \in [0 .. MaxNodes -> Pointer], path[0] # NULL,
           \A k \in 1 .. MaxNodes :
             path[k - 1] # NULL /\ path[k] # NULL => path[k - 1] < path[k],
           NEW k, k = CHOOSE i \in 0 .. MaxNodes - 1 : path[i] # NULL /\ path[i + 1] = NULL
    PROVE  k \in 0 .. MaxNodes - 1 /\ path[k] # NULL /\ path[k + 1] = NULL
<1>1. \E i \in 0 .. MaxNodes - 1 : path[i] # NULL /\ path[i + 1] = NULL
  <2> SUFFICES ASSUME \A i \in 0 .. MaxNodes - 1 : path[i] # NULL => path[i + 1] # NULL
               PROVE  FALSE
    OBVIOUS
  <2> DEFINE T == {i \in Nat : i <= MaxNodes => path[i] # NULL /\ i < path[i]}
  <2>1. \A i \in 0 .. MaxNodes : path[i] # NULL => path[i] \in 1 .. MaxNodes
    BY DEF Pointer, Node
  <2>2. 0 \in T
    BY <2>1, NodeNat
  <2>3. ASSUME NEW i \in Nat, i \in T PROVE i + 1 \in T
    <3> SUFFICES ASSUME i + 1 <= MaxNodes PROVE path[i + 1] # NULL /\ i + 1 < path[i + 1]
      OBVIOUS
    <3>1. i \in 0 .. MaxNodes - 1 /\ i \in 0 .. MaxNodes /\ i + 1 \in 1 .. MaxNodes
          /\ i + 1 \in 0 .. MaxNodes /\ (i + 1) - 1 = i
      BY NodeNat
    <3>2. path[i] # NULL /\ i < path[i] /\ path[i + 1] # NULL
      BY <2>3, <3>1
    <3>3. path[i] < path[i + 1]
      BY <3>1, <3>2
    <3>4. path[i] \in 1 .. MaxNodes /\ path[i + 1] \in 1 .. MaxNodes
      BY <2>1, <3>1, <3>2, Zenon
    <3> QED
      BY <3>2, <3>3, <3>4
  <2>4. MaxNodes \in T
    <3> HIDE DEF T
    <3> QED
      BY <2>2, <2>3, SetInduction, NodeNat
  <2>5. path[MaxNodes] # NULL /\ MaxNodes < path[MaxNodes] /\ MaxNodes \in 0 .. MaxNodes
    BY <2>4, NodeNat
  <2> QED
    BY <2>1, <2>5, NodeNat
<1> QED
  BY <1>1, Zenon

\* Both children and the search for v go from a node to a child or NULL.
LEMMA ChildForFacts ==
    ASSUME NEW tree \in StoreType, NEW c \in Node, NEW v
    PROVE  /\ ChildFor(tree, c, v) \in Pointer
           /\ ChildFor(tree, c, v) # NULL => Child(tree, c, ChildFor(tree, c, v))
  BY DEF StoreType, ChildFor, Child

\* The descent starts at the root and goes on to the child for v.
LEMMA DescentFacts ==
    ASSUME NEW tree \in StoreType, NEW v, NEW path, path = Descent(tree, v)
    PROVE  /\ path \in [0 .. MaxNodes -> Pointer]
           /\ path[0] = tree.head
           /\ \A k \in 1 .. MaxNodes :
                path[k] = IF path[k - 1] = NULL THEN NULL ELSE ChildFor(tree, path[k - 1], v)
<1> DEFINE below == [c \in Pointer |-> IF c = NULL THEN NULL ELSE ChildFor(tree, c, v)]
<1>1. tree.head \in Pointer /\ MaxNodes \in Nat
  BY NodeNat DEF StoreType
<1>2. path = Walk(tree.head, below, MaxNodes)
  BY Zenon DEF Descent, Walk, IsWalk, Pointer
<1>3. \A c \in Pointer : below[c] = IF c = NULL THEN NULL ELSE ChildFor(tree, c, v)
  OBVIOUS
<1> HIDE DEF below
<1>4. \A c \in Pointer : below[c] \in Pointer
  BY <1>3, ChildForFacts DEF Pointer
<1>5. WalksIn(path, Pointer, tree.head, below, MaxNodes)
  BY <1>1, <1>2, <1>4, Iteration
<1>6. ASSUME NEW k \in 1 .. MaxNodes
      PROVE  path[k] = IF path[k - 1] = NULL THEN NULL ELSE ChildFor(tree, path[k - 1], v)
  <2>1. k - 1 \in 0 .. MaxNodes
    BY <1>1
  <2>2. path[k - 1] \in Pointer /\ path[k] = below[path[k - 1]]
    BY <1>5, <2>1 DEF WalksIn
  <2> QED
    BY <1>3, <2>2, Zenon
<1> QED
  BY <1>5, <1>6 DEF WalksIn

\* z lies to the left of greater values than v, and to the right of others.
Fits(tree, v, z) ==
    \A x \in Node :
        /\ z \in Subtree(tree, tree.left[x]) => v < tree.value[x]
        /\ z \in Subtree(tree, tree.right[x]) => ~(v < tree.value[x])

\* So does the root,
LEMMA RootFits ==
    ASSUME NEW tree \in StoreType, NEW m \in 1 .. MaxNodes, IsTree(tree, m), NEW v
    PROVE  Fits(tree, v, 1)
<1>1. Younger(tree) /\ 1 \in Node
  BY WholeTree, NodeNat DEF Node
<1>2. ASSUME NEW x \in Node, NEW c \in Pointer, c = tree.left[x] \/ c = tree.right[x]
      PROVE  1 \notin Subtree(tree, c)
  <2>1. CASE c = NULL
    BY <1>1, <2>1, EmptySubtree
  <2>2. CASE c # NULL
    <3>1. c \in Node /\ Child(tree, x, c)
      BY <1>2, <2>2 DEF Pointer, Child
    <3>2. x < c /\ x \in 1 .. MaxNodes /\ c \in Nat
      BY <1>1, <3>1, NodeNat DEF Younger, Node
    <3>3. ~(c <= 1)
      BY <3>2
    <3> QED
      BY <1>1, <3>1, <3>3, SubtreeYounger
  <2> QED
    BY <2>1, <2>2
<1>3. \A x \in Node : tree.left[x] \in Pointer /\ tree.right[x] \in Pointer
  BY DEF StoreType
<1> QED
  BY <1>2, <1>3 DEF Fits

\* and the child for v of a node that does.
LEMMA ChildFits ==
    ASSUME NEW tree \in StoreType, NEW m \in 0 .. MaxNodes, IsTree(tree, m),
           NEW v, NEW z \in Node, Fits(tree, v, z),
           NEW y \in Node, y = ChildFor(tree, z, v)
    PROVE  Fits(tree, v, y)
<1>1. Younger(tree) /\ NULL \notin Node
  BY WholeTree, NodeNat
<1>2. /\ \A a, x, b \in Node : Child(tree, x, a) /\ Child(tree, b, a) => x = b
      /\ \A x \in Node : tree.left[x] # NULL => tree.left[x] # tree.right[x]
  BY DEF IsTree
<1>3. Child(tree, z, y)
  BY <1>1, ChildForFacts
<1>4. ASSUME NEW c \in Pointer, y \in Subtree(tree, c), y # c PROVE z \in Subtree(tree, c)
  <2>1. PICK x \in Subtree(tree, c) : Child(tree, x, y)
    BY <1>1, <1>4, SubtreeUp
  <2>2. x \in Node
    BY <1>1, <2>1, SubtreeClosed
  <2> QED
    BY <1>2, <1>3, <2>1, <2>2
<1>5. ASSUME NEW x \in Node
      PROVE  /\ y \in Subtree(tree, tree.left[x]) => v < tree.value[x]
             /\ y \in Subtree(tree, tree.right[x]) => ~(v < tree.value[x])
  <2>1. tree.left[x] \in Pointer /\ tree.right[x] \in Pointer
    BY DEF StoreType
  <2>2. ASSUME y = tree.left[x] PROVE v < tree.value[x]
    <3>1. x = z
      BY <1>2, <1>3, <2>2 DEF Child
    <3>2. y # tree.right[z]
      BY <1>1, <1>2, <2>2, <3>1
    <3> QED
      BY <3>1, <3>2 DEF ChildFor
  <2>3. ASSUME y = tree.right[x] PROVE ~(v < tree.value[x])
    <3>1. x = z
      BY <1>2, <1>3, <2>3 DEF Child
    <3>2. y # tree.left[z]
      BY <1>1, <1>2, <2>3, <3>1
    <3> QED
      BY <3>1, <3>2 DEF ChildFor
  <2> QED
    BY <1>4, <2>1, <2>2, <2>3 DEF Fits
<1> QED
  BY <1>5 DEF Fits

\* Where _insert_bst_node puts a node of value v: there is room, and it fits.
LEMMA InsertionParentFacts ==
    ASSUME NEW tree \in StoreType, NEW m \in 1 .. MaxNodes, IsTree(tree, m), NEW v,
           NEW z, z = InsertionParent(tree, v)
    PROVE  z \in 1 .. m /\ z \in Node /\ ChildFor(tree, z, v) = NULL /\ Fits(tree, v, z)
<1> DEFINE path == Descent(tree, v)
           T == {k \in Nat : k <= MaxNodes /\ path[k] # NULL =>
                   path[k] \in 1 .. m /\ Fits(tree, v, path[k])}
<1>1. /\ path \in [0 .. MaxNodes -> Pointer] /\ path[0] = tree.head
      /\ \A k \in 1 .. MaxNodes :
           path[k] = IF path[k - 1] = NULL THEN NULL ELSE ChildFor(tree, path[k - 1], v)
  BY DescentFacts
<1>2. tree.head = 1 /\ Younger(tree) /\ m \in 0 .. MaxNodes
      /\ \A x, y \in Node : Child(tree, x, y) => x < y /\ y <= m
  <2>1. m \in 0 .. MaxNodes /\ m # 0
    BY NodeNat
  <2>2. Younger(tree)
    BY <2>1, WholeTree
  <2> QED
    BY <2>1, <2>2 DEF IsTree
<1>3. z = path[CHOOSE k \in 0 .. MaxNodes - 1 : path[k] # NULL /\ path[k + 1] = NULL]
  BY DEF InsertionParent
<1> HIDE DEF path
<1>4. ASSUME NEW k \in 1 .. MaxNodes, path[k - 1] # NULL, path[k] # NULL
      PROVE  /\ path[k - 1] \in Node /\ path[k] \in Node
             /\ path[k] = ChildFor(tree, path[k - 1], v)
             /\ path[k - 1] < path[k] /\ path[k] <= m
  <2>1. k - 1 \in 0 .. MaxNodes /\ k \in 0 .. MaxNodes
    BY NodeNat
  <2>2. path[k - 1] \in Node /\ path[k] \in Node
    BY <1>1, <1>4, <2>1 DEF Pointer
  <2>3. path[k] = ChildFor(tree, path[k - 1], v)
    BY <1>1, <1>4
  <2>4. Child(tree, path[k - 1], path[k])
    BY <1>4, <2>2, <2>3, ChildForFacts
  <2> QED
    BY <1>2, <2>2, <2>3, <2>4
<1>5. 0 \in T
  <2>1. 1 \in 1 .. m
    BY NodeNat
  <2> QED
    BY <1>1, <1>2, <2>1, RootFits
<1>6. ASSUME NEW k \in Nat, k \in T PROVE k + 1 \in T
  <2> SUFFICES ASSUME k + 1 <= MaxNodes, path[k + 1] # NULL
               PROVE  path[k + 1] \in 1 .. m /\ Fits(tree, v, path[k + 1])
    OBVIOUS
  <2>1. k + 1 \in 1 .. MaxNodes /\ (k + 1) - 1 = k /\ k <= MaxNodes
    BY NodeNat
  <2>2. path[k] # NULL
    BY <1>1, <2>1
  <2>3. /\ path[k] \in Node /\ path[k + 1] \in Node
        /\ path[k + 1] = ChildFor(tree, path[k], v)
        /\ path[k] < path[k + 1] /\ path[k + 1] <= m
    BY <1>4, <2>1, <2>2
  <2>4. path[k + 1] \in 1 .. m
    BY <2>3, NodeNat DEF Node
  <2>5. Fits(tree, v, path[k])
    BY <1>6, <2>1, <2>2
  <2> QED
    BY <1>2, <2>3, <2>4, <2>5, ChildFits
<1>7. Nat \subseteq T
  <2> HIDE DEF T
  <2> QED
    BY <1>5, <1>6, SetInduction
<1> DEFINE k == CHOOSE k \in 0 .. MaxNodes - 1 : path[k] # NULL /\ path[k + 1] = NULL
<1>8. k \in 0 .. MaxNodes - 1 /\ path[k] # NULL /\ path[k + 1] = NULL
  <2>1. path[0] # NULL
    BY <1>1, <1>2 DEF NULL
  <2>2. \A i \in 1 .. MaxNodes : path[i - 1] # NULL /\ path[i] # NULL => path[i - 1] < path[i]
    BY <1>4
  <2> QED
    BY <1>1, <2>1, <2>2, LastOnPath
<1> HIDE DEF k
<1>9. z = path[k]
  BY <1>3 DEF k
<1>10. k \in Nat /\ k <= MaxNodes /\ k + 1 \in 1 .. MaxNodes /\ (k + 1) - 1 = k
  BY <1>8, NodeNat
<1>11. z \in 1 .. m /\ Fits(tree, v, z)
  BY <1>7, <1>8, <1>9, <1>10
<1>12. ChildFor(tree, z, v) = NULL
  BY <1>1, <1>8, <1>9, <1>10
<1>13. z \in Node
  BY <1>11, NodeNat DEF Node
<1> QED
  BY <1>11, <1>12, <1>13
-----------------------------------------------------------------------------
(* Insertion into a tree.                                                  *)

\* No child of a tree of m nodes is outside of 1 .. m,
LEMMA ChildInTree ==
    ASSUME NEW tree \in StoreType, NEW m \in 0 .. MaxNodes, IsTree(tree, m),
           NEW x \in Node, NEW c, c = tree.left[x] \/ c = tree.right[x]
    PROVE  /\ c \in Pointer
           /\ c # NULL => c \in Node /\ Child(tree, x, c) /\ x < c /\ c <= m
<1>1. c \in Pointer
  BY DEF StoreType
<1>2. ASSUME c # NULL PROVE c \in Node /\ Child(tree, x, c)
  BY <1>1, <1>2 DEF Pointer, Child
<1> QED
  BY <1>1, <1>2 DEF IsTree

\* so nothing below a node is.
LEMMA BelowInTree ==
    ASSUME NEW tree \in StoreType, NEW m \in 0 .. MaxNodes, IsTree(tree, m),
           NEW c \in Pointer, c <= m
    PROVE  Subtree(tree, c) \subseteq 1 .. m
<1>1. Younger(tree)
  BY WholeTree
<1>2. 1 .. m \in SUBSET Node
  BY NodeNat DEF Node
<1>3. Closed(tree, 1 .. m)
  <2>1. ASSUME NEW x \in 1 .. m, NEW y \in Node, Child(tree, x, y) PROVE y \in 1 .. m
    <3>1. x \in Node
      BY <1>2
    <3>2. x < y /\ y <= m /\ y \in Nat
      BY <2>1, <3>1, NodeNat DEF IsTree
    <3> QED
      BY <3>2
  <2> QED
    BY <2>1 DEF Closed
<1>4. c # NULL => c \in 1 .. m
  BY DEF Pointer, Node
<1> QED
  BY <1>1, <1>2, <1>3, <1>4, SubtreeClosed

\* Fields other than head, left and right do not make the tree.
LEMMA SameTree ==
    ASSUME NEW tree, NEW new, NEW m, IsTree(tree, m),
           new.head = tree.head, new.left = tree.left, new.right = tree.right
    PROVE  IsTree(new, m)
  BY DEF IsTree, Child

\* Its order is that of the values of its nodes.
LEMMA SameOrder ==
    ASSUME NEW tree \in StoreType, NEW new \in StoreType, NEW m \in 0 .. MaxNodes,
           IsTree(tree, m), new.left = tree.left, new.right = tree.right,
           \A y \in 1 .. m : new.value[y] = tree.value[y],
           NEW x \in 1 .. m, InOrder(tree, x)
    PROVE  InOrder(new, x)
<1>1. x \in Node /\ Younger(tree)
  BY WholeTree, NodeNat DEF Node
<1>2. ASSUME NEW c, c = tree.left[x] \/ c = tree.right[x]
      PROVE  Subtree(new, c) = Subtree(tree, c) /\ Subtree(tree, c) \subseteq 1 .. m
  <2>1. c \in Pointer /\ c <= m
    <3>1. c \in Pointer /\ (c # NULL => c <= m)
      BY <1>1, <1>2, ChildInTree
    <3> QED
      BY <3>1, NodeNat DEF NULL
  <2> QED
    BY <1>1, <2>1, SameSubtree, BelowInTree
<1> QED
  BY <1>2 DEF InOrder

\* n becomes a child of z, on the side for its value.
Grows(new, tree, z, n) ==
    /\ new \in StoreType
    /\ new.head = tree.head /\ new.value = tree.value
    /\ IF tree.value[n] < tree.value[z]
       THEN new.left = [tree.left EXCEPT ![z] = n] /\ new.right = tree.right
       ELSE new.right = [tree.right EXCEPT ![z] = n] /\ new.left = tree.left

\* insert_bst_node does that to a tree with a root.
LEMMA insert_bst_nodeFacts ==
    ASSUME NEW tree \in StoreType, NEW m \in 1 .. MaxNodes, IsTree(tree, m), NEW n \in Node,
           NEW z, z = InsertionParent(tree, tree.value[n]),
           NEW new, new = insert_bst_node(tree, n)
    PROVE  Grows(new, tree, z, n)
<1> DEFINE left == [tree.left EXCEPT ![z] = n]
           right == [tree.right EXCEPT ![z] = n]
<1>1. tree.head # NULL
  BY NodeNat DEF IsTree, NULL
<1>2. new = IF tree.value[n] < tree.value[z]
            THEN [tree EXCEPT !.left = left] ELSE [tree EXCEPT !.right = right]
  BY <1>1, Zenon DEF insert_bst_node
<1>3. left \in [Node -> Pointer] /\ right \in [Node -> Pointer]
  BY DEF StoreType, Pointer
<1> HIDE DEF left, right
<1>4. CASE tree.value[n] < tree.value[z]
  <2>1. new = [tree EXCEPT !.left = left]
    BY <1>2, <1>4
  <2>2. new \in StoreType /\ new.head = tree.head /\ new.value = tree.value
        /\ new.left = left /\ new.right = tree.right
    BY <1>3, <2>1 DEF StoreType
  <2> QED
    BY <1>4, <2>2 DEF Grows, left
<1>5. CASE ~(tree.value[n] < tree.value[z])
  <2>1. new = [tree EXCEPT !.right = right]
    BY <1>2, <1>5
  <2>2. new \in StoreType /\ new.head = tree.head /\ new.value = tree.value
        /\ new.left = tree.left /\ new.right = right
    BY <1>3, <2>1 DEF StoreType
  <2> QED
    BY <1>5, <2>2 DEF Grows, right
<1> QED
  BY <1>4, <1>5

\* The first node becomes the root.
LEMMA TreeStarts ==
    ASSUME NEW tree \in StoreType, IsTree(tree, 0),
           NEW new, new = insert_bst_node(tree, 1)
    PROVE  new \in StoreType /\ IsTree(new, 1) /\ InOrder(new, 1)
<1>1. tree.head = NULL /\ 1 \in Node /\ 0 \in 0 .. MaxNodes
  BY NodeNat DEF IsTree, Node
<1>2. new = [tree EXCEPT !.head = 1]
  BY <1>1 DEF insert_bst_node
<1>3. new \in StoreType /\ new.head = 1 /\ new.left = tree.left /\ new.right = tree.right
  BY <1>1, <1>2 DEF StoreType, Pointer
<1>4. \A x, y \in Node : ~Child(new, x, y)
  <2> SUFFICES ASSUME NEW x \in Node, NEW y \in Node, Child(new, x, y) PROVE FALSE
    OBVIOUS
  <2>1. Child(tree, x, y)
    BY <1>3 DEF Child
  <2>2. x < y /\ y <= 0 /\ x \in Nat /\ y \in Nat
    BY <2>1, NodeNat DEF IsTree
  <2> QED
    BY <2>2
<1>5. \A x \in Node : new.left[x] = NULL /\ new.right[x] = NULL
  BY <1>3, <1>4 DEF StoreType, Pointer, Child
<1>6. IsTree(new, 1)
  BY <1>3, <1>4, <1>5 DEF IsTree
<1>7. Younger(new)
  BY <1>4 DEF Younger
<1>8. InOrder(new, 1)
  BY <1>1, <1>3, <1>5, <1>7, EmptySubtree DEF InOrder
<1> QED
  BY <1>3, <1>6, <1>8

\* Every other leaves it a tree, in order.
LEMMA TreeGrows ==
    ASSUME NEW tree \in StoreType, NEW m \in 1 .. MaxNodes, IsTree(tree, m),
           \A x \in 1 .. m : InOrder(tree, x), m + 1 \in Node,
           NEW new, new = insert_bst_node(tree, m + 1)
    PROVE  new \in StoreType /\ IsTree(new, m + 1) /\ \A x \in 1 .. m + 1 : InOrder(new, x)
<1> DEFINE n == m + 1
           v == tree.value[n]
           z == InsertionParent(tree, v)
<1>1. n \in Node /\ n \in Nat /\ m \in Nat /\ m < n /\ n # 1 /\ m \in 0 .. MaxNodes /\ m # 0 /\ n # 0
  BY NodeNat
<1>2. z \in 1 .. m /\ z \in Node /\ ChildFor(tree, z, v) = NULL /\ Fits(tree, v, z)
  BY InsertionParentFacts
<1>3. Grows(new, tree, z, n)
  BY <1>1, insert_bst_nodeFacts
<1>4. \A x \in 1 .. n : x = n \/ x \in 1 .. m
  OBVIOUS
<1>5. z < n /\ z # n /\ z \in Nat
  BY <1>2
<1>6. 2 .. n = (2 .. m) \cup {n}
  BY <1>1
<1>7. v \in Int /\ tree.value[z] \in Int
  BY <1>1, <1>2 DEF StoreType, Value
<1>8. /\ tree.head = 1 /\ Younger(tree)
      /\ \A x, y \in Node : Child(tree, x, y) => x < y /\ y <= m
      /\ \A y \in 2 .. m : \E x \in Node : Child(tree, x, y)
      /\ \A y, a, b \in Node : Child(tree, a, y) /\ Child(tree, b, y) => a = b
      /\ \A x \in Node : tree.left[x] # NULL => tree.left[x] # tree.right[x]
  BY <1>1, WholeTree DEF IsTree
<1>9. tree.left \in [Node -> Pointer] /\ tree.right \in [Node -> Pointer]
  BY DEF StoreType
<1> HIDE DEF n, z, v
<1>10. \A x \in Node : tree.left[x] # n /\ tree.right[x] # n
  <2>1. ASSUME NEW x \in Node, Child(tree, x, n) PROVE FALSE
    <3>1. n <= m
      BY <1>1, <1>8, <2>1
    <3> QED
      BY <1>1, <3>1
  <2> QED
    BY <2>1 DEF Child
<1>11. \A x, y \in Node : Child(new, x, y) <=> (Child(tree, x, y) \/ (x = z /\ y = n))
  <2> TAKE x, y \in Node
  <2>1. CASE v < tree.value[z]
    <3>1. tree.left[z] = NULL /\ new.left = [tree.left EXCEPT ![z] = n] /\ new.right = tree.right
      BY <1>2, <1>3, <2>1 DEF ChildFor, Grows, v
    <3>2. y # NULL
      BY NodeNat
    <3> QED
      BY <1>9, <3>1, <3>2 DEF Child
  <2>2. CASE ~(v < tree.value[z])
    <3>1. tree.right[z] = NULL /\ new.right = [tree.right EXCEPT ![z] = n] /\ new.left = tree.left
      BY <1>2, <1>3, <2>2 DEF ChildFor, Grows, v
    <3>2. y # NULL
      BY NodeNat
    <3> QED
      BY <1>9, <3>1, <3>2 DEF Child
  <2> QED
    BY <2>1, <2>2
<1>12. \A x \in Node : new.left[x] # NULL => new.left[x] # new.right[x]
  <2> TAKE x \in Node
  <2>1. CASE v < tree.value[z]
    <3>1. new.left = [tree.left EXCEPT ![z] = n] /\ new.right = tree.right
      BY <1>3, <2>1 DEF Grows, v
    <3> QED
      BY <1>8, <1>9, <1>10, <3>1
  <2>2. CASE ~(v < tree.value[z])
    <3>1. new.right = [tree.right EXCEPT ![z] = n] /\ new.left = tree.left
      BY <1>3, <2>2 DEF Grows, v
    <3> QED
      BY <1>8, <1>9, <1>10, <3>1
  <2> QED
    BY <2>1, <2>2
<1>13. new \in StoreType /\ new.head = 1 /\ new.value = tree.value
  BY <1>3, <1>8 DEF Grows
<1>14. IsTree(new, n)
  <2>1. \A x, y \in Node : Child(new, x, y) => x < y /\ y <= n
    <3> SUFFICES ASSUME NEW x \in Node, NEW y \in Node, Child(new, x, y) PROVE x < y /\ y <= n
      OBVIOUS
    <3>1. CASE Child(tree, x, y)
      <4>1. x < y /\ y <= m /\ y \in Nat
        BY <1>8, <3>1, NodeNat
      <4> QED
        BY <1>1, <4>1
    <3>2. CASE x = z /\ y = n
      BY <1>1, <1>5, <3>2
    <3> QED
      BY <1>11, <3>1, <3>2
  <2>2. \A y \in 2 .. n : \E x \in Node : Child(new, x, y)
    <3> TAKE y \in 2 .. n
    <3>1. CASE y = n
      BY <1>1, <1>2, <1>11, <3>1
    <3>2. CASE y # n
      <4>1. y \in 2 .. m
        BY <1>6, <3>2
      <4>2. PICK x \in Node : Child(tree, x, y)
        BY <1>8, <4>1
      <4>3. y \in Node
        BY <4>1, NodeNat DEF Node
      <4> QED
        BY <1>11, <4>2, <4>3
    <3> QED
      BY <3>1, <3>2
  <2>3. \A y, a, b \in Node : Child(new, a, y) /\ Child(new, b, y) => a = b
    <3> SUFFICES ASSUME NEW y \in Node, NEW a \in Node, NEW b \in Node,
                        Child(new, a, y), Child(new, b, y)
                 PROVE  a = b
      OBVIOUS
    <3>1. \A x \in Node : ~Child(tree, x, n)
      BY <1>10 DEF Child
    <3> QED
      BY <1>8, <1>11, <3>1
  <2>4. new.head = IF n = 0 THEN NULL ELSE 1
    BY <1>1, <1>13
  <2> QED
    BY <1>12, <2>1, <2>2, <2>3, <2>4 DEF IsTree
<1>15. Younger(new) /\ n \in 0 .. MaxNodes
  <2>1. n \in 0 .. MaxNodes
    BY <1>1 DEF Node
  <2> QED
    BY <1>13, <1>14, <2>1, WholeTree
<1>16. ASSUME NEW c \in Pointer, c # n, NEW y \in Subtree(new, c)
       PROVE  y \in Subtree(tree, c) \/ (y = n /\ z \in Subtree(tree, c))
  <2> DEFINE T == Subtree(tree, c)
             S == {x \in Node : x \in T \/ (x = n /\ z \in T)}
  <2>1. T \subseteq Node /\ (c # NULL => c \in T) /\ Closed(tree, T)
    BY <1>8, SubtreeClosed
  <2> HIDE DEF T
  <2>2. Closed(new, S)
    <3>1. ASSUME NEW x \in S, NEW w \in Node, Child(new, x, w) PROVE w \in S
      <4>1. CASE x \in T
        BY <1>11, <2>1, <3>1, <4>1 DEF Closed
      <4>2. CASE x = n
        BY <1>1, <1>5, <1>8, <1>11, <1>15, <3>1, <4>2 DEF Younger, IsTree
      <4> QED
        BY <4>1, <4>2
    <3> QED
      BY <3>1 DEF Closed
  <2>3. S \in SUBSET Node /\ (c # NULL => c \in S)
    BY <2>1
  <2>4. Subtree(new, c) \subseteq S
    <3> HIDE DEF S
    <3> QED
      BY <1>13, <1>15, <2>2, <2>3, SubtreeClosed
  <2> QED
    BY <2>4 DEF T
<1>17. ASSUME NEW y \in Subtree(new, n) PROVE y = n
  <2>1. Closed(new, {n}) /\ {n} \in SUBSET Node /\ n \in Pointer
    <3>1. ASSUME NEW w \in Node, Child(new, n, w) PROVE FALSE
      <4>1. n < w /\ w <= n /\ w \in Nat
        BY <1>1, <1>14, <3>1, NodeNat DEF IsTree
      <4> QED
        BY <1>1, <4>1
    <3> QED
      BY <1>1, <3>1 DEF Closed, Pointer
  <2> QED
    BY <1>13, <1>15, <2>1, SubtreeClosed
<1>18. ASSUME NEW x \in 1 .. m PROVE InOrder(new, x)
  <2> DEFINE l == tree.left[x]
             r == tree.right[x]
  <2>1. x \in Node /\ x # n
    BY <1>1, NodeNat DEF Node
  <2>2. l \in Pointer /\ r \in Pointer /\ l # n /\ r # n
    BY <1>9, <1>10, <2>1
  <2>3. /\ \A y \in Subtree(tree, l) : tree.value[y] < tree.value[x]
        /\ \A y \in Subtree(tree, r) : tree.value[y] >= tree.value[x]
    BY DEF InOrder
  <2>4. /\ z \in Subtree(tree, l) => v < tree.value[x]
        /\ z \in Subtree(tree, r) => v >= tree.value[x]
    <3>1. tree.value[x] \in Int
      BY <2>1 DEF StoreType, Value
    <3>2. /\ z \in Subtree(tree, l) => v < tree.value[x]
          /\ z \in Subtree(tree, r) => ~(v < tree.value[x])
      BY <1>2, <2>1 DEF Fits
    <3> QED
      BY <1>7, <3>1, <3>2
  <2>5. ASSUME NEW y \in Subtree(new, l) PROVE tree.value[y] < tree.value[x]
    BY <1>16, <2>2, <2>3, <2>4 DEF v
  <2>6. ASSUME NEW y \in Subtree(new, r) PROVE tree.value[y] >= tree.value[x]
    BY <1>16, <2>2, <2>3, <2>4 DEF v
  <2> HIDE DEF l, r
  <2>7. ASSUME NEW y \in Subtree(new, new.left[x]) PROVE tree.value[y] < tree.value[x]
    <3>1. CASE new.left[x] = l
      BY <2>5, <2>7, <3>1
    <3>2. CASE new.left[x] # l
      <4>1. x = z /\ new.left[x] = n /\ v < tree.value[z]
        BY <1>3, <1>9, <2>1, <3>2 DEF Grows, v, l
      <4> QED
        BY <1>17, <2>7, <4>1 DEF v
    <3> QED
      BY <3>1, <3>2
  <2>8. ASSUME NEW y \in Subtree(new, new.right[x]) PROVE tree.value[y] >= tree.value[x]
    <3>1. CASE new.right[x] = r
      BY <2>6, <2>8, <3>1
    <3>2. CASE new.right[x] # r
      <4>1. x = z /\ new.right[x] = n /\ ~(v < tree.value[z])
        BY <1>3, <1>9, <2>1, <3>2 DEF Grows, v, r
      <4>2. v >= tree.value[z]
        BY <1>7, <4>1
      <4> QED
        BY <1>17, <2>8, <4>1, <4>2 DEF v
    <3> QED
      BY <3>1, <3>2
  <2> QED
    BY <1>13, <2>7, <2>8 DEF InOrder
<1>19. InOrder(new, n)
  <2>1. ASSUME NEW c, c = new.left[n] \/ c = new.right[n] PROVE Subtree(new, c) = {}
    <3>1. c \in Pointer /\ (c # NULL => n < c /\ c <= n /\ c \in Node)
      BY <1>1, <1>13, <1>14, <1>15, <2>1, ChildInTree
    <3>2. c = NULL
      <4>1. c # NULL => c \in Nat /\ n < c /\ c <= n
        BY <3>1, NodeNat
      <4> QED
        BY <1>1, <4>1
    <3> QED
      BY <1>13, <1>15, <3>2, EmptySubtree
  <2> QED
    BY <2>1 DEF InOrder
<1>20. new \in StoreType /\ IsTree(new, n) /\ \A x \in 1 .. n : InOrder(new, x)
  BY <1>4, <1>13, <1>14, <1>18, <1>19
<1> QED
  BY <1>20 DEF n
-----------------------------------------------------------------------------
(* A step of a search, and the order in which the nodes are freed.         *)

\* A search goes to a child, or stops.
LEMMA SearchChildFacts ==
    ASSUME NEW tree \in StoreType, NEW c \in Node, NEW v
    PROVE  /\ SearchChild(tree, c, v) \in Pointer
           /\ SearchChild(tree, c, v) # NULL => Child(tree, c, SearchChild(tree, c, v))
  BY DEF StoreType, SearchChild, Child, Pointer

\* If v is below c and the search goes on, v is below the child it goes to.
LEMMA SearchStays ==
    ASSUME NEW tree \in StoreType, NEW m \in 0 .. MaxNodes, IsTree(tree, m),
           NEW c \in 1 .. m, InOrder(tree, c), NEW v \in Value,
           NEW n, n = SearchChild(tree, c, v), n # NULL,
           NEW y \in Subtree(tree, c), tree.value[y] = v
    PROVE  y \in Subtree(tree, n)
<1>1. c \in Node /\ Younger(tree)
  BY WholeTree, NodeNat DEF Node
<1>2. v \in Int /\ tree.value[c] \in Int
  BY <1>1 DEF StoreType, Value
<1>3. \/ v < tree.value[c] /\ n = tree.left[c]
      \/ v > tree.value[c] /\ n = tree.right[c]
  BY DEF SearchChild
<1>4. y = c \/ y \in Subtree(tree, tree.left[c]) \/ y \in Subtree(tree, tree.right[c])
  BY <1>1, SubtreeDown
<1>5. /\ y \in Subtree(tree, tree.left[c]) => v < tree.value[c]
      /\ y \in Subtree(tree, tree.right[c]) => v >= tree.value[c]
  BY DEF InOrder
<1> QED
  BY <1>2, <1>3, <1>4, <1>5

\* The next node that is freed is left, and has no child that is.
LEMMA NextFreedFacts ==
    ASSUME NEW tree \in StoreType, NEW m \in 0 .. MaxNodes, IsTree(tree, m),
           NEW live \in SUBSET Node, tree.head \in live,
           NEW z, z = NextFreed(tree, live)
    PROVE  z \in live /\ \A y \in live : ~Child(tree, z, y)
<1> DEFINE below == [c \in Pointer |-> IF c = NULL THEN NULL ELSE FreeChild(tree, c, live)]
           path == Walk(tree.head, below, MaxNodes)
           k == CHOOSE i \in 0 .. MaxNodes - 1 : path[i] # NULL /\ path[i + 1] = NULL
           V == live \cup {NULL}
<1>1. MaxNodes \in Nat /\ NULL \notin live /\ Younger(tree)
  BY NodeNat, WholeTree
<1>2. z = path[k]
  BY Zenon DEF NextFreed, Walk, IsWalk, Pointer
<1>3. \A c \in Pointer : below[c] = IF c = NULL THEN NULL ELSE FreeChild(tree, c, live)
  OBVIOUS
<1> HIDE DEF below
<1>4. ASSUME NEW c \in live
      PROVE  /\ below[c] \in V
             /\ below[c] # NULL => Child(tree, c, below[c])
             /\ below[c] = NULL => \A y \in live : ~Child(tree, c, y)
  <2>1. below[c] = FreeChild(tree, c, live) /\ c \in Node
    BY <1>1, <1>3 DEF Pointer
  <2> QED
    BY <1>1, <2>1 DEF FreeChild, Child
<1>5. below[NULL] = NULL
  BY <1>3 DEF Pointer
<1>6. tree.head \in V /\ \A c \in V : below[c] \in V
  BY <1>4, <1>5
<1>7. WalksIn(path, V, tree.head, below, MaxNodes)
  <2> HIDE DEF V, path
  <2>1. path = Walk(tree.head, below, MaxNodes)
    BY DEF path
  <2> QED
    BY <1>1, <1>6, <2>1, Iteration
<1> HIDE DEF path
<1>8. /\ path \in [0 .. MaxNodes -> V] /\ path[0] = tree.head
      /\ \A i \in 1 .. MaxNodes : path[i] = below[path[i - 1]]
  BY <1>7 DEF WalksIn
<1>9. k \in 0 .. MaxNodes - 1 /\ path[k] # NULL /\ path[k + 1] = NULL
  <2>1. path \in [0 .. MaxNodes -> Pointer] /\ path[0] # NULL
    BY <1>1, <1>8 DEF Pointer
  <2>2. ASSUME NEW i \in 1 .. MaxNodes, path[i - 1] # NULL, path[i] # NULL
        PROVE  path[i - 1] < path[i]
    <3>1. i \in 0 .. MaxNodes /\ i - 1 \in 0 .. MaxNodes
      BY <1>1
    <3>2. path[i - 1] \in live /\ path[i] \in live /\ path[i] = below[path[i - 1]]
      BY <1>8, <2>2, <3>1
    <3>3. Child(tree, path[i - 1], path[i])
      BY <1>4, <2>2, <3>2
    <3> QED
      BY <1>1, <3>2, <3>3 DEF Younger
  <2> QED
    BY <2>1, <2>2, LastOnPath
<1> HIDE DEF k
<1>10. k + 1 \in 1 .. MaxNodes /\ k \in 0 .. MaxNodes /\ (k + 1) - 1 = k
  BY <1>1, <1>9
<1>11. path[k] \in live /\ below[path[k]] = NULL
  BY <1>8, <1>9, <1>10
<1> QED
  BY <1>2, <1>4, <1>11

\* Without it, what is left is still a tree,
LEMMA StaysLive ==
    ASSUME NEW tree \in StoreType, NEW m \in 0 .. MaxNodes, IsTree(tree, m),
           NEW live \in SUBSET Node, IsLive(tree, live, m), tree.head \in live,
           NEW z, z = NextFreed(tree, live)
    PROVE  IsLive(tree, live \ {z}, m)
<1>1. z \in live /\ \A y \in live : ~Child(tree, z, y)
  BY NextFreedFacts
<1> QED
  BY <1>1 DEF IsLive

\* and without the root, nothing is left.
LEMMA RootIsLast ==
    ASSUME NEW tree \in StoreType, NEW m \in 0 .. MaxNodes, IsTree(tree, m),
           NEW live \in SUBSET Node, IsLive(tree, live, m), tree.head \notin live
    PROVE  live = {}
<1> SUFFICES ASSUME live # {} PROVE FALSE
  OBVIOUS
<1>1. live \subseteq Nat
  BY NodeNat
<1>2. PICK y \in live : \A x \in live : y <= x
  BY <1>1, LeastElement
<1>3. y \in 1 .. m /\ y \in Node
  BY <1>2 DEF IsLive
<1>4. tree.head = 1
  BY <1>3 DEF IsTree
<1>5. y \in 2 .. m
  BY <1>2, <1>3, <1>4
<1>6. PICK x \in Node : Child(tree, x, y)
  BY <1>5 DEF IsTree
<1>7. x \in live
  BY <1>2, <1>3, <1>6 DEF IsLive
<1>8. x < y /\ y <= x /\ x \in Nat /\ y \in Nat
  BY <1>2, <1>3, <1>6, <1>7, NodeNat DEF IsTree
<1> QED
  BY <1>8
-----------------------------------------------------------------------------
(* Arrays.                                                                 *)

\* What ArraySizes promises of the length of an array.
FitsULong(N) == N \in Nat /\ STRIDE < N /\ 2 * N < ULongSize

LEMMA Strides == STRIDE \in Nat \ {0} /\ \A N \in ArraySizes : FitsULong(N)
  BY ArrayAssumption, WorkloadsAssumption DEF FitsULong

\* Neither sum overflows, and each wraps around the end of the array at most
\* once.
LEMMA ForwardsIs ==
    ASSUME NEW N, FitsULong(N), NEW e \in 0 .. N - 1
    PROVE  /\ Forwards(N, e) \in 0 .. N - 1
           /\ Forwards(N, e) = IF e + STRIDE < N THEN e + STRIDE ELSE e + STRIDE - N
<1> DEFINE s == e + STRIDE
<1>1. /\ N \in Nat \ {0} /\ STRIDE \in Nat \ {0} /\ ULongSize \in Nat \ {0}
      /\ s \in 0 .. ULongSize - 1 /\ s < 2 * N
  BY ArrayAssumption DEF FitsULong
<1>2. s % ULongSize = s
  <2>1. s = ULongSize * 0 + s /\ 0 \in Int
    BY <1>1
  <2> HIDE DEF s
  <2> QED
    BY <1>1, <2>1, DivUnique
<1>3. Forwards(N, e) = s % N
  BY <1>2 DEF Forwards
<1>4. CASE s < N
  <2>1. s \in 0 .. N - 1 /\ s = N * 0 + s /\ 0 \in Int
    BY <1>1, <1>4
  <2>2. s % N = s
    <3> HIDE DEF s
    <3> QED
      BY <1>1, <2>1, DivUnique
  <2> QED
    BY <1>3, <1>4, <2>1, <2>2
<1>5. CASE ~(s < N)
  <2> DEFINE r == s - N
  <2>1. r \in 0 .. N - 1 /\ s = N * 1 + r /\ 1 \in Int
    BY <1>1, <1>5
  <2>2. s % N = r
    <3> HIDE DEF s, r
    <3> QED
      BY <1>1, <2>1, DivUnique
  <2>3. ~(e + STRIDE < N) /\ r = e + STRIDE - N
    BY <1>1, <1>5
  <2> HIDE DEF s, r
  <2> QED
    BY <1>3, <2>1, <2>2, <2>3
<1> QED
  BY <1>4, <1>5

LEMMA BackwardsIs ==
    ASSUME NEW N, FitsULong(N), NEW e \in 0 .. N - 1
    PROVE  /\ Backwards(N, e) \in 0 .. N - 1
           /\ Backwards(N, e) = IF e - STRIDE >= 0 THEN e - STRIDE ELSE e - STRIDE + N
<1> DEFINE s == N + e - STRIDE
<1>1. /\ N \in Nat \ {0} /\ STRIDE \in Nat \ {0} /\ ULongSize \in Nat \ {0}
      /\ s \in 0 .. ULongSize - 1 /\ s < 2 * N
  BY ArrayAssumption DEF FitsULong
<1>2. s % ULongSize = s
  <2>1. s = ULongSize * 0 + s /\ 0 \in Int
    BY <1>1
  <2> HIDE DEF s
  <2> QED
    BY <1>1, <2>1, DivUnique
<1>3. Backwards(N, e) = s % N
  BY <1>2 DEF Backwards
<1>4. CASE s < N
  <2>1. s \in 0 .. N - 1 /\ s = N * 0 + s /\ 0 \in Int
    BY <1>1, <1>4
  <2>2. s % N = s
    <3> HIDE DEF s
    <3> QED
      BY <1>1, <2>1, DivUnique
  <2>3. ~(e - STRIDE >= 0) /\ s = e - STRIDE + N
    BY <1>1, <1>4
  <2> QED
    BY <1>3, <2>1, <2>2, <2>3
<1>5. CASE ~(s < N)
  <2> DEFINE r == s - N
  <2>1. r \in 0 .. N - 1 /\ s = N * 1 + r /\ 1 \in Int
    BY <1>1, <1>5
  <2>2. s % N = r
    <3> HIDE DEF s, r
    <3> QED
      BY <1>1, <2>1, DivUnique
  <2>3. e - STRIDE >= 0 /\ r = e - STRIDE
    BY <1>1, <1>5
  <2> QED
    BY <1>3, <2>1, <2>2, <2>3
<1> QED
  BY <1>4, <1>5

\* The k-th element of each walk, within one pass.
Ahead(N, e, k) == IF e + STRIDE * k < N THEN e + STRIDE * k ELSE e + STRIDE * k - N
Behind(N, e, k) == IF e - STRIDE * k >= 0 THEN e - STRIDE * k ELSE e - STRIDE * k + N

LEMMA VisitedForwards ==
    ASSUME NEW N, FitsULong(N), NEW e \in 0 .. N - 1,
           NEW k \in Nat, STRIDE * k <= N
    PROVE  k \in 0 .. N /\ Visited(Forwards, N, e)[k] = Ahead(N, e, k)
<1> DEFINE step == [i \in 0 .. N - 1 |-> Forwards(N, i)]
           at == Walk(e, step, N)
           T == {j \in Nat : STRIDE * j <= N => at[j] = Ahead(N, e, j)}
<1>1. N \in Nat /\ STRIDE \in Nat \ {0}
  BY Strides DEF FitsULong
<1>2. Visited(Forwards, N, e) = at
  BY Zenon DEF Visited, Walk, IsWalk
<1>3. \A i \in 0 .. N - 1 : step[i] = Forwards(N, i)
  OBVIOUS
<1> HIDE DEF step
<1>4. \A i \in 0 .. N - 1 : step[i] \in 0 .. N - 1
  BY <1>3, ForwardsIs
<1>5. WalksIn(at, 0 .. N - 1, e, step, N)
  BY <1>1, <1>4, Iteration
<1> HIDE DEF at
<1>6. /\ at[0] = e
      /\ \A j \in 1 .. N : at[j] = step[at[j - 1]]
      /\ \A j \in 0 .. N : at[j] \in 0 .. N - 1
  BY <1>5 DEF WalksIn
<1>7. ASSUME NEW j \in Nat, STRIDE * j <= N PROVE j <= N
  BY <1>1, <1>7
<1>8. 0 \in T
  <2>1. e + STRIDE * 0 = e /\ e < N
    BY <1>1
  <2> QED
    BY <1>6, <2>1 DEF Ahead
<1>9. ASSUME NEW j \in Nat, j \in T PROVE j + 1 \in T
  <2> SUFFICES ASSUME STRIDE * (j + 1) <= N PROVE at[j + 1] = Ahead(N, e, j + 1)
    OBVIOUS
  <2> DEFINE d == STRIDE * j
  <2>1. d \in Nat /\ STRIDE * (j + 1) = d + STRIDE
    BY <1>1
  <2>2. j + 1 \in Nat /\ j + 1 <= N
    BY <1>1, <1>7
  <2>3. j + 1 \in 1 .. N /\ j \in 0 .. N /\ (j + 1) - 1 = j
    BY <1>1, <2>2
  <2>4. at[j] = Ahead(N, e, j) /\ at[j] \in 0 .. N - 1 /\ at[j + 1] = step[at[j]]
    BY <1>1, <1>6, <1>9, <2>1, <2>3
  <2>5. at[j + 1] = IF at[j] + STRIDE < N THEN at[j] + STRIDE ELSE at[j] + STRIDE - N
    BY <1>3, <2>4, ForwardsIs
  <2>6. at[j] = IF e + d < N THEN e + d ELSE e + d - N
    BY <2>4 DEF Ahead
  <2>7. Ahead(N, e, j + 1) = IF e + (d + STRIDE) < N THEN e + (d + STRIDE) ELSE e + (d + STRIDE) - N
    BY <2>1 DEF Ahead
  <2>8. d + STRIDE <= N
    BY <2>1
  <2> HIDE DEF d
  <2> QED
    BY <1>1, <2>1, <2>4, <2>5, <2>6, <2>7, <2>8
<1>10. k \in T
  <2> HIDE DEF T
  <2> QED
    BY <1>8, <1>9, SetInduction
<1> QED
  BY <1>1, <1>2, <1>7, <1>10

LEMMA VisitedBackwards ==
    ASSUME NEW N, FitsULong(N), NEW e \in 0 .. N - 1,
           NEW k \in Nat, STRIDE * k <= N
    PROVE  k \in 0 .. N /\ Visited(Backwards, N, e)[k] = Behind(N, e, k)
<1> DEFINE step == [i \in 0 .. N - 1 |-> Backwards(N, i)]
           at == Walk(e, step, N)
           T == {j \in Nat : STRIDE * j <= N => at[j] = Behind(N, e, j)}
<1>1. N \in Nat /\ STRIDE \in Nat \ {0}
  BY Strides DEF FitsULong
<1>2. Visited(Backwards, N, e) = at
  BY Zenon DEF Visited, Walk, IsWalk
<1>3. \A i \in 0 .. N - 1 : step[i] = Backwards(N, i)
  OBVIOUS
<1> HIDE DEF step
<1>4. \A i \in 0 .. N - 1 : step[i] \in 0 .. N - 1
  BY <1>3, BackwardsIs
<1>5. WalksIn(at, 0 .. N - 1, e, step, N)
  BY <1>1, <1>4, Iteration
<1> HIDE DEF at
<1>6. /\ at[0] = e
      /\ \A j \in 1 .. N : at[j] = step[at[j - 1]]
      /\ \A j \in 0 .. N : at[j] \in 0 .. N - 1
  BY <1>5 DEF WalksIn
<1>7. ASSUME NEW j \in Nat, STRIDE * j <= N PROVE j <= N
  BY <1>1, <1>7
<1>8. 0 \in T
  <2>1. e - STRIDE * 0 = e /\ e >= 0
    BY <1>1
  <2> QED
    BY <1>6, <2>1 DEF Behind
<1>9. ASSUME NEW j \in Nat, j \in T PROVE j + 1 \in T
  <2> SUFFICES ASSUME STRIDE * (j + 1) <= N PROVE at[j + 1] = Behind(N, e, j + 1)
    OBVIOUS
  <2> DEFINE d == STRIDE * j
  <2>1. d \in Nat /\ STRIDE * (j + 1) = d + STRIDE
    BY <1>1
  <2>2. j + 1 \in Nat /\ j + 1 <= N
    BY <1>1, <1>7
  <2>3. j + 1 \in 1 .. N /\ j \in 0 .. N /\ (j + 1) - 1 = j
    BY <1>1, <2>2
  <2>4. at[j] = Behind(N, e, j) /\ at[j] \in 0 .. N - 1 /\ at[j + 1] = step[at[j]]
    BY <1>1, <1>6, <1>9, <2>1, <2>3
  <2>5. at[j + 1] = IF at[j] - STRIDE >= 0 THEN at[j] - STRIDE ELSE at[j] - STRIDE + N
    BY <1>3, <2>4, BackwardsIs
  <2>6. at[j] = IF e - d >= 0 THEN e - d ELSE e - d + N
    BY <2>4 DEF Behind
  <2>7. Behind(N, e, j + 1) = IF e - (d + STRIDE) >= 0 THEN e - (d + STRIDE) ELSE e - (d + STRIDE) + N
    BY <2>1 DEF Behind
  <2>8. d + STRIDE <= N
    BY <2>1
  <2> HIDE DEF d
  <2> QED
    BY <1>1, <2>1, <2>4, <2>5, <2>6, <2>7, <2>8
<1>10. k \in T
  <2> HIDE DEF T
  <2> QED
    BY <1>8, <1>9, SetInduction
<1> QED
  BY <1>1, <1>2, <1>7, <1>10

\* e is the b-th element of line a, and N ends r elements into line q.
InLine(N, e, a, b, q, r) ==
    /\ a \in Nat /\ b \in 0 .. STRIDE - 1 /\ e = STRIDE * a + b
    /\ q \in Nat /\ r \in 0 .. STRIDE - 1 /\ N = STRIDE * q + r
    /\ a <= q

LEMMA Lines ==
    ASSUME NEW N, FitsULong(N), NEW e \in 0 .. N - 1
    PROVE  InLine(N, e, e \div STRIDE, e % STRIDE, N \div STRIDE, N % STRIDE)
<1> DEFINE a == e \div STRIDE
           b == e % STRIDE
           q == N \div STRIDE
           r == N % STRIDE
<1>1. STRIDE \in Nat \ {0} /\ N \in Nat /\ e \in Nat /\ e < N /\ N \in Int /\ e \in Int
  BY Strides DEF FitsULong
<1>2. a \in Nat /\ b \in 0 .. STRIDE - 1 /\ q \in Nat /\ r \in 0 .. STRIDE - 1
  BY <1>1, DivNat, ModNat
<1>3. e = STRIDE * a + b
  BY <1>1, DivMod, Zenon
<1>4. N = STRIDE * q + r
  BY <1>1, DivMod, Zenon
<1>5. STRIDE * a <= N => a <= q
  BY <1>1, <1>2, DivGe
<1> HIDE DEF a, b, q, r
<1>6. STRIDE * a <= N
  <2>1. STRIDE * a \in Nat
    BY <1>1, <1>2
  <2> QED
    BY <1>1, <1>2, <1>3, <2>1
<1>7. InLine(N, e, a, b, q, r)
  BY <1>2, <1>3, <1>4, <1>5, <1>6 DEF InLine
<1> QED
  BY <1>7 DEF a, b, q, r

\* A pass gets to every line,
LEMMA ForwardsCovers ==
    ASSUME NEW N, FitsULong(N), NEW e \in 0 .. N - 1
    PROVE  PassCovers(Forwards, N, e)
<1> DEFINE a == e \div STRIDE
           b == e % STRIDE
           q == N \div STRIDE
           r == N % STRIDE
           at == Visited(Forwards, N, e)
<1>1. InLine(N, e, a, b, q, r)
  BY Lines
<1> HIDE DEF a, b, q, r
<1>2. /\ a \in Nat /\ b \in 0 .. STRIDE - 1 /\ e = STRIDE * a + b
      /\ q \in Nat /\ r \in 0 .. STRIDE - 1 /\ N = STRIDE * q + r /\ a <= q
      /\ STRIDE \in Nat \ {0}
  BY <1>1, Strides DEF InLine
<1>3. ASSUME NEW k \in 0 .. q PROVE at[k] = Ahead(N, e, k)
  <2>1. k \in Nat /\ STRIDE * k <= N
    <3>1. STRIDE * k <= STRIDE * q /\ STRIDE * k \in Nat /\ STRIDE * q \in Nat
      BY <1>2
    <3> QED
      BY <1>2, <3>1
  <2> QED
    BY <2>1, VisitedForwards
<1> HIDE DEF at
<1>4. ASSUME NEW line \in 0 .. q - 1, NEW k \in 0 .. q, NEW c \in 0 .. STRIDE - 1,
             Ahead(N, e, k) = STRIDE * line + c
      PROVE  at[k] \div STRIDE = line
  <2>1. line \in Int /\ STRIDE \in Nat \ {0}
    BY <1>2
  <2>2. (STRIDE * line + c) \div STRIDE = line
    BY <2>1, DivUnique
  <2> QED
    BY <1>3, <1>4, <2>2, Zenon
<1>5. ASSUME NEW line \in 0 .. q - 1
      PROVE  \E k \in 0 .. q : at[k] \div STRIDE = line
  <2>1. STRIDE * line \in Nat /\ STRIDE * line + STRIDE <= STRIDE * q /\ STRIDE * q \in Nat
    BY <1>2
  <2>2. CASE a <= line
    <3> DEFINE k == line - a
    <3>1. k \in 0 .. q /\ e + STRIDE * k = STRIDE * line + b
      BY <1>2, <2>2
    <3> HIDE DEF k
    <3>2. Ahead(N, e, k) = STRIDE * line + b
      BY <1>2, <2>1, <3>1 DEF Ahead
    <3> QED
      BY <1>2, <1>4, <3>1, <3>2
  <2>3. CASE ~(a <= line) /\ r <= b
    <3> DEFINE k == q - a + line
    <3>1. k \in 0 .. q /\ e + STRIDE * k = STRIDE * q + STRIDE * line + b
      BY <1>2, <2>3
    <3> HIDE DEF k
    <3>2. Ahead(N, e, k) = STRIDE * line + (b - r) /\ b - r \in 0 .. STRIDE - 1
      BY <1>2, <2>1, <2>3, <3>1 DEF Ahead
    <3> QED
      BY <1>4, <3>1, <3>2
  <2>4. CASE ~(a <= line) /\ ~(r <= b)
    <3> DEFINE k == q - a + line + 1
    <3>1. k \in 0 .. q /\ e + STRIDE * k = STRIDE * q + STRIDE * line + STRIDE + b
      BY <1>2, <2>4
    <3> HIDE DEF k
    <3>2. Ahead(N, e, k) = STRIDE * line + (STRIDE + b - r) /\ STRIDE + b - r \in 0 .. STRIDE - 1
      BY <1>2, <2>1, <2>4, <3>1 DEF Ahead
    <3> QED
      BY <1>4, <3>1, <3>2
  <2> QED
    BY <2>2, <2>3, <2>4
<1>6. PassCovers(Forwards, N, e) <=>
        \A line \in 0 .. q - 1 : \E k \in 0 .. q : at[k] \div STRIDE = line
  BY Zenon DEF PassCovers, FullLines, at, q
<1> QED
  BY <1>5, <1>6

\* in either direction.
LEMMA BackwardsCovers ==
    ASSUME NEW N, FitsULong(N), NEW e \in 0 .. N - 1
    PROVE  PassCovers(Backwards, N, e)
<1> DEFINE a == e \div STRIDE
           b == e % STRIDE
           q == N \div STRIDE
           r == N % STRIDE
           at == Visited(Backwards, N, e)
<1>1. InLine(N, e, a, b, q, r)
  BY Lines
<1> HIDE DEF a, b, q, r
<1>2. /\ a \in Nat /\ b \in 0 .. STRIDE - 1 /\ e = STRIDE * a + b
      /\ q \in Nat /\ r \in 0 .. STRIDE - 1 /\ N = STRIDE * q + r /\ a <= q
      /\ STRIDE \in Nat \ {0}
  BY <1>1, Strides DEF InLine
<1>3. ASSUME NEW k \in 0 .. q PROVE at[k] = Behind(N, e, k)
  <2>1. k \in Nat /\ STRIDE * k <= N
    <3>1. STRIDE * k <= STRIDE * q /\ STRIDE * k \in Nat /\ STRIDE * q \in Nat
      BY <1>2
    <3> QED
      BY <1>2, <3>1
  <2> QED
    BY <2>1, VisitedBackwards
<1> HIDE DEF at
<1>4. ASSUME NEW line \in 0 .. q - 1, NEW k \in 0 .. q, NEW c \in 0 .. STRIDE - 1,
             Behind(N, e, k) = STRIDE * line + c
      PROVE  at[k] \div STRIDE = line
  <2>1. line \in Int /\ STRIDE \in Nat \ {0}
    BY <1>2
  <2>2. (STRIDE * line + c) \div STRIDE = line
    BY <2>1, DivUnique
  <2> QED
    BY <1>3, <1>4, <2>2, Zenon
<1>5. ASSUME NEW line \in 0 .. q - 1
      PROVE  \E k \in 0 .. q : at[k] \div STRIDE = line
  <2>1. STRIDE * line \in Nat /\ STRIDE * line + STRIDE <= STRIDE * q /\ STRIDE * q \in Nat
    BY <1>2
  <2>2. CASE line <= a
    <3> DEFINE k == a - line
    <3>1. k \in 0 .. q /\ e - STRIDE * k = STRIDE * line + b
      BY <1>2, <2>2
    <3> HIDE DEF k
    <3>2. Behind(N, e, k) = STRIDE * line + b
      BY <1>2, <2>1, <3>1 DEF Behind
    <3> QED
      BY <1>2, <1>4, <3>1, <3>2
  <2>3. CASE ~(line <= a) /\ b + r < STRIDE
    <3> DEFINE k == a + q - line
    <3>1. k \in 0 .. q /\ e - STRIDE * k = STRIDE * line + b - STRIDE * q
      BY <1>2, <2>3
    <3> HIDE DEF k
    <3>2. Behind(N, e, k) = STRIDE * line + (b + r) /\ b + r \in 0 .. STRIDE - 1
      BY <1>2, <2>1, <2>3, <3>1 DEF Behind
    <3> QED
      BY <1>4, <3>1, <3>2
  <2>4. CASE ~(line <= a) /\ ~(b + r < STRIDE)
    <3> DEFINE k == a + q - line + 1
    <3>1. k \in 0 .. q /\ e - STRIDE * k = STRIDE * line + b - STRIDE * q - STRIDE
      BY <1>2, <2>4
    <3> HIDE DEF k
    <3>2. Behind(N, e, k) = STRIDE * line + (b + r - STRIDE) /\ b + r - STRIDE \in 0 .. STRIDE - 1
      BY <1>2, <2>1, <2>4, <3>1 DEF Behind
    <3> QED
      BY <1>4, <3>1, <3>2
  <2> QED
    BY <2>2, <2>3, <2>4
<1>6. PassCovers(Backwards, N, e) <=>
        \A line \in 0 .. q - 1 : \E k \in 0 .. q : at[k] \div STRIDE = line
  BY Zenon DEF PassCovers, FullLines, at, q
<1> QED
  BY <1>5, <1>6
-----------------------------------------------------------------------------
(* What a step keeps.                                                      *)

\* An iteration is done between init_group and cleanup_group.
LEMMA WorkingRuns ==
    ASSUME Inv, NEW t \in Thread, Working(t)
    PROVE  stage = "run" /\ ~AllGone /\ InUse
<1>1. task[t].phase = "working"
  BY DEF Working
<1>2. ~AllGone
  BY <1>1 DEF AllGone
<1>3. stage # "init_group" /\ stage # "done"
  BY <1>1, <1>2 DEF Inv, Stages
<1> QED
  BY <1>2, <1>3 DEF Inv, TypeOK, InUse

\* While the nodes are in use there are as many as their numbers say.
LEMMA NodesCounted ==
    ASSUME NEW m \in Nat
    PROVE  Cardinality(1 .. m) = m
<1>1. 1 \in Int /\ m \in Int
  OBVIOUS
<1>2. Cardinality(1 .. m) = IF 1 > m THEN 0 ELSE m - 1 + 1
  BY <1>1, FS_Interval
<1> QED
  BY <1>2

\* A list stays one when only values change after init_group, ...
LEMMA ListKept ==
    ASSUME Listed, workload' = workload, nodes' = nodes,
           store'.head = store.head, store'.next = store.next,
           stage' = "init_group" => stage = "init_group" /\ store'.value = store.value
    PROVE  Listed'
<1> SUFFICES ASSUME workload = "linked_list" PROVE Listed'
  BY DEF Listed
<1> DEFINE P(m, p) == /\ IsList(store, p, nodes, m)
                      /\ stage = "init_group" => nodes = 1 .. m
<1>1. PICK m \in 0 .. MaxNodes : \E p \in [0 .. m -> Pointer] : P(m, p)
  BY DEF Listed
<1>2. PICK p \in [0 .. m -> Pointer] : P(m, p)
  BY <1>1
<1>3. IsList(store', p, nodes', m)
  BY <1>2 DEF IsList
<1>4. stage' = "init_group" => nodes' = 1 .. m
  BY <1>2
<1> QED
  BY <1>3, <1>4 DEF Listed

\* ... and a tree when its order is left alone.
LEMMA TreeKept ==
    ASSUME TypeOK, TypeOK', Planted, workload' = workload, nodes' = nodes,
           store'.head = store.head, store'.left = store.left, store'.right = store.right,
           store'.value = store.value, InUse' => InUse
    PROVE  Planted'
<1> SUFFICES ASSUME workload = "bst" PROVE Planted'
  BY DEF Planted
<1>1. PICK m \in 0 .. MaxNodes :
        /\ IsTree(store, m)
        /\ \A x \in 1 .. m : InOrder(store, x)
        /\ IsLive(store, nodes, m)
        /\ InUse => nodes = 1 .. m
  BY DEF Planted
<1>2. store \in StoreType /\ store' \in StoreType
  BY DEF TypeOK
<1>3. IsTree(store', m)
  BY <1>1, SameTree
<1>4. \A x \in 1 .. m : InOrder(store', x)
  BY <1>1, <1>2, SameOrder
<1>5. IsLive(store', nodes', m)
  BY <1>1 DEF IsLive, Child
<1> QED
  BY <1>1, <1>3, <1>4, <1>5 DEF Planted

\* A search for v that is at c.
OnPath(tree, S, c, v) ==
    v # 0 /\ (\E n \in S : tree.value[n] = v)
      => \E n \in Subtree(tree, c) : tree.value[n] = v

LEMMA SearchOnPathIs ==
    SearchOnPath <=>
      \A t \in Thread : Working(t) /\ workload = "bst" =>
        OnPath(store, nodes, task[t].next_node, task[t].finding_value)
  BY DEF SearchOnPath, OnPath

\* So it stays on its path when no value changes.
LEMMA OnPathKept ==
    ASSUME NEW tree \in StoreType, NEW new \in StoreType, Younger(tree),
           new.left = tree.left, new.right = tree.right, new.value = tree.value,
           NEW S, NEW c \in Pointer, NEW v, OnPath(tree, S, c, v)
    PROVE  OnPath(new, S, c, v)
<1>1. Subtree(new, c) = Subtree(tree, c)
  BY SameSubtree
<1> QED
  BY <1>1 DEF OnPath

\* What a search finds out about the tree while it runs.
LEMMA TreeInUse ==
    ASSUME Inv, InUse, workload = "bst"
    PROVE  /\ store \in StoreType /\ Younger(store) /\ TreeNodes(store) = nodes
           /\ \E m \in 0 .. MaxNodes :
                nodes = 1 .. m /\ IsTree(store, m) /\ \A x \in 1 .. m : InOrder(store, x)
<1>1. PICK m \in 0 .. MaxNodes :
        /\ IsTree(store, m)
        /\ \A x \in 1 .. m : InOrder(store, x)
        /\ nodes = 1 .. m
  BY DEF Inv, Planted
<1>2. store \in StoreType
  BY DEF Inv, TypeOK
<1>3. Younger(store) /\ TreeNodes(store) = nodes
  BY <1>1, <1>2, WholeTree
<1> QED
  BY <1>1, <1>2, <1>3

-----------------------------------------------------------------------------
(* The invariant holds at first, ...                                       *)

LEMMA Initially == Init => Inv
<1> SUFFICES ASSUME Init PROVE Inv
  OBVIOUS
<1>1. /\ workload \in Nodes \cup Arrays \cup {"burn_loop"}
      /\ stage = "init_group" /\ store = EmptyStore
      /\ nodes = {} /\ blocks = {} /\ first = NoTask
      /\ task = [t \in Thread |-> NoTask]
  BY DEF Init
<1>2. store \in StoreType /\ store.head = NULL /\ \A x \in Node : store.left[x] = NULL /\ store.right[x] = NULL
  <2> DEFINE zero == [n \in Node |-> 0]
  <2>1. zero \in [Node -> Pointer] /\ zero \in [Node -> Value] /\ zero \in [Node -> {0, 1}]
    BY WorkloadsAssumption DEF Pointer, NULL, Value
  <2>2. NULL \in Pointer
    BY DEF Pointer
  <2>3. store = [head |-> NULL, next |-> zero, left |-> zero, right |-> zero,
                 value |-> zero, false_value |-> zero]
    BY <1>1 DEF EmptyStore
  <2>4. \A x \in Node : zero[x] = NULL
    BY DEF NULL
  <2> HIDE DEF zero
  <2> QED
    BY <2>1, <2>2, <2>3, <2>4 DEF StoreType
<1>3. NoTask \in TaskRecord /\ NoTask.phase = "none" /\ NoTask.next_element = 0
  BY WorkloadsAssumption DEF NoTask, TaskRecord, Pointer, Value
<1>4. \A t \in Thread : task[t] = NoTask
  BY <1>1
<1>5. TypeOK
  <2>1. /\ workload \in Nodes => num_elements \in 1 .. MaxNodes
        /\ workload \in Arrays => num_elements \in ArraySizes
    BY DEF Init, Nodes, Arrays
  <2> QED
    BY <1>1, <1>2, <1>3, <2>1 DEF TypeOK
<1>6. Stages
  BY <1>1, <1>3, <1>4 DEF Stages
<1>7. Allocated
  BY <1>1 DEF Allocated, AllFreed
<1>8. Cursors
  BY <1>1, <1>3, <1>4 DEF Cursors, Working
<1>9. 0 \in 0 .. MaxNodes /\ 1 .. 0 = {}
  BY NodeNat
<1>10. Listed
  <2> DEFINE p == [i \in 0 .. 0 |-> NULL]
  <2>1. p \in [0 .. 0 -> Pointer] /\ p[0] = NULL
    BY DEF Pointer
  <2> HIDE DEF p
  <2>2. IsList(store, p, nodes, 0)
    BY <1>1, <1>2, <2>1 DEF IsList
  <2> QED
    BY <1>1, <1>9, <2>1, <2>2 DEF Listed
<1>11. Planted
  <2>1. \A x, y \in Node : ~Child(store, x, y)
    BY <1>2, NodeNat DEF Child
  <2>2. IsTree(store, 0)
    BY <1>2, <2>1 DEF IsTree
  <2>3. IsLive(store, nodes, 0)
    BY <1>1 DEF IsLive
  <2> QED
    BY <1>1, <1>9, <2>2, <2>3 DEF Planted
<1>12. SearchOnPath
  BY <1>3, <1>4 DEF SearchOnPath, Working
<1> QED
  BY <1>5, <1>6, <1>7, <1>8, <1>10, <1>11, <1>12 DEF Inv
-----------------------------------------------------------------------------
(* ... through init_group, ...                                             *)

LEMMA InsertNodeKeeps == Inv /\ InsertNode => Inv'
<1> SUFFICES ASSUME Inv, InsertNode PROVE Inv'
  OBVIOUS
<1>1. PICK v \in Value :
        LET n == Cardinality(nodes) + 1
            new == [store EXCEPT !.value[n] = v]
        IN  /\ nodes' = nodes \cup {n}
            /\ store' = IF workload = "bst" THEN insert_bst_node(new, n)
                                            ELSE insert_node(new, n)
  BY DEF InsertNode
<1> DEFINE n == Cardinality(nodes) + 1
           new == [store EXCEPT !.value[n] = v]
<1>2. /\ stage = "init_group" /\ workload \in Nodes
      /\ Cardinality(nodes) < num_elements
      /\ nodes' = nodes \cup {n}
      /\ store' = IF workload = "bst" THEN insert_bst_node(new, n) ELSE insert_node(new, n)
      /\ blocks' = {"group_data"}
      /\ workload' = workload /\ stage' = stage /\ num_elements' = num_elements
      /\ first' = first /\ task' = task
  BY <1>1 DEF InsertNode
<1>3. TypeOK /\ Stages /\ Cursors /\ Listed /\ Planted
  BY DEF Inv
<1>4. num_elements \in 1 .. MaxNodes /\ store \in StoreType /\ nodes \subseteq Node
  BY <1>2, <1>3 DEF TypeOK
<1>5. InUse
  BY <1>2 DEF InUse
<1> HIDE DEF n
<1>6. ASSUME NEW m \in 0 .. MaxNodes, nodes = 1 .. m
      PROVE  /\ n = m + 1 /\ n \in Node \ nodes /\ nodes' = 1 .. n /\ n \in 0 .. MaxNodes
             /\ m \in Nat
  <2>1. m \in Nat /\ n = m + 1
    BY <1>6, NodesCounted, NodeNat DEF n
  <2>2. m < num_elements
    BY <1>2, <1>6, <2>1, NodesCounted
  <2>3. n \in Node /\ n \notin 1 .. m /\ (1 .. m) \cup {n} = 1 .. n
    BY <1>4, <2>1, <2>2, NodeNat DEF Node
  <2> QED
    BY <1>2, <1>6, <2>1, <2>3, NodeNat DEF Node
<1>7. ASSUME NEW m \in 0 .. MaxNodes, nodes = 1 .. m
      PROVE  /\ new \in StoreType /\ new.value[n] = v
             /\ new.head = store.head /\ new.next = store.next
             /\ new.left = store.left /\ new.right = store.right
             /\ \A x \in nodes : new.value[x] = store.value[x]
  <2>1. n \in Node /\ n \notin nodes
    BY <1>6, <1>7
  <2>2. new = [store EXCEPT !.value = [store.value EXCEPT ![n] = v]]
    BY <1>4 DEF StoreType
  <2> DEFINE value == [store.value EXCEPT ![n] = v]
  <2>3. value \in [Node -> Value] /\ value[n] = v /\ \A x \in nodes : value[x] = store.value[x]
    BY <1>4, <2>1 DEF StoreType
  <2> HIDE DEF value
  <2>4. new = [store EXCEPT !.value = value]
    BY <2>2 DEF value
  <2> HIDE DEF new
  <2>5. /\ new \in StoreType /\ new.value = value
        /\ new.head = store.head /\ new.next = store.next
        /\ new.left = store.left /\ new.right = store.right
    BY <1>4, <2>3, <2>4 DEF StoreType
  <2> QED
    BY <2>3, <2>5
<1> HIDE DEF new
<1>8. ASSUME workload = "linked_list" PROVE store' \in StoreType /\ nodes' \subseteq Node /\ Listed'
  <2> DEFINE P(m, p) == IsList(store, p, nodes, m) /\ nodes = 1 .. m
  <2>1. PICK m \in 0 .. MaxNodes : \E p \in [0 .. m -> Pointer] : P(m, p)
    BY <1>2, <1>3, <1>8 DEF Listed
  <2>2. PICK p \in [0 .. m -> Pointer] : P(m, p)
    BY <2>1
  <2>3. store' = insert_node(new, n)
    BY <1>2, <1>8
  <2>4. /\ n = m + 1 /\ n \in Node \ nodes /\ nodes' = 1 .. n /\ n \in 0 .. MaxNodes
        /\ nodes' = nodes \cup {n}
    BY <1>2, <1>6, <2>2
  <2>5. /\ new \in StoreType /\ new.head = store.head /\ new.next = store.next
        /\ \A x \in nodes : new.value[x] = store.value[x]
    BY <1>7, <2>2
  <2>6. IsList(new, p, nodes, m)
    BY <2>2, <2>5 DEF IsList
  <2> DEFINE k == InsertPosition(new, n)
             q == InsertIn(p, m, k, n)
  <2>8. q \in [0 .. m + 1 -> Pointer] /\ IsList(store', q, nodes \cup {n}, m + 1)
    <3>1. nodes \in SUBSET Node
      BY <1>4
    <3> QED
      BY <2>3, <2>4, <2>5, <2>6, <3>1, ListGrows
  <2>9. store' \in StoreType
    <3>1. nodes \in SUBSET Node /\ n \in Node
      BY <1>4, <2>4
    <3>2. IsInserted(store', new, p, k, n)
      BY <2>3, <2>5, <2>6, <3>1, insert_nodeFacts
    <3> QED
      BY <3>2 DEF IsInserted
  <2> HIDE DEF q
  <2>10. q \in [0 .. n -> Pointer] /\ IsList(store', q, nodes', n)
    BY <2>4, <2>8
  <2>11. Listed'
    BY <2>4, <2>10 DEF Listed
  <2>12. nodes' \subseteq Node
    BY <1>4, <2>4
  <2> QED
    BY <2>9, <2>11, <2>12
<1>9. ASSUME workload = "bst" PROVE store' \in StoreType /\ nodes' \subseteq Node /\ Planted'
  <2>1. PICK m \in 0 .. MaxNodes :
          /\ IsTree(store, m) /\ nodes = 1 .. m
          /\ \A x \in 1 .. m : InOrder(store, x)
    BY <1>3, <1>5, <1>9 DEF Planted
  <2>2. store' = insert_bst_node(new, n)
    BY <1>2, <1>9
  <2>3. n = m + 1 /\ n \in Node /\ nodes' = 1 .. n /\ n \in 0 .. MaxNodes
    BY <1>6, <2>1
  <2>4. /\ new \in StoreType /\ new.head = store.head
        /\ new.left = store.left /\ new.right = store.right
        /\ \A x \in 1 .. m : new.value[x] = store.value[x]
    BY <1>7, <2>1
  <2>5. IsTree(new, m)
    BY <2>1, <2>4, SameTree
  <2>6. \A x \in 1 .. m : InOrder(new, x)
    BY <1>4, <2>1, <2>4, SameOrder
  <2>7. store' \in StoreType /\ IsTree(store', n) /\ \A x \in 1 .. n : InOrder(store', x)
    <3>1. CASE m = 0
      <4>1. n = 1 /\ IsTree(new, 0) /\ store' = insert_bst_node(new, 1)
        BY <2>2, <2>3, <2>5, <3>1
      <4>2. store' \in StoreType /\ IsTree(store', 1) /\ InOrder(store', 1)
        BY <2>4, <4>1, TreeStarts
      <4>3. \A x \in 1 .. 1 : x = 1
        OBVIOUS
      <4> QED
        BY <4>1, <4>2, <4>3
    <3>2. CASE m # 0
      <4>1. m \in 1 .. MaxNodes /\ m + 1 \in Node /\ store' = insert_bst_node(new, m + 1)
        BY <2>2, <2>3, <3>2
      <4>2. store' \in StoreType /\ IsTree(store', m + 1) /\ \A x \in 1 .. m + 1 : InOrder(store', x)
        BY <2>4, <2>5, <2>6, <4>1, TreeGrows
      <4> QED
        BY <2>3, <4>2
    <3> QED
      BY <3>1, <3>2
  <2>8. IsLive(store', nodes', n)
    <3>1. \A x, y \in Node : Child(store', x, y) => x < y /\ y <= n
      BY <2>7 DEF IsTree
    <3>2. ASSUME NEW x \in Node, NEW y \in Node, Child(store', x, y), y \in 1 .. n PROVE x \in 1 .. n
      <4>1. x < y /\ x \in Nat /\ x # 0
        BY <3>1, <3>2, NodeNat DEF NULL
      <4> QED
        BY <2>3, <3>2, <4>1
    <3> QED
      BY <2>3, <3>2 DEF IsLive
  <2>9. Planted'
    BY <2>3, <2>7, <2>8 DEF Planted
  <2>10. nodes' \subseteq Node
    BY <2>3, NodeNat DEF Node
  <2> QED
    BY <2>7, <2>9, <2>10
<1>10. workload = "linked_list" \/ workload = "bst"
  BY <1>2 DEF Nodes
<1>11. store' \in StoreType /\ nodes' \subseteq Node /\ Listed' /\ Planted'
  <2>1. workload = "bst" => Listed'
    BY <1>2 DEF Listed
  <2>2. workload = "linked_list" => Planted'
    BY <1>2 DEF Planted
  <2> QED
    BY <1>8, <1>9, <1>10, <2>1, <2>2
<1>12. TypeOK'
  BY <1>2, <1>3, <1>11 DEF TypeOK
<1>13. Stages'
  BY <1>2, <1>3 DEF Stages, AllGone
<1>14. Allocated'
  BY <1>2 DEF Allocated, AllFreed
<1>15. \A t \in Thread : ~Working(t)'
  BY <1>2, <1>3 DEF Stages, Working
<1>16. Cursors'
  BY <1>2, <1>3, <1>15 DEF Cursors
<1>17. SearchOnPath'
  BY <1>15 DEF SearchOnPath
<1> QED
  BY <1>11, <1>12, <1>13, <1>14, <1>16, <1>17 DEF Inv

LEMMA NodesBuiltKeeps == Inv /\ NodesBuilt => Inv'
<1> SUFFICES ASSUME Inv, NodesBuilt PROVE Inv'
  OBVIOUS
<1>1. PICK v \in Value :
        first' = [first EXCEPT !.head = store.head, !.next_node = store.head,
                               !.finding_value = IF workload = "bst" THEN v ELSE 0]
  BY DEF NodesBuilt
<1>2. /\ stage = "init_group" /\ workload \in Nodes /\ Cardinality(nodes) = num_elements
      /\ stage' = "run"
      /\ workload' = workload /\ num_elements' = num_elements /\ store' = store
      /\ nodes' = nodes /\ blocks' = blocks /\ task' = task
  BY DEF NodesBuilt
<1>3. TypeOK /\ Stages /\ Allocated /\ Cursors /\ Listed /\ Planted
  BY DEF Inv
<1>4. num_elements \in 1 .. MaxNodes /\ store.head \in Pointer /\ first = NoTask
  BY <1>2, <1>3 DEF TypeOK, StoreType, Stages
<1>5. InUse
  BY <1>2 DEF InUse
<1>6. ASSUME NEW m \in 0 .. MaxNodes, nodes = 1 .. m PROVE m # 0
  BY <1>2, <1>4, <1>6, NodesCounted, NodeNat
<1>7. store.head \in nodes
  <2>1. CASE workload = "linked_list"
    <3>1. PICK m \in 0 .. MaxNodes : \E p : IsList(store, p, nodes, m) /\ nodes = 1 .. m
      BY <1>2, <1>3, <2>1 DEF Listed
    <3>2. PICK p : IsList(store, p, nodes, m)
      BY <3>1
    <3>3. 0 \in 0 .. m - 1
      BY <1>6, <3>1, NodeNat
    <3> QED
      BY <3>2, <3>3 DEF IsList
  <2>2. CASE workload = "bst"
    <3>1. PICK m \in 0 .. MaxNodes : IsTree(store, m) /\ nodes = 1 .. m
      BY <1>3, <1>5, <2>2 DEF Planted
    <3>2. m # 0 /\ 1 \in 1 .. m
      BY <1>6, <3>1, NodeNat
    <3> QED
      BY <3>1, <3>2 DEF IsTree
  <2> QED
    BY <1>2, <2>1, <2>2 DEF Nodes
<1>8. /\ first' \in TaskRecord /\ first'.head = store.head /\ first'.next_node = store.head
      /\ first'.next_element = 0
  <2> DEFINE found == IF workload = "bst" THEN v ELSE 0
  <2>1. found \in Value
    BY WorkloadsAssumption DEF Value
  <2> HIDE DEF found
  <2>2. first' = [first EXCEPT !.head = store.head, !.next_node = store.head,
                               !.finding_value = found]
    BY <1>1 DEF found
  <2>3. first \in TaskRecord /\ first.next_element = 0
    BY <1>3 DEF TypeOK, Cursors
  <2> QED
    BY <1>4, <2>1, <2>2, <2>3 DEF TaskRecord
<1>9. TypeOK'
  BY <1>2, <1>3, <1>8 DEF TypeOK
<1>10. Stages'
  BY <1>2 DEF Stages
<1>11. Allocated'
  <2>1. nodes # {}
    BY <1>7
  <2> QED
    BY <1>2, <1>3, <2>1 DEF Allocated, AllFreed
<1>12. \A t \in Thread : ~Working(t)'
  BY <1>2, <1>3 DEF Stages, Working
<1>13. Cursors'
  BY <1>2, <1>7, <1>8, <1>12 DEF Cursors
<1>14. Listed'
  BY <1>2, <1>3, ListKept
<1>15. Planted'
  BY <1>2, <1>3, <1>5, <1>9, TreeKept
<1>16. SearchOnPath'
  BY <1>12 DEF SearchOnPath
<1> QED
  BY <1>9, <1>10, <1>11, <1>13, <1>14, <1>15, <1>16 DEF Inv

\* The other kinds of workload have no nodes.
LEMMA array_walk_init_groupKeeps == Inv /\ array_walk_init_group => Inv'
<1> SUFFICES ASSUME Inv, array_walk_init_group PROVE Inv'
  OBVIOUS
<1>1. /\ stage = "init_group" /\ workload \in Arrays
      /\ blocks' = {"group_data", "array_unaligned", "array"} /\ stage' = "run"
      /\ workload' = workload /\ num_elements' = num_elements /\ store' = store
      /\ nodes' = nodes /\ first' = first /\ task' = task
  BY DEF array_walk_init_group
<1>2. TypeOK /\ Stages /\ Allocated /\ Cursors
  BY DEF Inv
<1>3. workload' \notin Nodes /\ workload' # "bst" /\ workload' # "linked_list"
  BY <1>1 DEF Arrays, Nodes
<1>4. \A t \in Thread : ~Working(t)'
  BY <1>1, <1>2 DEF Stages, Working
<1>5. TypeOK'
  BY <1>1, <1>2 DEF TypeOK
<1>6. Stages'
  BY <1>1 DEF Stages
<1>7. Allocated'
  BY <1>1, <1>2, <1>3 DEF Allocated, AllFreed
<1>8. Cursors'
  BY <1>1, <1>2, <1>3, <1>4 DEF Cursors
<1>9. Listed' /\ Planted' /\ SearchOnPath'
  BY <1>3 DEF Listed, Planted, SearchOnPath
<1> QED
  BY <1>5, <1>6, <1>7, <1>8, <1>9 DEF Inv

LEMMA NoGroupDataKeeps == Inv /\ NoGroupData => Inv'
<1> SUFFICES ASSUME Inv, NoGroupData PROVE Inv'
  OBVIOUS
<1>1. /\ stage = "init_group" /\ workload = "burn_loop" /\ stage' = "run"
      /\ workload' = workload /\ num_elements' = num_elements /\ store' = store
      /\ nodes' = nodes /\ blocks' = blocks /\ first' = first /\ task' = task
  BY DEF NoGroupData
<1>2. TypeOK /\ Stages /\ Allocated /\ Cursors
  BY DEF Inv
<1>3. workload' \notin Nodes /\ workload' \notin Arrays
      /\ workload' # "bst" /\ workload' # "linked_list"
  BY <1>1 DEF Arrays, Nodes
<1>4. \A t \in Thread : ~Working(t)'
  BY <1>1, <1>2 DEF Stages, Working
<1>5. TypeOK'
  BY <1>1, <1>2 DEF TypeOK
<1>6. Stages'
  BY <1>1 DEF Stages
<1>7. Allocated'
  BY <1>1, <1>2, <1>3 DEF Allocated, AllFreed
<1>8. Cursors'
  BY <1>1, <1>2, <1>3, <1>4 DEF Cursors
<1>9. Listed' /\ Planted' /\ SearchOnPath'
  BY <1>3 DEF Listed, Planted, SearchOnPath
<1> QED
  BY <1>5, <1>6, <1>7, <1>8, <1>9 DEF Inv

-----------------------------------------------------------------------------
(* ... through the iterations of the threads, ...                          *)

\* A step of a thread that leaves the tree as it is, and its own copy as
\* Cursors and SearchOnPath want it.
LEMMA ThreadKeeps ==
    ASSUME Inv, InUse, stage = "run", ~AllGone,
           NEW t \in Thread,
           UNCHANGED <<workload, stage, num_elements, nodes, blocks, first>>,
           store' \in StoreType, store'.head = store.head, store'.next = store.next,
           store'.left = store.left, store'.right = store.right,
           workload = "bst" => store'.value = store.value,
           task' \in [Thread -> TaskRecord],
           \A u \in Thread : u # t => task'[u] = task[u],
           task'[t].phase # "none",
           task'[t].phase = "working" =>
             /\ workload \in Nodes =>
                  task'[t].head = store.head /\ task'[t].next_node \in nodes
             /\ workload \in Arrays => task'[t].next_element \in 0 .. num_elements - 1
             /\ workload = "bst" =>
                  OnPath(store, nodes, task'[t].next_node, task'[t].finding_value)
    PROVE  Inv'
<1>1. /\ workload' = workload /\ stage' = "run" /\ num_elements' = num_elements
      /\ nodes' = nodes /\ blocks' = blocks /\ first' = first
  OBVIOUS
<1>2. TypeOK /\ Allocated /\ Cursors /\ Listed /\ Planted /\ SearchOnPath
  BY DEF Inv
<1>3. TypeOK'
  BY <1>1, <1>2 DEF TypeOK
<1>4. Stages'
  BY <1>1 DEF Stages
<1>5. Allocated'
  BY <1>1, <1>2 DEF Allocated, AllFreed
<1>6. Cursors'
  <2>1. /\ first'.next_element = 0
        /\ workload \in Nodes => first'.head = store.head /\ first'.next_node = store.head
                                 /\ store.head \in nodes
    BY <1>1, <1>2 DEF Cursors
  <2>2. ASSUME NEW u \in Thread, task'[u].phase = "working"
        PROVE  /\ workload \in Nodes =>
                    task'[u].head = store.head /\ task'[u].next_node \in nodes
               /\ workload \in Arrays => task'[u].next_element \in 0 .. num_elements - 1
    <3>1. CASE u = t
      BY <2>2, <3>1
    <3>2. CASE u # t
      <4>1. task'[u] = task[u]
        BY <3>2
      <4> QED
        BY <1>2, <2>2, <4>1 DEF Cursors, Working
    <3> QED
      BY <3>1, <3>2
  <2> QED
    BY <1>1, <2>1, <2>2 DEF Cursors, Working
<1>7. Listed'
  BY <1>1, <1>2, ListKept
<1>8. Planted'
  <2>1. workload # "bst" => Planted'
    BY <1>1 DEF Planted
  <2>2. workload = "bst" => Planted'
    BY <1>1, <1>2, <1>3, TreeKept
  <2> QED
    BY <2>1, <2>2
<1>9. SearchOnPath'
  <2> SUFFICES ASSUME workload = "bst", NEW u \in Thread, task'[u].phase = "working"
               PROVE  OnPath(store', nodes', task'[u].next_node, task'[u].finding_value)
    BY <1>1 DEF SearchOnPath, OnPath, Working
  <2>1. OnPath(store, nodes, task'[u].next_node, task'[u].finding_value)
    <3>1. CASE u = t
      BY <3>1
    <3>2. CASE u # t
      <4>1. task'[u] = task[u]
        BY <3>2
      <4> QED
        BY <1>2, <4>1, SearchOnPathIs DEF Working
    <3> QED
      BY <3>1, <3>2
  <2>2. store \in StoreType /\ Younger(store)
    BY TreeInUse
  <2>3. task'[u].next_node \in Pointer
    BY DEF TaskRecord
  <2> QED
    BY <1>1, <2>1, <2>2, <2>3, OnPathKept
<1> QED
  BY <1>3, <1>4, <1>5, <1>6, <1>7, <1>8, <1>9 DEF Inv

LEMMA init_taskKeeps ==
    ASSUME NEW t \in Thread
    PROVE  Inv /\ init_task(t) => Inv'
<1> SUFFICES ASSUME Inv, init_task(t) PROVE Inv'
  OBVIOUS
<1>1. /\ stage = "run" /\ task[t].phase = "none"
      /\ task' = [task EXCEPT ![t] = [first EXCEPT !.phase = "working"]]
      /\ UNCHANGED <<workload, stage, num_elements, store, nodes, blocks, first>>
  BY DEF init_task
<1>2. TypeOK /\ Cursors
  BY DEF Inv
<1>3. first \in TaskRecord /\ task \in [Thread -> TaskRecord] /\ store \in StoreType
  BY <1>2 DEF TypeOK
<1>4. ~AllGone /\ InUse
  BY <1>1 DEF AllGone, InUse
<1> DEFINE copy == [first EXCEPT !.phase = "working"]
<1>5. /\ copy \in TaskRecord /\ copy.phase = "working" /\ copy.head = first.head
      /\ copy.next_node = first.next_node /\ copy.next_element = first.next_element
      /\ copy.finding_value = first.finding_value
  BY <1>3 DEF TaskRecord
<1> HIDE DEF copy
<1>6. task' \in [Thread -> TaskRecord] /\ task'[t] = copy /\ \A u \in Thread : u # t => task'[u] = task[u]
  BY <1>1, <1>3, <1>5 DEF copy
<1>7. /\ workload \in Nodes => copy.head = store.head /\ copy.next_node \in nodes
                               /\ copy.next_node = store.head
      /\ workload \in Arrays => copy.next_element \in 0 .. num_elements - 1
  <2>1. workload \in Arrays => num_elements - 1 \in Nat
    BY <1>2, Strides DEF TypeOK, FitsULong
  <2> QED
    BY <1>1, <1>2, <1>4, <1>5, <2>1 DEF Cursors
<1>8. workload = "bst" => OnPath(store, nodes, copy.next_node, copy.finding_value)
  <2> SUFFICES ASSUME workload = "bst" PROVE OnPath(store, nodes, copy.next_node, copy.finding_value)
    OBVIOUS
  <2>1. Subtree(store, copy.next_node) = nodes
    BY <1>4, <1>7, TreeInUse DEF TreeNodes, Nodes
  <2> QED
    BY <2>1 DEF OnPath
<1> QED
  BY <1>1, <1>3, <1>4, <1>5, <1>6, <1>7, <1>8, ThreadKeeps

LEMMA cleanup_taskKeeps ==
    ASSUME NEW t \in Thread
    PROVE  Inv /\ cleanup_task(t) => Inv'
<1> SUFFICES ASSUME Inv, cleanup_task(t) PROVE Inv'
  OBVIOUS
<1>1. /\ Working(t)
      /\ task' = [task EXCEPT ![t] = [NoTask EXCEPT !.phase = "gone"]]
      /\ UNCHANGED <<workload, stage, num_elements, store, nodes, blocks, first>>
  BY DEF cleanup_task
<1>2. task \in [Thread -> TaskRecord] /\ store \in StoreType
  BY DEF Inv, TypeOK
<1>3. stage = "run" /\ ~AllGone /\ InUse
  BY <1>1, WorkingRuns
<1> DEFINE gone == [NoTask EXCEPT !.phase = "gone"]
<1>4. gone \in TaskRecord /\ gone.phase = "gone"
  BY WorkloadsAssumption DEF NoTask, TaskRecord, Pointer, Value
<1> HIDE DEF gone
<1>5. task' \in [Thread -> TaskRecord] /\ task'[t] = gone /\ \A u \in Thread : u # t => task'[u] = task[u]
  BY <1>1, <1>2, <1>4 DEF gone
<1> QED
  BY <1>1, <1>2, <1>3, <1>4, <1>5, ThreadKeeps

LEMMA burn_loop_do_workKeeps ==
    ASSUME NEW t \in Thread
    PROVE  Inv /\ (burn_loop_do_work(t) \/ Terminated) => Inv'
BY DEF burn_loop_do_work, Terminated, vars, Inv, TypeOK, Stages, Allocated, Cursors, Listed,
       Planted, SearchOnPath, InUse, AllGone, AllFreed, Working

LEMMA linked_list_do_workKeeps ==
    ASSUME NEW t \in Thread
    PROVE  Inv /\ linked_list_do_work(t) => Inv'
<1> SUFFICES ASSUME Inv, linked_list_do_work(t) PROVE Inv'
  OBVIOUS
<1> DEFINE n == ListStep(store, task[t].next_node)
<1>1. /\ Working(t) /\ workload = "linked_list"
      /\ task' = [task EXCEPT ![t].next_node = n]
      /\ store' = [store EXCEPT !.value[n] = (@ + 1) % (MaxValue + 1)]
      /\ UNCHANGED <<workload, stage, num_elements, nodes, blocks, first>>
  BY DEF linked_list_do_work
<1>2. TypeOK /\ Cursors /\ Listed
  BY DEF Inv
<1>3. task \in [Thread -> TaskRecord] /\ store \in StoreType /\ nodes \subseteq Node
  BY <1>2 DEF TypeOK
<1>4. stage = "run" /\ ~AllGone /\ InUse
  BY <1>1, WorkingRuns
<1>5. /\ workload \in Nodes /\ workload \notin Arrays /\ workload # "bst"
      /\ task[t].head = store.head /\ task[t].next_node \in nodes /\ store.head \in nodes
  BY <1>1, <1>2, <1>4 DEF Cursors, Nodes, Arrays
<1>6. n \in nodes
  <2> DEFINE c == task[t].next_node
  <2>1. PICK m \in 0 .. MaxNodes : \E p : IsList(store, p, nodes, m)
    BY <1>1, <1>2 DEF Listed
  <2>2. PICK p : IsList(store, p, nodes, m)
    BY <2>1
  <2>3. PICK k \in 0 .. m - 1 : p[k] = c
    BY <1>5, <2>2 DEF IsList
  <2>4. store.next[c] = p[k + 1]
    BY <2>2, <2>3 DEF IsList
  <2>5. k + 1 \in 0 .. m - 1 \/ k + 1 = m
    BY NodeNat
  <2>6. store.next[c] = NULL \/ store.next[c] \in nodes
    BY <2>2, <2>4, <2>5 DEF IsList
  <2> QED
    BY <1>5, <2>6 DEF ListStep
<1> HIDE DEF n
<1>7. /\ store' \in StoreType /\ store'.head = store.head /\ store'.next = store.next
      /\ store'.left = store.left /\ store'.right = store.right
  <2> DEFINE new == (store.value[n] + 1) % (MaxValue + 1)
             value == [store.value EXCEPT ![n] = new]
  <2>1. store.value[n] + 1 \in Nat /\ MaxValue + 1 \in Nat \ {0}
    BY <1>3, <1>6, WorkloadsAssumption DEF StoreType, Value
  <2>2. new \in Value
    <3>1. new \in 0 .. (MaxValue + 1) - 1
      BY <2>1, ModNat, Zenon
    <3>2. (MaxValue + 1) - 1 = MaxValue
      BY WorkloadsAssumption
    <3> QED
      BY <3>1, <3>2 DEF Value
  <2> HIDE DEF new
  <2>3. value \in [Node -> Value]
    BY <1>3, <1>6, <2>2 DEF StoreType
  <2>4. store' = [store EXCEPT !.value = value]
    BY <1>1, <1>3 DEF StoreType, new
  <2> HIDE DEF value
  <2> QED
    BY <1>3, <2>3, <2>4 DEF StoreType
<1> DEFINE copy == [task[t] EXCEPT !.next_node = n]
<1>8. /\ copy \in TaskRecord /\ copy.phase = "working" /\ copy.head = task[t].head
      /\ copy.next_node = n
  BY <1>1, <1>3, <1>6 DEF TaskRecord, Working, Pointer
<1>9. task' = [task EXCEPT ![t] = copy]
  BY <1>1, Zenon
<1> HIDE DEF copy
<1>10. task' \in [Thread -> TaskRecord] /\ task'[t] = copy /\ \A u \in Thread : u # t => task'[u] = task[u]
  BY <1>3, <1>8, <1>9
<1> QED
  BY <1>1, <1>4, <1>5, <1>6, <1>7, <1>8, <1>10, ThreadKeeps

LEMMA StartSearchKeeps ==
    ASSUME NEW t \in Thread
    PROVE  Inv /\ StartSearch(t) => Inv'
<1> SUFFICES ASSUME Inv, StartSearch(t) PROVE Inv'
  OBVIOUS
<1>1. /\ Working(t) /\ workload = "bst"
      /\ UNCHANGED <<workload, stage, num_elements, store, nodes, blocks, first>>
  BY DEF StartSearch
<1>2. PICK v \in Value :
        task' = [task EXCEPT ![t].finding_value = v, ![t].next_node = task[t].head]
  BY DEF StartSearch
<1>3. TypeOK /\ Cursors
  BY DEF Inv
<1>4. task \in [Thread -> TaskRecord] /\ store \in StoreType
  BY <1>3 DEF TypeOK
<1>5. stage = "run" /\ ~AllGone /\ InUse
  BY <1>1, WorkingRuns
<1>6. /\ workload \in Nodes /\ workload \notin Arrays
      /\ task[t].head = store.head /\ store.head \in nodes
  BY <1>1, <1>3, <1>5 DEF Cursors, Nodes, Arrays
<1> DEFINE copy == [task[t] EXCEPT !.finding_value = v, !.next_node = task[t].head]
<1>7. /\ copy \in TaskRecord /\ copy.phase = "working" /\ copy.head = store.head
      /\ copy.next_node = store.head /\ copy.finding_value = v
  BY <1>1, <1>4, <1>6 DEF TaskRecord, Working
<1>8. task' = [task EXCEPT ![t] = copy]
  BY <1>2, <1>4
<1> HIDE DEF copy
<1>9. task' \in [Thread -> TaskRecord] /\ task'[t] = copy /\ \A u \in Thread : u # t => task'[u] = task[u]
  BY <1>4, <1>7, <1>8
<1>10. OnPath(store, nodes, copy.next_node, copy.finding_value)
  <2>1. Subtree(store, copy.next_node) = nodes
    BY <1>1, <1>5, <1>7, TreeInUse DEF TreeNodes
  <2> QED
    BY <2>1 DEF OnPath
<1> QED
  BY <1>1, <1>4, <1>5, <1>6, <1>7, <1>9, <1>10, ThreadKeeps

LEMMA SearchKeeps ==
    ASSUME NEW t \in Thread
    PROVE  Inv /\ Search(t) => Inv'
<1> SUFFICES ASSUME Inv, Search(t) PROVE Inv'
  OBVIOUS
<1> DEFINE c == task[t].next_node
           v == task[t].finding_value
           n == SearchChild(store, c, v)
<1>1. /\ Working(t) /\ workload = "bst"
      /\ IF n = NULL
         THEN /\ task' = [task EXCEPT ![t].finding_value = 0]
              /\ store' = UpdateFound(store, c)
         ELSE /\ task' = [task EXCEPT ![t].next_node = n]
              /\ store' = store
      /\ UNCHANGED <<workload, stage, num_elements, nodes, blocks, first>>
  BY DEF Search
<1>2. TypeOK /\ Cursors /\ SearchOnPath
  BY DEF Inv
<1>3. task \in [Thread -> TaskRecord] /\ store \in StoreType /\ nodes \subseteq Node
  BY <1>2 DEF TypeOK
<1>4. stage = "run" /\ ~AllGone /\ InUse
  BY <1>1, WorkingRuns
<1>5. /\ workload \in Nodes /\ workload \notin Arrays
      /\ task[t].head = store.head /\ c \in nodes
  BY <1>1, <1>2 DEF Cursors, Nodes, Arrays
<1>6. v \in Value /\ c \in Node /\ task[t] \in TaskRecord /\ task[t].phase = "working"
  BY <1>1, <1>3, <1>5 DEF TaskRecord, Working
<1>7. OnPath(store, nodes, c, v)
  BY <1>1, <1>2, SearchOnPathIs
<1> HIDE DEF c, v, n
<1>8. CASE n = NULL
  <2> DEFINE copy == [task[t] EXCEPT !.finding_value = 0]
  <2>1. /\ copy \in TaskRecord /\ copy.phase = "working" /\ copy.head = task[t].head
        /\ copy.next_node = c /\ copy.finding_value = 0
    BY <1>6, WorkloadsAssumption DEF TaskRecord, Value, c
  <2>2. task' = [task EXCEPT ![t] = copy]
    BY <1>1, <1>8, Zenon
  <2> HIDE DEF copy
  <2>3. task' \in [Thread -> TaskRecord] /\ task'[t] = copy /\ \A u \in Thread : u # t => task'[u] = task[u]
    BY <1>3, <2>1, <2>2
  <2> DEFINE fv == [store.false_value EXCEPT ![c] = 1 - @]
  <2>4. fv \in [Node -> {0, 1}]
    BY <1>3, <1>6 DEF StoreType
  <2>5. store' = [store EXCEPT !.false_value = fv]
    BY <1>1, <1>8, Zenon DEF UpdateFound
  <2> HIDE DEF fv
  <2>6. /\ store' \in StoreType /\ store'.head = store.head /\ store'.next = store.next
        /\ store'.left = store.left /\ store'.right = store.right
        /\ store'.value = store.value
    BY <1>3, <2>4, <2>5 DEF StoreType
  <2>7. OnPath(store, nodes, copy.next_node, copy.finding_value)
    BY <2>1 DEF OnPath
  <2> QED
    BY <1>1, <1>4, <1>5, <2>1, <2>3, <2>6, <2>7, ThreadKeeps
<1>9. CASE n # NULL
  <2> DEFINE copy == [task[t] EXCEPT !.next_node = n]
  <2>1. n \in Node /\ Child(store, c, n)
    BY <1>3, <1>6, <1>9, SearchChildFacts DEF n, Pointer
  <2>2. PICK m \in 0 .. MaxNodes :
          nodes = 1 .. m /\ IsTree(store, m) /\ \A x \in 1 .. m : InOrder(store, x)
    BY <1>1, <1>4, TreeInUse
  <2>3. n \in nodes
    <3>1. c < n /\ n <= m /\ n \in Nat /\ c \in Nat
      BY <1>6, <2>1, <2>2, NodeNat DEF IsTree
    <3> QED
      BY <2>2, <3>1
  <2>4. /\ copy \in TaskRecord /\ copy.phase = "working" /\ copy.head = task[t].head
        /\ copy.next_node = n /\ copy.finding_value = v
    BY <1>6, <2>1 DEF TaskRecord, Pointer, v
  <2>5. task' = [task EXCEPT ![t] = copy] /\ store' = store
    BY <1>1, <1>9, Zenon
  <2> HIDE DEF copy
  <2>6. task' \in [Thread -> TaskRecord] /\ task'[t] = copy /\ \A u \in Thread : u # t => task'[u] = task[u]
    BY <1>3, <2>4, <2>5
  <2>7. OnPath(store, nodes, n, v)
    <3> SUFFICES ASSUME v # 0, \E x \in nodes : store.value[x] = v
                 PROVE  \E x \in Subtree(store, n) : store.value[x] = v
      BY DEF OnPath
    <3>1. PICK y \in Subtree(store, c) : store.value[y] = v
      BY <1>7 DEF OnPath
    <3>2. c \in 1 .. m /\ InOrder(store, c)
      BY <1>5, <2>2
    <3>3. y \in Subtree(store, n)
      BY <1>3, <1>6, <1>9, <2>2, <3>1, <3>2, SearchStays DEF n
    <3> QED
      BY <3>1, <3>3
  <2> QED
    BY <1>1, <1>3, <1>4, <1>5, <2>3, <2>4, <2>5, <2>6, <2>7, ThreadKeeps
<1> QED
  BY <1>8, <1>9

\* The walks of an array stay inside it.
LEMMA NextElementsFacts ==
    ASSUME Inv, workload \in Arrays, NEW e \in 0 .. num_elements - 1, NEW i \in NextElements(e)
    PROVE  i \in 0 .. num_elements - 1
<1>1. FitsULong(num_elements)
  BY Strides DEF Inv, TypeOK
<1>2. CASE workload = "array_walk"
  BY <1>1, <1>2, ForwardsIs DEF NextElements
<1>3. CASE workload = "array_backwards"
  BY <1>1, <1>3, BackwardsIs DEF NextElements
<1>4. CASE workload = "array_random"
  BY <1>4 DEF NextElements, RandomElements
<1> QED
  BY <1>2, <1>3, <1>4 DEF Arrays

LEMMA array_do_workKeeps ==
    ASSUME NEW t \in Thread
    PROVE  Inv /\ array_do_work(t) => Inv'
<1> SUFFICES ASSUME Inv, array_do_work(t) PROVE Inv'
  OBVIOUS
<1>1. /\ Working(t) /\ workload \in Arrays
      /\ UNCHANGED <<workload, stage, num_elements, store, nodes, blocks, first>>
  BY DEF array_do_work
<1>2. PICK e \in NextElements(task[t].next_element) :
        task' = [task EXCEPT ![t].next_element = e]
  BY DEF array_do_work
<1>3. TypeOK /\ Cursors
  BY DEF Inv
<1>4. task \in [Thread -> TaskRecord] /\ store \in StoreType
  BY <1>3 DEF TypeOK
<1>5. stage = "run" /\ ~AllGone /\ InUse
  BY <1>1, WorkingRuns
<1>6. task[t].next_element \in 0 .. num_elements - 1
  BY <1>1, <1>3 DEF Cursors
<1>7. e \in 0 .. num_elements - 1
  BY <1>1, <1>6, NextElementsFacts
<1> DEFINE copy == [task[t] EXCEPT !.next_element = e]
<1>8. copy \in TaskRecord /\ copy.phase = "working" /\ copy.next_element = e
  BY <1>1, <1>4, <1>7 DEF TaskRecord, Working
<1>9. task' = [task EXCEPT ![t] = copy]
  BY <1>2, Zenon
<1> HIDE DEF copy
<1>10. task' \in [Thread -> TaskRecord] /\ task'[t] = copy /\ \A u \in Thread : u # t => task'[u] = task[u]
  BY <1>4, <1>8, <1>9
<1>11. workload \notin Nodes /\ workload # "bst"
  BY <1>1 DEF Nodes, Arrays
<1> QED
  BY <1>1, <1>4, <1>5, <1>7, <1>8, <1>10, <1>11, ThreadKeeps

-----------------------------------------------------------------------------
(* ... and through cleanup_group.                                          *)

LEMMA FreeHeadKeeps == Inv /\ FreeHead => Inv'
<1> SUFFICES ASSUME Inv, FreeHead PROVE Inv'
  OBVIOUS
<1>1. /\ AllGone /\ stage = "run" /\ workload = "linked_list" /\ store.head # NULL
      /\ nodes' = nodes \ {store.head}
      /\ store' = [store EXCEPT !.head = store.next[store.head]]
      /\ workload' = workload /\ stage' = stage /\ num_elements' = num_elements
      /\ blocks' = blocks /\ first' = first /\ task' = task
  BY DEF FreeHead
<1>2. TypeOK /\ Stages /\ Allocated /\ Cursors /\ Listed
  BY DEF Inv
<1>3. store \in StoreType /\ nodes \in SUBSET Node
  BY <1>2 DEF TypeOK
<1>4. PICK m \in 0 .. MaxNodes : \E p : IsList(store, p, nodes, m)
  BY <1>1, <1>2 DEF Listed
<1>5. PICK p : IsList(store, p, nodes, m)
  BY <1>4
<1> DEFINE head == store.next[store.head]
           q == [i \in 0 .. m - 1 |-> p[i + 1]]
<1>6. head \in Pointer
  BY <1>1, <1>3 DEF StoreType, Pointer
<1> HIDE DEF head
<1>7. store' \in StoreType /\ store'.head = head /\ store'.next = store.next
  BY <1>1, <1>3, <1>6 DEF StoreType, head
<1>8. m # 0 /\ IsList(store', q, nodes', m - 1)
  BY <1>1, <1>3, <1>5, <1>7, ListShrinks DEF head
<1> HIDE DEF q
<1>9. Listed'
  <2>1. m - 1 \in 0 .. MaxNodes
    BY <1>8, NodeNat
  <2>2. q \in [0 .. m - 1 -> Pointer]
    BY <1>8 DEF IsList
  <2> QED
    BY <1>1, <1>8, <2>1, <2>2 DEF Listed
<1>10. TypeOK'
  BY <1>1, <1>2, <1>7 DEF TypeOK
<1>11. Stages'
  BY <1>1 DEF Stages
<1>12. Allocated'
  BY <1>1, <1>2 DEF Allocated, AllFreed, Nodes
<1>13. AllGone' /\ \A t \in Thread : ~Working(t)'
  BY <1>1 DEF AllGone, Working
<1>14. Cursors'
  BY <1>1, <1>2, <1>13 DEF Cursors
<1>15. Planted' /\ SearchOnPath'
  BY <1>1 DEF Planted, SearchOnPath
<1> QED
  BY <1>9, <1>10, <1>11, <1>12, <1>14, <1>15 DEF Inv

LEMMA FreeTreeNodeKeeps == Inv /\ FreeTreeNode => Inv'
<1> SUFFICES ASSUME Inv, FreeTreeNode PROVE Inv'
  OBVIOUS
<1>1. /\ AllGone /\ stage = "run" /\ workload = "bst" /\ store.head \in nodes
      /\ nodes' = nodes \ {NextFreed(store, nodes)}
      /\ workload' = workload /\ stage' = stage /\ num_elements' = num_elements
      /\ store' = store /\ blocks' = blocks /\ first' = first /\ task' = task
  BY DEF FreeTreeNode
<1>2. TypeOK /\ Stages /\ Allocated /\ Cursors /\ Planted
  BY DEF Inv
<1>3. store \in StoreType /\ nodes \in SUBSET Node
  BY <1>2 DEF TypeOK
<1>4. AllGone' /\ ~InUse' /\ \A t \in Thread : ~Working(t)'
  BY <1>1 DEF AllGone, InUse, Working
<1>5. PICK m \in 0 .. MaxNodes :
        /\ IsTree(store, m)
        /\ \A x \in 1 .. m : InOrder(store, x)
        /\ IsLive(store, nodes, m)
  BY <1>1, <1>2 DEF Planted
<1>6. IsLive(store', nodes', m)
  BY <1>1, <1>3, <1>5, StaysLive
<1>7. Planted'
  BY <1>1, <1>4, <1>5, <1>6 DEF Planted
<1>8. TypeOK'
  BY <1>1, <1>2 DEF TypeOK
<1>9. Stages'
  BY <1>1 DEF Stages
<1>10. Allocated'
  BY <1>1, <1>2 DEF Allocated, AllFreed, Nodes
<1>11. Cursors'
  BY <1>1, <1>2, <1>4 DEF Cursors
<1>12. Listed' /\ SearchOnPath'
  BY <1>1, <1>4 DEF Listed, SearchOnPath
<1> QED
  BY <1>7, <1>8, <1>9, <1>10, <1>11, <1>12 DEF Inv

LEMMA FreeGroupDataKeeps == Inv /\ FreeGroupData => Inv'
<1> SUFFICES ASSUME Inv, FreeGroupData PROVE Inv'
  OBVIOUS
<1>1. /\ AllGone /\ stage = "run" /\ stage' = "done"
      /\ workload = "linked_list" => store.head = NULL
      /\ workload = "bst" => store.head \notin nodes
      /\ blocks' = blocks \ ReleasedByCleanup
      /\ workload' = workload /\ num_elements' = num_elements /\ store' = store
      /\ nodes' = nodes /\ first' = first /\ task' = task
  BY DEF FreeGroupData
<1>2. TypeOK /\ Allocated /\ Cursors /\ Listed /\ Planted
  BY DEF Inv
<1>3. store \in StoreType /\ nodes \in SUBSET Node
  BY <1>2 DEF TypeOK
<1>4. AllGone' /\ ~InUse' /\ \A t \in Thread : ~Working(t)'
  BY <1>1 DEF AllGone, InUse, Working
<1>5. nodes = {}
  <2>1. CASE workload = "linked_list"
    <3>1. PICK m \in 0 .. MaxNodes : \E p : IsList(store, p, nodes, m)
      BY <1>2, <2>1 DEF Listed
    <3>2. PICK p : IsList(store, p, nodes, m)
      BY <3>1
    <3>3. p[0] \notin nodes
      BY <1>1, <1>3, <2>1, <3>2, NodeNat DEF IsList
    <3>4. 0 \notin 0 .. m - 1
      BY <3>2, <3>3 DEF IsList
    <3>5. 0 .. m - 1 = {}
      BY <3>4, NodeNat
    <3> QED
      BY <3>2, <3>5 DEF IsList
  <2>2. CASE workload = "bst"
    <3>1. PICK m \in 0 .. MaxNodes : IsTree(store, m) /\ IsLive(store, nodes, m)
      BY <1>2, <2>2 DEF Planted
    <3> QED
      BY <1>1, <1>3, <2>2, <3>1, RootIsLast
  <2>3. CASE workload \notin Nodes
    BY <1>2, <2>3 DEF Allocated
  <2> QED
    BY <2>1, <2>2, <2>3 DEF Nodes
<1>6. blocks' = IF workload \in Arrays THEN {"array"} ELSE {}
  <2>1. blocks = IF workload \in Nodes THEN {"group_data"}
                 ELSE IF workload \in Arrays
                 THEN {"group_data", "array_unaligned", "array"} ELSE {}
    BY <1>1, <1>2 DEF Allocated
  <2>2. workload \in Nodes => workload \notin Arrays
    BY DEF Nodes, Arrays
  <2> QED
    BY <1>1, <2>1, <2>2 DEF ReleasedByCleanup
<1>7. TypeOK'
  BY <1>1, <1>2 DEF TypeOK
<1>8. Stages'
  BY <1>1, <1>4 DEF Stages
<1>9. Allocated'
  BY <1>1, <1>5, <1>6 DEF Allocated, AllFreed
<1>10. Cursors'
  BY <1>1, <1>2, <1>4 DEF Cursors
<1>11. Listed'
  BY <1>1, <1>2, ListKept
<1>12. Planted'
  BY <1>1, <1>2, <1>4, <1>7, TreeKept
<1>13. SearchOnPath'
  BY <1>4 DEF SearchOnPath
<1> QED
  BY <1>7, <1>8, <1>9, <1>10, <1>11, <1>12, <1>13 DEF Inv

-----------------------------------------------------------------------------
(* The theorems.                                                           *)

\* Every step keeps the invariant.
LEMMA Step == Inv /\ [Next]_vars => Inv'
<1> SUFFICES ASSUME Inv, [Next]_vars PROVE Inv'
  OBVIOUS
<1>1. CASE InsertNode
  BY <1>1, InsertNodeKeeps
<1>2. CASE NodesBuilt
  BY <1>2, NodesBuiltKeeps
<1>3. CASE array_walk_init_group
  BY <1>3, array_walk_init_groupKeeps
<1>4. CASE NoGroupData
  BY <1>4, NoGroupDataKeeps
<1>5. ASSUME NEW t \in Thread,
             \/ init_task(t) \/ cleanup_task(t)
             \/ burn_loop_do_work(t) \/ linked_list_do_work(t)
             \/ StartSearch(t) \/ Search(t) \/ array_do_work(t)
      PROVE  Inv'
  BY <1>5, init_taskKeeps, cleanup_taskKeeps, burn_loop_do_workKeeps,
     linked_list_do_workKeeps, StartSearchKeeps, SearchKeeps, array_do_workKeeps
<1>6. CASE FreeHead
  BY <1>6, FreeHeadKeeps
<1>7. CASE FreeTreeNode
  BY <1>7, FreeTreeNodeKeeps
<1>8. CASE FreeGroupData
  BY <1>8, FreeGroupDataKeeps
<1>9. CASE Terminated \/ UNCHANGED vars
  BY <1>9 DEF Terminated, vars, Inv, TypeOK, Stages, Allocated, Cursors, Listed,
              Planted, SearchOnPath, InUse, AllGone, AllFreed, Working
<1> QED
  BY <1>1, <1>2, <1>3, <1>4, <1>5, <1>6, <1>7, <1>8, <1>9 DEF Next

\* The invariant of the workloads, for every number of threads and nodes:
\* what init_group builds is a list or a search tree of all the allocated
\* nodes, and the threads stay on it until cleanup_group has it for itself.
THEOREM Invariance == Spec => []Inv
<1> QED
  BY Initially, Step, PTL DEF Spec

\* The block of an array has room for its elements.
LEMMA ArrayFits ==
    ASSUME NEW n \in ArraySizes
    PROVE  n <= AllocatedElements(n)
<1> DEFINE room == n + STRIDE
           bytes == room * IntSize
<1>1. room \in Nat /\ n <= room /\ IntSize \in Nat \ {0}
  BY WorkloadsAssumption, ArrayAssumption
<1>2. bytes < ULongSize /\ ULongSize \in Nat \ {0}
  BY WorkloadsAssumption, ArrayAssumption
<1>3. AllocatedElements(n) = (bytes % ULongSize) \div IntSize
  BY DEF AllocatedElements
<1> HIDE DEF room
<1>4. bytes \in Nat /\ IntSize * room = bytes
  BY <1>1
<1> HIDE DEF bytes
<1>5. bytes % ULongSize = bytes
  BY <1>2, <1>4
<1>6. room <= bytes \div IntSize
  BY <1>1, <1>4, DivGe
<1>7. bytes \div IntSize \in Int /\ n \in Int
  BY <1>1, <1>4, DivInt, WorkloadsAssumption
<1> QED
  BY <1>1, <1>3, <1>5, <1>6, <1>7

\* linked_list_do_work, bst_do_work and the walks of the arrays only ever touch
\* what is allocated, whatever other threads write in between.
THEOREM Live == Spec => []CursorLive
<1>1. Inv => CursorLive
  <2> SUFFICES ASSUME Inv, NEW t \in Thread, Working(t)
               PROVE  /\ workload \in Nodes => task[t].next_node \in nodes
                      /\ workload \in Arrays =>
                           /\ "array" \in blocks
                           /\ task[t].next_element \in 0 .. num_elements - 1
                           /\ num_elements <= AllocatedElements(num_elements)
    BY DEF CursorLive
  <2>1. stage = "run"
    BY WorkingRuns
  <2>2. workload \in Arrays => workload \notin Nodes
    BY DEF Arrays, Nodes
  <2>3. workload \in Arrays => num_elements \in ArraySizes
    BY <2>2 DEF Inv, TypeOK
  <2> QED
    BY <2>1, <2>2, <2>3, ArrayFits DEF Inv, Cursors, Allocated
<1> QED
  BY <1>1, Invariance, PTL

\* insert_node and insert_bst_node: every allocated node hangs in the list, once,
\* or in the tree, in order.
THEOREM WellBuilt == Spec => []Built
<1>1. Inv => Built
  <2> SUFFICES ASSUME Inv, InUse
               PROVE  /\ workload = "bst" => TreeNodes(store) = nodes /\ Ordered(store)
                      /\ workload = "linked_list" => ListNodes(store) = nodes /\ EachOnce(store)
    BY DEF Built, InUse
  <2>1. ASSUME workload = "bst" PROVE TreeNodes(store) = nodes /\ Ordered(store)
    <3>1. TreeNodes(store) = nodes
      BY <2>1, TreeInUse
    <3>2. \A x \in nodes : InOrder(store, x)
      BY <2>1, TreeInUse
    <3> QED
      BY <3>1, <3>2 DEF Ordered, InOrder
  <2>2. ASSUME workload = "linked_list"
        PROVE  ListNodes(store) = nodes /\ EachOnce(store)
    <3> DEFINE P(m, p) == IsList(store, p, nodes, m)
    <3>1. PICK m \in 0 .. MaxNodes : \E p \in [0 .. m -> Pointer] : P(m, p)
      BY <2>2 DEF Inv, Listed
    <3>2. PICK p : P(m, p)
      BY <3>1
    <3>3. store \in StoreType /\ nodes \in SUBSET Node
      BY DEF Inv, TypeOK
    <3> QED
      BY <3>2, <3>3, ListIsBuilt
  <2> QED
    BY <2>1, <2>2
<1> QED
  BY <1>1, Invariance, PTL

\* bst_do_work finds what is there: a search for a value of the tree never
\* leaves the subtree of a node that has it.
THEOREM SearchFinds == Spec => []SearchOnPath
<1>1. Inv => SearchOnPath
  BY DEF Inv
<1> QED
  BY <1>1, Invariance, PTL

\* array_walk_do_work and array_backwards_do_work touch every full cache line
\* of the array in one pass, wherever they are and whatever its length.
THEOREM Covers == Spec => []WalkCovers
<1>1. Inv => WalkCovers
  <2> SUFFICES ASSUME Inv, NEW t \in Thread, Working(t), workload \in Arrays
               PROVE  /\ PassCovers(Forwards, num_elements, task[t].next_element)
                      /\ PassCovers(Backwards, num_elements, task[t].next_element)
    BY DEF WalkCovers, Arrays
  <2>1. task[t].next_element \in 0 .. num_elements - 1
    BY DEF Inv, Cursors
  <2>2. FitsULong(num_elements)
    BY Strides DEF Inv, TypeOK
  <2> QED
    BY <2>1, <2>2, ForwardsCovers, BackwardsCovers
<1> QED
  BY <1>1, Invariance, PTL

\* cleanup_group leaves no node behind, no record and no array it points to.
THEOREM Freed == Spec => []AllFreed
<1>1. Inv => AllFreed
  BY DEF Inv, Allocated
<1> QED
  BY <1>1, Invariance, PTL
=============================================================================
