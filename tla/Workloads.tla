----------------------------- MODULE Workloads -----------------------------
(***************************************************************************)
(* The data of one thread group's workload (workloads/*.h): the leader     *)
(* builds it (init_group), every thread copies the record that describes   *)
(* it (init_task), the threads walk it side by side (do_work, one          *)
(* iteration a step), drop their copies (cleanup_task), and the leader     *)
(* takes it down (cleanup_group).  The copies are private; the nodes and   *)
(* the array behind them are shared by the threads, without a lock.        *)
(*                                                                         *)
(* That init_group is over before the first init_task, and the last        *)
(* cleanup_task before cleanup_group, is what TestRun checks                *)
(* (GroupDataLive); here it is the guard of those actions.  lfsrandom32    *)
(* gives any member of Value, malloc always succeeds.                      *)
(*                                                                         *)
(* The sizes are those threads get to work with.  One whose bytes wrap     *)
(* around, as those of a group without a working set size do, is not among *)
(* them: no slope file has a slope for it, so workload_init_task gives up  *)
(* before the first do_work (workload.c:77-91, LookupBracketed of Slopes). *)
(***************************************************************************)
EXTENDS SearchTree, ArrayWalk, FiniteSets

CONSTANTS
    Thread,      \* the tasks of the group
    MaxValue,    \* values wrap around behind it
    ArraySizes   \* elements an array may have

Value == 0 .. MaxValue

ASSUME WorkloadsAssumption ==
    /\ MaxNodes \in Nat \ {0} /\ MaxValue \in Nat \ {0}
    /\ \A n \in ArraySizes :
         /\ n \in Nat /\ n > STRIDE
         /\ 2 * n < ULongSize /\ (n + STRIDE) * IntSize < ULongSize

VARIABLES
    workload,    \* the kind of workload, by its name
    stage,       \* where the leader is
    num_elements,
    store,       \* the nodes: head of the group's record, and their fields
    nodes,       \* the nodes that are allocated
    blocks,      \* the other blocks of init_group that are allocated
    first,       \* next_node, next_element, finding_value of the group's record
    task         \* where each thread is, and its copy of that record

vars == <<workload, stage, num_elements, store, nodes, blocks, first, task>>

Nodes == {"linked_list", "bst"}
Arrays == {"array_walk", "array_backwards", "array_random"}

NoTask == [phase |-> "none", head |-> NULL, next_node |-> NULL,
           next_element |-> 0, finding_value |-> 0]

EmptyStore ==
    LET zero == [n \in Node |-> 0]
    IN  [head |-> NULL, next |-> zero, left |-> zero, right |-> zero,
         value |-> zero, false_value |-> zero]

Init ==
    /\ workload \in Nodes \cup Arrays \cup {"burn_loop"}
    /\ num_elements \in CASE workload \in Nodes -> 1 .. MaxNodes
                          [] workload \in Arrays -> ArraySizes
                          [] OTHER -> {0}
    /\ stage = "init_group"
    /\ store = EmptyStore
    /\ nodes = {} /\ blocks = {}
    /\ first = NoTask
    /\ task = [t \in Thread |-> NoTask]

-----------------------------------------------------------------------------
(* init_group                                                              *)

\* linked_list_init_group, bst_init_group: the next node, with a random value.
InsertNode ==
    /\ stage = "init_group" /\ workload \in Nodes
    /\ Cardinality(nodes) < num_elements
    /\ \E v \in Value :
         LET n == Cardinality(nodes) + 1
             new == [store EXCEPT !.value[n] = v]
         IN  /\ nodes' = nodes \cup {n}
             /\ store' = IF workload = "bst" THEN insert_bst_node(new, n)
                                             ELSE insert_node(new, n)
    /\ blocks' = {"group_data"}
    /\ UNCHANGED <<workload, stage, num_elements, first, task>>

\* The search starts at the root, the walk of the list at its first node.
NodesBuilt ==
    /\ stage = "init_group" /\ workload \in Nodes
    /\ Cardinality(nodes) = num_elements
    /\ \E v \in Value :
         first' = [first EXCEPT !.head = store.head, !.next_node = store.head,
                                !.finding_value = IF workload = "bst" THEN v ELSE 0]
    /\ stage' = "run"
    /\ UNCHANGED <<workload, num_elements, store, nodes, blocks, task>>

array_walk_init_group ==
    /\ stage = "init_group" /\ workload \in Arrays
    /\ blocks' = {"group_data", "array_unaligned", "array"}
    /\ stage' = "run"
    /\ UNCHANGED <<workload, num_elements, store, nodes, first, task>>

\* burn_loop has no init_group.
NoGroupData ==
    /\ stage = "init_group" /\ workload = "burn_loop"
    /\ stage' = "run"
    /\ UNCHANGED <<workload, num_elements, store, nodes, blocks, first, task>>

-----------------------------------------------------------------------------
(* The threads.                                                            *)

init_task(t) ==
    /\ stage = "run" /\ task[t].phase = "none"
    /\ task' = [task EXCEPT ![t] = [first EXCEPT !.phase = "working"]]
    /\ UNCHANGED <<workload, stage, num_elements, store, nodes, blocks, first>>

Working(t) == task[t].phase = "working"

burn_loop_do_work(t) ==
    /\ Working(t) /\ workload = "burn_loop"
    /\ UNCHANGED vars

linked_list_do_work(t) ==
    /\ Working(t) /\ workload = "linked_list"
    /\ LET n == ListStep(store, task[t].next_node)
       IN  /\ task' = [task EXCEPT ![t].next_node = n]
           /\ store' = [store EXCEPT !.value[n] = (@ + 1) % (MaxValue + 1)]
    /\ UNCHANGED <<workload, stage, num_elements, nodes, blocks, first>>

\* bst_do_work: a finding_value of 0 says that the last search is over.
StartSearch(t) ==
    /\ Working(t) /\ workload = "bst" /\ task[t].finding_value = 0
    /\ \E v \in Value :
         task' = [task EXCEPT ![t].finding_value = v, ![t].next_node = task[t].head]
    /\ UNCHANGED <<workload, stage, num_elements, store, nodes, blocks, first>>

\* Variant: the value that the tree is ordered by is updated.
UpdateValue(tree, c) == [tree EXCEPT !.value[c] = (@ + 1) % (MaxValue + 1)]

\* false_value wraps around as early as possible: nothing reads it.
UpdateFound(tree, c) == [tree EXCEPT !.false_value[c] = 1 - @]

Search(t) ==
    /\ Working(t) /\ workload = "bst" /\ task[t].finding_value # 0
    /\ LET c == task[t].next_node
           n == SearchChild(store, c, task[t].finding_value)
       IN  IF n = NULL
           THEN /\ task' = [task EXCEPT ![t].finding_value = 0]
                /\ store' = UpdateFound(store, c)
           ELSE /\ task' = [task EXCEPT ![t].next_node = n]
                /\ UNCHANGED store
    /\ UNCHANGED <<workload, stage, num_elements, nodes, blocks, first>>

\* Where the walk of an array goes from element e.
NextElements(e) ==
    CASE workload = "array_walk" -> {Forwards(num_elements, e)}
      [] workload = "array_backwards" -> {Backwards(num_elements, e)}
      [] workload = "array_random" -> RandomElements(num_elements)

array_do_work(t) ==
    /\ Working(t) /\ workload \in Arrays
    /\ \E e \in NextElements(task[t].next_element) :
         task' = [task EXCEPT ![t].next_element = e]
    /\ UNCHANGED <<workload, stage, num_elements, store, nodes, blocks, first>>

cleanup_task(t) ==
    /\ Working(t)
    /\ task' = [task EXCEPT ![t] = [NoTask EXCEPT !.phase = "gone"]]
    /\ UNCHANGED <<workload, stage, num_elements, store, nodes, blocks, first>>

-----------------------------------------------------------------------------
(* cleanup_group                                                           *)

AllGone == \A t \in Thread : task[t].phase = "gone"

\* linked_list_cleanup_group: the head is freed, the next node is the head.
FreeHead ==
    /\ AllGone /\ stage = "run" /\ workload = "linked_list" /\ store.head # NULL
    /\ nodes' = nodes \ {store.head}
    /\ store' = [store EXCEPT !.head = store.next[store.head]]
    /\ UNCHANGED <<workload, stage, num_elements, blocks, first, task>>

\* bst_cleanup_group, _bst_cleanup_node: children before their parent, the
\* right one first, the root last.
FreeTreeNode ==
    /\ AllGone /\ stage = "run" /\ workload = "bst" /\ store.head \in nodes
    /\ nodes' = nodes \ {NextFreed(store, nodes)}
    /\ UNCHANGED <<workload, stage, num_elements, store, blocks, first, task>>

\* array_walk_cleanup_group frees one of its two arrays.
ReleasedByCleanup == {"group_data", "array_unaligned"}

FreeGroupData ==
    /\ AllGone /\ stage = "run"
    /\ workload = "linked_list" => store.head = NULL
    /\ workload = "bst" => store.head \notin nodes
    /\ blocks' = blocks \ ReleasedByCleanup
    /\ stage' = "done"
    /\ UNCHANGED <<workload, num_elements, store, nodes, first, task>>

Terminated == stage = "done" /\ UNCHANGED vars

Next ==
    \/ InsertNode \/ NodesBuilt \/ array_walk_init_group \/ NoGroupData
    \/ \E t \in Thread :
         \/ init_task(t) \/ cleanup_task(t)
         \/ burn_loop_do_work(t) \/ linked_list_do_work(t)
         \/ StartSearch(t) \/ Search(t) \/ array_do_work(t)
    \/ FreeHead \/ FreeTreeNode \/ FreeGroupData
    \/ Terminated

Spec == Init /\ [][Next]_vars

-----------------------------------------------------------------------------
(* Properties.                                                             *)

\* What a thread writes in its next iteration is allocated: no walk leaves
\* the list, the tree or the array, whatever the other threads do to the
\* nodes.
CursorLive ==
    \A t \in Thread : Working(t) =>
        /\ workload \in Nodes => task[t].next_node \in nodes
        /\ workload \in Arrays =>
             /\ "array" \in blocks
             /\ task[t].next_element \in 0 .. num_elements - 1
             /\ num_elements <= AllocatedElements(num_elements)

\* From the first insertion until cleanup every allocated node hangs in the
\* list, once, or in the tree, and the tree stays ordered while the threads
\* search it and write to its nodes.
Built ==
    stage \in {"init_group", "run"} /\ ~AllGone =>
        /\ workload = "bst" => TreeNodes(store) = nodes /\ Ordered(store)
        /\ workload = "linked_list" => ListNodes(store) = nodes /\ EachOnce(store)

\* A search for a value that is in the tree stays above a node that has it.
SearchOnPath ==
    \A t \in Thread : Working(t) /\ workload = "bst" =>
        LET v == task[t].finding_value
            Has(S) == \E n \in S : store.value[n] = v
        IN  v # 0 /\ Has(nodes) => Has(Subtree(store, task[t].next_node))

\* From every element a walk can reach, one more pass touches every cache line
\* that lies in the array from end to end: the working set is what it says.
WalkCovers ==
    \A t \in Thread : Working(t) =>
        /\ workload = "array_walk" =>
             PassCovers(Forwards, num_elements, task[t].next_element)
        /\ workload = "array_backwards" =>
             PassCovers(Backwards, num_elements, task[t].next_element)

\* cleanup_group frees every node, children before their parent and the next
\* node before the pointer to it is lost, and the group's record and the array
\* it keeps a pointer to.
AllFreed == stage = "done" => nodes = {} /\ blocks \cap {"group_data", "array_unaligned"} = {}
=============================================================================
