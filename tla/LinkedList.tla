----------------------------- MODULE LinkedList -----------------------------
(***************************************************************************)
(* The linked list of workloads/linked_list.h: insertion of a node and the *)
(* walk of a thread through it.  A list is a record: head, and next and    *)
(* value of every node.  NULL is the null pointer.                         *)
(***************************************************************************)
EXTENDS Integers

CONSTANTS MaxNodes

Node == 1 .. MaxNodes
NULL == 0

\* The nodes from head on, and NULL behind the last.
ListWalk(list) ==
    LET after == [n \in Node \cup {NULL} |-> IF n = NULL THEN NULL ELSE list.next[n]]
        walk[k \in 0 .. MaxNodes + 1] ==
          IF k = 0 THEN list.head ELSE after[walk[k - 1]]
    IN  walk

\* insert_node: where its loop stops, at the end or before a node whose value
\* is no greater than that of n.
InsertPosition(list, n) ==
    LET walk == ListWalk(list)
        Stop(k) == walk[k] = NULL \/ list.value[walk[k]] <= list.value[n]
    IN  CHOOSE k \in 0 .. MaxNodes : Stop(k) /\ \A j \in 0 .. k - 1 : ~Stop(j)

\* Variant: a new first node does not point at the old one.
InsertFrontCut(list, n) == [list EXCEPT !.head = n]

\* insert_node: n becomes the first node.
InsertFront(list, n) ==
    [list EXCEPT !.next = [@ EXCEPT ![n] = list.head], !.head = n]

\* insert_node: n comes between last and cur, which is NULL at the end.
InsertAfter(list, last, cur, n) ==
    [list EXCEPT !.next = [@ EXCEPT ![n] = cur, ![last] = n]]

insert_node(list, n) ==
    LET k == InsertPosition(list, n)
        walk == ListWalk(list)
    IN  IF k = 0 THEN InsertFront(list, n)
                 ELSE InsertAfter(list, walk[k - 1], walk[k], n)

\* Variant: the walk ends at the last node.
StepOffTheEnd(list, n) == list.next[n]

\* linked_list_do_work: the node after n, or the first one after the last.
ListStep(list, n) == IF list.next[n] = NULL THEN list.head ELSE list.next[n]

\* The nodes of the list.
ListNodes(list) == {ListWalk(list)[k] : k \in 0 .. MaxNodes} \ {NULL}

\* The walk meets no node twice.
EachOnce(list) ==
    LET walk == ListWalk(list)
    IN  \A k \in 0 .. MaxNodes :
          walk[k] # NULL => \A j \in 0 .. k - 1 : walk[j] # walk[k]
=============================================================================
