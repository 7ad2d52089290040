----------------------------- MODULE SearchTree -----------------------------
(***************************************************************************)
(* The binary search tree of workloads/bst.h: insertion, one step of a     *)
(* search, and the order in which cleanup frees the nodes.  A tree is a    *)
(* record: head, and left, right and value of every node.                  *)
(***************************************************************************)
EXTENDS LinkedList

\* _insert_bst_node: the subtree of c that a node of value v belongs to.
ChildFor(tree, c, v) ==
    IF v < tree.value[c] THEN tree.left[c] ELSE tree.right[c]

\* The nodes _insert_bst_node descends through for value v, then NULL.
Descent(tree, v) ==
    LET below == [c \in Node \cup {NULL} |-> IF c = NULL THEN NULL ELSE ChildFor(tree, c, v)]
        path[k \in 0 .. MaxNodes] ==
          IF k = 0 THEN tree.head ELSE below[path[k - 1]]
    IN  path

\* The last of them.
InsertionParent(tree, v) ==
    LET path == Descent(tree, v)
    IN  path[CHOOSE k \in 0 .. MaxNodes - 1 :
               path[k] # NULL /\ path[k + 1] = NULL]

insert_bst_node(tree, n) ==
    LET parent == InsertionParent(tree, tree.value[n])
    IN  IF tree.head = NULL THEN [tree EXCEPT !.head = n]
        ELSE IF tree.value[n] < tree.value[parent]
        THEN [tree EXCEPT !.left = [@ EXCEPT ![parent] = n]]
        ELSE [tree EXCEPT !.right = [@ EXCEPT ![parent] = n]]

\* bst_do_work: the child a search for v goes to from c; NULL also when c has
\* the value.
SearchChild(tree, c, v) ==
    IF v < tree.value[c] THEN tree.left[c]
    ELSE IF v > tree.value[c] THEN tree.right[c] ELSE NULL

\* The nodes of the tree at c.
Subtree(tree, c) ==
    LET Children(S) == ({tree.left[n] : n \in S} \cup {tree.right[n] : n \in S})
                         \ {NULL}
        deeper == [S \in SUBSET Node |-> S \cup Children(S)]
        below[k \in 0 .. MaxNodes] ==
          IF k = 0 THEN {c} \ {NULL} ELSE deeper[below[k - 1]]
    IN  below[MaxNodes]

TreeNodes(tree) == Subtree(tree, tree.head)

\* Left of a node are smaller values, right of it are no smaller ones.
Ordered(tree) ==
    \A n \in TreeNodes(tree) :
        /\ \A m \in Subtree(tree, tree.left[n]) : tree.value[m] < tree.value[n]
        /\ \A m \in Subtree(tree, tree.right[n]) : tree.value[m] >= tree.value[n]

\* Variant: the left subtree is forgotten.
FreeChildRightOnly(tree, c, live) ==
    IF tree.right[c] \in live THEN tree.right[c] ELSE NULL

\* _bst_cleanup_node: the child that is freed before c, if one is left.
FreeChild(tree, c, live) ==
    IF tree.right[c] \in live THEN tree.right[c]
    ELSE IF tree.left[c] \in live THEN tree.left[c] ELSE NULL

\* The node that bst_cleanup_group frees next, when those in live are left.
NextFreed(tree, live) ==
    LET below == [c \in Node \cup {NULL} |-> IF c = NULL THEN NULL ELSE FreeChild(tree, c, live)]
        path[k \in 0 .. MaxNodes] ==
          IF k = 0 THEN tree.head ELSE below[path[k - 1]]
    IN  path[CHOOSE k \in 0 .. MaxNodes - 1 :
               path[k] # NULL /\ path[k + 1] = NULL]
=============================================================================
