----------------------------- MODULE ArrayWalk ------------------------------
(***************************************************************************)
(* The index arithmetic of the array workloads (workloads/array_walk.h,    *)
(* array_backwards.h and array_random.h).  STRIDE is the number of         *)
(* elements in a cache line, IntSize the bytes of one.  Sums and sizes are  *)
(* computed in unsigned long, which has ULongSize values.                  *)
(***************************************************************************)
EXTENDS Integers

CONSTANTS STRIDE, IntSize, ULongSize

ASSUME ArrayAssumption ==
    /\ STRIDE \in Nat \ {0} /\ IntSize \in Nat \ {0}
    /\ ULongSize \in Nat \ {0}

\* malloc_aligned(sizeof(int) * num_elements): how many elements the block has
\* room for, a line more than asked for if the size does not wrap around.
AllocatedElements(num_elements) ==
    (((num_elements + STRIDE) * IntSize) % ULongSize) \div IntSize

\* array_walk_do_work
Forwards(num_elements, e) == ((e + STRIDE) % ULongSize) % num_elements

\* Variant: the length of the array is not added first.
BackwardsWrapping(num_elements, e) == ((e - STRIDE) % ULongSize) % num_elements

\* array_backwards_do_work
Backwards(num_elements, e) ==
    ((num_elements + e - STRIDE) % ULongSize) % num_elements

\* array_random_do_work: lfsrandom32() % num_elements
RandomElements(num_elements) == 0 .. num_elements - 1

\* The lines that lie in the array from end to end.
FullLines(num_elements) == 0 .. (num_elements \div STRIDE) - 1

\* The k-th element from e on, by a step.
Visited(Step(_, _), num_elements, e) ==
    LET step == [i \in 0 .. num_elements - 1 |-> Step(num_elements, i)]
        at[k \in 0 .. num_elements] == IF k = 0 THEN e ELSE step[at[k - 1]]
    IN  at

\* One pass of that walk touches every full line.
PassCovers(Step(_, _), num_elements, e) ==
    LET at == Visited(Step, num_elements, e)
    IN  \A line \in FullLines(num_elements) :
          \E k \in 0 .. num_elements \div STRIDE : at[k] \div STRIDE = line
=============================================================================
