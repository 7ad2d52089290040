----------------------------- MODULE MC_Startup -----------------------------
(***************************************************************************)
(* Files of up to three tasks in two groups on a machine with two           *)
(* processors, some of which name a processor that does not exist; command  *)
(* lines that leave one thing after another out of a complete one or give   *)
(* it at and beyond its bounds.                                            *)
(***************************************************************************)
EXTENDS Startup

MC_TaskLines ==
    {[cpus |-> c, group |-> g, period |-> IF c = {1} THEN 6 ELSE 4 + 6 * g,
      all |-> a, locks |-> l] :
        c \in {{0}, {1}, {0, 1}, {2}}, g \in {1, 2}, a \in BOOLEAN, l \in {<<0>>}}

MC_LockCounts == {-2, 0, 1}

Base == [letters |-> {"s", "f", "c", "r"}, c |-> 50, e |-> 0, i |-> 0, l |-> 0,
         r |-> 20, s |-> "EDF", t |-> "timer", w |-> "bst", argc |-> 9,
         understood |-> TRUE]

With(letters) == [Base EXCEPT !.letters = @ \cup letters]

MC_CommandLines ==
    {Base, [Base EXCEPT !.argc = 7], [Base EXCEPT !.understood = FALSE]}
    \cup {[Base EXCEPT !.letters = @ \ {x}] : x \in {"s", "f", "c", "r"}}
    \cup {[Base EXCEPT !.s = "none of them"]}
    \cup {[Base EXCEPT !.c = n] : n \in {0, 10001, IntMax}}
    \cup {[Base EXCEPT !.r = n] : n \in {0, 3601}}
    \cup {[With({"w"}) EXCEPT !.w = x] : x \in {"bst", "?"}}
    \cup {[With({"t"}) EXCEPT !.t = x] : x \in {"wcet", "?"}}
    \cup {[With(x \cup {"l"}) EXCEPT !.l = n] : x \in {{}, {"n"}}, n \in {0, 10, 101}}
    \cup {With({"n"}), With({"h"}), With({"z"})}
    \cup {[With({"b", "e", "i"}) EXCEPT !.e = e, !.i = i] :
             e \in {0, 49, 150}, i \in {0, 60}}
    \cup {[With({"b", "e", "i"}) EXCEPT !.e = e, !.i = i] :
             e \in {150, IntMax - 1}, i \in {8000, -8000}}
=============================================================================
