------------------------------ MODULE MC_Slopes -----------------------------
EXTENDS Slopes

\* "array" is sampled at sizes 1 and 4; 7 is its largest legal size.
MC_Order == <<"burn", "array">>
MC_Min == [w \in {"burn", "array"} |-> IF w = "burn" THEN 0 ELSE 1]
MC_Max == [w \in {"burn", "array"} |-> IF w = "burn" THEN 0 ELSE 7]

=============================================================================
