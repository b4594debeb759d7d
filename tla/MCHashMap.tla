------------------------------ MODULE MCHashMap -------------------------------
(* HashMap with keys whose codes collide at capacities 2 and 4 and part at   *)
(* 8, so that chains form, are rebuilt and lose nodes at either end.         *)
EXTENDS HashMap

CONSTANTS k1, k2, k3, k4, k5

MCHashCode == [k \in Key |-> CASE k = k1 -> 0 [] k = k2 -> 2 [] k = k3 -> 4
                               [] k = k4 -> 5 [] k = k5 -> 10]
=============================================================================
