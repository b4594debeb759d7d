------------------------------ MODULE StringMap -------------------------------
(***************************************************************************)
(* What hashmap.h promises: a partial map from keys to values in which an  *)
(* entry, once added, keeps its value until it is removed.  The operation  *)
(* that has ended is visible, so that no entry can go without a removal.   *)
(***************************************************************************)
CONSTANTS Key, Value, NULL

VARIABLES
  entries,  \* key -> value, or NULL when the key has no entry
  last      \* the operation that ended last, its key and what it returned

vars == <<entries, last>>

Ended(op, k, result) == [op |-> op, key |-> k, ret |-> result]

Init == entries = [k \in Key |-> NULL] /\ last = Ended("create", NULL, NULL)

Add(k, v) ==
  /\ entries[k] = NULL
  /\ entries' = [entries EXCEPT ![k] = v]
  /\ last' = Ended("add", k, NULL)

Remove(k) ==
  entries' = [entries EXCEPT ![k] = NULL] /\ last' = Ended("remove", k, NULL)

Get(k) == last' = Ended("get", k, entries[k]) /\ UNCHANGED entries

Next == \E k \in Key : Remove(k) \/ Get(k) \/ \E v \in Value : Add(k, v)

Spec == Init /\ [][Next]_vars
=============================================================================
