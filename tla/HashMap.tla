------------------------------- MODULE HashMap --------------------------------
(***************************************************************************)
(* hashmap.c: chained buckets that double when the map gets 3/4 full.      *)
(* Every operation holds the map's lock from its first line to its last;   *)
(* only hashmap_add, whose rehash is a loop over all nodes, takes more     *)
(* than one action, and nothing else runs until it ends.  A bucket is the  *)
(* sequence of its nodes.                                                  *)
(***************************************************************************)
EXTENDS Integers, Sequences, FiniteSets, SequencesExt

CONSTANTS
  Key, Value,
  HashCode,         \* key -> the sum hash() computes before it takes % capacity
  InitialCapacity,  \* INITIAL_CAPACITY
  NULL

ASSUME HashAssumption == HashCode \in [Key -> Nat]
ASSUME InitialAssumption == InitialCapacity \in Nat \ {0}
ASSUME ValueAssumption == NULL \notin Value

VARIABLES
  capacity, size,
  buckets,          \* 0 .. capacity - 1 -> the nodes of the chain, head first
  old_capacity,     \* hashmap_rehash: the array it empties, 0 outside
  old_buckets,
  index,            \* hashmap_rehash: the old bucket it is at
  new_node,         \* hashmap_add: the node it will link, if it is running
  last              \* the operation that ended last, its key and what it returned

rehash == <<old_capacity, old_buckets, index>>
vars == <<capacity, size, buckets, rehash, new_node, last>>

Node == [key : Key, value : Value]
NoNode == [key |-> NULL, value |-> NULL]

Ended(op, k, result) == [op |-> op, key |-> k, ret |-> result]

hash(k, cap) == HashCode[k] % cap
Chain(k) == buckets[hash(k, capacity)]

Empty(cap) == [i \in 0 .. cap - 1 |-> <<>>]

\* hashmap_create
Init ==
  /\ capacity = InitialCapacity /\ size = 0
  /\ buckets = Empty(InitialCapacity)
  /\ old_capacity = 0 /\ old_buckets = Empty(0) /\ index = 0
  /\ new_node = NoNode /\ last = Ended("create", NULL, NULL)

hashmap_contains(k) == \E p \in DOMAIN Chain(k) : Chain(k)[p].key = k

\* Where the walk along a chain meets the key.
FirstOf(chain, k) ==
  CHOOSE p \in DOMAIN chain :
    chain[p].key = k /\ \A q \in DOMAIN chain : chain[q].key = k => p <= q

\* Mutant: the node goes to the place it had.
Link_InPlace(n) == [buckets EXCEPT ![hash(n.key, InitialCapacity)] = <<n>> \o @]

\* node->next = buckets[index]; buckets[index] = node
Link(n) == [buckets EXCEPT ![hash(n.key, capacity)] = <<n>> \o @]

\* Mutant: the new node is not counted.
Crowded_Before == 4 * size > 3 * capacity

\* (double)(size + 1) / capacity > LOAD_FACTOR
Crowded == 4 * (size + 1) > 3 * capacity

-----------------------------------------------------------------------------
\* hashmap_add

Idle == new_node = NoNode

\* A key that is there keeps its value.  A crowded map gets an empty array of
\* twice the capacity, and its size is counted anew.
hashmap_add(k, v) ==
  /\ Idle /\ ~hashmap_contains(k)
  /\ new_node' = [key |-> k, value |-> v]
  /\ IF Crowded
     THEN /\ old_capacity' = capacity /\ old_buckets' = buckets /\ index' = 0
          /\ capacity' = 2 * capacity /\ buckets' = Empty(2 * capacity) /\ size' = 0
     ELSE UNCHANGED <<capacity, buckets, size, rehash>>
  /\ UNCHANGED last

\* Mutant: the rest of the chain goes with its first node.
RehashNode_DropsTail ==
  /\ index < old_capacity /\ old_buckets[index] # <<>>
  /\ buckets' = Link(Head(old_buckets[index])) /\ size' = size + 1
  /\ old_buckets' = [old_buckets EXCEPT ![index] = <<>>]
  /\ UNCHANGED <<capacity, old_capacity, index, new_node, last>>

\* One turn of the inner loop: the first node of the old bucket is linked into
\* the new array.
RehashNode ==
  /\ index < old_capacity /\ old_buckets[index] # <<>>
  /\ buckets' = Link(Head(old_buckets[index])) /\ size' = size + 1
  /\ old_buckets' = [old_buckets EXCEPT ![index] = Tail(@)]
  /\ UNCHANGED <<capacity, old_capacity, index, new_node, last>>

\* One turn of the outer loop.
RehashBucket ==
  /\ index < old_capacity /\ old_buckets[index] = <<>>
  /\ index' = index + 1
  /\ UNCHANGED <<capacity, size, buckets, old_capacity, old_buckets, new_node, last>>

\* The end of hashmap_add; the old array has been freed.
Insert ==
  /\ ~Idle /\ index = old_capacity
  /\ buckets' = Link(new_node) /\ size' = size + 1
  /\ old_capacity' = 0 /\ old_buckets' = Empty(0) /\ index' = 0
  /\ new_node' = NoNode /\ last' = Ended("add", new_node.key, NULL)
  /\ UNCHANGED capacity

-----------------------------------------------------------------------------
\* The other operations

\* The first node of the chain with this key is unlinked.
hashmap_remove(k) ==
  /\ Idle /\ hashmap_contains(k)
  /\ buckets' = [buckets EXCEPT ![hash(k, capacity)] = RemoveAt(@, FirstOf(@, k))]
  /\ size' = size - 1 /\ last' = Ended("remove", k, NULL)
  /\ UNCHANGED <<capacity, rehash, new_node>>

hashmap_get(k) ==
  /\ Idle
  /\ LET node == Chain(k)[FirstOf(Chain(k), k)]
     IN last' = Ended("get", k, IF hashmap_contains(k) THEN node.value ELSE NULL)
  /\ UNCHANGED <<capacity, size, buckets, rehash, new_node>>

Next ==
  \/ \E k \in Key :
       hashmap_remove(k) \/ hashmap_get(k) \/ \E v \in Value : hashmap_add(k, v)
  \/ RehashNode \/ RehashBucket \/ Insert

Spec == Init /\ [][Next]_vars

-----------------------------------------------------------------------------
\* Properties

\* The nodes of an array of chains, and their keys.
Held(array) == UNION {{array[i][p] : p \in DOMAIN array[i]} : i \in DOMAIN array}
Keys(array) == {n.key : n \in Held(array)}

\* Every node of the array, however often it has been rebuilt, is in the chain
\* that hash() names, a key has at most one node, and size counts the nodes;
\* also in the middle of a rehash.
WellFormed ==
  /\ \A i \in DOMAIN buckets : \A p \in DOMAIN buckets[i] :
       hash(buckets[i][p].key, capacity) = i
  /\ \A i \in DOMAIN buckets : \A p, q \in DOMAIN buckets[i] :
       buckets[i][p].key = buckets[i][q].key => p = q
  /\ size = Cardinality(Keys(buckets))

\* Chains stay short on average: the load factor is never exceeded.
LoadBound == 4 * size <= 3 * capacity

\* hashmap.c implements the map that hashmap.h promises: a key's entry is what
\* its node holds, whichever array the node is in, and goes only when it is
\* removed.  A rehash is invisible.
EntryIn(nodes, k) ==
  IF \E n \in nodes : n.key = k THEN (CHOOSE n \in nodes : n.key = k).value ELSE NULL
Entry(k) == EntryIn(Held(buckets) \cup Held(old_buckets), k)

Abstract == INSTANCE StringMap WITH entries <- [k \in Key |-> Entry(k)]
Refinement == Abstract!Spec
=============================================================================
