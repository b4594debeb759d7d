---------------------------- MODULE HashMapProofs ----------------------------
(***************************************************************************)
(* The hash map is well formed and never overloaded, and implements the    *)
(* abstract map, for any keys, hash codes and initial capacity.            *)
(***************************************************************************)
EXTENDS HashMap, SequenceTheorems, FiniteSetTheorems, TLAPS

USE HashAssumption, InitialAssumption, ValueAssumption

-----------------------------------------------------------------------------
\* Chains and arrays

\* An array of chains whose nodes are where their keys hash to, each key once.
IsArray(array, cap) ==
  /\ array \in [0 .. cap - 1 -> Seq(Node)]
  /\ \A i \in 0 .. cap - 1 : \A p \in DOMAIN array[i] : hash(array[i][p].key, cap) = i
  /\ \A i \in 0 .. cap - 1 : \A p, q \in DOMAIN array[i] :
       array[i][p].key = array[i][q].key => p = q

LEMMA HashInRange ==
  ASSUME NEW k \in Key, NEW cap \in Nat \ {0}
  PROVE  hash(k, cap) \in 0 .. cap - 1
<1>1. HashCode[k] \in Nat
  OBVIOUS
<1> QED BY <1>1 DEF hash

LEMMA EmptyArray ==
  ASSUME NEW cap \in Nat
  PROVE  IsArray(Empty(cap), cap) /\ Held(Empty(cap)) = {} /\ Keys(Empty(cap)) = {}
<1>1. Empty(cap) \in [0 .. cap - 1 -> Seq(Node)]
  BY DEF Empty
<1>2. \A i \in 0 .. cap - 1 : DOMAIN Empty(cap)[i] = {}
  BY DEF Empty
<1>3. DOMAIN Empty(cap) = 0 .. cap - 1
  BY DEF Empty
<1> QED BY <1>1, <1>2, <1>3 DEF IsArray, Held, Keys

\* Two ways to say that a key is in an array.
LEMMA HeldIn ==
  ASSUME NEW cap \in Nat, NEW array, IsArray(array, cap)
  PROVE  /\ \A n : n \in Held(array) <=>
                     \E i \in 0 .. cap - 1 : \E p \in DOMAIN array[i] : n = array[i][p]
         /\ \A k : k \in Keys(array) <=> \E n \in Held(array) : n.key = k
         /\ Held(array) \subseteq Node /\ Keys(array) \subseteq Key
<1>1. DOMAIN array = 0 .. cap - 1
  BY DEF IsArray
<1>2. \A n : n \in Held(array) <=>
               \E i \in 0 .. cap - 1 : \E p \in DOMAIN array[i] : n = array[i][p]
  BY <1>1 DEF Held
<1>3. \A i \in 0 .. cap - 1 : \A p \in DOMAIN array[i] : array[i][p] \in Node
  BY DEF IsArray
<1>4. Held(array) \subseteq Node
  BY <1>2, <1>3
<1>5. \A k : k \in Keys(array) <=> \E n \in Held(array) : n.key = k
  BY DEF Keys
<1> QED BY <1>2, <1>4, <1>5 DEF Node

\* A key has at most one node in the whole array.
LEMMA OneNode ==
  ASSUME NEW cap \in Nat, NEW array, IsArray(array, cap),
         NEW m \in Held(array), NEW n \in Held(array), m.key = n.key
  PROVE  m = n
<1>1. PICK i \in 0 .. cap - 1 : \E p \in DOMAIN array[i] : m = array[i][p]
  BY HeldIn
<1>2. PICK j \in 0 .. cap - 1 : \E q \in DOMAIN array[j] : n = array[j][q]
  BY HeldIn
<1>3. i = j
  BY <1>1, <1>2 DEF IsArray
<1> QED BY <1>1, <1>2, <1>3 DEF IsArray

\* The walk along the chain that hash() names finds the key if the array has it.
LEMMA FirstOfChain ==
  ASSUME NEW cap \in Nat \ {0}, NEW array, IsArray(array, cap), NEW k \in Key
  PROVE  LET chain == array[hash(k, cap)]
         IN /\ (\E p \in DOMAIN chain : chain[p].key = k) <=> k \in Keys(array)
            /\ k \in Keys(array) =>
                 /\ FirstOf(chain, k) \in DOMAIN chain
                 /\ chain[FirstOf(chain, k)].key = k
                 /\ chain[FirstOf(chain, k)] \in Held(array)
<1> DEFINE i == hash(k, cap)
           chain == array[i]
<1>1. i \in 0 .. cap - 1
  BY HashInRange
<1>2. ASSUME NEW p \in DOMAIN chain, chain[p].key = k
      PROVE  k \in Keys(array)
  BY <1>1, <1>2, HeldIn
<1>3. ASSUME k \in Keys(array)
      PROVE  \E p \in DOMAIN chain : chain[p].key = k
  <2>1. PICK n \in Held(array) : n.key = k
    BY <1>3, HeldIn
  <2>2. PICK j \in 0 .. cap - 1 : \E p \in DOMAIN array[j] : n = array[j][p]
    BY <2>1, HeldIn
  <2>3. j = i
    BY <2>1, <2>2 DEF IsArray
  <2> QED BY <2>1, <2>2, <2>3
<1>4. ASSUME NEW p \in DOMAIN chain, chain[p].key = k
      PROVE  /\ FirstOf(chain, k) \in DOMAIN chain
             /\ chain[FirstOf(chain, k)].key = k
  <2>1. chain \in Seq(Node) /\ p \in Nat
    BY <1>1 DEF IsArray
  <2>2. \A q \in DOMAIN chain : chain[q].key = k => p <= q
    BY <1>1, <1>4, <2>1 DEF IsArray
  <2> QED BY <1>4, <2>2 DEF FirstOf
<1>5. ASSUME NEW p \in DOMAIN chain
      PROVE  chain[p] \in Held(array)
  BY <1>1, HeldIn
<1> QED BY <1>2, <1>3, <1>4, <1>5

\* Pushing a node in front of a chain, and taking one out.
LEMMA PushNode ==
  ASSUME NEW chain \in Seq(Node), NEW n \in Node
  PROVE  /\ <<n>> \o chain \in Seq(Node)
         /\ DOMAIN (<<n>> \o chain) = 1 .. Len(chain) + 1
         /\ (<<n>> \o chain)[1] = n
         /\ \A p \in DOMAIN chain :
              p \in 1 .. Len(chain) /\ p + 1 \in DOMAIN (<<n>> \o chain)
                /\ (<<n>> \o chain)[p + 1] = chain[p]
         /\ \A p \in DOMAIN (<<n>> \o chain) :
              p # 1 => p - 1 \in DOMAIN chain /\ (<<n>> \o chain)[p] = chain[p - 1]
<1>1. <<n>> \in Seq(Node) /\ Len(<<n>>) = 1
  OBVIOUS
<1> QED BY <1>1

\* Where the node at p was before the one at "at" was taken out.
Was(p, at) == IF p < at THEN p ELSE p + 1

LEMMA TakeNode ==
  ASSUME NEW chain \in Seq(Node), NEW at \in DOMAIN chain
  PROVE  /\ RemoveAt(chain, at) \in Seq(Node)
         /\ DOMAIN RemoveAt(chain, at) = 1 .. Len(chain) - 1
         /\ \A p \in DOMAIN RemoveAt(chain, at) :
              /\ Was(p, at) \in DOMAIN chain \ {at}
              /\ RemoveAt(chain, at)[p] = chain[Was(p, at)]
         /\ \A p \in DOMAIN chain \ {at} :
              \E q \in DOMAIN RemoveAt(chain, at) : RemoveAt(chain, at)[q] = chain[p]
         /\ \A p, q \in DOMAIN RemoveAt(chain, at) : Was(p, at) = Was(q, at) => p = q
<1> DEFINE front == SubSeq(chain, 1, at - 1)
           back == SubSeq(chain, at + 1, Len(chain))
<1>1. Len(chain) \in Nat /\ at \in 1 .. Len(chain) /\ DOMAIN chain = 1 .. Len(chain)
  OBVIOUS
<1>2. /\ front \in Seq(Node) /\ Len(front) = at - 1
      /\ \A p \in 1 .. at - 1 : front[p] = chain[p]
  BY <1>1
<1>3. /\ back \in Seq(Node) /\ Len(back) = Len(chain) - at
      /\ \A p \in 1 .. Len(chain) - at : back[p] = chain[p + at]
  BY <1>1
<1> HIDE DEF front, back
<1>4. RemoveAt(chain, at) = front \o back
  BY DEF RemoveAt, front, back
<1>5. front \o back \in Seq(Node) /\ Len(front \o back) = Len(chain) - 1
  <2>1. front \in Seq(Node) /\ back \in Seq(Node)
    BY <1>2, <1>3
  <2>2. front \o back \in Seq(Node) /\ Len(front \o back) = Len(front) + Len(back)
    BY <2>1, ConcatProperties
  <2> QED BY <1>1, <1>2, <1>3, <2>2
<1>6. \A p \in 1 .. Len(chain) - 1 :
        (front \o back)[p] = IF p < at THEN front[p] ELSE back[p - (at - 1)]
  BY <1>1, <1>2, <1>3
<1>7. \A p \in 1 .. Len(chain) - 1 : (front \o back)[p] = chain[Was(p, at)]
  <2> SUFFICES ASSUME NEW p \in 1 .. Len(chain) - 1
               PROVE  (front \o back)[p] = chain[Was(p, at)]
    OBVIOUS
  <2>1. CASE p < at
    BY <2>1, <1>1, <1>2, <1>6 DEF Was
  <2>2. CASE ~(p < at)
    <3>1. p - (at - 1) \in 1 .. Len(chain) - at /\ (p - (at - 1)) + at = p + 1
      BY <2>2, <1>1
    <3>2. (front \o back)[p] = back[p - (at - 1)]
      BY <2>2, <1>6
    <3>3. back[p - (at - 1)] = chain[p + 1]
      BY <3>1, <1>3
    <3> QED BY <2>2, <3>2, <3>3 DEF Was
  <2> QED BY <2>1, <2>2
<1>8. DOMAIN RemoveAt(chain, at) = 1 .. Len(chain) - 1
  BY <1>4, <1>5
<1>9. \A p \in 1 .. Len(chain) - 1 : Was(p, at) \in DOMAIN chain \ {at}
  BY <1>1 DEF Was
<1>10. \A p \in DOMAIN chain \ {at} :
         \E q \in 1 .. Len(chain) - 1 : Was(q, at) = p
  <2> SUFFICES ASSUME NEW p \in 1 .. Len(chain), p # at
               PROVE  \E q \in 1 .. Len(chain) - 1 : Was(q, at) = p
    BY <1>1
  <2>1. CASE p < at
    <3>1. p \in 1 .. Len(chain) - 1 /\ Was(p, at) = p
      BY <2>1, <1>1 DEF Was
    <3> QED BY <3>1
  <2>2. CASE p > at
    <3>1. p - 1 \in 1 .. Len(chain) - 1 /\ Was(p - 1, at) = p
      BY <2>2, <1>1 DEF Was
    <3> QED BY <3>1
  <2> QED BY <2>1, <2>2, <1>1
<1>11. \A p, q \in 1 .. Len(chain) - 1 : Was(p, at) = Was(q, at) => p = q
  BY <1>1 DEF Was
<1>12. \A p \in DOMAIN chain \ {at} :
         \E q \in 1 .. Len(chain) - 1 : (front \o back)[q] = chain[p]
  BY <1>7, <1>10
<1> QED BY <1>4, <1>5, <1>7, <1>8, <1>9, <1>11, <1>12

LEMMA TailIsTaken ==
  ASSUME NEW chain \in Seq(Node), chain # <<>>
  PROVE  Tail(chain) = RemoveAt(chain, 1) /\ 1 \in DOMAIN chain /\ Head(chain) = chain[1]
<1>1. Len(chain) \in Nat /\ Len(chain) > 0
  BY EmptySeq
<1>2. SubSeq(chain, 1, 0) = <<>>
  BY <1>1
<1>3. SubSeq(chain, 2, Len(chain)) = Tail(chain)
  BY <1>1
<1>4. <<>> \o Tail(chain) = Tail(chain)
  BY <1>1
<1> QED BY <1>1, <1>2, <1>3, <1>4 DEF RemoveAt

\* What linking a node does to an array.
Linked(array, cap, n) == [array EXCEPT ![hash(n.key, cap)] = <<n>> \o @]

LEMMA LinkedArray ==
  ASSUME NEW cap \in Nat \ {0}, NEW array, IsArray(array, cap),
         NEW n \in Node, n.key \notin Keys(array)
  PROVE  /\ IsArray(Linked(array, cap, n), cap)
         /\ Held(Linked(array, cap, n)) = Held(array) \cup {n}
         /\ Keys(Linked(array, cap, n)) = Keys(array) \cup {n.key}
<1> DEFINE h == hash(n.key, cap)
           chain == array[h]
           longer == <<n>> \o chain
           linked == Linked(array, cap, n)
<1>1. h \in 0 .. cap - 1 /\ n.key \in Key
  BY HashInRange DEF Node
<1>2. chain \in Seq(Node)
  BY <1>1 DEF IsArray
<1>3. /\ longer \in Seq(Node) /\ longer[1] = n /\ 1 \in DOMAIN longer
      /\ \A p \in DOMAIN chain :
           p + 1 \in DOMAIN longer /\ longer[p + 1] = chain[p]
      /\ \A p \in DOMAIN longer :
           p \in Nat /\ (p # 1 => p - 1 \in DOMAIN chain /\ longer[p] = chain[p - 1])
  BY <1>2, PushNode
<1>4. /\ linked \in [0 .. cap - 1 -> Seq(Node)] /\ linked[h] = longer
      /\ \A i \in 0 .. cap - 1 : i # h => linked[i] = array[i]
  BY <1>1, <1>2, <1>3 DEF IsArray, Linked
<1> HIDE DEF longer, linked, chain, h
<1>5. \A p \in DOMAIN chain : chain[p].key # n.key /\ hash(chain[p].key, cap) = h
  BY <1>1, HeldIn DEF IsArray, chain
<1>6. \A i \in 0 .. cap - 1 : \A p \in DOMAIN linked[i] : hash(linked[i][p].key, cap) = i
  <2> SUFFICES ASSUME NEW i \in 0 .. cap - 1, NEW p \in DOMAIN linked[i]
               PROVE  hash(linked[i][p].key, cap) = i
    OBVIOUS
  <2>1. CASE i # h
    BY <2>1, <1>4 DEF IsArray
  <2>2. CASE i = h /\ p = 1
    BY <2>2, <1>3, <1>4 DEF h
  <2>3. CASE i = h /\ p # 1
    <3>1. p - 1 \in DOMAIN chain /\ linked[i][p] = chain[p - 1]
      BY <2>3, <1>3, <1>4
    <3> QED BY <2>3, <3>1, <1>5
  <2> QED BY <2>1, <2>2, <2>3
<1>7. \A i \in 0 .. cap - 1 : \A p, q \in DOMAIN linked[i] :
        linked[i][p].key = linked[i][q].key => p = q
  <2> SUFFICES ASSUME NEW i \in 0 .. cap - 1,
                      NEW p \in DOMAIN linked[i], NEW q \in DOMAIN linked[i],
                      linked[i][p].key = linked[i][q].key
               PROVE  p = q
    OBVIOUS
  <2>1. CASE i # h
    BY <2>1, <1>4 DEF IsArray
  <2>2. CASE i = h /\ (p = 1 \/ q = 1)
    BY <2>2, <1>3, <1>4, <1>5
  <2>3. CASE i = h /\ p # 1 /\ q # 1
    <3>1. /\ p \in Nat /\ p - 1 \in DOMAIN chain /\ linked[i][p] = chain[p - 1]
          /\ q \in Nat /\ q - 1 \in DOMAIN chain /\ linked[i][q] = chain[q - 1]
      BY <2>3, <1>3, <1>4
    <3>2. p - 1 = q - 1
      BY <3>1, <1>1 DEF IsArray, chain
    <3> QED BY <3>1, <3>2
  <2> QED BY <2>1, <2>2, <2>3
<1>8. IsArray(linked, cap)
  BY <1>4, <1>6, <1>7 DEF IsArray
<1>9. ASSUME NEW m
      PROVE  m \in Held(linked) <=> m \in Held(array) \cup {n}
  <2>1. ASSUME m \in Held(linked)
        PROVE  m \in Held(array) \cup {n}
    <3>1. PICK i \in 0 .. cap - 1 : \E p \in DOMAIN linked[i] : m = linked[i][p]
      BY <1>8, <2>1, HeldIn
    <3>2. CASE i # h
      BY <3>1, <3>2, <1>4, HeldIn
    <3>3. CASE i = h
      <4>1. m = n \/ \E p \in DOMAIN chain : m = chain[p]
        <5>1. PICK p \in DOMAIN longer : m = longer[p]
          BY <3>1, <3>3, <1>4
        <5> QED BY <5>1, <1>3
      <4> QED BY <4>1, <1>1, HeldIn DEF chain
    <3> QED BY <3>2, <3>3
  <2>2. ASSUME m \in Held(array)
        PROVE  m \in Held(linked)
    <3>1. PICK i \in 0 .. cap - 1 : \E p \in DOMAIN array[i] : m = array[i][p]
      BY <2>2, HeldIn
    <3>2. \E p \in DOMAIN linked[i] : m = linked[i][p]
      BY <3>1, <1>3, <1>4 DEF chain
    <3> QED BY <3>2, <1>8, HeldIn
  <2>3. n \in Held(linked)
    BY <1>1, <1>3, <1>4, <1>8, HeldIn
  <2> QED BY <2>1, <2>2, <2>3
<1>10. Held(linked) = Held(array) \cup {n}
  BY <1>9
<1>11. Keys(linked) = Keys(array) \cup {n.key}
  BY <1>10 DEF Keys
<1> QED BY <1>8, <1>10, <1>11 DEF linked

\* What taking a node out does to an array.
Shortened(array, h, at) == [array EXCEPT ![h] = RemoveAt(@, at)]

LEMMA ShortenedArray ==
  ASSUME NEW cap \in Nat, NEW array, IsArray(array, cap),
         NEW h \in 0 .. cap - 1, NEW at \in DOMAIN array[h]
  PROVE  /\ IsArray(Shortened(array, h, at), cap)
         /\ Held(Shortened(array, h, at)) = Held(array) \ {array[h][at]}
         /\ Keys(Shortened(array, h, at)) = Keys(array) \ {array[h][at].key}
         /\ array[h][at] \in Held(array)
<1> DEFINE chain == array[h]
           rest == RemoveAt(chain, at)
           shorter == Shortened(array, h, at)
           n == array[h][at]
<1>1. chain \in Seq(Node) /\ at \in Nat
  <2>1. chain \in Seq(Node)
    BY DEF IsArray
  <2>2. \A s \in Seq(Node) : DOMAIN s = 1 .. Len(s)
    OBVIOUS
  <2> QED BY <2>1, <2>2
<1>2. /\ rest \in Seq(Node)
      /\ \A p \in DOMAIN rest :
           Was(p, at) \in DOMAIN chain \ {at} /\ rest[p] = chain[Was(p, at)]
      /\ \A p \in DOMAIN chain \ {at} : \E q \in DOMAIN rest : rest[q] = chain[p]
      /\ \A p, q \in DOMAIN rest : Was(p, at) = Was(q, at) => p = q
  <2> HIDE DEF chain
  <2>1. at \in DOMAIN chain
    BY DEF chain
  <2> QED BY <1>1, <2>1, TakeNode
<1>4. /\ shorter \in [0 .. cap - 1 -> Seq(Node)] /\ shorter[h] = rest
      /\ \A i \in 0 .. cap - 1 : i # h => shorter[i] = array[i]
  BY <1>2 DEF IsArray, Shortened
<1> HIDE DEF chain, rest, shorter
<1>5. \A p, q \in DOMAIN chain : chain[p].key = chain[q].key => p = q
  BY DEF IsArray, chain
<1>6. \A i \in 0 .. cap - 1 : \A p \in DOMAIN shorter[i] : hash(shorter[i][p].key, cap) = i
  <2> SUFFICES ASSUME NEW i \in 0 .. cap - 1, NEW p \in DOMAIN shorter[i]
               PROVE  hash(shorter[i][p].key, cap) = i
    OBVIOUS
  <2>1. CASE i # h
    BY <2>1, <1>4 DEF IsArray
  <2>2. CASE i = h
    <3>1. shorter[i][p] = chain[Was(p, at)] /\ Was(p, at) \in DOMAIN chain
      BY <2>2, <1>2, <1>4
    <3> QED BY <2>2, <3>1 DEF IsArray, chain
  <2> QED BY <2>1, <2>2
<1>7. \A i \in 0 .. cap - 1 : \A p, q \in DOMAIN shorter[i] :
        shorter[i][p].key = shorter[i][q].key => p = q
  <2> SUFFICES ASSUME NEW i \in 0 .. cap - 1,
                      NEW p \in DOMAIN shorter[i], NEW q \in DOMAIN shorter[i],
                      shorter[i][p].key = shorter[i][q].key
               PROVE  p = q
    OBVIOUS
  <2>1. CASE i # h
    BY <2>1, <1>4 DEF IsArray
  <2>2. CASE i = h
    <3>1. p \in DOMAIN rest /\ q \in DOMAIN rest /\ rest[p].key = rest[q].key
      BY <2>2, <1>4
    <3>2. Was(p, at) = Was(q, at)
      BY <3>1, <1>2, <1>5
    <3> QED BY <3>1, <3>2, <1>2
  <2> QED BY <2>1, <2>2
<1>8. IsArray(shorter, cap)
  BY <1>4, <1>6, <1>7 DEF IsArray
<1>9. n = chain[at] /\ n \in Held(array)
  BY HeldIn DEF chain
<1>10. ASSUME NEW m \in Held(shorter)
       PROVE  m \in Held(array) /\ m.key # n.key
  <2>1. PICK i \in 0 .. cap - 1 : \E p \in DOMAIN shorter[i] : m = shorter[i][p]
    BY <1>8, HeldIn
  <2>2. CASE i # h
    <3>1. PICK p \in DOMAIN array[i] : m = array[i][p]
      BY <2>1, <2>2, <1>4
    <3>2. m \in Held(array)
      BY <3>1, HeldIn
    <3>3. hash(m.key, cap) = i /\ hash(n.key, cap) = h
      BY <3>1 DEF IsArray
    <3> QED BY <3>2, <3>3, <2>2
  <2>3. CASE i = h
    <3>1. PICK p \in DOMAIN rest : m = rest[p]
      BY <2>1, <2>3, <1>4
    <3>2. m = chain[Was(p, at)] /\ Was(p, at) \in DOMAIN chain /\ Was(p, at) # at
      BY <3>1, <1>2
    <3>3. m.key # n.key
      BY <3>2, <1>5, <1>9 DEF chain
    <3> QED BY <3>2, <3>3, HeldIn DEF chain
  <2> QED BY <2>2, <2>3
<1>11. ASSUME NEW m \in Held(array), m # n
       PROVE  m \in Held(shorter)
  <2>1. PICK i \in 0 .. cap - 1 : \E p \in DOMAIN array[i] : m = array[i][p]
    BY HeldIn
  <2>2. CASE i # h
    BY <2>1, <2>2, <1>4, <1>8, HeldIn
  <2>3. CASE i = h
    <3>1. PICK p \in DOMAIN chain : m = chain[p]
      BY <2>1, <2>3 DEF chain
    <3>2. p # at
      BY <3>1, <1>9, <1>11
    <3>3. \E q \in DOMAIN shorter[h] : m = shorter[h][q]
      BY <3>1, <3>2, <1>2, <1>4
    <3> QED BY <3>3, <1>8, HeldIn
  <2> QED BY <2>2, <2>3
<1>12. Held(shorter) = Held(array) \ {n}
  BY <1>10, <1>11
<1>13. Keys(shorter) = Keys(array) \ {n.key}
  BY <1>9, <1>10, <1>12, OneNode DEF Keys
<1> QED BY <1>8, <1>9, <1>12, <1>13 DEF shorter

-----------------------------------------------------------------------------
\* The inductive invariant

\* Both arrays are well formed, the one in use and the one a rehash empties.
ArraysInv ==
  /\ capacity \in Nat \ {0} /\ old_capacity \in Nat /\ index \in 0 .. old_capacity
  /\ IsArray(buckets, capacity) /\ IsArray(old_buckets, old_capacity)
  /\ new_node \in Node \cup {NoNode}

\* The size is that of the array in use.
CountInv ==
  /\ IsFiniteSet(Keys(buckets)) /\ IsFiniteSet(Keys(old_buckets))
  /\ size = Cardinality(Keys(buckets))

\* A rehash has emptied the buckets before index, no key is in both arrays, and
\* the key that is being added is in neither.
RehashInv ==
  /\ \A j \in 0 .. index - 1 : old_buckets[j] = <<>>
  /\ Keys(buckets) \cap Keys(old_buckets) = {}
  /\ Idle => old_capacity = 0
  /\ ~Idle => new_node.key \notin Keys(buckets) \cup Keys(old_buckets)

\* There is room for the node that is being added: in the array in use, or in
\* the one a rehash fills, which was not overloaded when it was half as large.
LoadInv ==
  /\ Idle => 4 * size <= 3 * capacity
  /\ ~Idle /\ old_capacity = 0 => 4 * (size + 1) <= 3 * capacity
  /\ old_capacity > 0 =>
       /\ capacity = 2 * old_capacity
       /\ 4 * (size + Cardinality(Keys(old_buckets))) <= 3 * old_capacity

Inv == ArraysInv /\ CountInv /\ RehashInv /\ LoadInv

\* The nodes of the map, in whichever array they are.
Nodes == Held(buckets) \cup Held(old_buckets)

\* A set with one element more, and one element less.
LEMMA OneMore ==
  ASSUME NEW S, IsFiniteSet(S), NEW x, x \notin S, NEW T, T = S \cup {x}
  PROVE  IsFiniteSet(T) /\ Cardinality(T) = Cardinality(S) + 1
  BY FS_AddElement

LEMMA OneLess ==
  ASSUME NEW S, IsFiniteSet(S), NEW x, x \in S, NEW T, T = S \ {x}
  PROVE  IsFiniteSet(T) /\ Cardinality(T) = Cardinality(S) - 1
  BY FS_RemoveElement

LEMMA NoNodeIsNone == NoNode \notin Node
  BY DEF NoNode, Node

LEMMA InvInit == Init => Inv /\ Nodes = {}
<1> SUFFICES ASSUME Init
             PROVE  Inv /\ Nodes = {}
  OBVIOUS
<1> USE DEF Init
<1>1. IsArray(buckets, capacity) /\ Held(buckets) = {} /\ Keys(buckets) = {}
  BY EmptyArray
<1>2. IsArray(old_buckets, old_capacity) /\ Held(old_buckets) = {} /\ Keys(old_buckets) = {}
  BY EmptyArray
<1>3. IsFiniteSet({}) /\ Cardinality({}) = 0
  BY FS_EmptySet
<1>4. ArraysInv
  BY <1>1, <1>2 DEF ArraysInv
<1>5. CountInv
  BY <1>1, <1>2, <1>3 DEF CountInv
<1>6. RehashInv
  BY <1>1, <1>2 DEF RehashInv, Idle
<1>7. LoadInv
  BY DEF LoadInv, Idle
<1> QED BY <1>1, <1>2, <1>4, <1>5, <1>6, <1>7 DEF Inv, Nodes

\* A map that is not being added to has one array.
LEMMA IdleMap ==
  ASSUME Inv, Idle
  PROVE  /\ old_capacity = 0 /\ index = 0
         /\ Held(old_buckets) = {} /\ Keys(old_buckets) = {} /\ Nodes = Held(buckets)
<1>1. old_capacity = 0 /\ index = 0
  BY DEF Inv, RehashInv, ArraysInv
<1>2. DOMAIN old_buckets = {}
  BY <1>1 DEF Inv, ArraysInv, IsArray
<1> QED BY <1>1, <1>2 DEF Nodes, Held, Keys

\* A key that the array has not is not in its bucket either.
LEMMA KeyContained ==
  ASSUME Inv, NEW k \in Key
  PROVE  /\ hashmap_contains(k) <=> k \in Keys(buckets)
         /\ k \in Keys(buckets) =>
              /\ hash(k, capacity) \in 0 .. capacity - 1
              /\ FirstOf(Chain(k), k) \in DOMAIN Chain(k)
              /\ Chain(k)[FirstOf(Chain(k), k)] \in Held(buckets)
              /\ Chain(k)[FirstOf(Chain(k), k)].key = k
<1>1. capacity \in Nat \ {0} /\ IsArray(buckets, capacity)
  BY DEF Inv, ArraysInv
<1>2. hash(k, capacity) \in 0 .. capacity - 1
  BY <1>1, HashInRange
<1> HIDE DEF Chain
<1>3. /\ (\E p \in DOMAIN Chain(k) : Chain(k)[p].key = k) <=> k \in Keys(buckets)
      /\ k \in Keys(buckets) =>
           /\ FirstOf(Chain(k), k) \in DOMAIN Chain(k)
           /\ Chain(k)[FirstOf(Chain(k), k)].key = k
           /\ Chain(k)[FirstOf(Chain(k), k)] \in Held(buckets)
  BY <1>1, FirstOfChain DEF Chain
<1> QED BY <1>2, <1>3 DEF hashmap_contains

LEMMA AddStep ==
  ASSUME Inv, NEW k \in Key, NEW v \in Value, hashmap_add(k, v)
  PROVE  Inv' /\ Nodes' = Nodes /\ last' = last
<1> USE DEF hashmap_add
<1>1. /\ old_capacity = 0 /\ index = 0
      /\ Held(old_buckets) = {} /\ Keys(old_buckets) = {} /\ Nodes = Held(buckets)
  BY IdleMap
<1>2. k \notin Keys(buckets)
  BY KeyContained
<1>3. new_node' \in Node /\ new_node'.key = k /\ ~Idle'
  BY NoNodeIsNone DEF Node, Idle
<1>4. IsFiniteSet(Keys(buckets)) /\ size = Cardinality(Keys(buckets)) /\ size \in Nat
  BY FS_CardinalityType DEF Inv, CountInv
<1>5. 4 * size <= 3 * capacity /\ capacity \in Nat \ {0}
  BY DEF Inv, LoadInv, ArraysInv
<1>6. CASE Crowded
  <2>1. /\ old_capacity' = capacity /\ old_buckets' = buckets /\ index' = 0
        /\ capacity' = 2 * capacity /\ buckets' = Empty(2 * capacity) /\ size' = 0
    BY <1>6
  <2>2. IsArray(buckets', capacity') /\ Held(buckets') = {} /\ Keys(buckets') = {}
    BY <1>5, <2>1, EmptyArray
  <2>3. IsFiniteSet({}) /\ Cardinality({}) = 0
    BY FS_EmptySet
  <2>4. ArraysInv'
    BY <1>3, <1>5, <2>1, <2>2 DEF Inv, ArraysInv
  <2>5. CountInv'
    BY <1>4, <2>1, <2>2, <2>3 DEF CountInv
  <2>6. RehashInv'
    BY <1>2, <1>3, <2>1, <2>2 DEF RehashInv
  <2>7. LoadInv'
    BY <1>3, <1>4, <1>5, <2>1 DEF LoadInv
  <2> QED BY <1>1, <2>1, <2>2, <2>4, <2>5, <2>6, <2>7 DEF Inv, Nodes
<1>7. CASE ~Crowded
  <2>1. UNCHANGED <<capacity, buckets, size, old_capacity, old_buckets, index>>
    BY <1>7 DEF rehash
  <2>2. ArraysInv'
    BY <1>3, <2>1 DEF Inv, ArraysInv
  <2>3. CountInv'
    BY <2>1 DEF Inv, CountInv
  <2>4. RehashInv'
    BY <1>1, <1>2, <1>3, <2>1 DEF Inv, RehashInv
  <2>5. LoadInv'
    BY <1>1, <1>3, <1>4, <1>5, <1>7, <2>1 DEF LoadInv, Crowded
  <2> QED BY <2>1, <2>2, <2>3, <2>4, <2>5 DEF Inv, Nodes
<1> QED BY <1>6, <1>7

LEMMA RehashNodeStep ==
  ASSUME Inv, RehashNode
  PROVE  Inv' /\ Nodes' = Nodes /\ last' = last
<1> DEFINE chain == old_buckets[index]
           n == chain[1]
<1>1. /\ capacity \in Nat \ {0} /\ IsArray(buckets, capacity)
      /\ old_capacity \in Nat /\ IsArray(old_buckets, old_capacity)
      /\ index \in 0 .. old_capacity - 1 /\ old_capacity > 0
  BY DEF Inv, ArraysInv, RehashNode
<1>2. chain \in Seq(Node) /\ chain # <<>>
  BY <1>1 DEF IsArray, RehashNode
<1>3. Tail(chain) = RemoveAt(chain, 1) /\ 1 \in DOMAIN chain /\ Head(chain) = n
  BY <1>2, TailIsTaken
<1>4. /\ old_buckets' = Shortened(old_buckets, index, 1)
      /\ buckets' = Linked(buckets, capacity, n)
      /\ size' = size + 1
      /\ UNCHANGED <<capacity, old_capacity, index, new_node, last>>
  BY <1>3 DEF RehashNode, Link, Linked, Shortened
<1>5. /\ IsArray(old_buckets', old_capacity)
      /\ Held(old_buckets') = Held(old_buckets) \ {n}
      /\ Keys(old_buckets') = Keys(old_buckets) \ {n.key}
      /\ n \in Held(old_buckets)
  BY <1>1, <1>3, <1>4, ShortenedArray
<1> HIDE DEF n
<1>6. n \in Node /\ n.key \in Keys(old_buckets)
  BY <1>1, <1>5, HeldIn
<1>7. /\ Keys(buckets) \cap Keys(old_buckets) = {} /\ ~Idle
      /\ new_node.key \notin Keys(buckets) \cup Keys(old_buckets)
  BY <1>1 DEF Inv, RehashInv
<1>8. n.key \notin Keys(buckets)
  BY <1>6, <1>7
<1>9. /\ IsArray(buckets', capacity)
      /\ Held(buckets') = Held(buckets) \cup {n}
      /\ Keys(buckets') = Keys(buckets) \cup {n.key}
  BY <1>1, <1>4, <1>6, <1>8, LinkedArray
<1>10. /\ IsFiniteSet(Keys(buckets')) /\ IsFiniteSet(Keys(old_buckets'))
       /\ Cardinality(Keys(buckets')) = size + 1
       /\ Cardinality(Keys(old_buckets')) = Cardinality(Keys(old_buckets)) - 1
       /\ size \in Nat /\ Cardinality(Keys(old_buckets)) \in Nat
  <2>1. /\ IsFiniteSet(Keys(buckets)) /\ IsFiniteSet(Keys(old_buckets))
        /\ size = Cardinality(Keys(buckets))
    BY DEF Inv, CountInv
  <2>2. IsFiniteSet(Keys(buckets')) /\ Cardinality(Keys(buckets')) = size + 1
    BY <2>1, <1>8, <1>9, OneMore
  <2>3. /\ IsFiniteSet(Keys(old_buckets'))
        /\ Cardinality(Keys(old_buckets')) = Cardinality(Keys(old_buckets)) - 1
    BY <2>1, <1>5, <1>6, OneLess
  <2> QED BY <2>1, <2>2, <2>3, FS_CardinalityType
<1>11. ArraysInv'
  BY <1>1, <1>4, <1>5, <1>9 DEF Inv, ArraysInv
<1>12. CountInv'
  BY <1>4, <1>10 DEF CountInv
<1>13. RehashInv'
  <2>1. \A j \in 0 .. index' - 1 : old_buckets'[j] = <<>>
    <3>1. DOMAIN old_buckets = 0 .. old_capacity - 1
      BY <1>1 DEF IsArray
    <3>2. \A j \in DOMAIN old_buckets : j # index => old_buckets'[j] = old_buckets[j]
      BY <1>4 DEF Shortened
    <3>3. \A j \in 0 .. index - 1 : j \in DOMAIN old_buckets /\ j # index
      BY <1>1, <3>1
    <3> QED BY <1>4, <3>2, <3>3 DEF Inv, RehashInv
  <2>2. Idle' = Idle
    BY <1>4 DEF Idle
  <2>3. Keys(buckets') \cap Keys(old_buckets') = {}
    BY <1>5, <1>7, <1>9
  <2>4. new_node'.key \notin Keys(buckets') \cup Keys(old_buckets')
    BY <1>4, <1>5, <1>6, <1>7, <1>9
  <2> QED BY <2>1, <2>2, <2>3, <2>4, <1>7 DEF RehashInv
<1>14. LoadInv'
  <2>1. /\ capacity = 2 * old_capacity
        /\ 4 * (size + Cardinality(Keys(old_buckets))) <= 3 * old_capacity
    BY <1>1 DEF Inv, LoadInv
  <2>2. 4 * (size' + Cardinality(Keys(old_buckets'))) <= 3 * old_capacity'
    BY <2>1, <1>1, <1>4, <1>10
  <2> QED BY <2>1, <2>2, <1>1, <1>4, <1>7 DEF LoadInv, Idle
<1>15. Nodes' = Nodes
  BY <1>5, <1>9 DEF Nodes
<1> QED BY <1>4, <1>11, <1>12, <1>13, <1>14, <1>15 DEF Inv

LEMMA RehashBucketStep ==
  ASSUME Inv, RehashBucket
  PROVE  Inv' /\ Nodes' = Nodes /\ last' = last
<1> USE DEF RehashBucket
<1>1. ArraysInv'
  BY DEF Inv, ArraysInv
<1>2. CountInv'
  BY DEF Inv, CountInv
<1>3. RehashInv'
  <2>1. \A j \in 0 .. index' - 1 : j \in 0 .. index - 1 \/ j = index
    BY DEF Inv, ArraysInv
  <2> QED BY <2>1 DEF Inv, RehashInv, Idle
<1>4. LoadInv'
  BY DEF Inv, LoadInv, Idle
<1> QED BY <1>1, <1>2, <1>3, <1>4 DEF Inv, Nodes

\* A rehash that has come to its end has emptied the old array.
LEMMA OldEmpty ==
  ASSUME Inv, index = old_capacity
  PROVE  Held(old_buckets) = {} /\ Keys(old_buckets) = {}
<1>1. \A j \in DOMAIN old_buckets : DOMAIN old_buckets[j] = {}
  BY DEF Inv, ArraysInv, RehashInv, IsArray
<1> QED BY <1>1 DEF Held, Keys

LEMMA InsertStep ==
  ASSUME Inv, Insert
  PROVE  /\ Inv' /\ Nodes' = Nodes \cup {new_node}
         /\ last' = Ended("add", new_node.key, NULL)
         /\ new_node \in Node /\ \A n \in Nodes : n.key # new_node.key
<1> USE DEF Insert
<1>1. /\ capacity \in Nat \ {0} /\ IsArray(buckets, capacity)
      /\ old_capacity \in Nat /\ IsArray(old_buckets, old_capacity)
      /\ new_node \in Node
  BY DEF Inv, ArraysInv, Idle
<1>2. Held(old_buckets) = {} /\ Keys(old_buckets) = {} /\ new_node.key \notin Keys(buckets)
  BY OldEmpty DEF Inv, RehashInv
<1>3. /\ IsArray(buckets', capacity)
      /\ Held(buckets') = Held(buckets) \cup {new_node}
      /\ Keys(buckets') = Keys(buckets) \cup {new_node.key}
  <2>1. buckets' = Linked(buckets, capacity, new_node)
    BY DEF Link, Linked
  <2> QED BY <1>1, <1>2, <2>1, LinkedArray
<1>4. IsArray(old_buckets', 0) /\ Held(old_buckets') = {} /\ Keys(old_buckets') = {}
  BY EmptyArray
<1>5. /\ IsFiniteSet(Keys(buckets')) /\ Cardinality(Keys(buckets')) = size + 1
      /\ size \in Nat
      /\ IsFiniteSet({}) /\ Cardinality({}) = 0
  BY <1>2, <1>3, FS_AddElement, FS_EmptySet, FS_CardinalityType DEF Inv, CountInv
<1>6. ArraysInv'
  BY <1>1, <1>3, <1>4 DEF ArraysInv
<1>7. CountInv'
  BY <1>4, <1>5 DEF CountInv
<1>8. RehashInv'
  BY <1>3, <1>4 DEF RehashInv, Idle
<1>9. 4 * (size + 1) <= 3 * capacity
  <2>1. CASE old_capacity = 0
    BY <2>1 DEF Inv, LoadInv
  <2>2. CASE old_capacity > 0
    <3>1. capacity = 2 * old_capacity /\ 4 * (size + 0) <= 3 * old_capacity
      BY <2>2, <1>2, <1>5 DEF Inv, LoadInv
    <3> QED BY <3>1, <2>2, <1>1, <1>5
  <2> QED BY <2>1, <2>2, <1>1
<1>10. LoadInv'
  BY <1>9 DEF LoadInv, Idle
<1>11. \A n \in Nodes : n.key # new_node.key
  BY <1>1, <1>2, HeldIn DEF Nodes
<1> QED BY <1>1, <1>2, <1>3, <1>4, <1>6, <1>7, <1>8, <1>10, <1>11 DEF Inv, Nodes

LEMMA RemoveStep ==
  ASSUME Inv, NEW k \in Key, hashmap_remove(k)
  PROVE  /\ Inv' /\ last' = Ended("remove", k, NULL)
         /\ \E n \in Nodes : n.key = k /\ Nodes' = Nodes \ {n}
<1> DEFINE h == hash(k, capacity)
           at == FirstOf(buckets[h], k)
           n == buckets[h][at]
<1>1. /\ old_capacity = 0 /\ index = 0
      /\ Held(old_buckets) = {} /\ Keys(old_buckets) = {} /\ Nodes = Held(buckets)
  BY IdleMap DEF hashmap_remove
<1>2. /\ capacity \in Nat \ {0} /\ IsArray(buckets, capacity)
  BY DEF Inv, ArraysInv
<1>3. /\ k \in Keys(buckets) /\ h \in 0 .. capacity - 1 /\ at \in DOMAIN buckets[h]
      /\ n \in Held(buckets) /\ n.key = k
  BY KeyContained DEF Chain, hashmap_remove
<1>4. buckets' = Shortened(buckets, h, at)
  BY <1>2, <1>3 DEF IsArray, Shortened, hashmap_remove
<1> HIDE DEF h, at
<1>5. /\ IsArray(buckets', capacity)
      /\ Held(buckets') = Held(buckets) \ {n}
      /\ Keys(buckets') = Keys(buckets) \ {n.key}
  <2>1. capacity \in Nat /\ IsArray(buckets, capacity) /\ h \in 0 .. capacity - 1
        /\ at \in DOMAIN buckets[h]
    BY <1>2, <1>3
  <2>2. /\ IsArray(Shortened(buckets, h, at), capacity)
        /\ Held(Shortened(buckets, h, at)) = Held(buckets) \ {n}
        /\ Keys(Shortened(buckets, h, at)) = Keys(buckets) \ {n.key}
    BY <2>1, ShortenedArray
  <2> QED BY <2>2, <1>4
<1> HIDE DEF n
<1>6. /\ IsFiniteSet(Keys(buckets)) /\ size = Cardinality(Keys(buckets)) /\ size \in Nat
      /\ IsFiniteSet(Keys(buckets')) /\ Cardinality(Keys(buckets')) = size - 1
  <2>1. IsFiniteSet(Keys(buckets)) /\ size = Cardinality(Keys(buckets))
    BY DEF Inv, CountInv
  <2>2. n.key \in Keys(buckets)
    BY <1>3
  <2>3. IsFiniteSet(Keys(buckets')) /\ Cardinality(Keys(buckets')) = Cardinality(Keys(buckets)) - 1
    BY <2>1, <2>2, <1>5, OneLess
  <2> QED BY <2>1, <2>3, FS_CardinalityType
<1>7. /\ UNCHANGED <<capacity, old_capacity, old_buckets, index, new_node>> /\ size' = size - 1
      /\ Idle /\ last' = Ended("remove", k, NULL)
  BY DEF rehash, hashmap_remove
<1>8. ArraysInv'
  BY <1>5, <1>7 DEF Inv, ArraysInv
<1>9. CountInv'
  BY <1>6, <1>7 DEF Inv, CountInv
<1>10. RehashInv'
  BY <1>1, <1>7 DEF Inv, RehashInv, Idle
<1>11. LoadInv'
  BY <1>1, <1>2, <1>6, <1>7 DEF Inv, LoadInv, Idle
<1>12. Nodes' = Nodes \ {n}
  BY <1>1, <1>5, <1>7 DEF Nodes
<1> QED BY <1>1, <1>3, <1>7, <1>8, <1>9, <1>10, <1>11, <1>12 DEF Inv

LEMMA GetStep ==
  ASSUME Inv, NEW k \in Key, hashmap_get(k)
  PROVE  /\ Inv' /\ Nodes' = Nodes
         /\ \/ last' = Ended("get", k, NULL) /\ \A n \in Nodes : n.key # k
            \/ \E n \in Nodes : n.key = k /\ last' = Ended("get", k, n.value)
<1>1. /\ UNCHANGED <<capacity, size, buckets, old_capacity, old_buckets, index, new_node>>
      /\ Idle
  BY DEF hashmap_get, rehash
<1>2. Nodes = Held(buckets)
  BY <1>1, IdleMap
<1>3. Inv' /\ Nodes' = Nodes
  BY <1>1 DEF Inv, ArraysInv, CountInv, RehashInv, LoadInv, Idle, Nodes
<1>4. CASE hashmap_contains(k)
  BY <1>2, <1>3, <1>4, KeyContained DEF hashmap_get
<1>5. CASE ~hashmap_contains(k)
  <2>1. k \notin Keys(buckets) /\ last' = Ended("get", k, NULL)
    BY <1>5, KeyContained DEF hashmap_get
  <2>2. \A n \in Nodes : n.key # k
    BY <1>2, <2>1 DEF Keys
  <2> QED BY <1>3, <2>1, <2>2
<1> QED BY <1>4, <1>5

LEMMA InvNext == Inv /\ [Next]_vars => Inv'
<1> SUFFICES ASSUME Inv, [Next]_vars
             PROVE  Inv'
  OBVIOUS
<1>1. ASSUME NEW k \in Key, hashmap_remove(k)
      PROVE  Inv'
  BY <1>1, RemoveStep
<1>2. ASSUME NEW k \in Key, hashmap_get(k)
      PROVE  Inv'
  BY <1>2, GetStep
<1>3. ASSUME NEW k \in Key, NEW v \in Value, hashmap_add(k, v)
      PROVE  Inv'
  BY <1>3, AddStep
<1>4. CASE RehashNode
  BY <1>4, RehashNodeStep
<1>5. CASE RehashBucket
  BY <1>5, RehashBucketStep
<1>6. CASE Insert
  BY <1>6, InsertStep
<1>7. CASE UNCHANGED vars
  BY <1>7 DEF vars, rehash, Inv, ArraysInv, CountInv, RehashInv, LoadInv, Idle
<1> QED BY <1>1, <1>2, <1>3, <1>4, <1>5, <1>6, <1>7 DEF Next

LEMMA Invariance == Spec => []Inv
<1>1. Init => Inv
  BY InvInit
<1> QED BY <1>1, InvNext, PTL DEF Spec

-----------------------------------------------------------------------------
\* Theorems

\* In every state, also between two turns of the loops of hashmap_rehash, each
\* node is in the chain that hash() names, no key has two nodes, and size is
\* the number of keys in the array in use.
THEOREM MapWellFormed == Spec => []WellFormed
<1>1. Inv => WellFormed
  <2> SUFFICES ASSUME Inv
               PROVE  WellFormed
    OBVIOUS
  <2>1. DOMAIN buckets = 0 .. capacity - 1
    BY DEF Inv, ArraysInv, IsArray
  <2> QED BY <2>1 DEF Inv, ArraysInv, CountInv, IsArray, WellFormed
<1> QED BY <1>1, Invariance, PTL

\* hashmap_add doubles the capacity in time: the map is never more than three
\* quarters full, also while a rehash fills the new array.
THEOREM LoadBounded == Spec => []LoadBound
<1>1. Inv => LoadBound
  <2> SUFFICES ASSUME Inv
               PROVE  LoadBound
    OBVIOUS
  <2>1. /\ size \in Nat /\ Cardinality(Keys(old_buckets)) \in Nat
        /\ capacity \in Nat /\ old_capacity \in Nat
    BY FS_CardinalityType DEF Inv, CountInv, ArraysInv
  <2>2. CASE old_capacity = 0
    BY <2>1, <2>2 DEF Inv, LoadInv, LoadBound
  <2>3. CASE old_capacity > 0
    BY <2>1, <2>3 DEF Inv, LoadInv, LoadBound
  <2> QED BY <2>1, <2>2, <2>3
<1> QED BY <1>1, Invariance, PTL

-----------------------------------------------------------------------------
\* The refinement

\* What the entry of a key is, when a key has at most one node.
LEMMA EntryOfNode ==
  ASSUME NEW nodes, NEW n \in nodes, \A m \in nodes : m.key = n.key => m = n
  PROVE  EntryIn(nodes, n.key) = n.value
  BY DEF EntryIn

LEMMA EntryOfNone ==
  ASSUME NEW nodes, NEW k, \A m \in nodes : m.key # k
  PROVE  EntryIn(nodes, k) = NULL
  BY DEF EntryIn

\* A key has at most one node in the map, whichever array it is in.
LEMMA OneNodeOfMap ==
  ASSUME Inv
  PROVE  \A m, n \in Nodes : m.key = n.key => m = n
<1>1. /\ capacity \in Nat /\ IsArray(buckets, capacity)
      /\ old_capacity \in Nat /\ IsArray(old_buckets, old_capacity)
      /\ Keys(buckets) \cap Keys(old_buckets) = {}
  BY DEF Inv, ArraysInv, RehashInv
<1> SUFFICES ASSUME NEW m \in Nodes, NEW n \in Nodes, m.key = n.key
             PROVE  m = n
  OBVIOUS
<1>2. CASE m \in Held(buckets) /\ n \in Held(buckets)
  BY <1>1, <1>2, OneNode
<1>3. CASE m \in Held(old_buckets) /\ n \in Held(old_buckets)
  BY <1>1, <1>3, OneNode
<1>4. CASE m \in Held(buckets) /\ n \in Held(old_buckets)
  BY <1>1, <1>4 DEF Keys
<1>5. CASE m \in Held(old_buckets) /\ n \in Held(buckets)
  BY <1>1, <1>5 DEF Keys
<1> QED BY <1>2, <1>3, <1>4, <1>5 DEF Nodes

Entries == [k \in Key |-> Entry(k)]

LEMMA EntriesOfNodes == Entries = [k \in Key |-> EntryIn(Nodes, k)]
  BY DEF Entries, Entry, Nodes

\* Linking the new node is the abstract addition, of a key without an entry.
LEMMA InsertEntry ==
  ASSUME Inv, Insert
  PROVE  \E k \in Key, v \in Value : Abstract!Add(k, v)
<1> DEFINE k == new_node.key
           v == new_node.value
<1>1. /\ Inv' /\ Nodes' = Nodes \cup {new_node} /\ last' = Ended("add", k, NULL)
      /\ new_node \in Node /\ \A n \in Nodes : n.key # k
  BY InsertStep
<1>2. k \in Key /\ v \in Value
  BY <1>1 DEF Node
<1>3. EntryIn(Nodes, k) = NULL
  BY <1>1, EntryOfNone
<1>4. EntryIn(Nodes', k) = v
  <2>1. \A m \in Nodes' : m.key = new_node.key => m = new_node
    BY <1>1
  <2> QED BY <1>1, <2>1, EntryOfNode
<1>5. ASSUME NEW j \in Key, j # k
      PROVE  EntryIn(Nodes', j) = EntryIn(Nodes, j)
  <2>1. CASE \E n \in Nodes : n.key = j
    <3>1. PICK n \in Nodes : n.key = j
      BY <2>1
    <3>2. EntryIn(Nodes, j) = n.value
      BY <3>1, OneNodeOfMap, EntryOfNode
    <3>3. \A m \in Nodes' : m.key = n.key => m = n
      BY <1>1, <1>5, <3>1, OneNodeOfMap
    <3>4. EntryIn(Nodes', j) = n.value
      BY <1>1, <3>1, <3>3, EntryOfNode
    <3> QED BY <3>2, <3>4
  <2>2. CASE \A n \in Nodes : n.key # j
    <3>1. \A n \in Nodes' : n.key # j
      BY <1>1, <1>5, <2>2
    <3> QED BY <2>2, <3>1, EntryOfNone
  <2> QED BY <2>1, <2>2
<1> HIDE DEF k, v
<1>6. Entries' = [Entries EXCEPT ![k] = v] /\ Entries[k] = NULL
  <2>1. Entries' = [j \in Key |-> EntryIn(Nodes', j)]
    BY DEF Entries, Entry, Nodes
  <2> QED BY <1>2, <1>3, <1>4, <1>5, <2>1, EntriesOfNodes
<1>7. Abstract!Add(k, v)
  BY <1>1, <1>6 DEF Abstract!Add, Abstract!Ended, Ended, Entries
<1> QED BY <1>2, <1>7

\* Unlinking a node is the abstract removal.
LEMMA RemoveEntry ==
  ASSUME Inv, NEW k \in Key, hashmap_remove(k)
  PROVE  Abstract!Remove(k)
<1>1. last' = Ended("remove", k, NULL) /\ \E n \in Nodes : n.key = k /\ Nodes' = Nodes \ {n}
  BY RemoveStep
<1>2. PICK r \in Nodes : r.key = k /\ Nodes' = Nodes \ {r}
  BY <1>1
<1>3. EntryIn(Nodes', k) = NULL
  <2>1. \A n \in Nodes' : n.key # k
    BY <1>2, OneNodeOfMap
  <2> QED BY <2>1, EntryOfNone
<1>4. ASSUME NEW j \in Key, j # k
      PROVE  EntryIn(Nodes', j) = EntryIn(Nodes, j)
  <2>1. CASE \E n \in Nodes : n.key = j
    <3>1. PICK n \in Nodes : n.key = j
      BY <2>1
    <3>2. EntryIn(Nodes, j) = n.value
      BY <3>1, OneNodeOfMap, EntryOfNode
    <3>3. n \in Nodes' /\ \A m \in Nodes' : m.key = n.key => m = n
      BY <1>2, <1>4, <3>1, OneNodeOfMap
    <3>4. EntryIn(Nodes', j) = n.value
      BY <3>1, <3>3, EntryOfNode
    <3> QED BY <3>2, <3>4
  <2>2. CASE \A n \in Nodes : n.key # j
    <3>1. \A n \in Nodes' : n.key # j
      BY <1>2, <2>2
    <3> QED BY <2>2, <3>1, EntryOfNone
  <2> QED BY <2>1, <2>2
<1>5. Entries' = [Entries EXCEPT ![k] = NULL]
  <2>1. Entries' = [j \in Key |-> EntryIn(Nodes', j)]
    BY DEF Entries, Entry, Nodes
  <2> QED BY <1>3, <1>4, <2>1, EntriesOfNodes
<1> QED BY <1>1, <1>5 DEF Abstract!Remove, Abstract!Ended, Ended, Entries

\* What hashmap_get returns is the entry.
LEMMA GetEntry ==
  ASSUME Inv, NEW k \in Key, hashmap_get(k)
  PROVE  Abstract!Get(k)
<1>1. Nodes' = Nodes
  BY GetStep
<1>2. last' = Ended("get", k, EntryIn(Nodes, k))
  <2>1. CASE last' = Ended("get", k, NULL) /\ \A n \in Nodes : n.key # k
    BY <2>1, EntryOfNone
  <2>2. CASE \E n \in Nodes : n.key = k /\ last' = Ended("get", k, n.value)
    <3>1. PICK n \in Nodes : n.key = k /\ last' = Ended("get", k, n.value)
      BY <2>2
    <3> QED BY <3>1, OneNodeOfMap, EntryOfNode
  <2> QED BY <2>1, <2>2, GetStep
<1>3. Entries' = Entries /\ Entries[k] = EntryIn(Nodes, k)
  BY <1>1 DEF Entries, Entry, Nodes
<1> QED BY <1>2, <1>3 DEF Abstract!Get, Abstract!Ended, Ended, Entries

\* A step that moves nodes between the arrays changes no entry.
LEMMA SameEntries ==
  ASSUME Nodes' = Nodes, last' = last
  PROVE  UNCHANGED Abstract!vars
<1>1. Entries' = Entries
  BY DEF Entries, Entry, Nodes
<1> QED BY <1>1 DEF Abstract!vars, Entries

\* hashmap.c implements the abstract map: hashmap_add is the addition when it
\* links the new node, hashmap_remove and hashmap_get are one step each, and
\* every turn of hashmap_rehash is invisible.
THEOREM ImplementsMap == Spec => Refinement
<1>1. Init => Abstract!Init
  <2> SUFFICES ASSUME Init
               PROVE  Abstract!Init
    OBVIOUS
  <2>1. Nodes = {}
    BY InvInit
  <2>2. \A k \in Key : EntryIn(Nodes, k) = NULL
    BY <2>1, EntryOfNone
  <2>3. Entries = [k \in Key |-> NULL]
    BY <2>2, EntriesOfNodes
  <2> QED BY <2>3 DEF Abstract!Init, Abstract!Ended, Ended, Entries, Init
<1>2. Inv /\ [Next]_vars => [Abstract!Next]_(Abstract!vars)
  <2> SUFFICES ASSUME Inv, [Next]_vars
               PROVE  [Abstract!Next]_(Abstract!vars)
    OBVIOUS
  <2>1. ASSUME NEW k \in Key, hashmap_remove(k)
        PROVE  Abstract!Next
    BY <2>1, RemoveEntry DEF Abstract!Next
  <2>2. ASSUME NEW k \in Key, hashmap_get(k)
        PROVE  Abstract!Next
    BY <2>2, GetEntry DEF Abstract!Next
  <2>3. ASSUME NEW k \in Key, NEW v \in Value, hashmap_add(k, v)
        PROVE  UNCHANGED Abstract!vars
    BY <2>3, AddStep, SameEntries
  <2>4. CASE RehashNode
    BY <2>4, RehashNodeStep, SameEntries
  <2>5. CASE RehashBucket
    BY <2>5, RehashBucketStep, SameEntries
  <2>6. CASE Insert
    BY <2>6, InsertEntry DEF Abstract!Next
  <2>7. CASE UNCHANGED vars
    <3>1. Nodes' = Nodes /\ last' = last
      BY <2>7 DEF vars, rehash, Nodes
    <3> QED BY <3>1, SameEntries
  <2> QED BY <2>1, <2>2, <2>3, <2>4, <2>5, <2>6, <2>7 DEF Next
<1> QED BY <1>1, <1>2, Invariance, PTL DEF Spec, Refinement, Abstract!Spec
=============================================================================
