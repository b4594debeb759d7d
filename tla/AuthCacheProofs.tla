--------------------------- MODULE AuthCacheProofs ---------------------------
(***************************************************************************)
(* How stale the credential cache can be, for every lifetime, query time,  *)
(* set of users and decoding of credentials.                               *)
(***************************************************************************)
EXTENDS AuthCache, TLAPS

\* What a step needs to know besides the invariants: the history variable is
\* up to date, the expired entry is gone by the time of the SELECT, and between
\* the SELECT and hashmap_add the match is at most waited ticks old.
GoodIsPast == \A c \in Credential : lastGood[c] <= now
GoodNow ==
  \A c \in Credential : migrated /\ Matches(c, users) => lastGood[c] = now
StoreGood ==
  pc = "store" => lastGood[cred] # Never /\ now <= lastGood[cred] + waited

MissRemoved == pc \in {"select", "store"} => cache[cred] = Never

IInv == /\ TypeOK /\ CacheBound /\ MissRemoved
        /\ GoodIsPast /\ GoodNow /\ StoreGood

USE TTLAssumption, LatencyAssumption, TimeAssumption, NullAssumption,
    DecodeAssumption

\* Every kind of change to the users table keeps the invariant: the entries of
\* credentials that stop matching are dated with the moment they stop.
LEMMA SetTableKeeps ==
  ASSUME IInv,
         NEW exists \in BOOLEAN, NEW rows \in [User -> Pass \cup {NULL}],
         SetTable(exists, rows), resetting' \in BOOLEAN
  PROVE  IInv'
<1> USE DEF IInv, SetTable, Never
<1>1. TypeOK'
  BY DEF TypeOK
<1>2. \A c \in Credential :
        /\ lastGood'[c] = IF \/ migrated /\ Matches(c, users)
                             \/ exists /\ Matches(c, rows)
                          THEN now ELSE lastGood[c]
        /\ lastGood[c] \in Int /\ lastGood'[c] \in Int /\ now \in Nat
        /\ lastGood'[c] >= lastGood[c]
  BY DEF TypeOK, GoodIsPast
<1>3. CacheBound'
  BY <1>2 DEF CacheBound, TypeOK
<1>4. MissRemoved'
  BY DEF MissRemoved
<1>5. GoodIsPast'
  BY <1>2 DEF GoodIsPast
<1>6. GoodNow'
  <2> SUFFICES ASSUME NEW c \in Credential, exists, Matches(c, rows)
               PROVE  lastGood'[c] = now'
    BY DEF GoodNow, Matches
  <2> QED BY <1>2
<1>7. StoreGood'
  <2> SUFFICES ASSUME pc = "store"
               PROVE  lastGood'[cred] # Never /\ now <= lastGood'[cred] + waited
    BY DEF StoreGood
  <2> QED BY <1>2 DEF StoreGood, TypeOK
<1> QED BY <1>1, <1>3, <1>4, <1>5, <1>6, <1>7

\* A tick of the clock keeps the invariant: credentials that still match are
\* dated again, and a pending hashmap_add has waited one tick longer.
LEMMA TickKeeps == IInv /\ Tick => IInv'
<1> SUFFICES ASSUME IInv, Tick PROVE IInv'
  OBVIOUS
<1> USE DEF IInv, Tick, Never
<1>1. TypeOK'
  BY DEF TypeOK
<1>2. \A c \in Credential :
        /\ lastGood'[c] = IF migrated /\ Matches(c, users) THEN now + 1
                          ELSE lastGood[c]
        /\ lastGood[c] \in Int /\ lastGood'[c] \in Int /\ now \in Nat
        /\ lastGood'[c] >= lastGood[c]
  BY DEF TypeOK, GoodIsPast
<1>3. CacheBound'
  BY <1>2 DEF CacheBound, TypeOK
<1>4. MissRemoved'
  BY DEF MissRemoved
<1>5. GoodIsPast'
  BY <1>2 DEF GoodIsPast
<1>6. GoodNow'
  BY <1>2 DEF GoodNow, Matches
<1>7. StoreGood'
  BY <1>2 DEF StoreGood, TypeOK
<1> QED BY <1>1, <1>3, <1>4, <1>5, <1>6, <1>7

\* The steps of has_valid_auth keep the invariant.
LEMMA RequestKeeps ==
  IInv /\ (Request \/ CacheHit \/ CacheMiss \/ Select \/ Store \/ Restart)
    => IInv'
<1> SUFFICES ASSUME IInv, TableUnchanged,
                    Request \/ CacheHit \/ CacheMiss \/ Select \/ Store \/ Restart
             PROVE  IInv'
  BY DEF Request, CacheHit, CacheMiss, Select, Store, Restart
<1> USE DEF IInv, TableUnchanged, Never
<1>1. GoodIsPast' /\ GoodNow'
  BY DEF GoodIsPast, GoodNow, Matches
<1>2. CASE Request
  BY <1>1, <1>2 DEF Request, TypeOK, CacheBound, MissRemoved, StoreGood
<1>3. CASE CacheHit
  BY <1>1, <1>3 DEF CacheHit, TypeOK, CacheBound, MissRemoved, StoreGood
<1>4. CASE CacheMiss
  BY <1>1, <1>4 DEF CacheMiss, TypeOK, CacheBound, MissRemoved, StoreGood
<1>5. CASE Select
  <2>1. TypeOK' /\ CacheBound'
    BY <1>5 DEF Select, TypeOK, CacheBound
  <2>2. MissRemoved'
    BY <1>5 DEF Select, MissRemoved
  <2>3. StoreGood'
    BY <1>5 DEF Select, StoreGood, TypeOK, GoodNow
  <2> QED BY <1>1, <2>1, <2>2, <2>3
<1>6. CASE Store
  <2>1. cache' = [cache EXCEPT ![cred] = now + CacheTTL]
    BY <1>6 DEF Store, MissRemoved
  <2>2. TypeOK'
    BY <1>6, <2>1 DEF Store, TypeOK
  <2>3. CacheBound'
    BY <1>6, <2>1 DEF Store, TypeOK, CacheBound, StoreGood
  <2> QED BY <1>1, <1>6, <2>2, <2>3 DEF Store, MissRemoved, StoreGood
<1>7. CASE Restart
  BY <1>1, <1>7 DEF Restart, TypeOK, CacheBound, MissRemoved, StoreGood
<1> QED BY <1>2, <1>3, <1>4, <1>5, <1>6, <1>7

\* The invariant is inductive, and it implies the properties of the runs.
LEMMA IInvInvariant == Spec => []IInv
<1>1. Init => IInv
  <2> SUFFICES ASSUME Init PROVE IInv
    OBVIOUS
  <2>1. TypeOK
    <3>1. resetting \in BOOLEAN /\ migrated \in BOOLEAN
      BY Zenon DEF Init
    <3>2. now \in 0 .. MaxTime /\ waited \in 0 .. MaxLatency
      BY DEF Init
    <3>3. users \in [User -> Pass \cup {NULL}]
      BY DEF Init, NoRows
    <3>4. /\ cache \in [Credential -> {Never} \cup (CacheTTL .. MaxTime + CacheTTL)]
          /\ lastGood \in [Credential -> {Never} \cup (0 .. MaxTime)]
      BY DEF Init
    <3> QED BY <3>1, <3>2, <3>3, <3>4 DEF TypeOK, Init
  <2>2. CacheBound /\ MissRemoved /\ GoodIsPast /\ StoreGood
    BY DEF Init, CacheBound, MissRemoved, GoodIsPast, StoreGood, Never
  <2>3. GoodNow
    BY Zenon DEF Init, GoodNow
  <2> QED BY <2>1, <2>2, <2>3 DEF IInv
<1>2. IInv /\ [Next]_vars => IInv'
  <2> SUFFICES ASSUME IInv, [Next]_vars PROVE IInv'
    OBVIOUS
  <2>1. CASE Request \/ CacheHit \/ CacheMiss \/ Select \/ Store \/ Restart
    BY <2>1, RequestKeeps
  <2>2. CASE cmd_migrate
    BY <2>2, SetTableKeeps DEF cmd_migrate, IInv, TypeOK
  <2>3. CASE cmd_drop
    BY <2>3, SetTableKeeps DEF cmd_drop, NoRows, IInv, TypeOK
  <2>4. CASE cmd_reset
    BY <2>4, SetTableKeeps DEF cmd_reset, NoRows, IInv, TypeOK
  <2>5. CASE cmd_add
    BY <2>5, SetTableKeeps DEF cmd_add, IInv, TypeOK
  <2>6. CASE cmd_remove
    BY <2>6, SetTableKeeps DEF cmd_remove, IInv, TypeOK
  <2>7. CASE Tick
    BY <2>7, TickKeeps
  <2>8. CASE UNCHANGED vars
    BY <2>8 DEF vars, IInv, TypeOK, CacheBound, MissRemoved, GoodIsPast,
                GoodNow, StoreGood, Matches
  <2> QED BY <2>1, <2>2, <2>3, <2>4, <2>5, <2>6, <2>7, <2>8 DEF Next
<1> QED BY <1>1, <1>2, PTL DEF Spec

\* Every variable of has_valid_auth and of the table keeps its type; the times
\* stay in the ranges the code computes.
THEOREM TypeCorrect == Spec => []TypeOK
<1>1. IInv => TypeOK
  BY DEF IInv
<1> QED BY <1>1, IInvInvariant, PTL

\* A cache entry outlives the last moment its credential matched the table by
\* at most CACHE_TTL and the time of a SELECT.
THEOREM CacheBounded == Spec => []CacheBound
<1>1. IInv => CacheBound
  BY DEF IInv
<1> QED BY <1>1, IInvInvariant, PTL

\* has_valid_auth never calls hashmap_add for a credential that is cached, so
\* the early return of hashmap_add never swallows a renewal.
THEOREM RenewalNeverLost == Spec => []RenewalStored
<1>1. IInv => RenewalStored
  BY DEF IInv, MissRemoved, RenewalStored
<1> QED BY <1>1, IInvInvariant, PTL

\* A credential that no longer matches is granted from the cache for less than
\* CACHE_TTL and the time of a SELECT.
THEOREM RevocationBounded == Spec => RevokedInTime
<1>1. IInv /\ [Next]_vars =>
        [CacheHit => /\ lastGood[cred] # Never
                     /\ now - lastGood[cred] < CacheTTL + MaxLatency]_vars
  BY DEF IInv, CacheHit, CacheFresh, CacheBound, TypeOK, Never
<1> QED BY <1>1, IInvInvariant, PTL DEF Spec, RevokedInTime
=============================================================================
