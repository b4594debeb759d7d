------------------------------ MODULE AuthCache -------------------------------
(***************************************************************************)
(* has_valid_auth: the proxy's cache of accepted credentials, the users    *)
(* table it asks on a miss, and the administrator who changes that table   *)
(* with simpleproxy-conf while the proxy runs.                             *)
(*                                                                         *)
(* The cache is the map that module HashMap implements.  A credential is   *)
(* what a request carries; Decode says what get_user_from_b64 makes of it. *)
(* A name here is one that the SELECT finds as it is written; module       *)
(* Credentials has the names that SQL or the column's collation changes.   *)
(***************************************************************************)
EXTENDS Integers

CONSTANTS
  User, Pass,     \* names and passwords the table may hold
  Credential,     \* base64 texts found in requests
  Decode,         \* Credential -> the user and password scanned from it
  CacheTTL,       \* CACHE_TTL, in clock ticks
  MaxLatency,     \* bound on the ticks from the SELECT to time(NULL)
  MaxTime,        \* bound on the clock
  NULL            \* no row, no user and password

ASSUME TTLAssumption == CacheTTL \in Nat \ {0}
ASSUME LatencyAssumption == MaxLatency \in Nat
ASSUME TimeAssumption == MaxTime \in Nat
ASSUME NullAssumption == NULL \notin Pass /\ NULL \notin User \X Pass
ASSUME DecodeAssumption == Decode \in [Credential -> (User \X Pass) \cup {NULL}]

VARIABLES
  now,        \* time(NULL)
  resetting,  \* a cmd_reset has dropped the tables and not yet migrated
  migrated,   \* the users table exists
  users,      \* its rows: user -> password or NULL
  cache,      \* map: credential -> when its entry expires, or Never
  pc,         \* where has_valid_auth is
  cred,       \* auth_b64 of the request being checked
  waited,     \* ticks since the SELECT
  lastGood    \* when each credential last matched the table, or Never

vars == <<now, resetting, migrated, users, cache, pc, cred, waited, lastGood>>

\* An absent cache entry, and a credential that was never good.
Never == -1
NoRows == [u \in User |-> NULL]

\* What the SELECT and the strcmp would say of a credential.
Matches(c, rows) ==
  Decode[c] # NULL /\ rows[Decode[c][1]] = Decode[c][2]

Init ==
  /\ now = 0
  /\ resetting = FALSE /\ migrated = FALSE /\ users = NoRows
  /\ cache = [c \in Credential |-> Never]
  /\ pc = "idle" /\ cred \in Credential /\ waited = 0
  /\ lastGood = [c \in Credential |-> Never]

-----------------------------------------------------------------------------
\* has_valid_auth.  Time and the table may change between its steps.

TableUnchanged == UNCHANGED <<now, resetting, migrated, users, lastGood>>

\* Mutant: the expiry time is not looked at.
CacheFresh_NoExpiry(c) == cache[c] # Never

CacheFresh(c) == cache[c] # Never /\ cache[c] > now

\* handle_authenticating calls has_valid_auth, which finds a credential; a
\* request without one is rejected before anything is read or written.
Request ==
  /\ pc = "idle"
  /\ cred' \in Credential /\ pc' = "lookup"
  /\ UNCHANGED <<cache, waited>> /\ TableUnchanged

\* A cached entry that has not expired grants at once.
CacheHit ==
  /\ pc = "lookup" /\ CacheFresh(cred)
  /\ pc' = "idle"
  /\ UNCHANGED <<cache, cred, waited>> /\ TableUnchanged

\* Mutant: the expired entry stays.
CacheMiss_KeepsEntry ==
  /\ pc = "lookup" /\ ~CacheFresh(cred)
  /\ pc' = IF Decode[cred] = NULL THEN "idle" ELSE "select"
  /\ UNCHANGED <<cache, cred, waited>> /\ TableUnchanged

\* An expired entry is removed, and a miss goes on if the text decodes.
CacheMiss ==
  /\ pc = "lookup" /\ ~CacheFresh(cred)
  /\ cache' = [cache EXCEPT ![cred] = Never]
  /\ pc' = IF Decode[cred] = NULL THEN "idle" ELSE "select"
  /\ UNCHANGED <<cred, waited>> /\ TableUnchanged

\* Mutant: a row with the user's name is enough.
Select_AnyPassword ==
  /\ pc = "select"
  /\ pc' = IF migrated /\ users[Decode[cred][1]] # NULL THEN "store" ELSE "idle"
  /\ waited' = 0
  /\ UNCHANGED <<cache, cred>> /\ TableUnchanged

\* db_execute, db_user_get_from_result and strcmp: a match is stored next; no
\* answer, no table, no row and another password all reject.
Select ==
  /\ pc = "select"
  /\ \/ migrated /\ Matches(cred, users) /\ pc' = "store"
     \/ pc' = "idle"
  /\ waited' = 0
  /\ UNCHANGED <<cache, cred>> /\ TableUnchanged

\* The lifetime of the entry counts from here.  hashmap_add keeps an entry
\* that is already there.
Store ==
  /\ pc = "store"
  /\ cache' = [cache EXCEPT ![cred] = IF @ = Never THEN now + CacheTTL ELSE @]
  /\ pc' = "idle"
  /\ UNCHANGED <<cred, waited>> /\ TableUnchanged

\* The proxy stops and starts again: the cache is in its memory only.
Restart ==
  /\ cache' = [c \in Credential |-> Never]
  /\ pc' = "idle"
  /\ UNCHANGED <<cred, waited>> /\ TableUnchanged

-----------------------------------------------------------------------------
\* simpleproxy-conf, and time

\* The table changes: a credential that matches before or after was good now.
SetTable(exists, rows) ==
  /\ migrated' = exists /\ users' = rows
  /\ lastGood' = [c \in Credential |->
       IF (migrated /\ Matches(c, users)) \/ (exists /\ Matches(c, rows))
       THEN now ELSE lastGood[c]]
  /\ UNCHANGED <<now, cache, pc, cred, waited>>

\* CREATE TABLE IF NOT EXISTS keeps the rows of a table that is there.
cmd_migrate == SetTable(TRUE, users) /\ UNCHANGED resetting

cmd_drop == migrated /\ SetTable(FALSE, NoRows) /\ UNCHANGED resetting

\* cmd_reset runs two statements.  It gives up before the first when there is
\* no table, and runs the second also when the first failed.
cmd_reset ==
  \/ /\ ~resetting /\ migrated /\ resetting' = TRUE
     /\ SetTable(FALSE, NoRows) \/ SetTable(migrated, users)
  \/ /\ resetting /\ resetting' = FALSE
     /\ SetTable(TRUE, users) \/ SetTable(migrated, users)

\* INSERT fails on a user that is there already (UNIQUE).
cmd_add ==
  /\ migrated
  /\ \E u \in User, p \in Pass :
       users[u] = NULL /\ SetTable(TRUE, [users EXCEPT ![u] = p])
  /\ UNCHANGED resetting

cmd_remove ==
  /\ migrated
  /\ \E u \in User : SetTable(TRUE, [users EXCEPT ![u] = NULL])
  /\ UNCHANGED resetting

Tick ==
  /\ now < MaxTime /\ now' = now + 1
  /\ pc = "store" => waited < MaxLatency
  /\ waited' = IF pc = "store" THEN waited + 1 ELSE waited
  /\ lastGood' = [c \in Credential |->
       IF migrated /\ Matches(c, users) THEN now' ELSE lastGood[c]]
  /\ UNCHANGED <<resetting, migrated, users, cache, pc, cred>>

Next == \/ Request \/ CacheHit \/ CacheMiss \/ Select \/ Store \/ Restart
        \/ cmd_migrate \/ cmd_drop \/ cmd_reset \/ cmd_add \/ cmd_remove \/ Tick

Spec == Init /\ [][Next]_vars

-----------------------------------------------------------------------------
\* Properties

\* Type correctness, with the range of every time the code computes.
TypeOK ==
  /\ now \in 0 .. MaxTime
  /\ resetting \in BOOLEAN /\ migrated \in BOOLEAN
  /\ users \in [User -> Pass \cup {NULL}]
  /\ cache \in [Credential -> {Never} \cup (CacheTTL .. MaxTime + CacheTTL)]
  /\ pc \in {"idle", "lookup", "select", "store"}
  /\ cred \in Credential
  /\ waited \in 0 .. MaxLatency
  /\ lastGood \in [Credential -> {Never} \cup (0 .. MaxTime)]

\* A cached entry was bought by a match with the table, and outlives the last
\* match by no more than the lifetime and the time a SELECT takes, whatever
\* the administrator does between has_valid_auth's steps.
CacheBound ==
  \A c \in Credential : cache[c] # Never =>
    /\ lastGood[c] # Never
    /\ cache[c] <= lastGood[c] + MaxLatency + CacheTTL

\* hashmap_add's early return is never taken: has_valid_auth has removed the
\* expired entry before it stores a new one, so a renewal is not lost.
RenewalStored == pc = "store" => cache[cred] = Never

\* A user removed or given another password is let in from the cache for less
\* than CACHE_TTL (and the time of a SELECT) after the change.
RevokedInTime ==
  [][CacheHit => /\ lastGood[cred] # Never
                 /\ now - lastGood[cred] < CacheTTL + MaxLatency]_vars
=============================================================================
