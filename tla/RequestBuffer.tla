----------------------------- MODULE RequestBuffer -----------------------------
(***************************************************************************)
(* The request buffer of one client with its exact lengths: from the first *)
(* recv of read_request_nonblocking, through its growth and the search for *)
(* the empty line, to the bytes that FORWARDING starts from.               *)
(*                                                                         *)
(* The bytes a client sends are known by their place in its stream, so the *)
(* buffer is a length and the socket is what was sent and not yet taken.   *)
(***************************************************************************)
EXTENDS Integers

CONSTANTS
  InitialCapacity,  \* MAX_BUFFER_SIZE
  MaxBytes          \* bound on what the client sends

ASSUME CapacityAssumption == InitialCapacity \in Nat /\ InitialCapacity > 1
ASSUME BytesAssumption == MaxBytes \in Nat

VARIABLES
  state,      \* ClientState.state; "expired" once the timer has ended it
  is_https,
  headEnd,    \* place of the last byte of "\r\n\r\n", or 0: the client sends none
  sent,       \* bytes the client has sent
  ended,      \* it has ended its stream
  taken,      \* bytes taken from the socket
  len,        \* request_len
  capacity    \* request_capacity

vars == <<state, is_https, headEnd, sent, ended, taken, len, capacity>>
client == <<is_https, headEnd, sent, ended>>

Init ==
  /\ state = "READING_REQUEST" /\ is_https \in BOOLEAN
  /\ headEnd \in {0} \cup 4 .. MaxBytes
  /\ sent = 0 /\ ended = FALSE
  /\ taken = 0 /\ len = 0 /\ capacity = InitialCapacity

-----------------------------------------------------------------------------
\* The client

Sends ==
  /\ ~ended /\ sent < MaxBytes
  /\ sent' \in sent + 1 .. MaxBytes
  /\ UNCHANGED <<state, is_https, headEnd, ended, taken, len, capacity>>

Ends ==
  /\ ~ended /\ ended' = TRUE
  /\ UNCHANGED <<state, is_https, headEnd, sent, taken, len, capacity>>

-----------------------------------------------------------------------------
\* read_request_nonblocking

\* Mutant: the buffer grows before every recv.
Crowded_Always == TRUE

\* One byte is left: room is made before the recv.
Crowded == len = capacity - 1

\* realloc or recv fails.
ReadFails ==
  /\ state = "READING_REQUEST" /\ state' = "CLOSING"
  /\ capacity' \in {capacity, IF Crowded THEN 2 * capacity ELSE capacity}
  /\ UNCHANGED <<taken, len>> /\ UNCHANGED client

\* Mutant: only the bytes of this recv are searched.
HeadFound_NewBytes(old, new) == headEnd # 0 /\ headEnd - 3 > old /\ headEnd <= new

\* strstr searches from the start of the buffer every time.
HeadFound(old, new) == headEnd # 0 /\ headEnd <= new

\* Mutant: the bytes already in the buffer are not subtracted.
Room_Whole(cap) == cap

\* The length given to recv.
Room(cap) == cap - len

\* recv takes what there is room for.  With no room it returns 0, as at the
\* end of the stream; a 0 closes only when nothing at all was received.
Receive ==
  /\ state = "READING_REQUEST"
  /\ sent > taken \/ ended
  /\ capacity' = IF Crowded THEN 2 * capacity ELSE capacity
  /\ LET n == IF Room(capacity') < sent - taken THEN Room(capacity') ELSE sent - taken
     IN /\ len' = len + n /\ taken' = taken + n
        /\ state' = IF len' = 0 THEN "CLOSING"
                    ELSE IF n > 0 /\ HeadFound(len, len') THEN "AUTHENTICATING"
                    ELSE state
  /\ UNCHANGED client

-----------------------------------------------------------------------------
\* What becomes of the buffer

\* The credentials, the Host header or the connect end the connection.
Rejects ==
  /\ state \in {"AUTHENTICATING", "CONNECTING"}
  /\ state' = "CLOSING"
  /\ UNCHANGED <<taken, len, capacity>> /\ UNCHANGED client

Accepts ==
  /\ state = "AUTHENTICATING" /\ state' = "CONNECTING"
  /\ UNCHANGED <<taken, len, capacity>> /\ UNCHANGED client

\* The head of a CONNECT request is meant for the proxy: request_len = 0.  A
\* plain request is itself what is forwarded.
Connects ==
  /\ state = "CONNECTING" /\ state' = "FORWARDING"
  /\ len' = IF is_https THEN 0 ELSE len
  /\ UNCHANGED <<taken, capacity>> /\ UNCHANGED client

\* The timer ends a client that is not FORWARDING after ten seconds.
TimesOut ==
  /\ state \in {"READING_REQUEST", "AUTHENTICATING", "CONNECTING"}
  /\ state' = "expired"
  /\ UNCHANGED <<taken, len, capacity>> /\ UNCHANGED client

Next == \/ Sends \/ Ends \/ ReadFails \/ Receive
        \/ Rejects \/ Accepts \/ Connects \/ TimesOut

Spec == Init /\ [][Next]_vars

\* The socket is readable as long as anything is left, and the loop serves
\* what is readable.
FairSpec == Spec /\ WF_vars(Receive)

-----------------------------------------------------------------------------
\* Properties

TypeOK ==
  /\ state \in {"READING_REQUEST", "AUTHENTICATING", "CONNECTING",
                "FORWARDING", "CLOSING", "expired"}
  /\ is_https \in BOOLEAN /\ ended \in BOOLEAN
  /\ headEnd \in 0 .. MaxBytes
  /\ sent \in 0 .. MaxBytes /\ taken \in 0 .. sent
  /\ capacity \in Nat /\ len \in 0 .. capacity

\* A head is recognised at the recv that completes it, however its empty line
\* was cut into segments.
HeadNotMissed ==
  state = "READING_REQUEST" /\ headEnd # 0 => taken < headEnd

\* The buffer is never more than twice what the client has sent and the byte
\* that is kept free: growth follows the client, not the number of events.
MemoryFollowsData ==
  capacity > InitialCapacity => capacity <= 2 * (taken + 1)

\* A request head that arrives is recognised, unless the client is turned away
\* or a recv fills the buffer exactly: a full buffer is past the test for
\* growth, and the NUL goes to the place after it.
HeadRecognised ==
  (headEnd # 0 /\ sent >= headEnd) ~> (state # "READING_REQUEST" \/ len = capacity)
=============================================================================
