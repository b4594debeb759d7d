------------------------------ MODULE ProxyLoop ------------------------------
(***************************************************************************)
(* The event loop of simpleproxy: one thread that takes a batch of events  *)
(* from epoll_wait and handles them one after the other, the table of      *)
(* ClientStates the timer walks, the per-connection state machine of       *)
(* proxy.c, and the part of the kernel they drive (descriptors, epoll's    *)
(* interest list, the state of each socket).                               *)
(*                                                                         *)
(* A ClientState is known by its heap address.  Addresses and descriptor   *)
(* numbers are recycled, as malloc and the kernel recycle them, so an      *)
(* event that outlives its connection may meet the next one.               *)
(*                                                                         *)
(* Bytes are abstracted: a socket holds unread data or not, and a buffer   *)
(* holds 0..BufCap units.  Module Relay keeps the bytes.  Time is          *)
(* abstracted to the one question the code asks of it: whether             *)
(* now - last_active has reached 10 seconds (field "idle").                *)
(***************************************************************************)
EXTENDS Integers, FiniteSets

CONSTANTS
  Addr,             \* heap addresses calloc may return for a ClientState
  Fds,              \* descriptor numbers left to the process for sockets
  MaxClients,       \* MAX_CLIENTS, the length of the registry
  BufCap,           \* capacity of request_buffer and response_buffer
  MaxBacklog,       \* bound on the connections waiting in accept's queue
  PeerMoves,        \* what peers do once connected: "data", "eof", "reset"
  Requests,         \* is_https of the requests the clients send
  EpollAddMayFail,  \* whether epoll_ctl(ADD) may run out of watches
  DataMayFail,      \* whether epoll_create_data may find no memory
  NULL

ASSUME AddrAssumption == NULL \notin Addr
ASSUME FdsAssumption == Fds \subseteq Nat
ASSUME MaxClientsAssumption == MaxClients \in Nat \ {0}
ASSUME BufCapAssumption == BufCap \in Nat \ {0}
ASSUME BacklogAssumption == MaxBacklog \in Nat \ {0}
ASSUME PeersAssumption == PeerMoves \subseteq {"data", "eof", "reset"}
ASSUME RequestsAssumption == Requests \subseteq BOOLEAN
ASSUME EpollAddAssumption == EpollAddMayFail \in BOOLEAN
ASSUME DataAssumption == DataMayFail \in BOOLEAN

VARIABLES
  running,    \* the process is up
  heap,       \* heap[a]: the ClientState at address a
  live,       \* the addresses calloc'ed and not yet freed
  clients,    \* the registry: slot -> address or NULL
  sock,       \* kernel: the state of the socket behind each descriptor
  interest,   \* kernel: epoll's interest list
  batch,      \* the events of this epoll_wait not handled yet
  cur,        \* the event being handled, or NoEvent
  backlog,    \* kernel: connections waiting to be accepted
  timerDue    \* kernel: the timerfd is readable

vars == <<running, heap, live, clients, sock, interest, batch, cur, backlog,
          timerDue>>

-----------------------------------------------------------------------------
\* Data

NoFd == -1
Slots == 0 .. MaxClients - 1

\* ClientStateEnum.  CLOSED is declared and never assigned.
ClientStateEnum == {"READING_REQUEST", "AUTHENTICATING",
                    "INITIALIZE_CONNECTION", "CONNECTING", "FORWARDING",
                    "CLOSING"}

\* ClientState: host, port and the buffers' contents are abstracted away.
ClientState ==
  [client_fd : Fds \cup {NoFd}, target_fd : Fds \cup {NoFd},
   client_closed : BOOLEAN, target_closed : BOOLEAN,
   slot : Slots, idle : BOOLEAN, expired : BOOLEAN,
   request_len : 0 .. BufCap, response_len : 0 .. BufCap,
   state : ClientStateEnum, is_https : BOOLEAN]

\* create_client_state: calloc, then the non-zero fields.
create_client_state(fd) ==
  [client_fd |-> fd, target_fd |-> NoFd,
   client_closed |-> FALSE, target_closed |-> FALSE,
   slot |-> 0, idle |-> FALSE, expired |-> FALSE,
   request_len |-> 0, response_len |-> 0,
   state |-> "READING_REQUEST", is_https |-> FALSE]

\* Kernel: a closed descriptor, a connect in progress, then what a read of
\* the socket would find.
SockStatus == {"none", "connecting", "quiet", "data", "eof", "reset"}

\* One registration: descriptor, EpollData (fd_type, client_state), mask.  With
\* type "NODATA" its pointer is NULL, and addr is known to the model alone.
Entry == [fd : Fds, type : {"CLIENT", "TARGET", "NODATA"}, addr : Addr,
          in : BOOLEAN, out : BOOLEAN]

\* One ready event.
Event == [type : {"LISTENER", "TIMER", "CLIENT", "TARGET", "NODATA", "NONE"},
          addr : Addr \cup {NULL}, in : BOOLEAN, out : BOOLEAN]

NoEvent == [type |-> "NONE", addr |-> NULL, in |-> FALSE, out |-> FALSE]
ListenerEvent == [NoEvent EXCEPT !.type = "LISTENER"]
TimerEvent == [NoEvent EXCEPT !.type = "TIMER"]

\* Mutant: the target's descriptor is forgotten.
FdsOf_ClientOnly(s) == {s.client_fd} \ {NoFd}

FdsOf(s) == {s.client_fd, s.target_fd} \ {NoFd}
FreeFds == {f \in Fds : sock[f] = "none"}

\* A new descriptor is the lowest one that is free.
Lowest(fd) == fd \in FreeFds /\ \A g \in FreeFds : fd <= g

\* A socket call on a closed descriptor (or -1) fails like one on a socket
\* in error.
Status(fd) == IF fd \in Fds THEN sock[fd] ELSE "none"

\* close(): the kernel drops the descriptor from the interest list itself.
SockAfterClose(S) == [f \in Fds |-> IF f \in S THEN "none" ELSE sock[f]]
InterestWithout(S) == {e \in interest : e.fd \notin S}

BlankHeap == [a \in Addr |-> create_client_state(NoFd)]
BlankRegistry == [i \in Slots |-> NULL]
NoSockets == [f \in Fds |-> "none"]

\* main() up to run_loop's while: listener and timer registered, no client.
Init ==
  /\ running = TRUE
  /\ heap = BlankHeap /\ live = {} /\ clients = BlankRegistry
  /\ sock = NoSockets /\ interest = {}
  /\ batch = {} /\ cur = NoEvent
  /\ backlog = 0 /\ timerDue = FALSE

\* The process ends: the kernel closes every descriptor, all memory is gone.
Die ==
  /\ running' = FALSE
  /\ heap' = BlankHeap /\ live' = {} /\ clients' = BlankRegistry
  /\ sock' = NoSockets /\ interest' = {}
  /\ batch' = {} /\ cur' = NoEvent
  /\ backlog' = 0 /\ timerDue' = FALSE

-----------------------------------------------------------------------------
\* run_loop: epoll_wait and the dispatch of its events

\* What epoll reports for one registration.  A socket in error is both
\* readable and writable.  A connected socket is always writable here: one
\* whose send buffer is full shows as the EAGAIN of send_from_buffer.
Reported(e) ==
  [type |-> e.type, addr |-> e.addr,
   in   |-> e.in /\ sock[e.fd] \in {"data", "eof", "reset"},
   out  |-> e.out /\ sock[e.fd] # "connecting"]

Ready ==
  {ev \in {Reported(e) : e \in interest} : ev.in \/ ev.out}
  \cup {ev \in {ListenerEvent} : backlog > 0}
  \cup {ev \in {TimerEvent} : timerDue}

EpollWait ==
  /\ running /\ cur = NoEvent /\ batch = {}
  /\ Ready # {}
  /\ batch' = Ready
  /\ UNCHANGED <<running, heap, live, clients, sock, interest, cur, backlog,
                 timerDue>>

\* The next iteration of "for (i < n_ready)".  epoll orders its ready list
\* as it likes, so any event left in the batch may be the next one.
NextEvent ==
  /\ running /\ cur = NoEvent
  /\ \E ev \in batch : cur' = ev /\ batch' = batch \ {ev}
  /\ UNCHANGED <<running, heap, live, clients, sock, interest, backlog,
                 timerDue>>

Return == cur' = NoEvent

\* The handler returns without having changed anything.
DropEvent ==
  /\ Return
  /\ UNCHANGED <<running, heap, live, clients, sock, interest, batch, backlog,
                 timerDue>>

-----------------------------------------------------------------------------
\* handle_listener_event: one action per way an iteration can end

Handling(type) == running /\ cur.type = type

\* Mutant: the loop ends without trying accept again.
AcceptFails_Early == Handling("LISTENER") /\ DropEvent

\* accept fails: queue empty (EAGAIN) or no descriptor left (EMFILE).
AcceptFails ==
  /\ Handling("LISTENER")
  /\ backlog = 0 \/ FreeFds = {}
  /\ DropEvent

\* Mutant: a slot in use is given away.
state_registry_add_Unchecked(i) == i = 0

\* state_registry_add: the first NULL slot.
state_registry_add(i) ==
  clients[i] = NULL /\ \A j \in Slots : clients[j] = NULL => i <= j

\* accept, create_client_state, epoll ADD and a slot all succeed.
AcceptClient ==
  /\ Handling("LISTENER") /\ backlog > 0
  /\ \E fd \in Fds, a \in Addr \ live, i \in Slots :
       /\ Lowest(fd)
       /\ state_registry_add(i)
       /\ heap' = [heap EXCEPT ![a] =
                     [create_client_state(fd) EXCEPT !.slot = i]]
       /\ live' = live \cup {a}
       /\ clients' = [clients EXCEPT ![i] = a]
       /\ sock' = [sock EXCEPT ![fd] = "quiet"]
       /\ interest' = interest \cup
            {[fd |-> fd, type |-> "CLIENT", addr |-> a,
              in |-> TRUE, out |-> FALSE]}
  /\ backlog' = backlog - 1
  /\ UNCHANGED <<running, batch, cur, timerDue>>

\* No memory, no slot, or epoll ADD failed: what accept returned is closed
\* again, and the handler returns with the rest of the queue unaccepted.
RejectClient ==
  /\ Handling("LISTENER") /\ backlog > 0 /\ FreeFds # {}
  /\ EpollAddMayFail \/ DataMayFail \/ Addr \subseteq live
       \/ \A i \in Slots : clients[i] # NULL
  /\ backlog' = backlog - 1
  /\ Return
  /\ UNCHANGED <<running, heap, live, clients, sock, interest, batch,
                 timerDue>>

-----------------------------------------------------------------------------
\* handle_timer_event: read the timerfd, then timeout_callback on each client

state_registry_remove(S) ==
  [i \in Slots |-> IF \E a \in S : heap[a].slot = i THEN NULL ELSE clients[i]]

Registered == {clients[i] : i \in Slots} \ {NULL}

\* Mutants: nothing is freed; only forwarding connections time out.
ToFree_Never == {}
ToExpire_Forwarding ==
  {a \in Registered : /\ ~heap[a].expired /\ heap[a].idle
                      /\ heap[a].state = "FORWARDING"}

\* timeout_callback frees the states expired earlier ...
ToFree == {a \in Registered : heap[a].expired}
\* ... and expires the idle ones.
ToExpire == {a \in Registered : ~heap[a].expired /\ heap[a].idle}

\* free_client_state closes both descriptors.
FreedFds == UNION {FdsOf(heap[a]) : a \in ToFree}

\* An expiring state leaves epoll only when it holds both descriptors.
UnwatchedFds ==
  UNION {FdsOf(heap[a]) : a \in {x \in ToExpire :
           heap[x].client_fd # NoFd /\ heap[x].target_fd # NoFd}}

HandleTimer ==
  /\ Handling("TIMER")
  /\ timerDue' = FALSE
  /\ heap' = [a \in Addr |->
                IF a \in ToFree THEN create_client_state(NoFd)
                ELSE IF a \in ToExpire THEN [heap[a] EXCEPT !.expired = TRUE]
                ELSE heap[a]]
  /\ live' = live \ ToFree
  /\ clients' = state_registry_remove(ToFree)
  /\ sock' = SockAfterClose(FreedFds)
  /\ interest' = InterestWithout(FreedFds \cup UnwatchedFds)
  /\ Return
  /\ UNCHANGED <<running, batch, backlog>>

-----------------------------------------------------------------------------
\* handle_client: dispatch on the connection's state.  A handler that calls
\* handle_client again keeps cur; one that returns to the loop clears it.

ClientEvent == running /\ cur.type \in {"CLIENT", "TARGET"}

\* The event's ClientState was freed earlier in the batch.  Reading
\* client_state->expired is undefined: the stale flag may still be there (the
\* event is dropped) or the read may fault.
StaleEvent ==
  /\ ClientEvent /\ cur.addr \notin live
  /\ DropEvent \/ Die

\* run_loop tests data for NULL, and then reads data->fd_type all the same.
NullDataEvent == Handling("NODATA") /\ Die

ExpiredEvent ==
  /\ ClientEvent /\ cur.addr \in live /\ heap[cur.addr].expired
  /\ DropEvent

Dispatch(a, st) ==
  /\ ClientEvent /\ cur.addr = a
  /\ a \in live /\ ~heap[a].expired /\ heap[a].state = st

LoopUnchanged == UNCHANGED <<running, live, clients, batch, backlog, timerDue>>

\* send(.., 0) on a socket the peer has reset may raise SIGPIPE, which main()
\* neither ignores nor handles.
SigPipe(fd) == Status(fd) = "reset" /\ Die

\* read_request_nonblocking: result, request_len and what stays in the socket.
\* A full buffer makes recv ask for 0 bytes, and a 0 with request_len > 0 is
\* taken for "no complete request yet".
read_request_nonblocking(s) ==
  LET k == Status(s.client_fd) IN
  {o \in [res : {-1, 0, 1}, len : 0 .. BufCap, rx : SockStatus] :
     \/ /\ k \in {"data", "reset"} /\ o.res \in {0, 1}
        /\ o.rx \in IF k = "reset" THEN {k} ELSE {"quiet", "data"}
        /\ o.len = IF s.request_len < BufCap THEN s.request_len + 1 ELSE BufCap
     \/ /\ k = "quiet" \/ (k = "data" /\ s.request_len = BufCap)
        /\ o = [res |-> 0, len |-> s.request_len, rx |-> k]
     \/ /\ k = "eof"
        /\ o = [res |-> IF s.request_len = 0 THEN -1 ELSE 0,
                len |-> s.request_len, rx |-> k]
     \/ /\ k \in {"reset", "none", "connecting"}
        /\ o = [res |-> -1, len |-> s.request_len, rx |-> k]}

\* The socket behind fd, if there is one, now reads as st.
SockSet(fd, st) == [f \in Fds |-> IF f = fd THEN st ELSE sock[f]]

HandleReadingRequest(a) ==
  /\ Dispatch(a, "READING_REQUEST")
  /\ \E o \in read_request_nonblocking(heap[a]) :
       /\ sock' = SockSet(heap[a].client_fd, o.rx)
       /\ heap' = [heap EXCEPT
            ![a].request_len = o.len,
            ![a].state = IF o.res < 0 THEN "CLOSING"
                         ELSE IF o.res = 1 THEN "AUTHENTICATING" ELSE @]
       /\ IF o.res = 0 THEN Return ELSE UNCHANGED cur
  /\ UNCHANGED interest
  /\ LoopUnchanged

\* has_valid_auth says yes (module AuthCache says when): the request line
\* gives is_https, and a missing Host header abandons the connection.
AuthAccepted(a) ==
  /\ Dispatch(a, "AUTHENTICATING")
  /\ \E https \in Requests, hostFound \in BOOLEAN :
       /\ heap' = [heap EXCEPT
            ![a].is_https = https,
            ![a].state = IF hostFound THEN "INITIALIZE_CONNECTION"
                         ELSE "CLOSING"]
       /\ IF hostFound THEN UNCHANGED cur ELSE Return
  /\ UNCHANGED <<sock, interest>>
  /\ LoopUnchanged

\* has_valid_auth says no: 407, then handle_client closes.
AuthRejected(a) ==
  /\ Dispatch(a, "AUTHENTICATING")
  /\ \/ /\ heap' = [heap EXCEPT ![a].state = "CLOSING"]
        /\ UNCHANGED <<cur, sock, interest>>
        /\ LoopUnchanged
     \/ SigPipe(heap[a].client_fd)

\* send_https_established and request_len = 0, for a CONNECT request.
Established(s) ==
  IF s.is_https
  THEN [s EXCEPT !.request_len = 0]
  ELSE s

\* Mutant: connection_connect closes the descriptor and keeps its number.
ConnectFails_Dangling(a) ==
  /\ Dispatch(a, "INITIALIZE_CONNECTION")
  /\ \E fd \in Fds :
       /\ Lowest(fd)
       /\ heap' = [heap EXCEPT ![a].target_fd = fd, ![a].state = "CLOSING"]
  /\ Return
  /\ UNCHANGED <<sock, interest>>
  /\ LoopUnchanged

\* connection_connect returns -1: the name does not resolve, socket() or
\* connect() fails (its descriptor is closed again).
ConnectFails(a) ==
  /\ Dispatch(a, "INITIALIZE_CONNECTION")
  /\ heap' = [heap EXCEPT ![a].state = "CLOSING"]
  /\ Return
  /\ UNCHANGED <<sock, interest>>
  /\ LoopUnchanged

\* epoll_create_data: what a registration will point at.
epoll_create_data(t) == {t} \cup IF DataMayFail THEN {"NODATA"} ELSE {}

\* connect() is in progress (EINPROGRESS) or done at once, and the target's
\* descriptor joins epoll for EPOLLOUT, with whatever epoll_create_data gave.
ConnectStarts(a) ==
  /\ Dispatch(a, "INITIALIZE_CONNECTION")
  /\ \E fd \in Fds, st \in {"connecting", "quiet"}, data \in epoll_create_data("TARGET") :
       /\ Lowest(fd)
       /\ \/ /\ heap' = [heap EXCEPT ![a] =
                  [IF st = "quiet" THEN Established(heap[a]) ELSE heap[a]
                     EXCEPT !.target_fd = fd, !.state = "CONNECTING"]]
             /\ sock' = [sock EXCEPT ![fd] = st]
             /\ interest' = interest \cup
                  {[fd |-> fd, type |-> data, addr |-> a,
                    in |-> FALSE, out |-> TRUE]}
             /\ Return
             /\ LoopUnchanged
          \/ /\ st = "quiet" /\ heap[a].is_https
             /\ SigPipe(heap[a].client_fd)

\* epoll_ctl(ADD) fails: the descriptor is closed, and target_fd keeps its
\* number.
ConnectUnwatched(a) ==
  /\ Dispatch(a, "INITIALIZE_CONNECTION")
  /\ EpollAddMayFail
  /\ \E fd \in Fds, st \in {"connecting", "quiet"} :
       /\ Lowest(fd)
       /\ heap' = [heap EXCEPT ![a] =
            [IF st = "quiet" THEN Established(heap[a]) ELSE heap[a]
               EXCEPT !.target_fd = fd, !.state = "CLOSING"]]
  /\ Return
  /\ UNCHANGED <<sock, interest>>
  /\ LoopUnchanged

EpollWatches(fd) == \E e \in interest : e.fd = fd

\* EPOLL_CTL_MOD to EPOLLIN | EPOLLOUT with a fresh EpollData.
EpollMod(I, fd, t, a) ==
  {e \in I : e.fd # fd} \cup
    {[fd |-> fd, type |-> t, addr |-> a, in |-> TRUE, out |-> TRUE]}

\* It is not made without memory for the EpollData, and fails on a descriptor
\* that is not registered.
EpollModFails(fd, t) == "NODATA" \in epoll_create_data(t) \/ ~EpollWatches(fd)

\* Mutants: only the client's registration is changed; the target's comes first.
register_forwarding_fds_ClientOnly(a) ==
  {EpollMod(interest, heap[a].client_fd, "CLIENT", a)}

register_forwarding_fds_TargetFirst(a) ==
  LET target == EpollMod(interest, heap[a].target_fd, "TARGET", a)
  IN {target} \cup {EpollMod(target, heap[a].client_fd, "CLIENT", a)}

\* register_forwarding_fds: what becomes of epoll's interest list.  The client's
\* registration comes first, the first failure ends it, and nothing is undone.
register_forwarding_fds(a) ==
  LET c == heap[a].client_fd
      t == heap[a].target_fd
      half == EpollMod(interest, c, "CLIENT", a)
      whole == EpollMod(half, t, "TARGET", a)
  IN {I \in {interest} : EpollModFails(c, "CLIENT")}
     \cup {I \in {half} : EpollWatches(c) /\ EpollModFails(t, "TARGET")}
     \cup {I \in {whole} : EpollWatches(c) /\ EpollWatches(t)}

\* handle_connecting on an SO_ERROR: close the target, then handle_client.
ConnectRefused(a) ==
  /\ Dispatch(a, "CONNECTING")
  /\ Status(heap[a].target_fd) \in {"reset", "none"}
  /\ heap' = [heap EXCEPT ![a].target_fd = NoFd, ![a].state = "CLOSING"]
  /\ sock' = SockAfterClose({heap[a].target_fd})
  /\ interest' = InterestWithout({heap[a].target_fd})
  /\ UNCHANGED cur
  /\ LoopUnchanged

\* handle_connecting without one.  The handler runs on any event of the
\* connection, and SO_ERROR is also 0 while the connect is in progress.  What
\* register_forwarding_fds returns is not looked at.
ConnectAccepted(a) ==
  /\ Dispatch(a, "CONNECTING")
  /\ Status(heap[a].target_fd) \notin {"reset", "none"}
  /\ \/ /\ heap' = [heap EXCEPT ![a] =
             [Established(heap[a]) EXCEPT !.response_len = 0,
                                          !.state = "FORWARDING"]]
        /\ interest' \in register_forwarding_fds(a)
        /\ UNCHANGED sock
        /\ Return
        /\ LoopUnchanged
     \/ heap[a].is_https /\ SigPipe(heap[a].client_fd)

\* Mutant: the room left in the buffer is not checked.
recv_into_buffer_Overrun(len, k) == {[res |-> 1, len |-> len + 1, rx |-> k]}

\* recv_into_buffer: its result (1 for a positive total), the new length and
\* what stays in the socket.  With the buffer full, recv asks for 0 bytes and
\* its 0 counts as end of file.
recv_into_buffer(len, k) ==
  {o \in [res : {-2, -1, 0, 1}, len : 0 .. BufCap, rx : SockStatus] :
     \/ /\ k = "data" /\ len < BufCap
        /\ o.res = 1 /\ o.len > len
        /\ o.rx = "quiet" \/ (o.rx = "data" /\ o.len = BufCap)
     \/ /\ k = "eof" \/ (k = "data" /\ len = BufCap)
        /\ o = [res |-> -2, len |-> len, rx |-> k]
     \/ /\ k \in {"quiet", "connecting"}
        /\ o = [res |-> 0, len |-> len, rx |-> k]
     \/ /\ k = "none" /\ o = [res |-> -1, len |-> len, rx |-> k]
     \/ /\ k = "reset" /\ o.res = -1 /\ o.len >= len /\ o.rx = k}

\* send_from_buffer: send until the buffer is empty or the socket full.
send_from_buffer(len, k) ==
  {o \in [res : {-1, 0, 1}, len : 0 .. BufCap] :
     \/ /\ k \in {"quiet", "data", "eof"}
        /\ o.len <= len /\ o.res = IF o.len < len THEN 1 ELSE 0
     \/ /\ k = "connecting" /\ o = [res |-> 0, len |-> len]
     \/ /\ k \in {"reset", "none"} /\ o = [res |-> -1, len |-> len]}

\* connection_forward for an event of one side: read that side's socket into
\* the buffer towards the other, write the buffer towards this side.
HandleForwarding(a) ==
  /\ Dispatch(a, "FORWARDING")
  /\ LET s == heap[a]
         isClient == cur.type = "CLIENT"
         fd == IF isClient THEN s.client_fd ELSE s.target_fd
         rlen == IF isClient THEN s.request_len ELSE s.response_len
         wlen == IF isClient THEN s.response_len ELSE s.request_len
     IN \E rd \in IF cur.in THEN recv_into_buffer(rlen, Status(fd))
                  ELSE {[res |-> 0, len |-> rlen, rx |-> Status(fd)]} :
        \E wr \in IF cur.out /\ wlen > 0
                  THEN send_from_buffer(wlen, Status(fd))
                  ELSE {[res |-> 0, len |-> wlen]} :
          LET closed == rd.res < 0 \/ wr.res < 0
              active == rd.res > 0 \/ wr.res > 0
              cc == s.client_closed \/ (isClient /\ closed)
              tc == s.target_closed \/ (~isClient /\ closed)
          IN /\ heap' = [heap EXCEPT ![a] = [s EXCEPT
                  !.request_len = IF isClient THEN rd.len ELSE wr.len,
                  !.response_len = IF isClient THEN wr.len ELSE rd.len,
                  !.client_closed = cc,
                  !.target_closed = tc,
                  !.idle = @ /\ ~active,
                  !.state = IF cc /\ tc THEN "CLOSING" ELSE "FORWARDING"]]
             /\ sock' = SockSet(fd, rd.rx)
  /\ Return
  /\ UNCHANGED interest
  /\ LoopUnchanged

\* Mutants: the state is freed at once, not by a later timer; the numbers of
\* the closed descriptors are kept.
HandleClosing_Frees(a) ==
  /\ Dispatch(a, "CLOSING")
  /\ heap' = [heap EXCEPT ![a] = create_client_state(NoFd)]
  /\ live' = live \ {a}
  /\ clients' = state_registry_remove({a})
  /\ sock' = SockAfterClose(FdsOf(heap[a]))
  /\ interest' = InterestWithout(FdsOf(heap[a]))
  /\ Return
  /\ UNCHANGED <<running, batch, backlog, timerDue>>

HandleClosing_Dangling(a) ==
  /\ Dispatch(a, "CLOSING")
  /\ heap' = [heap EXCEPT ![a].expired = TRUE]
  /\ sock' = SockAfterClose(FdsOf(heap[a]))
  /\ interest' = InterestWithout(FdsOf(heap[a]))
  /\ Return
  /\ LoopUnchanged

\* handle_closing: expire, take both descriptors off epoll and close them.
HandleClosing(a) ==
  /\ Dispatch(a, "CLOSING")
  /\ heap' = [heap EXCEPT ![a].expired = TRUE,
                          ![a].client_fd = NoFd, ![a].target_fd = NoFd]
  /\ sock' = SockAfterClose(FdsOf(heap[a]))
  /\ interest' = InterestWithout(FdsOf(heap[a]))
  /\ Return
  /\ LoopUnchanged

HandleClient ==
  \/ StaleEvent \/ ExpiredEvent
  \/ \E a \in Addr :
       \/ HandleReadingRequest(a)
       \/ AuthAccepted(a) \/ AuthRejected(a)
       \/ ConnectFails(a) \/ ConnectStarts(a) \/ ConnectUnwatched(a)
       \/ ConnectRefused(a) \/ ConnectAccepted(a)
       \/ HandleForwarding(a)
       \/ HandleClosing(a)

-----------------------------------------------------------------------------
\* The world around the loop

KernelOnly ==
  UNCHANGED <<running, heap, live, clients, interest, batch, cur>>

ClientConnects ==
  /\ running /\ backlog < MaxBacklog
  /\ backlog' = backlog + 1
  /\ UNCHANGED <<sock, timerDue>> /\ KernelOnly

\* Peers send, close or reset; a connect in progress completes or fails.
PeerActs ==
  /\ running
  /\ \E fd \in Fds, st \in SockStatus :
       /\ \/ sock[fd] = "quiet" /\ st \in PeerMoves
          \/ sock[fd] \in {"data", "eof"} /\ st \in PeerMoves \cap {"reset"}
          \/ sock[fd] = "connecting" /\ st \in {"quiet", "reset"}
       /\ sock' = [sock EXCEPT ![fd] = st]
  /\ UNCHANGED <<backlog, timerDue>> /\ KernelOnly

TimerExpires ==
  /\ running /\ ~timerDue
  /\ timerDue' = TRUE
  /\ UNCHANGED <<sock, backlog>> /\ KernelOnly

\* Ten seconds have gone by since last_active.
BecomesIdle(a) ==
  /\ running /\ a \in live /\ ~heap[a].idle /\ ~heap[a].expired
  /\ heap' = [heap EXCEPT ![a].idle = TRUE]
  /\ UNCHANGED <<sock, interest, cur>> /\ LoopUnchanged

\* SIGINT or SIGTERM: cleanup() and _exit.
Terminate == running /\ Die

\* simpleproxy.service: Restart=always.
Restart ==
  /\ ~running /\ running' = TRUE
  /\ UNCHANGED <<heap, live, clients, sock, interest, batch, cur, backlog,
                 timerDue>>

Loop == EpollWait \/ NextEvent \/ AcceptFails \/ AcceptClient \/ RejectClient
        \/ HandleTimer \/ HandleClient \/ NullDataEvent

Environment == ClientConnects \/ PeerActs \/ TimerExpires
               \/ (\E a \in Addr : BecomesIdle(a)) \/ Terminate \/ Restart

Next == Loop \/ Environment

Spec == Init /\ [][Next]_vars

\* The thread keeps running and time passes; peers, signals and systemd owe
\* nothing.  Only forwarding renews last_active, so that in every other state
\* the ten seconds are bound to go by.
Fairness ==
  /\ WF_vars(Loop)
  /\ WF_vars(TimerExpires)
  /\ \A a \in Addr :
       WF_vars(heap[a].state # "FORWARDING" /\ BecomesIdle(a))

FairSpec == Spec /\ Fairness

-----------------------------------------------------------------------------
\* Properties

\* Type correctness; in particular no buffer length passes its capacity.
TypeOK ==
  /\ running \in BOOLEAN
  /\ heap \in [Addr -> ClientState]
  /\ live \subseteq Addr
  /\ clients \in [Slots -> Addr \cup {NULL}]
  /\ sock \in [Fds -> SockStatus]
  /\ interest \subseteq Entry
  /\ batch \subseteq Event
  /\ cur \in Event
  /\ backlog \in 0 .. MaxBacklog
  /\ timerDue \in BOOLEAN

\* The registry and the heap agree: each live ClientState sits in exactly the
\* slot it remembers, and the registry points at nothing else, so the timer
\* reaches every ClientState and none that was freed.
RegistryInv ==
  /\ Registered = live
  /\ \A i \in Slots : clients[i] # NULL => heap[clients[i]].slot = i

\* What epoll watches belongs to a live ClientState that still holds that
\* descriptor, so no epoll_wait returns a ClientState that is already freed.
InterestInv ==
  \A e \in interest :
    /\ sock[e.fd] # "none"
    /\ e.addr \in live
    /\ e.fd = IF e.type = "CLIENT" THEN heap[e.addr].client_fd
              ELSE heap[e.addr].target_fd

\* The descriptors open are the ones the live ClientStates hold, each held
\* once: none is leaked, kept after close, or shared by two connections.
FdOwnership ==
  /\ \A f \in Fds : sock[f] # "none" <=> \E a \in live : f \in FdsOf(heap[a])
  /\ \A a, b \in live : a # b => FdsOf(heap[a]) \cap FdsOf(heap[b]) = {}
  /\ \A a \in live : FdsOf(heap[a]) # {} => heap[a].client_fd # heap[a].target_fd

\* epoll watches fd for a, at least for input (in) and output (out).
WatchedFor(fd, a, in, out) ==
  \E e \in interest : e.fd = fd /\ e.addr = a /\ (in => e.in) /\ (out => e.out)

BothWays(a) ==
  /\ WatchedFor(heap[a].client_fd, a, TRUE, TRUE)
  /\ WatchedFor(heap[a].target_fd, a, TRUE, TRUE)

\* A connection that is not expired is watched for what its state waits for:
\* input from the client, the end of a connect, and both ways on both sides once
\* it forwards.  When register_forwarding_fds runs out of memory half-way, and
\* its caller ignores it, the connection forwards nothing that the target
\* answers; what the client sends still gets through, because the watches of the
\* setup stay and the target's is never changed without the client's.
NotDeaf ==
  \A a \in live :
    LET s == heap[a] IN
    ~s.expired =>
      /\ WatchedFor(s.client_fd, a, TRUE, FALSE)
      /\ s.state \in {"CONNECTING", "FORWARDING"} =>
           WatchedFor(s.target_fd, a, FALSE, TRUE)
      /\ s.state = "FORWARDING" =>
           BothWays(a) \/ (DataMayFail /\ ~WatchedFor(s.target_fd, a, TRUE, FALSE))

\* An event whose ClientState is gone is left over from a batch whose timer
\* event has already been handled: handle_closing itself never frees what the
\* batch may still refer to.
StaleOnlyAfterTimer ==
  (\E ev \in batch \cup {cur} :
      ev.type \in {"CLIENT", "TARGET"} /\ ev.addr \notin live)
    => TimerEvent \notin batch \cup {cur}

\* Handling an event of one connection leaves every other connection alone:
\* its ClientState, its sockets and what epoll watches of it.
Isolation ==
  [][HandleClient /\ running' =>
       \A b \in live \ {cur.addr} :
         /\ heap'[b] = heap[b]
         /\ \A fd \in FdsOf(heap[b]) :
              /\ sock'[fd] = sock[fd]
              /\ {e \in interest' : e.fd = fd} = {e \in interest : e.fd = fd}
    ]_vars

\* A connection that is closing or expired gives its ClientState back, even
\* when no further event arrives for it.
ClosingReclaimed ==
  \A a \in Addr :
    (a \in live /\ (heap[a].expired \/ heap[a].state = "CLOSING"))
      ~> a \notin live

\* A connection does not stay in its setup for ever: it forwards or is gone,
\* also when the client stays silent or the target never answers.
SetupEnds ==
  \A a \in Addr :
    (a \in live /\ heap[a].state # "FORWARDING")
      ~> (a \notin live \/ heap[a].state = "FORWARDING")

\* While descriptors last, waiting connections are accepted or turned away,
\* whatever the other events of the batches are.
QueueServed == []<>(~running \/ backlog = 0 \/ FreeFds = {})
=============================================================================
