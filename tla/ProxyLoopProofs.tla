--------------------------- MODULE ProxyLoopProofs ---------------------------
(***************************************************************************)
(* The event loop for every number of clients, descriptors and addresses:  *)
(* its types, then the registry, epoll's interest list and the             *)
(* descriptors.  Each handler's effect on descriptors is one of five kinds *)
(* (lemma HandlerEffect); the invariants are then proved kind by kind.     *)
(***************************************************************************)
EXTENDS ProxyLoop, TLAPS

USE FdsAssumption, MaxClientsAssumption, BufCapAssumption
USE DEF NoFd, Slots, ClientStateEnum, SockStatus

\* A new or freed ClientState is one.
LEMMA CreatedTyped ==
  ASSUME NEW fd \in Fds \cup {NoFd}
  PROVE  create_client_state(fd) \in ClientState
BY DEF create_client_state, ClientState

\* A ClientState stays one when the timer expires it or a slot is noted.
LEMMA ExpiredTyped ==
  ASSUME NEW s \in ClientState
  PROVE  [s EXCEPT !.expired = TRUE] \in ClientState
BY DEF ClientState

LEMMA SlotTyped ==
  ASSUME NEW s \in ClientState, NEW i \in Slots
  PROVE  [s EXCEPT !.slot = i] \in ClientState
BY DEF ClientState

LEMMA EntryTyped ==
  ASSUME NEW fd \in Fds, NEW t \in {"CLIENT", "TARGET", "NODATA"},
         NEW a \in Addr, NEW in \in BOOLEAN, NEW out \in BOOLEAN
  PROVE  [fd |-> fd, type |-> t, addr |-> a, in |-> in, out |-> out] \in Entry
BY DEF Entry

LEMMA EventsTyped ==
  NoEvent \in Event /\ ListenerEvent \in Event /\ TimerEvent \in Event
<1>1. NoEvent \in Event
  BY DEF NoEvent, Event
<1>2. ListenerEvent \in Event
  BY DEF NoEvent, ListenerEvent, Event
<1>3. TimerEvent \in Event
  BY DEF NoEvent, TimerEvent, Event
<1> QED BY <1>1, <1>2, <1>3

\* A process that ends, or starts, has the types of an empty one.
LEMMA DieTyped == Die => TypeOK'
<1> SUFFICES ASSUME Die PROVE TypeOK'
  OBVIOUS
<1>1. heap' \in [Addr -> ClientState]
  BY CreatedTyped DEF Die, BlankHeap
<1>2. clients' \in [Slots -> Addr \cup {NULL}]
  BY DEF Die, BlankRegistry
<1>3. sock' \in [Fds -> SockStatus]
  BY DEF Die, NoSockets
<1>4. running' \in BOOLEAN /\ timerDue' \in BOOLEAN
  BY Zenon DEF Die
<1>5. /\ live' \subseteq Addr /\ interest' \subseteq Entry
      /\ batch' \subseteq Event /\ cur' \in Event
      /\ backlog' \in 0 .. MaxBacklog
  BY EventsTyped, BacklogAssumption DEF Die
<1> QED BY <1>1, <1>2, <1>3, <1>4, <1>5 DEF TypeOK

LEMMA InitTyped == Init => TypeOK
<1> SUFFICES ASSUME Init PROVE TypeOK
  OBVIOUS
<1>1. heap \in [Addr -> ClientState]
  BY CreatedTyped DEF Init, BlankHeap
<1>2. clients \in [Slots -> Addr \cup {NULL}]
  BY DEF Init, BlankRegistry
<1>3. sock \in [Fds -> SockStatus]
  BY DEF Init, NoSockets
<1>4. running \in BOOLEAN /\ timerDue \in BOOLEAN
  BY Zenon DEF Init
<1>5. /\ live \subseteq Addr /\ interest \subseteq Entry
      /\ batch \subseteq Event /\ cur \in Event
      /\ backlog \in 0 .. MaxBacklog
  BY EventsTyped, BacklogAssumption DEF Init
<1> QED BY <1>1, <1>2, <1>3, <1>4, <1>5 DEF TypeOK

\* The steps of run_loop that leave the connections alone.
LEMMA LoopTyped ==
  TypeOK /\ (EpollWait \/ NextEvent \/ AcceptFails \/ RejectClient) => TypeOK'
<1> SUFFICES ASSUME TypeOK, EpollWait \/ NextEvent \/ AcceptFails \/ RejectClient
             PROVE  TypeOK'
  OBVIOUS
<1>1. CASE EpollWait
  <2>1. \A e \in Entry : Reported(e) \in Event
    BY DEF Reported, Entry, Event
  <2>2. Ready \subseteq Event
    BY <2>1, EventsTyped DEF Ready, TypeOK
  <2> QED BY <1>1, <2>2 DEF EpollWait, TypeOK
<1>2. CASE NextEvent
  BY <1>2 DEF NextEvent, TypeOK
<1>3. CASE AcceptFails
  BY <1>3, EventsTyped DEF AcceptFails, DropEvent, Return, TypeOK
<1>4. CASE RejectClient
  BY <1>4, EventsTyped, BacklogAssumption DEF RejectClient, Return, TypeOK
<1> QED BY <1>1, <1>2, <1>3, <1>4

LEMMA AcceptTyped == TypeOK /\ AcceptClient => TypeOK'
<1> SUFFICES ASSUME TypeOK, AcceptClient PROVE TypeOK'
  OBVIOUS
<1> PICK fd \in Fds, a \in Addr \ live, i \in Slots :
       /\ heap' = [heap EXCEPT ![a] = [create_client_state(fd) EXCEPT !.slot = i]]
       /\ live' = live \cup {a}
       /\ clients' = [clients EXCEPT ![i] = a]
       /\ sock' = [sock EXCEPT ![fd] = "quiet"]
       /\ interest' = interest \cup
            {[fd |-> fd, type |-> "CLIENT", addr |-> a,
              in |-> TRUE, out |-> FALSE]}
  BY DEF AcceptClient
<1>1. [create_client_state(fd) EXCEPT !.slot = i] \in ClientState
  BY CreatedTyped, SlotTyped
<1>2. heap' \in [Addr -> ClientState]
  BY <1>1 DEF TypeOK
<1>3. interest' \subseteq Entry
  BY EntryTyped DEF TypeOK
<1> QED BY <1>2, <1>3, BacklogAssumption DEF TypeOK, AcceptClient

LEMMA TimerTyped == TypeOK /\ HandleTimer => TypeOK'
<1> SUFFICES ASSUME TypeOK, HandleTimer PROVE TypeOK'
  OBVIOUS
<1>1. heap' \in [Addr -> ClientState]
  <2>1. \A a \in Addr : [heap[a] EXCEPT !.expired = TRUE] \in ClientState
    BY ExpiredTyped DEF TypeOK
  <2> QED BY <2>1, CreatedTyped DEF HandleTimer, TypeOK
<1>2. clients' \in [Slots -> Addr \cup {NULL}]
  BY DEF HandleTimer, state_registry_remove, TypeOK
<1>3. sock' \in [Fds -> SockStatus]
  BY DEF HandleTimer, SockAfterClose, TypeOK
<1>4. interest' \subseteq Entry
  BY DEF HandleTimer, InterestWithout, TypeOK
<1> QED BY <1>1, <1>2, <1>3, <1>4, EventsTyped DEF HandleTimer, Return, TypeOK

-----------------------------------------------------------------------------
\* The handlers of proxy.c

\* A handler that stays inside its connection: the four variables it may
\* change keep their types.
LEMMA HandlerTyped ==
  ASSUME TypeOK, LoopUnchanged,
         heap' \in [Addr -> ClientState], sock' \in [Fds -> SockStatus],
         interest' \subseteq Entry, cur' \in Event
  PROVE  TypeOK'
BY DEF TypeOK, LoopUnchanged

LEMMA SockTyped ==
  ASSUME TypeOK, NEW fd, NEW st \in SockStatus, NEW S
  PROVE  /\ SockSet(fd, st) \in [Fds -> SockStatus]
         /\ SockAfterClose(S) \in [Fds -> SockStatus]
         /\ InterestWithout(S) \subseteq Entry
BY DEF SockSet, SockAfterClose, InterestWithout, TypeOK

LEMMA EstablishedTyped ==
  ASSUME NEW s \in ClientState
  PROVE  Established(s) \in ClientState
BY DEF Established, ClientState

\* A ClientState with some fields replaced, as the handlers replace them.
LEMMA StateTyped ==
  ASSUME NEW s \in ClientState, NEW st \in ClientStateEnum
  PROVE  [s EXCEPT !.state = st] \in ClientState
BY DEF ClientState

LEMMA ReadingTyped ==
  ASSUME TypeOK, NEW a \in Addr, HandleReadingRequest(a)
  PROVE  TypeOK'
<1>1. PICK o \in read_request_nonblocking(heap[a]) :
        /\ sock' = SockSet(heap[a].client_fd, o.rx)
        /\ heap' = [heap EXCEPT
             ![a].request_len = o.len,
             ![a].state = IF o.res < 0 THEN "CLOSING"
                          ELSE IF o.res = 1 THEN "AUTHENTICATING" ELSE @]
        /\ IF o.res = 0 THEN Return ELSE UNCHANGED cur
  BY DEF HandleReadingRequest
<1>2. o.res \in {-1, 0, 1} /\ o.len \in 0 .. BufCap /\ o.rx \in SockStatus
  BY DEF read_request_nonblocking
<1> DEFINE st == IF o.res < 0 THEN "CLOSING"
                 ELSE IF o.res = 1 THEN "AUTHENTICATING" ELSE heap[a].state
<1>3. st \in ClientStateEnum
  BY DEF TypeOK, ClientState
<1>4. heap' \in [Addr -> ClientState]
  <2> HIDE DEF st
  <2>1. ASSUME NEW s \in ClientState
        PROVE  [s EXCEPT !.request_len = o.len, !.state = st] \in ClientState
    BY <1>2, <1>3 DEF ClientState
  <2>2. heap' = [heap EXCEPT ![a] =
                   [heap[a] EXCEPT !.request_len = o.len, !.state = st]]
    BY <1>1 DEF st, TypeOK
  <2> QED BY <2>1, <2>2 DEF TypeOK
<1>5. sock' \in [Fds -> SockStatus]
  BY <1>1, <1>2, SockTyped
<1>6. interest' \subseteq Entry /\ cur' \in Event /\ LoopUnchanged
  BY <1>1, EventsTyped DEF HandleReadingRequest, Return, TypeOK
<1> QED BY <1>4, <1>5, <1>6, HandlerTyped

LEMMA AuthTyped ==
  ASSUME TypeOK, NEW a \in Addr, AuthAccepted(a) \/ AuthRejected(a)
  PROVE  TypeOK'
<1>1. CASE AuthAccepted(a)
  <2>1. PICK https \in Requests, hostFound \in BOOLEAN :
          /\ heap' = [heap EXCEPT
               ![a].is_https = https,
               ![a].state = IF hostFound THEN "INITIALIZE_CONNECTION"
                            ELSE "CLOSING"]
          /\ IF hostFound THEN UNCHANGED cur ELSE Return
    BY <1>1 DEF AuthAccepted
  <2> DEFINE st == IF hostFound THEN "INITIALIZE_CONNECTION" ELSE "CLOSING"
  <2>2. https \in BOOLEAN /\ st \in ClientStateEnum
    BY RequestsAssumption
  <2>3. heap' \in [Addr -> ClientState]
    <3> HIDE DEF st
    <3>1. ASSUME NEW s \in ClientState
          PROVE  [s EXCEPT !.is_https = https, !.state = st] \in ClientState
      BY <2>2 DEF ClientState
    <3>2. heap' = [heap EXCEPT ![a] =
                     [heap[a] EXCEPT !.is_https = https, !.state = st]]
      BY <2>1 DEF st, TypeOK
    <3> QED BY <3>1, <3>2 DEF TypeOK
  <2>4. /\ sock' \in [Fds -> SockStatus] /\ interest' \subseteq Entry
        /\ cur' \in Event /\ LoopUnchanged
    BY <1>1, <2>1, EventsTyped DEF AuthAccepted, Return, TypeOK
  <2> QED BY <2>3, <2>4, HandlerTyped
<1>2. CASE AuthRejected(a)
  <2>1. CASE SigPipe(heap[a].client_fd)
    BY <2>1, DieTyped DEF SigPipe
  <2>2. CASE heap' = [heap EXCEPT ![a].state = "CLOSING"]
             /\ UNCHANGED <<cur, sock, interest>> /\ LoopUnchanged
    BY <2>2, StateTyped, HandlerTyped DEF TypeOK
  <2> QED BY <1>2, <2>1, <2>2 DEF AuthRejected
<1> QED BY <1>1, <1>2

LEMMA ConnectTyped ==
  ASSUME TypeOK, NEW a \in Addr,
         ConnectFails(a) \/ ConnectStarts(a) \/ ConnectUnwatched(a)
  PROVE  TypeOK'
<1>1. CASE ConnectFails(a)
  BY <1>1, StateTyped, EventsTyped, HandlerTyped
  DEF ConnectFails, Return, TypeOK
<1>2. ASSUME NEW s \in ClientState, NEW fd \in Fds, NEW st \in ClientStateEnum
      PROVE  [s EXCEPT !.target_fd = fd, !.state = st] \in ClientState
  BY DEF ClientState
<1>3. CASE ConnectStarts(a)
  <2>1. PICK fd \in Fds, st \in {"connecting", "quiet"}, data \in {"TARGET", "NODATA"} :
          \/ /\ heap' = [heap EXCEPT ![a] =
                  [IF st = "quiet" THEN Established(heap[a]) ELSE heap[a]
                     EXCEPT !.target_fd = fd, !.state = "CONNECTING"]]
             /\ sock' = [sock EXCEPT ![fd] = st]
             /\ interest' = interest \cup
                  {[fd |-> fd, type |-> data, addr |-> a,
                    in |-> FALSE, out |-> TRUE]}
             /\ Return
             /\ LoopUnchanged
          \/ SigPipe(heap[a].client_fd)
    BY <1>3 DEF ConnectStarts, epoll_create_data
  <2>2. CASE SigPipe(heap[a].client_fd)
    BY <2>2, DieTyped DEF SigPipe
  <2>3. CASE ~SigPipe(heap[a].client_fd)
    <3> DEFINE s == IF st = "quiet" THEN Established(heap[a]) ELSE heap[a]
               e == [fd |-> fd, type |-> data, addr |-> a,
                     in |-> FALSE, out |-> TRUE]
    <3>1. s \in ClientState /\ e \in Entry
      BY EstablishedTyped, EntryTyped DEF TypeOK
    <3>2. /\ heap' = [heap EXCEPT ![a] =
                       [s EXCEPT !.target_fd = fd, !.state = "CONNECTING"]]
          /\ interest' = interest \cup {e}
          /\ sock' = [sock EXCEPT ![fd] = st]
          /\ cur' = NoEvent /\ LoopUnchanged
      BY <2>1, <2>3 DEF Return
    <3> HIDE DEF s, e
    <3>3. heap' \in [Addr -> ClientState]
      BY <1>2, <3>1, <3>2 DEF TypeOK
    <3>4. interest' \subseteq Entry
      BY <3>1, <3>2 DEF TypeOK
    <3>5. sock' \in [Fds -> SockStatus] /\ cur' \in Event
      BY <3>2, EventsTyped DEF TypeOK
    <3> QED BY <3>2, <3>3, <3>4, <3>5, HandlerTyped
  <2> QED BY <2>2, <2>3
<1>4. CASE ConnectUnwatched(a)
  <2>1. PICK fd \in Fds, st \in {"connecting", "quiet"} :
          heap' = [heap EXCEPT ![a] =
            [IF st = "quiet" THEN Established(heap[a]) ELSE heap[a]
               EXCEPT !.target_fd = fd, !.state = "CLOSING"]]
    BY <1>4 DEF ConnectUnwatched
  <2>2. heap' \in [Addr -> ClientState]
    BY <1>2, <2>1, EstablishedTyped DEF TypeOK
  <2> QED BY <1>4, <2>2, EventsTyped, HandlerTyped
          DEF ConnectUnwatched, Return, TypeOK
<1> QED BY <1>1, <1>3, <1>4

LEMMA ForwardingTyped ==
  ASSUME NEW s \in ClientState
  PROVE  [s EXCEPT !.response_len = 0, !.state = "FORWARDING"] \in ClientState
<1>1. ASSUME NEW n \in 0 .. BufCap, NEW st \in ClientStateEnum
      PROVE  [s EXCEPT !.response_len = n, !.state = st] \in ClientState
  BY DEF ClientState
<1>2. 0 \in 0 .. BufCap /\ "FORWARDING" \in ClientStateEnum
  OBVIOUS
<1> QED BY <1>1, <1>2

LEMMA ModTyped ==
  ASSUME TypeOK, NEW I \in SUBSET Entry, NEW fd, EpollWatches(fd),
         NEW t \in {"CLIENT", "TARGET"}, NEW a \in Addr
  PROVE  EpollMod(I, fd, t, a) \in SUBSET Entry
<1>1. fd \in Fds
  BY DEF EpollWatches, TypeOK, Entry
<1>2. [fd |-> fd, type |-> t, addr |-> a, in |-> TRUE, out |-> TRUE] \in Entry
  BY <1>1, EntryTyped
<1> QED BY <1>2 DEF EpollMod

\* Neither descriptor is switched, the client's alone, or both.
LEMMA RegisterOutcomes ==
  ASSUME NEW a, NEW I \in register_forwarding_fds(a)
  PROVE  LET c == heap[a].client_fd
             t == heap[a].target_fd
             half == EpollMod(interest, c, "CLIENT", a)
         IN \/ I = interest /\ EpollModFails(c, "CLIENT")
            \/ I = half /\ EpollWatches(c) /\ EpollModFails(t, "TARGET")
            \/ /\ I = EpollMod(half, t, "TARGET", a)
               /\ EpollWatches(c) /\ EpollWatches(t)
BY DEF register_forwarding_fds

LEMMA ConnectingTyped ==
  ASSUME TypeOK, NEW a \in Addr, ConnectRefused(a) \/ ConnectAccepted(a)
  PROVE  TypeOK'
<1>1. CASE ConnectRefused(a)
  <2>1. [heap[a] EXCEPT !.target_fd = NoFd, !.state = "CLOSING"] \in ClientState
    <3>1. ASSUME NEW s \in ClientState
          PROVE  [s EXCEPT !.target_fd = NoFd, !.state = "CLOSING"] \in ClientState
      BY DEF ClientState
    <3> QED BY <3>1 DEF TypeOK
  <2>2. heap' \in [Addr -> ClientState]
    BY <1>1, <2>1 DEF ConnectRefused, TypeOK
  <2>3. /\ sock' \in [Fds -> SockStatus] /\ interest' \subseteq Entry
        /\ cur' \in Event /\ LoopUnchanged
    BY <1>1, SockTyped DEF ConnectRefused, TypeOK
  <2> QED BY <2>2, <2>3, HandlerTyped
<1>2. CASE ConnectAccepted(a)
  <2>1. CASE SigPipe(heap[a].client_fd)
    BY <2>1, DieTyped DEF SigPipe
  <2>2. CASE ~SigPipe(heap[a].client_fd)
    <3>1. /\ heap' = [heap EXCEPT ![a] =
                       [Established(heap[a]) EXCEPT !.response_len = 0,
                                                    !.state = "FORWARDING"]]
          /\ interest' \in register_forwarding_fds(a)
          /\ sock' = sock /\ cur' = NoEvent /\ LoopUnchanged
      BY <1>2, <2>2 DEF ConnectAccepted, Return
    <3>2. heap' \in [Addr -> ClientState]
      BY <3>1, EstablishedTyped, ForwardingTyped DEF TypeOK
    <3>3. interest' \in SUBSET Entry
      <4>1. interest \in SUBSET Entry
        BY DEF TypeOK
      <4>2. EpollWatches(heap[a].client_fd) =>
              EpollMod(interest, heap[a].client_fd, "CLIENT", a) \in SUBSET Entry
        BY <4>1, ModTyped
      <4>3. EpollWatches(heap[a].client_fd) /\ EpollWatches(heap[a].target_fd) =>
              EpollMod(EpollMod(interest, heap[a].client_fd, "CLIENT", a),
                       heap[a].target_fd, "TARGET", a) \in SUBSET Entry
        BY <4>2, ModTyped
      <4> QED BY <3>1, <4>1, <4>2, <4>3, RegisterOutcomes
    <3>4. sock' \in [Fds -> SockStatus] /\ cur' \in Event
      BY <3>1, EventsTyped DEF TypeOK
    <3> QED BY <3>1, <3>2, <3>3, <3>4, HandlerTyped
  <2> QED BY <2>1, <2>2
<1> QED BY <1>1, <1>2

LEMMA ClosingTyped ==
  ASSUME TypeOK, NEW a \in Addr, HandleClosing(a)
  PROVE  TypeOK'
<1>1. ASSUME NEW s \in ClientState
      PROVE  [s EXCEPT !.expired = TRUE, !.client_fd = NoFd, !.target_fd = NoFd]
               \in ClientState
  BY DEF ClientState
<1>2. heap' \in [Addr -> ClientState]
  BY <1>1 DEF HandleClosing, TypeOK
<1>3. /\ sock' \in [Fds -> SockStatus] /\ interest' \subseteq Entry
      /\ cur' \in Event /\ LoopUnchanged
  BY SockTyped, EventsTyped DEF HandleClosing, Return, TypeOK
<1> QED BY <1>2, <1>3, HandlerTyped

\* connection_forward keeps both lengths within the buffers' capacities.
LEMMA TransferTyped ==
  ASSUME TypeOK, NEW a \in Addr, HandleForwarding(a)
  PROVE  TypeOK'
<1> DEFINE s == heap[a]
           isClient == cur.type = "CLIENT"
           fd == IF isClient THEN s.client_fd ELSE s.target_fd
           rlen == IF isClient THEN s.request_len ELSE s.response_len
           wlen == IF isClient THEN s.response_len ELSE s.request_len
           reads == IF cur.in THEN recv_into_buffer(rlen, Status(fd))
                    ELSE {[res |-> 0, len |-> rlen, rx |-> Status(fd)]}
           writes == IF cur.out /\ wlen > 0
                     THEN send_from_buffer(wlen, Status(fd))
                     ELSE {[res |-> 0, len |-> wlen]}
<1>1. PICK rd \in reads, wr \in writes :
        LET closed == rd.res < 0 \/ wr.res < 0
            active == rd.res > 0 \/ wr.res > 0
            cc == s.client_closed \/ (isClient /\ closed)
            tc == s.target_closed \/ (~isClient /\ closed)
        IN /\ heap' = [heap EXCEPT ![a] = [s EXCEPT
                !.request_len = IF isClient THEN rd.len ELSE wr.len,
                !.response_len = IF isClient THEN wr.len ELSE rd.len,
                !.client_closed = cc,
                !.target_closed = tc,
                !.idle = @ /\ ~active,
                !.state = IF cc /\ tc THEN "CLOSING" ELSE "FORWARDING"]]
           /\ sock' = SockSet(fd, rd.rx)
  BY DEF HandleForwarding
<1>2. s \in ClientState /\ rlen \in 0 .. BufCap /\ wlen \in 0 .. BufCap
  BY DEF TypeOK, ClientState
<1>3. Status(fd) \in SockStatus
  BY DEF Status, TypeOK
<1>4. rd.len \in 0 .. BufCap /\ rd.rx \in SockStatus
  BY <1>2, <1>3 DEF recv_into_buffer
<1>5. wr.len \in 0 .. BufCap
  BY <1>2 DEF send_from_buffer
<1> DEFINE req == IF isClient THEN rd.len ELSE wr.len
           resp == IF isClient THEN wr.len ELSE rd.len
           closed == rd.res < 0 \/ wr.res < 0
           cc == s.client_closed \/ (isClient /\ closed)
           tc == s.target_closed \/ (~isClient /\ closed)
           id == s.idle /\ ~(rd.res > 0 \/ wr.res > 0)
           st == IF cc /\ tc THEN "CLOSING" ELSE "FORWARDING"
<1>6. /\ req \in 0 .. BufCap /\ resp \in 0 .. BufCap
      /\ cc \in BOOLEAN /\ tc \in BOOLEAN /\ id \in BOOLEAN
      /\ st \in ClientStateEnum
  BY <1>4, <1>5
<1>7. heap' = [heap EXCEPT ![a] =
                [s EXCEPT !.request_len = req, !.response_len = resp,
                          !.client_closed = cc, !.target_closed = tc,
                          !.idle = id, !.state = st]]
  BY <1>1
<1>8. heap' \in [Addr -> ClientState]
  <2> HIDE DEF req, resp, cc, tc, id, st, s
  <2>1. [s EXCEPT !.request_len = req, !.response_len = resp,
                  !.client_closed = cc, !.target_closed = tc,
                  !.idle = id, !.state = st] \in ClientState
    BY <1>2, <1>6 DEF ClientState
  <2> QED BY <1>7, <2>1 DEF TypeOK
<1>9. /\ sock' \in [Fds -> SockStatus] /\ interest' \subseteq Entry
      /\ cur' \in Event /\ LoopUnchanged
  BY <1>1, <1>4, SockTyped, EventsTyped DEF HandleForwarding, Return, TypeOK
<1> QED BY <1>8, <1>9, HandlerTyped

-----------------------------------------------------------------------------
\* Type correctness

LEMMA EnvironmentTyped == TypeOK /\ Environment => TypeOK'
<1> SUFFICES ASSUME TypeOK, Environment PROVE TypeOK'
  OBVIOUS
<1>1. CASE ClientConnects
  BY <1>1, BacklogAssumption DEF ClientConnects, KernelOnly, TypeOK
<1>2. CASE PeerActs
  BY <1>2 DEF PeerActs, KernelOnly, TypeOK
<1>3. CASE TimerExpires
  BY <1>3 DEF TimerExpires, KernelOnly, TypeOK
<1>4. CASE \E a \in Addr : BecomesIdle(a)
  <2>1. PICK a \in Addr : BecomesIdle(a)
    BY <1>4
  <2>2. ASSUME NEW s \in ClientState
        PROVE  [s EXCEPT !.idle = TRUE] \in ClientState
    BY DEF ClientState
  <2> QED BY <2>1, <2>2, HandlerTyped DEF BecomesIdle, TypeOK
<1>5. CASE Terminate
  BY <1>5, DieTyped DEF Terminate
<1>6. CASE Restart
  BY <1>6 DEF Restart, TypeOK
<1> QED BY <1>1, <1>2, <1>3, <1>4, <1>5, <1>6 DEF Environment

LEMMA HandleClientTyped == TypeOK /\ HandleClient => TypeOK'
<1> SUFFICES ASSUME TypeOK, HandleClient PROVE TypeOK'
  OBVIOUS
<1>1. CASE StaleEvent \/ ExpiredEvent
  BY <1>1, DieTyped, EventsTyped
  DEF StaleEvent, ExpiredEvent, DropEvent, Return, TypeOK
<1>2. ASSUME NEW a \in Addr,
             \/ HandleReadingRequest(a)
             \/ AuthAccepted(a) \/ AuthRejected(a)
             \/ ConnectFails(a) \/ ConnectStarts(a) \/ ConnectUnwatched(a)
             \/ ConnectRefused(a) \/ ConnectAccepted(a)
             \/ HandleForwarding(a)
             \/ HandleClosing(a)
      PROVE  TypeOK'
  BY <1>2, ReadingTyped, AuthTyped, ConnectTyped, ConnectingTyped,
     TransferTyped, ClosingTyped
<1> QED BY <1>1, <1>2 DEF HandleClient

\* Every variable of the event loop keeps its type; in particular no buffer
\* length passes the capacity of its buffer.
THEOREM TypeCorrect == Spec => []TypeOK
<1>1. Init => TypeOK
  BY InitTyped
<1>2. TypeOK /\ [Next]_vars => TypeOK'
  <2> SUFFICES ASSUME TypeOK, [Next]_vars PROVE TypeOK'
    OBVIOUS
  <2>1. CASE Loop
    BY <2>1, LoopTyped, AcceptTyped, TimerTyped, HandleClientTyped, DieTyped
    DEF Loop, NullDataEvent
  <2>2. CASE Environment
    BY <2>2, EnvironmentTyped
  <2>3. CASE UNCHANGED vars
    BY <2>3 DEF vars, TypeOK
  <2> QED BY <2>1, <2>2, <2>3 DEF Next
<1> QED BY <1>1, <1>2, PTL DEF Spec

-----------------------------------------------------------------------------
\* Registry, interest list and descriptors

\* While a connection is being set up it has no target yet, so
\* connection_connect overwrites no descriptor.
SetupInv ==
  \A a \in Addr :
    heap[a].state \in {"READING_REQUEST", "AUTHENTICATING",
                       "INITIALIZE_CONNECTION"}
      => heap[a].target_fd = NoFd

\* As long as epoll takes every registration, see LoopWatchLimit.cfg.
OwnershipInv == ~EpollAddMayFail => FdOwnership

IInv == TypeOK /\ RegistryInv /\ InterestInv /\ SetupInv /\ OwnershipInv

\* A handler of a changes no other ClientState, and of its own neither the
\* slot nor the descriptor of the client.
Within(a) ==
  /\ a \in live
  /\ UNCHANGED <<live, clients>>
  /\ \A b \in Addr \ {a} : heap'[b] = heap[b]
  /\ heap'[a].slot = heap[a].slot

\* The same descriptors are open, and only those of a changed their state.
SameOpen(a) ==
  \A f \in Fds : /\ sock'[f] = "none" <=> sock[f] = "none"
                 /\ f \notin FdsOf(heap[a]) => sock'[f] = sock[f]

\* The handler keeps both descriptors, and may change what epoll reports.
Keeps(a) ==
  /\ Within(a) /\ SameOpen(a)
  /\ heap'[a].client_fd = heap[a].client_fd
  /\ heap'[a].target_fd = heap[a].target_fd
  /\ \/ interest' = interest
     \/ /\ heap[a].state = "CONNECTING" /\ heap'[a].state = "FORWARDING"
        /\ interest' \in register_forwarding_fds(a)

\* A socket for the target is opened and watched.
Opens(a, fd, st) ==
  /\ Within(a) /\ sock[fd] = "none" /\ st # "none"
  /\ heap[a].state = "INITIALIZE_CONNECTION"
  /\ heap'[a].client_fd = heap[a].client_fd /\ heap'[a].target_fd = fd
  /\ sock' = [sock EXCEPT ![fd] = st]
  /\ \E data \in {"TARGET", "NODATA"} : interest' = interest \cup
       {[fd |-> fd, type |-> data, addr |-> a, in |-> FALSE, out |-> TRUE]}

\* A socket for the target is opened, not watched, and closed.
Dangles(a) ==
  /\ Within(a) /\ EpollAddMayFail
  /\ heap[a].state = "INITIALIZE_CONNECTION"
  /\ heap'[a].client_fd = heap[a].client_fd
  /\ UNCHANGED <<sock, interest>>

\* The target's socket is closed.
ClosesTarget(a) ==
  /\ Within(a)
  /\ heap'[a].client_fd = heap[a].client_fd /\ heap'[a].target_fd = NoFd
  /\ sock' = SockAfterClose({heap[a].target_fd})
  /\ interest' = InterestWithout({heap[a].target_fd})

\* Both sockets are closed.
ClosesBoth(a) ==
  /\ Within(a)
  /\ heap'[a].client_fd = NoFd /\ heap'[a].target_fd = NoFd
  /\ sock' = SockAfterClose(FdsOf(heap[a]))
  /\ interest' = InterestWithout(FdsOf(heap[a]))

Effect(a) ==
  \/ Keeps(a) \/ Dangles(a) \/ ClosesTarget(a) \/ ClosesBoth(a)
  \/ \E fd \in Fds, st \in SockStatus : Opens(a, fd, st)

\* The stages of a connection's setup are left only forwards.
StaysSetUp(a) ==
  heap'[a].state \in {"READING_REQUEST", "AUTHENTICATING",
                      "INITIALIZE_CONNECTION"}
    => /\ heap[a].state \in {"READING_REQUEST", "AUTHENTICATING",
                             "INITIALIZE_CONNECTION"}
       /\ heap'[a].target_fd = heap[a].target_fd

LEMMA NoFdNotOpen == NoFd \notin Fds
BY FdsAssumption DEF NoFd

LEMMA ReadingEffect ==
  ASSUME TypeOK, NEW a \in Addr, HandleReadingRequest(a)
  PROVE  Keeps(a) /\ StaysSetUp(a)
<1>1. PICK o \in read_request_nonblocking(heap[a]) :
        /\ sock' = SockSet(heap[a].client_fd, o.rx)
        /\ heap' = [heap EXCEPT
             ![a].request_len = o.len,
             ![a].state = IF o.res < 0 THEN "CLOSING"
                          ELSE IF o.res = 1 THEN "AUTHENTICATING" ELSE @]
  BY DEF HandleReadingRequest
<1>2. heap[a] \in ClientState
  BY DEF TypeOK
<1>3. /\ \A b \in Addr \ {a} : heap'[b] = heap[b]
      /\ heap'[a].slot = heap[a].slot
      /\ heap'[a].client_fd = heap[a].client_fd
      /\ heap'[a].target_fd = heap[a].target_fd
  BY <1>1, <1>2 DEF TypeOK, ClientState
<1>4. SameOpen(a)
  BY <1>1, NoFdNotOpen DEF SameOpen, FdsOf, SockSet, read_request_nonblocking, Status, TypeOK
<1>5. heap[a].state = "READING_REQUEST"
  BY DEF HandleReadingRequest, Dispatch
<1> QED BY <1>3, <1>4, <1>5
        DEF Keeps, Within, StaysSetUp, HandleReadingRequest, Dispatch,
            LoopUnchanged

LEMMA AuthEffect ==
  ASSUME TypeOK, NEW a \in Addr, AuthAccepted(a) \/ AuthRejected(a), ~Die
  PROVE  Keeps(a) /\ StaysSetUp(a)
<1>1. heap[a] \in ClientState
  BY DEF TypeOK
<1>2. CASE AuthAccepted(a)
  <2>1. PICK https \in Requests, hostFound \in BOOLEAN :
          heap' = [heap EXCEPT
               ![a].is_https = https,
               ![a].state = IF hostFound THEN "INITIALIZE_CONNECTION"
                            ELSE "CLOSING"]
    BY <1>2 DEF AuthAccepted
  <2>2. /\ \A b \in Addr \ {a} : heap'[b] = heap[b]
        /\ heap'[a].slot = heap[a].slot
        /\ heap'[a].client_fd = heap[a].client_fd
        /\ heap'[a].target_fd = heap[a].target_fd
    BY <1>1, <2>1 DEF TypeOK, ClientState
  <2> QED BY <1>2, <2>2
          DEF Keeps, Within, SameOpen, StaysSetUp, AuthAccepted, Dispatch,
              LoopUnchanged
<1>3. CASE AuthRejected(a)
  <2>1. /\ heap' = [heap EXCEPT ![a].state = "CLOSING"]
        /\ UNCHANGED <<sock, interest>> /\ LoopUnchanged
    BY <1>3 DEF AuthRejected, SigPipe
  <2>2. /\ \A b \in Addr \ {a} : heap'[b] = heap[b]
        /\ heap'[a].slot = heap[a].slot
        /\ heap'[a].client_fd = heap[a].client_fd
        /\ heap'[a].target_fd = heap[a].target_fd
    BY <1>1, <2>1 DEF TypeOK, ClientState
  <2> QED BY <1>3, <2>1, <2>2
          DEF Keeps, Within, SameOpen, StaysSetUp, AuthRejected, Dispatch,
              LoopUnchanged
<1> QED BY <1>2, <1>3

\* The ClientState connection_connect works on: it may have answered the
\* CONNECT already.
ConnectedState(a, st) ==
  IF st = "quiet" THEN Established(heap[a]) ELSE heap[a]

LEMMA ConnectedStateFields ==
  ASSUME TypeOK, NEW a \in Addr, NEW st
  PROVE  /\ ConnectedState(a, st) \in ClientState
         /\ ConnectedState(a, st).slot = heap[a].slot
         /\ ConnectedState(a, st).client_fd = heap[a].client_fd
<1>1. heap[a] \in ClientState
  BY DEF TypeOK
<1> QED BY <1>1, EstablishedTyped DEF ConnectedState, Established, ClientState

LEMMA ConnectFailsEffect ==
  ASSUME TypeOK, NEW a \in Addr, ConnectFails(a)
  PROVE  Effect(a) /\ StaysSetUp(a)
<1>1. heap[a] \in ClientState
  BY DEF TypeOK
<1>2. /\ \A b \in Addr \ {a} : heap'[b] = heap[b]
      /\ heap'[a].slot = heap[a].slot
      /\ heap'[a].client_fd = heap[a].client_fd
      /\ heap'[a].target_fd = heap[a].target_fd
      /\ heap'[a].state = "CLOSING"
  BY <1>1 DEF ConnectFails, TypeOK, ClientState
<1> QED BY <1>2
        DEF Effect, Keeps, Within, SameOpen, StaysSetUp, ConnectFails,
            Dispatch, LoopUnchanged

LEMMA ConnectStartsEffect ==
  ASSUME TypeOK, NEW a \in Addr, ~Die, ConnectStarts(a)
  PROVE  Effect(a) /\ StaysSetUp(a)
<1>1. PICK fd \in Fds, st \in {"connecting", "quiet"}, data \in {"TARGET", "NODATA"} :
        /\ Lowest(fd)
        /\ heap' = [heap EXCEPT ![a] =
             [IF st = "quiet" THEN Established(heap[a]) ELSE heap[a]
                EXCEPT !.target_fd = fd, !.state = "CONNECTING"]]
        /\ sock' = [sock EXCEPT ![fd] = st]
        /\ interest' = interest \cup
             {[fd |-> fd, type |-> data, addr |-> a,
               in |-> FALSE, out |-> TRUE]}
        /\ LoopUnchanged
  BY DEF ConnectStarts, epoll_create_data, SigPipe
<1>2. sock[fd] = "none" /\ st # "none" /\ st \in SockStatus
  BY <1>1 DEF Lowest, FreeFds, SockStatus
<1>3. heap' = [heap EXCEPT ![a] = [ConnectedState(a, st) EXCEPT
                 !.target_fd = fd, !.state = "CONNECTING"]]
  BY <1>1 DEF ConnectedState
<1>4. /\ ConnectedState(a, st) \in ClientState
      /\ ConnectedState(a, st).slot = heap[a].slot
      /\ ConnectedState(a, st).client_fd = heap[a].client_fd
  BY ConnectedStateFields
<1>5. /\ \A b \in Addr \ {a} : heap'[b] = heap[b]
      /\ heap'[a].slot = heap[a].slot
      /\ heap'[a].client_fd = heap[a].client_fd
      /\ heap'[a].target_fd = fd
      /\ heap'[a].state = "CONNECTING"
  BY <1>3, <1>4 DEF TypeOK, ClientState
<1>6. Opens(a, fd, st)
  BY <1>1, <1>2, <1>5
  DEF Opens, Within, ConnectStarts, Dispatch, LoopUnchanged
<1>7. StaysSetUp(a)
  BY <1>5 DEF StaysSetUp
<1> QED BY <1>2, <1>6, <1>7 DEF Effect

LEMMA ConnectUnwatchedEffect ==
  ASSUME TypeOK, NEW a \in Addr, ConnectUnwatched(a)
  PROVE  Effect(a) /\ StaysSetUp(a)
<1>1. PICK fd \in Fds, st \in {"connecting", "quiet"} :
        heap' = [heap EXCEPT ![a] =
          [IF st = "quiet" THEN Established(heap[a]) ELSE heap[a]
             EXCEPT !.target_fd = fd, !.state = "CLOSING"]]
  BY DEF ConnectUnwatched
<1>2. heap' = [heap EXCEPT ![a] = [ConnectedState(a, st) EXCEPT
                 !.target_fd = fd, !.state = "CLOSING"]]
  BY <1>1 DEF ConnectedState
<1>3. /\ ConnectedState(a, st) \in ClientState
      /\ ConnectedState(a, st).slot = heap[a].slot
      /\ ConnectedState(a, st).client_fd = heap[a].client_fd
  BY ConnectedStateFields
<1>4. /\ \A b \in Addr \ {a} : heap'[b] = heap[b]
      /\ heap'[a].slot = heap[a].slot
      /\ heap'[a].client_fd = heap[a].client_fd
      /\ heap'[a].state = "CLOSING"
  BY <1>2, <1>3 DEF TypeOK, ClientState
<1>5. StaysSetUp(a)
  BY <1>4 DEF StaysSetUp
<1> QED BY <1>4, <1>5
        DEF Effect, Dangles, Within, ConnectUnwatched, Dispatch, LoopUnchanged

LEMMA ConnectingEffect ==
  ASSUME TypeOK, NEW a \in Addr, ConnectRefused(a) \/ ConnectAccepted(a), ~Die
  PROVE  Effect(a) /\ StaysSetUp(a)
<1>1. heap[a] \in ClientState
  BY DEF TypeOK
<1>2. CASE ConnectRefused(a)
  <2>1. heap' = [heap EXCEPT ![a] =
                   [heap[a] EXCEPT !.target_fd = NoFd, !.state = "CLOSING"]]
    BY <1>2 DEF ConnectRefused, TypeOK
  <2>2. /\ \A b \in Addr \ {a} : heap'[b] = heap[b]
        /\ heap'[a].slot = heap[a].slot
        /\ heap'[a].client_fd = heap[a].client_fd
        /\ heap'[a].target_fd = NoFd
        /\ heap'[a].state = "CLOSING"
    BY <1>1, <2>1 DEF TypeOK, ClientState
  <2> QED BY <1>2, <2>2
          DEF Effect, ClosesTarget, Within, StaysSetUp, ConnectRefused,
              Dispatch, LoopUnchanged
<1>3. CASE ConnectAccepted(a)
  <2>1. /\ heap' = [heap EXCEPT ![a] =
             [Established(heap[a]) EXCEPT !.response_len = 0,
                                          !.state = "FORWARDING"]]
        /\ interest' \in register_forwarding_fds(a)
        /\ UNCHANGED sock /\ LoopUnchanged
    BY <1>3 DEF ConnectAccepted, SigPipe
  <2>2. /\ Established(heap[a]) \in ClientState
        /\ Established(heap[a]).slot = heap[a].slot
        /\ Established(heap[a]).client_fd = heap[a].client_fd
        /\ Established(heap[a]).target_fd = heap[a].target_fd
    BY <1>1, EstablishedTyped DEF Established, ClientState
  <2>3. /\ \A b \in Addr \ {a} : heap'[b] = heap[b]
        /\ heap'[a].slot = heap[a].slot
        /\ heap'[a].client_fd = heap[a].client_fd
        /\ heap'[a].target_fd = heap[a].target_fd
        /\ heap'[a].state = "FORWARDING"
    BY <2>1, <2>2 DEF TypeOK, ClientState
  <2> QED BY <1>3, <2>1, <2>3
          DEF Effect, Keeps, Within, SameOpen, StaysSetUp, ConnectAccepted,
              Dispatch, LoopUnchanged
<1> QED BY <1>2, <1>3

LEMMA TransferEffect ==
  ASSUME TypeOK, NEW a \in Addr, HandleForwarding(a)
  PROVE  Keeps(a) /\ StaysSetUp(a) /\ heap'[a].state \in {"CLOSING", "FORWARDING"}
<1> DEFINE s == heap[a]
           isClient == cur.type = "CLIENT"
           fd == IF isClient THEN s.client_fd ELSE s.target_fd
           rlen == IF isClient THEN s.request_len ELSE s.response_len
           wlen == IF isClient THEN s.response_len ELSE s.request_len
           reads == IF cur.in THEN recv_into_buffer(rlen, Status(fd))
                    ELSE {[res |-> 0, len |-> rlen, rx |-> Status(fd)]}
           writes == IF cur.out /\ wlen > 0
                     THEN send_from_buffer(wlen, Status(fd))
                     ELSE {[res |-> 0, len |-> wlen]}
<1>1. PICK rd \in reads, wr \in writes :
        LET closed == rd.res < 0 \/ wr.res < 0
            active == rd.res > 0 \/ wr.res > 0
            cc == s.client_closed \/ (isClient /\ closed)
            tc == s.target_closed \/ (~isClient /\ closed)
        IN /\ heap' = [heap EXCEPT ![a] = [s EXCEPT
                !.request_len = IF isClient THEN rd.len ELSE wr.len,
                !.response_len = IF isClient THEN wr.len ELSE rd.len,
                !.client_closed = cc,
                !.target_closed = tc,
                !.idle = @ /\ ~active,
                !.state = IF cc /\ tc THEN "CLOSING" ELSE "FORWARDING"]]
           /\ sock' = SockSet(fd, rd.rx)
  BY DEF HandleForwarding
<1>2. s \in ClientState
  BY DEF TypeOK
<1>3. /\ \A b \in Addr \ {a} : heap'[b] = heap[b]
      /\ heap'[a].slot = s.slot
      /\ heap'[a].client_fd = s.client_fd
      /\ heap'[a].target_fd = s.target_fd
      /\ heap'[a].state \in {"CLOSING", "FORWARDING"}
  BY <1>1, <1>2 DEF TypeOK, ClientState
<1>4. rd.rx = "none" <=> Status(fd) = "none"
  BY DEF recv_into_buffer
<1>5. SameOpen(a)
  BY <1>1, <1>4, NoFdNotOpen DEF SameOpen, FdsOf, SockSet, Status, TypeOK
<1> QED BY <1>3, <1>5
        DEF Keeps, Within, StaysSetUp, HandleForwarding, Dispatch,
            LoopUnchanged

LEMMA ClosingEffect ==
  ASSUME TypeOK, NEW a \in Addr, HandleClosing(a)
  PROVE  ClosesBoth(a) /\ StaysSetUp(a)
<1>1. heap[a] \in ClientState
  BY DEF TypeOK
<1>2. heap' = [heap EXCEPT ![a] = [heap[a] EXCEPT !.expired = TRUE,
                 !.client_fd = NoFd, !.target_fd = NoFd]]
  BY DEF HandleClosing, TypeOK
<1>3. /\ \A b \in Addr \ {a} : heap'[b] = heap[b]
      /\ heap'[a].slot = heap[a].slot
      /\ heap'[a].client_fd = NoFd
      /\ heap'[a].target_fd = NoFd
      /\ heap'[a].state = heap[a].state
  BY <1>1, <1>2 DEF TypeOK, ClientState
<1> QED BY <1>3
        DEF ClosesBoth, Within, StaysSetUp, HandleClosing, Dispatch,
            LoopUnchanged

\* What handling one event of a connection does to descriptors: nothing, the
\* end of the process, or one of the five kinds.
LEMMA HandlerEffect ==
  ASSUME TypeOK, HandleClient
  PROVE  \/ Die
         \/ DropEvent
         \/ Effect(cur.addr) /\ StaysSetUp(cur.addr) /\ cur.addr \in Addr
<1>1. CASE StaleEvent \/ ExpiredEvent
  BY <1>1 DEF StaleEvent, ExpiredEvent
<1>2. ASSUME NEW a \in Addr, ~Die,
             \/ HandleReadingRequest(a)
             \/ AuthAccepted(a) \/ AuthRejected(a)
             \/ ConnectFails(a) \/ ConnectStarts(a) \/ ConnectUnwatched(a)
             \/ ConnectRefused(a) \/ ConnectAccepted(a)
             \/ HandleForwarding(a)
             \/ HandleClosing(a)
      PROVE  Effect(a) /\ StaysSetUp(a) /\ cur.addr = a
  <2>1. cur.addr = a
    BY <1>2 DEF HandleReadingRequest, AuthAccepted, AuthRejected,
       ConnectFails, ConnectStarts, ConnectUnwatched, ConnectRefused,
       ConnectAccepted, HandleForwarding, HandleClosing, Dispatch
  <2>2. Effect(a) /\ StaysSetUp(a)
    BY <1>2, ReadingEffect, AuthEffect, ConnectFailsEffect,
       ConnectStartsEffect, ConnectUnwatchedEffect, ConnectingEffect,
       TransferEffect, ClosingEffect DEF Effect
  <2> QED BY <2>1, <2>2
<1> QED BY <1>1, <1>2 DEF HandleClient

-----------------------------------------------------------------------------
\* A handler preserves the invariant, kind by kind

LEMMA EffectRegistry ==
  ASSUME TypeOK, RegistryInv, NEW a \in Addr, Effect(a)
  PROVE  RegistryInv'
<1>1. Within(a)
  BY DEF Effect, Keeps, Dangles, ClosesTarget, ClosesBoth, Opens
<1>2. \A b \in Addr : heap'[b].slot = heap[b].slot
  BY <1>1 DEF Within
<1>3. clients' = clients /\ live' = live
  BY <1>1 DEF Within
<1> QED BY <1>2, <1>3 DEF RegistryInv, Registered, TypeOK

LEMMA EffectSetup ==
  ASSUME TypeOK, SetupInv, NEW a \in Addr, Effect(a), StaysSetUp(a)
  PROVE  SetupInv'
<1>1. Within(a)
  BY DEF Effect, Keeps, Dangles, ClosesTarget, ClosesBoth, Opens
<1> QED BY <1>1 DEF Within, SetupInv, StaysSetUp

LEMMA EffectInterest ==
  ASSUME TypeOK, InterestInv, SetupInv, NEW a \in Addr, Effect(a)
  PROVE  InterestInv'
<1> SUFFICES ASSUME NEW e \in interest'
             PROVE  /\ sock'[e.fd] # "none"
                    /\ e.addr \in live'
                    /\ e.fd = IF e.type = "CLIENT"
                              THEN heap'[e.addr].client_fd
                              ELSE heap'[e.addr].target_fd
  BY DEF InterestInv
<1>1. \A x \in interest : x.fd \in Fds /\ x.addr \in Addr /\ x.fd # NoFd
  BY NoFdNotOpen DEF TypeOK, Entry
<1>2. CASE Keeps(a)
  <2>1. \/ e \in interest
        \/ /\ e.fd = heap[a].client_fd /\ e.type = "CLIENT" /\ e.addr = a
           /\ EpollWatches(e.fd)
        \/ /\ e.fd = heap[a].target_fd /\ e.type = "TARGET" /\ e.addr = a
           /\ EpollWatches(e.fd)
    BY <1>2, RegisterOutcomes DEF Keeps, EpollMod
  <2>2. CASE e \in interest
    <3>1. /\ Within(a) /\ SameOpen(a)
          /\ heap'[a].client_fd = heap[a].client_fd
          /\ heap'[a].target_fd = heap[a].target_fd
      BY <1>2 DEF Keeps
    <3> QED BY <1>1, <2>2, <3>1 DEF InterestInv, Within, SameOpen
  <2>3. CASE e \notin interest
    <3>1. EpollWatches(e.fd) /\ e.addr = a
      BY <2>1, <2>3
    <3>2. e.fd \in Fds /\ sock[e.fd] # "none"
      BY <1>1, <3>1 DEF EpollWatches, InterestInv
    <3> QED BY <1>2, <2>1, <2>3, <3>2 DEF Keeps, Within, SameOpen
  <2> QED BY <2>2, <2>3
<1>3. CASE Dangles(a)
  BY <1>1, <1>3 DEF InterestInv, Dangles, Within, SetupInv
<1>4. CASE ClosesTarget(a)
  BY <1>1, <1>4
  DEF InterestInv, ClosesTarget, Within, InterestWithout, SockAfterClose
<1>5. CASE ClosesBoth(a)
  BY <1>1, <1>5
  DEF InterestInv, ClosesBoth, Within, InterestWithout, SockAfterClose, FdsOf
<1>6. ASSUME NEW fd \in Fds, NEW st \in SockStatus, Opens(a, fd, st)
      PROVE  /\ sock'[e.fd] # "none"
             /\ e.addr \in live'
             /\ e.fd = IF e.type = "CLIENT" THEN heap'[e.addr].client_fd
                       ELSE heap'[e.addr].target_fd
  <2>1. CASE e \in interest
    BY <1>1, <1>6, <2>1 DEF InterestInv, Opens, Within, SetupInv, TypeOK
  <2>2. CASE e \notin interest
    BY <1>6, <2>2 DEF Opens, Within, TypeOK
  <2> QED BY <2>1, <2>2
<1> QED BY <1>2, <1>3, <1>4, <1>5, <1>6 DEF Effect

LEMMA EffectOwnership ==
  ASSUME TypeOK, FdOwnership, SetupInv, ~EpollAddMayFail,
         NEW a \in Addr, Effect(a)
  PROVE  FdOwnership'
<1> DEFINE F(b) == FdsOf(heap[b])
           G(b) == FdsOf(heap'[b])
<1>1. \A b \in Addr : F(b) \subseteq Fds
  BY DEF FdsOf, TypeOK, ClientState
<1>2. \A b \in Addr \ {a} : G(b) = F(b)
  BY DEF Effect, Keeps, Dangles, ClosesTarget, ClosesBoth, Opens, Within
<1>3. live' = live /\ a \in live /\ live \subseteq Addr
  BY DEF Effect, Keeps, Dangles, ClosesTarget, ClosesBoth, Opens, Within,
     TypeOK
<1>4. /\ \A f \in Fds : sock[f] # "none" <=> \E b \in live : f \in F(b)
      /\ \A b, c \in live : b # c => F(b) \cap F(c) = {}
      /\ \A b \in live : F(b) # {} => heap[b].client_fd # heap[b].target_fd
  BY DEF FdOwnership
<1>5. /\ \A f \in Fds : sock'[f] # "none"
           <=> \/ f \in G(a)
               \/ f \notin F(a) /\ sock[f] # "none"
      /\ \A f \in G(a) : f \in F(a) \/ sock[f] = "none"
      /\ G(a) # {} => heap'[a].client_fd # heap'[a].target_fd
  <2>1. \A f \in F(a) : sock[f] # "none"
    BY <1>1, <1>3, <1>4
  <2>2. heap[a].client_fd \in Fds \cup {NoFd} /\ heap[a].target_fd \in Fds \cup {NoFd}
    BY DEF TypeOK, ClientState
  <2>3. CASE Keeps(a)
    <3>1. G(a) = F(a)
      BY <2>3 DEF Keeps, FdsOf
    <3> QED BY <1>3, <1>4, <2>1, <2>3, <3>1 DEF Keeps, SameOpen
  <2>4. CASE ClosesTarget(a)
    <3>1. G(a) = F(a) \ {heap[a].target_fd}
      BY <1>3, <1>4, <2>4 DEF ClosesTarget, FdsOf
    <3>2. \A f \in Fds : sock'[f] = IF f = heap[a].target_fd THEN "none" ELSE sock[f]
      BY <2>4 DEF ClosesTarget, SockAfterClose
    <3>3. heap'[a].target_fd = NoFd
      BY <2>4 DEF ClosesTarget
    <3>4. G(a) # {} => heap'[a].client_fd # heap'[a].target_fd
      BY <3>3 DEF FdsOf
    <3>5. \A f \in Fds : f = heap[a].target_fd => f \in F(a)
      BY NoFdNotOpen DEF FdsOf
    <3> QED BY <2>1, <3>1, <3>2, <3>4, <3>5
  <2>5. CASE ClosesBoth(a)
    <3>1. G(a) = {}
      BY <2>5 DEF ClosesBoth, FdsOf
    <3>2. \A f \in Fds : sock'[f] = IF f \in F(a) THEN "none" ELSE sock[f]
      BY <2>5 DEF ClosesBoth, SockAfterClose
    <3> QED BY <3>1, <3>2
  <2>6. ASSUME NEW fd \in Fds, NEW st \in SockStatus, Opens(a, fd, st)
        PROVE  /\ \A f \in Fds : sock'[f] # "none"
                    <=> \/ f \in G(a)
                        \/ f \notin F(a) /\ sock[f] # "none"
               /\ \A f \in G(a) : f \in F(a) \/ sock[f] = "none"
               /\ G(a) # {} => heap'[a].client_fd # heap'[a].target_fd
    <3>1. heap[a].target_fd = NoFd
      BY <2>6 DEF Opens, SetupInv
    <3>2. G(a) = F(a) \cup {fd}
      BY <2>6, <3>1, NoFdNotOpen DEF Opens, FdsOf
    <3>3. \A f \in Fds : sock'[f] = IF f = fd THEN st ELSE sock[f]
      BY <2>6 DEF Opens, TypeOK
    <3>4. sock[fd] = "none" /\ st # "none"
      BY <2>6 DEF Opens
    <3>5. heap'[a].client_fd # heap'[a].target_fd
      BY <2>1, <2>2, <2>6, <3>4, NoFdNotOpen DEF Opens, FdsOf
    <3> QED BY <1>1, <2>1, <3>2, <3>3, <3>4, <3>5
  <2> QED BY <2>3, <2>4, <2>5, <2>6 DEF Effect, Dangles
<1>6. \A b \in Addr : G(b) \subseteq Fds
  <2>1. G(a) \subseteq Fds
    <3>1. heap[a].client_fd \in Fds \cup {NoFd} /\ heap[a].target_fd \in Fds \cup {NoFd}
      BY DEF TypeOK, ClientState
    <3> QED BY <3>1 DEF Effect, Keeps, Dangles, ClosesTarget, ClosesBoth, Opens, FdsOf
  <2> QED BY <1>1, <1>2, <2>1
<1> HIDE DEF F, G
<1>7. \A f \in Fds : sock'[f] # "none" <=> \E b \in live : f \in G(b)
  BY <1>1, <1>2, <1>3, <1>4, <1>5
<1>8. \A b, c \in live : b # c => G(b) \cap G(c) = {}
  <2>1. ASSUME NEW c \in live, c # a, NEW f \in G(a), f \in G(c)
        PROVE  FALSE
    <3>1. f \in F(c) /\ f \in Fds
      BY <1>1, <1>2, <1>3, <2>1
    <3>2. sock[f] # "none"
      BY <1>4, <2>1, <3>1
    <3>3. f \in F(a)
      BY <1>5, <2>1, <3>2
    <3> QED BY <1>3, <1>4, <2>1, <3>1, <3>3
  <2>2. ASSUME NEW b \in live, NEW c \in live, b # a, c # a, b # c
        PROVE  G(b) \cap G(c) = {}
    BY <1>2, <1>3, <1>4, <2>2
  <2> QED BY <2>1, <2>2
<1>9. \A b \in live : G(b) # {} => heap'[b].client_fd # heap'[b].target_fd
  <2>1. \A b \in live \ {a} : heap'[b] = heap[b]
    BY <1>3 DEF Effect, Keeps, Dangles, ClosesTarget, ClosesBoth, Opens, Within
  <2> QED BY <1>2, <1>3, <1>4, <1>5, <2>1
<1> QED BY <1>3, <1>7, <1>8, <1>9 DEF FdOwnership, G

-----------------------------------------------------------------------------
\* The other steps

LEMMA AcceptRegistry ==
  ASSUME TypeOK, RegistryInv, AcceptClient
  PROVE  RegistryInv'
<1>1. PICK fd \in Fds, a \in Addr \ live, i \in Slots :
        /\ clients[i] = NULL
        /\ heap' = [heap EXCEPT ![a] =
                      [create_client_state(fd) EXCEPT !.slot = i]]
        /\ live' = live \cup {a}
        /\ clients' = [clients EXCEPT ![i] = a]
  BY DEF AcceptClient, state_registry_add
<1>2. heap'[a].slot = i /\ \A b \in Addr \ {a} : heap'[b] = heap[b]
  BY <1>1 DEF TypeOK, create_client_state
<1>3. /\ clients'[i] = a /\ a # NULL
      /\ \A j \in Slots \ {i} : clients'[j] = clients[j]
  BY <1>1, AddrAssumption DEF TypeOK
<1>4. \A j \in Slots : clients[j] # NULL => clients[j] \in live
  BY DEF RegistryInv, Registered
<1>5. Registered' = live'
  BY <1>1, <1>3, <1>4 DEF RegistryInv, Registered
<1>6. \A j \in Slots : clients'[j] # NULL => heap'[clients'[j]].slot = j
  BY <1>1, <1>2, <1>3, <1>4 DEF RegistryInv, TypeOK
<1> QED BY <1>5, <1>6 DEF RegistryInv

LEMMA AcceptDescriptors ==
  ASSUME TypeOK, InterestInv, SetupInv, AcceptClient
  PROVE  InterestInv' /\ SetupInv' /\ (FdOwnership => FdOwnership')
<1>1. PICK fd \in Fds, a \in Addr \ live, i \in Slots :
        /\ sock[fd] = "none"
        /\ heap' = [heap EXCEPT ![a] =
                      [create_client_state(fd) EXCEPT !.slot = i]]
        /\ live' = live \cup {a}
        /\ sock' = [sock EXCEPT ![fd] = "quiet"]
        /\ interest' = interest \cup
             {[fd |-> fd, type |-> "CLIENT", addr |-> a,
               in |-> TRUE, out |-> FALSE]}
  BY DEF AcceptClient, Lowest, FreeFds
<1>2. /\ heap'[a].client_fd = fd /\ heap'[a].target_fd = NoFd
      /\ \A b \in Addr \ {a} : heap'[b] = heap[b]
  BY <1>1 DEF TypeOK, create_client_state
<1>3. \A f \in Fds : sock'[f] = IF f = fd THEN "quiet" ELSE sock[f]
  BY <1>1 DEF TypeOK
<1>4. SetupInv'
  BY <1>2 DEF SetupInv
<1>5. InterestInv'
  <2> SUFFICES ASSUME NEW e \in interest'
               PROVE  /\ sock'[e.fd] # "none"
                      /\ e.addr \in live'
                      /\ e.fd = IF e.type = "CLIENT"
                                THEN heap'[e.addr].client_fd
                                ELSE heap'[e.addr].target_fd
    BY DEF InterestInv
  <2>1. CASE e \in interest
    <3>1. e.fd \in Fds /\ e.addr \in Addr /\ e.addr \in live
      BY <2>1 DEF TypeOK, Entry, InterestInv
    <3> QED BY <1>1, <1>2, <1>3, <2>1, <3>1 DEF InterestInv
  <2>2. CASE e \notin interest
    BY <1>1, <1>2, <1>3, <2>2
  <2> QED BY <2>1, <2>2
<1>6. ASSUME FdOwnership PROVE FdOwnership'
  <2>1. FdsOf(heap'[a]) = {fd}
    BY <1>2, NoFdNotOpen DEF FdsOf
  <2>2. live \subseteq Addr /\ \A b \in live : heap'[b] = heap[b]
    BY <1>1, <1>2 DEF TypeOK
  <2>3. \A b \in live : fd \notin FdsOf(heap[b])
    BY <1>1, <1>6 DEF FdOwnership
  <2>4. \A f \in Fds : sock'[f] # "none" <=> \E b \in live' : f \in FdsOf(heap'[b])
    BY <1>1, <1>3, <1>6, <2>1, <2>2 DEF FdOwnership
  <2>5. \A b, c \in live' : b # c => FdsOf(heap'[b]) \cap FdsOf(heap'[c]) = {}
    BY <1>1, <1>6, <2>1, <2>2, <2>3 DEF FdOwnership
  <2>6. \A b \in live' : FdsOf(heap'[b]) # {}
                          => heap'[b].client_fd # heap'[b].target_fd
    BY <1>1, <1>2, <1>6, <2>2, NoFdNotOpen DEF FdOwnership
  <2> QED BY <2>4, <2>5, <2>6 DEF FdOwnership
<1> QED BY <1>4, <1>5, <1>6

\* What the timer leaves of the heap.
LEMMA TimerHeap ==
  ASSUME TypeOK, HandleTimer, NEW a \in Addr
  PROVE  /\ a \in ToFree => heap'[a] = create_client_state(NoFd)
         /\ a \notin ToFree =>
              /\ heap'[a].slot = heap[a].slot
              /\ heap'[a].state = heap[a].state
              /\ heap'[a].client_fd = heap[a].client_fd
              /\ heap'[a].target_fd = heap[a].target_fd
<1>1. heap[a] \in ClientState
  BY DEF TypeOK
<1>2. heap'[a] = IF a \in ToFree THEN create_client_state(NoFd)
                 ELSE IF a \in ToExpire THEN [heap[a] EXCEPT !.expired = TRUE]
                 ELSE heap[a]
  BY DEF HandleTimer
<1> QED BY <1>1, <1>2 DEF ClientState

LEMMA TimerRegistry ==
  ASSUME TypeOK, RegistryInv, HandleTimer
  PROVE  RegistryInv'
<1>1. ToFree \subseteq live /\ live \subseteq Addr
  BY DEF ToFree, RegistryInv, TypeOK
<1>2. live' = live \ ToFree
  BY DEF HandleTimer
<1>3. \A j \in Slots : clients'[j] =
        IF \E a \in ToFree : heap[a].slot = j THEN NULL ELSE clients[j]
  BY DEF HandleTimer, state_registry_remove
<1>4. \A a \in live : heap[a].slot \in Slots /\ clients[heap[a].slot] = a
  BY DEF RegistryInv, Registered
<1>5. \A j \in Slots : clients[j] # NULL =>
        clients[j] \in live /\ heap[clients[j]].slot = j
  BY DEF RegistryInv, Registered
<1>6. \A j \in Slots : clients'[j] =
        IF clients[j] \in ToFree THEN NULL ELSE clients[j]
  BY <1>1, <1>3, <1>4, <1>5, AddrAssumption
<1>7. \A a \in live \ ToFree : heap'[a].slot = heap[a].slot
  BY <1>1, TimerHeap
<1>8. Registered' = live'
  BY <1>1, <1>2, <1>4, <1>5, <1>6, AddrAssumption DEF Registered
<1>9. \A j \in Slots : clients'[j] # NULL => heap'[clients'[j]].slot = j
  BY <1>5, <1>6, <1>7
<1> QED BY <1>8, <1>9 DEF RegistryInv

LEMMA TimerDescriptors ==
  ASSUME TypeOK, RegistryInv, InterestInv, SetupInv, HandleTimer
  PROVE  InterestInv' /\ SetupInv' /\ (FdOwnership => FdOwnership')
<1>1. ToFree \subseteq live /\ live \subseteq Addr /\ live' = live \ ToFree
  BY DEF ToFree, RegistryInv, TypeOK, HandleTimer
<1>2. \A a \in Addr \ ToFree :
        /\ heap'[a].state = heap[a].state
        /\ heap'[a].client_fd = heap[a].client_fd
        /\ heap'[a].target_fd = heap[a].target_fd
  BY TimerHeap
<1>3. \A f \in Fds : sock'[f] = IF f \in FreedFds THEN "none" ELSE sock[f]
  BY DEF HandleTimer, SockAfterClose
<1>4. \A a \in ToFree : FdsOf(heap[a]) \subseteq FreedFds
  BY DEF FreedFds
<1>5. SetupInv'
  <2>1. \A a \in ToFree : heap'[a].target_fd = NoFd
    BY <1>1, TimerHeap DEF create_client_state
  <2> QED BY <1>2, <2>1 DEF SetupInv
<1>6. InterestInv'
  <2> SUFFICES ASSUME NEW e \in interest'
               PROVE  /\ sock'[e.fd] # "none"
                      /\ e.addr \in live'
                      /\ e.fd = IF e.type = "CLIENT"
                                THEN heap'[e.addr].client_fd
                                ELSE heap'[e.addr].target_fd
    BY DEF InterestInv
  <2>1. e \in interest /\ e.fd \notin FreedFds
    BY DEF HandleTimer, InterestWithout
  <2>2. e.fd \in Fds /\ e.fd # NoFd /\ e.addr \in live
    BY <2>1, NoFdNotOpen DEF TypeOK, Entry, InterestInv
  <2>3. e.fd \in FdsOf(heap[e.addr])
    BY <2>1, <2>2 DEF InterestInv, FdsOf
  <2>4. e.addr \notin ToFree
    BY <1>4, <2>1, <2>3
  <2> QED BY <1>1, <1>2, <1>3, <2>1, <2>2, <2>4 DEF InterestInv
<1>7. ASSUME FdOwnership PROVE FdOwnership'
  <2>1. \A a \in live' : /\ a \in live /\ a \notin ToFree
                          /\ FdsOf(heap'[a]) = FdsOf(heap[a])
    BY <1>1, <1>2 DEF FdsOf
  <2>2. \A a \in live' : FdsOf(heap[a]) \cap FreedFds = {}
    BY <1>1, <1>7, <2>1 DEF FreedFds, FdOwnership
  <2>3. \A f \in Fds : sock'[f] # "none" <=> \E a \in live' : f \in FdsOf(heap'[a])
    <3>1. ASSUME NEW f \in Fds, sock'[f] # "none"
          PROVE  \E a \in live' : f \in FdsOf(heap'[a])
      <4>1. f \notin FreedFds /\ sock[f] # "none"
        BY <1>3, <3>1
      <4>2. PICK a \in live : f \in FdsOf(heap[a])
        BY <1>7, <4>1 DEF FdOwnership
      <4>3. a \notin ToFree
        BY <1>4, <4>1, <4>2
      <4> QED BY <1>1, <2>1, <4>2, <4>3
    <3>2. ASSUME NEW f \in Fds, NEW a \in live', f \in FdsOf(heap'[a])
          PROVE  sock'[f] # "none"
      BY <1>3, <1>7, <2>1, <2>2, <3>2 DEF FdOwnership
    <3> QED BY <3>1, <3>2
  <2>4. \A a, b \in live' : a # b => FdsOf(heap'[a]) \cap FdsOf(heap'[b]) = {}
    BY <1>7, <2>1 DEF FdOwnership
  <2>5. \A a \in live' : FdsOf(heap'[a]) # {}
                          => heap'[a].client_fd # heap'[a].target_fd
    BY <1>1, <1>2, <1>7, <2>1 DEF FdOwnership
  <2> QED BY <2>3, <2>4, <2>5 DEF FdOwnership
<1> QED BY <1>5, <1>6, <1>7

\* A step that keeps the registry, the interest list, the descriptors open
\* and those each ClientState holds.
LEMMA QuietStep ==
  ASSUME IInv,
         UNCHANGED <<live, clients, interest>>,
         \A f \in Fds : sock'[f] = "none" <=> sock[f] = "none",
         \A a \in Addr :
           /\ heap'[a].slot = heap[a].slot
           /\ heap'[a].state = heap[a].state
           /\ heap'[a].client_fd = heap[a].client_fd
           /\ heap'[a].target_fd = heap[a].target_fd
  PROVE  RegistryInv' /\ InterestInv' /\ SetupInv' /\ OwnershipInv'
<1>1. live \subseteq Addr /\ clients \in [Slots -> Addr \cup {NULL}]
  BY DEF IInv, TypeOK
<1>2. RegistryInv'
  BY <1>1 DEF IInv, RegistryInv, Registered
<1>3. \A e \in interest : e.fd \in Fds /\ e.addr \in Addr
  BY DEF IInv, TypeOK, Entry
<1>4. InterestInv'
  BY <1>3 DEF IInv, InterestInv
<1>5. SetupInv'
  BY DEF IInv, SetupInv
<1>6. OwnershipInv'
  <2>1. \A a \in live : FdsOf(heap'[a]) = FdsOf(heap[a])
    BY <1>1 DEF FdsOf
  <2> QED BY <1>1, <2>1 DEF IInv, OwnershipInv, FdOwnership
<1> QED BY <1>2, <1>4, <1>5, <1>6

LEMMA BlankInv ==
  ASSUME heap = BlankHeap, live = {}, clients = BlankRegistry,
         sock = NoSockets, interest = {}
  PROVE  RegistryInv /\ InterestInv /\ SetupInv /\ OwnershipInv
<1>1. RegistryInv
  BY DEF RegistryInv, Registered, BlankRegistry
<1>2. InterestInv
  BY DEF InterestInv
<1>3. SetupInv
  BY DEF SetupInv, BlankHeap, create_client_state
<1>4. OwnershipInv
  BY DEF OwnershipInv, FdOwnership, NoSockets
<1> QED BY <1>1, <1>2, <1>3, <1>4

LEMMA DieInv == Die => RegistryInv' /\ InterestInv' /\ SetupInv' /\ OwnershipInv'
<1> SUFFICES ASSUME Die
             PROVE  RegistryInv' /\ InterestInv' /\ SetupInv' /\ OwnershipInv'
  OBVIOUS
<1>1. /\ heap' = BlankHeap /\ live' = {} /\ clients' = BlankRegistry
      /\ sock' = NoSockets /\ interest' = {}
  BY DEF Die
<1>2. RegistryInv'
  BY <1>1 DEF RegistryInv, Registered, BlankRegistry
<1>3. InterestInv'
  BY <1>1 DEF InterestInv
<1>4. SetupInv'
  BY <1>1 DEF SetupInv, BlankHeap, create_client_state
<1>5. OwnershipInv'
  BY <1>1 DEF OwnershipInv, FdOwnership, NoSockets
<1> QED BY <1>2, <1>3, <1>4, <1>5

LEMMA HandleClientInv ==
  ASSUME IInv, HandleClient
  PROVE  RegistryInv' /\ InterestInv' /\ SetupInv' /\ OwnershipInv'
<1> DEFINE a == cur.addr
<1>1. TypeOK /\ RegistryInv /\ InterestInv /\ SetupInv /\ OwnershipInv
  BY DEF IInv
<1>2. CASE Die
  BY <1>2, DieInv
<1>3. CASE DropEvent
  BY <1>3, QuietStep DEF DropEvent
<1>4. CASE Effect(a) /\ StaysSetUp(a) /\ a \in Addr
  <2> HIDE DEF a
  <2>1. RegistryInv' /\ SetupInv' /\ InterestInv'
    BY <1>1, <1>4, EffectRegistry, EffectSetup, EffectInterest
  <2>2. OwnershipInv'
    BY <1>1, <1>4, EffectOwnership DEF OwnershipInv
  <2> QED BY <2>1, <2>2
<1> QED BY <1>1, <1>2, <1>3, <1>4, HandlerEffect

LEMMA EnvironmentInv ==
  ASSUME IInv, Environment
  PROVE  RegistryInv' /\ InterestInv' /\ SetupInv' /\ OwnershipInv'
<1>1. CASE ClientConnects \/ TimerExpires
  BY <1>1, QuietStep DEF ClientConnects, TimerExpires, KernelOnly
<1>2. CASE PeerActs
  <2>1. PICK fd \in Fds, st \in SockStatus :
          /\ sock[fd] # "none" /\ st # "none"
          /\ sock' = [sock EXCEPT ![fd] = st]
    BY <1>2, PeersAssumption DEF PeerActs
  <2>2. \A f \in Fds : sock'[f] = "none" <=> sock[f] = "none"
    BY <2>1 DEF IInv, TypeOK
  <2> QED BY <1>2, <2>2, QuietStep DEF PeerActs, KernelOnly
<1>3. ASSUME NEW a \in Addr, BecomesIdle(a)
      PROVE  RegistryInv' /\ InterestInv' /\ SetupInv' /\ OwnershipInv'
  <2>1. heap \in [Addr -> ClientState] /\ heap[a] \in ClientState
    BY DEF IInv, TypeOK
  <2>2. heap' = [heap EXCEPT ![a] = [heap[a] EXCEPT !.idle = TRUE]]
    BY <1>3, <2>1 DEF BecomesIdle
  <2>3. \A b \in Addr :
          /\ heap'[b].slot = heap[b].slot
          /\ heap'[b].state = heap[b].state
          /\ heap'[b].client_fd = heap[b].client_fd
          /\ heap'[b].target_fd = heap[b].target_fd
    BY <2>1, <2>2 DEF ClientState
  <2>4. UNCHANGED <<live, clients, interest, sock>>
    BY <1>3 DEF BecomesIdle, LoopUnchanged
  <2> QED BY <2>3, <2>4, QuietStep
<1>4. CASE Terminate
  BY <1>4, DieInv DEF Terminate
<1>5. CASE Restart
  BY <1>5, QuietStep DEF Restart
<1> QED BY <1>1, <1>2, <1>3, <1>4, <1>5 DEF Environment

\* The invariant is inductive.
LEMMA Inductive == IInv /\ TypeOK' /\ [Next]_vars => IInv'
<1> SUFFICES ASSUME IInv, TypeOK', [Next]_vars PROVE IInv'
  OBVIOUS
<1>1. TypeOK /\ RegistryInv /\ InterestInv /\ SetupInv /\ OwnershipInv
  BY DEF IInv
<1>2. CASE EpollWait \/ NextEvent \/ AcceptFails \/ RejectClient
  <2>1. UNCHANGED <<heap, live, clients, interest, sock>>
    BY <1>2 DEF EpollWait, NextEvent, AcceptFails, RejectClient, DropEvent
  <2> QED BY <2>1, QuietStep DEF IInv
<1>3. CASE AcceptClient
  BY <1>1, <1>3, AcceptRegistry, AcceptDescriptors DEF IInv, OwnershipInv
<1>4. CASE HandleTimer
  BY <1>1, <1>4, TimerRegistry, TimerDescriptors DEF IInv, OwnershipInv
<1>5. CASE HandleClient
  BY <1>5, HandleClientInv DEF IInv
<1>6. CASE Environment
  BY <1>6, EnvironmentInv DEF IInv
<1>7. CASE NullDataEvent
  BY <1>7, DieInv DEF NullDataEvent, IInv
<1>8. CASE UNCHANGED vars
  BY <1>8, QuietStep DEF vars, IInv
<1> QED BY <1>2, <1>3, <1>4, <1>5, <1>6, <1>7, <1>8 DEF Next, Loop

LEMMA SpecInv == Spec => []IInv
<1>1. Init => IInv
  BY InitTyped, BlankInv DEF Init, IInv
<1>2. IInv /\ TypeOK' /\ [Next]_vars => IInv'
  BY Inductive
<1> QED BY <1>1, <1>2, TypeCorrect, PTL DEF Spec

\* A handler of a touches no socket and no registration of another b.
Spares(a, b) ==
  /\ heap'[b] = heap[b]
  /\ \A fd \in FdsOf(heap[b]) :
       /\ sock'[fd] = sock[fd]
       /\ {e \in interest' : e.fd = fd} = {e \in interest : e.fd = fd}

LEMMA EffectSpares ==
  ASSUME IInv, ~EpollAddMayFail, NEW a \in Addr, Effect(a),
         NEW b \in live \ {a}
  PROVE  Spares(a, b)
<1>1. a \in live /\ b \in Addr /\ heap'[b] = heap[b]
  BY DEF Effect, Keeps, Dangles, ClosesTarget, ClosesBoth, Opens, Within,
     IInv, TypeOK
<1> SUFFICES ASSUME NEW fd \in FdsOf(heap[b])
             PROVE  /\ sock'[fd] = sock[fd]
                    /\ \A e : e \in interest' /\ e.fd = fd
                                <=> e \in interest /\ e.fd = fd
  BY <1>1 DEF Spares
<1>2. /\ fd \in Fds /\ fd # NoFd /\ fd \notin FdsOf(heap[a])
      /\ sock[fd] # "none"
  <2>1. fd \in Fds /\ fd # NoFd
    BY <1>1 DEF FdsOf, IInv, TypeOK, ClientState
  <2> QED BY <1>1, <2>1 DEF IInv, OwnershipInv, FdOwnership
<1>3. fd # heap[a].client_fd /\ fd # heap[a].target_fd
  BY <1>2 DEF FdsOf
<1>4. CASE Keeps(a)
  BY <1>2, <1>3, <1>4, RegisterOutcomes DEF Keeps, SameOpen, EpollMod
<1>5. CASE ClosesTarget(a)
  BY <1>2, <1>3, <1>5 DEF ClosesTarget, SockAfterClose, InterestWithout
<1>6. CASE ClosesBoth(a)
  BY <1>2, <1>6 DEF ClosesBoth, SockAfterClose, InterestWithout
<1>7. ASSUME NEW g \in Fds, NEW st \in SockStatus, Opens(a, g, st)
      PROVE  /\ sock'[fd] = sock[fd]
             /\ \A e : e \in interest' /\ e.fd = fd
                         <=> e \in interest /\ e.fd = fd
  BY <1>2, <1>7 DEF Opens, IInv, TypeOK
<1> QED BY <1>4, <1>5, <1>6, <1>7 DEF Effect, Dangles

LEMMA HandlerSpares ==
  ASSUME IInv, ~EpollAddMayFail, HandleClient, running',
         NEW b \in live \ {cur.addr}
  PROVE  Spares(cur.addr, b)
<1>1. ~Die
  BY DEF Die
<1>2. CASE DropEvent
  BY <1>2 DEF DropEvent, Spares
<1>3. CASE Effect(cur.addr) /\ cur.addr \in Addr
  BY <1>3, EffectSpares
<1> QED BY <1>1, <1>2, <1>3, HandlerEffect DEF IInv

-----------------------------------------------------------------------------
\* Events and the ClientStates they refer to

\* A batch has one timer event, and has it until it is handled.
TimerInv ==
  /\ \A ev \in batch \cup {cur} : ev.type = "TIMER" => ev = TimerEvent
  /\ cur = TimerEvent => TimerEvent \notin batch

EventInv == TimerInv /\ StaleOnlyAfterTimer

\* A handler drops or keeps the event it was given, and frees nothing.
LEMMA HandlerKeepsEvents ==
  HandleClient => \/ Die
                  \/ /\ UNCHANGED <<live, batch>>
                     /\ cur' = cur \/ cur' = NoEvent
<1> USE DEF LoopUnchanged, Return
<1>1. StaleEvent \/ ExpiredEvent
        => Die \/ (UNCHANGED <<live, batch>> /\ cur' = NoEvent)
  BY DEF StaleEvent, ExpiredEvent, DropEvent
<1>2. ASSUME NEW a \in Addr, HandleReadingRequest(a)
      PROVE  UNCHANGED <<live, batch>> /\ cur' \in {cur, NoEvent}
  <2>1. PICK o \in read_request_nonblocking(heap[a]) :
          IF o.res = 0 THEN Return ELSE UNCHANGED cur
    BY <1>2 DEF HandleReadingRequest
  <2> QED BY <1>2, <2>1 DEF HandleReadingRequest
<1>3. ASSUME NEW a \in Addr, AuthAccepted(a)
      PROVE  UNCHANGED <<live, batch>> /\ cur' \in {cur, NoEvent}
  BY <1>3 DEF AuthAccepted
<1>4. ASSUME NEW a \in Addr, AuthRejected(a)
      PROVE  Die \/ (UNCHANGED <<live, batch>> /\ cur' \in {cur, NoEvent})
  BY <1>4 DEF AuthRejected, SigPipe
<1>5. ASSUME NEW a \in Addr, ConnectFails(a) \/ ConnectUnwatched(a)
      PROVE  UNCHANGED <<live, batch>> /\ cur' \in {cur, NoEvent}
  BY <1>5 DEF ConnectFails, ConnectUnwatched
<1>6. ASSUME NEW a \in Addr, ConnectStarts(a)
      PROVE  Die \/ (UNCHANGED <<live, batch>> /\ cur' \in {cur, NoEvent})
  BY <1>6 DEF ConnectStarts, SigPipe
<1>7. ASSUME NEW a \in Addr, ConnectRefused(a) \/ ConnectAccepted(a)
      PROVE  Die \/ (UNCHANGED <<live, batch>> /\ cur' \in {cur, NoEvent})
  BY <1>7 DEF ConnectRefused, ConnectAccepted, SigPipe
<1>8. ASSUME NEW a \in Addr, HandleForwarding(a) \/ HandleClosing(a)
      PROVE  UNCHANGED <<live, batch>> /\ cur' \in {cur, NoEvent}
  BY <1>8 DEF HandleForwarding, HandleClosing
<1> QED BY <1>1, <1>2, <1>3, <1>4, <1>5, <1>6, <1>7, <1>8 DEF HandleClient

\* What epoll_wait returns is about ClientStates that are live: it watches no
\* other (InterestInv).
LEMMA ReadyIsLive ==
  ASSUME TypeOK, InterestInv, NEW ev \in Ready
  PROVE  /\ ev.type \in {"CLIENT", "TARGET"} => ev.addr \in live
         /\ ev.type = "TIMER" => ev = TimerEvent
<1>1. CASE \E e \in interest : ev = Reported(e)
  BY <1>1 DEF Reported, InterestInv, TypeOK, Entry
<1>2. CASE ev \in {ListenerEvent, TimerEvent}
  BY <1>2 DEF ListenerEvent, TimerEvent, NoEvent
<1> QED BY <1>1, <1>2 DEF Ready

\* A step after which no event is new and no ClientState is gone.
LEMMA FewerEvents ==
  ASSUME EventInv, live \subseteq live', batch' \subseteq batch,
         cur' \in batch \cup {cur, NoEvent},
         cur' = TimerEvent => TimerEvent \notin batch'
  PROVE  EventInv'
<1>1. NoEvent.type \notin {"TIMER", "CLIENT", "TARGET"} /\ NoEvent # TimerEvent
  BY DEF NoEvent, TimerEvent
<1>2. TimerInv'
  BY <1>1 DEF EventInv, TimerInv
<1>3. StaleOnlyAfterTimer'
  BY <1>1 DEF EventInv, StaleOnlyAfterTimer
<1> QED BY <1>2, <1>3 DEF EventInv

LEMMA EventInductive == IInv /\ EventInv /\ [Next]_vars => EventInv'
<1> SUFFICES ASSUME IInv, EventInv, [Next]_vars
             PROVE  EventInv'
  OBVIOUS
<1>0. NoEvent.type \notin {"TIMER", "CLIENT", "TARGET"} /\ NoEvent # TimerEvent
  BY DEF NoEvent, TimerEvent
<1>1. CASE EpollWait
  <2>1. /\ batch' = Ready /\ cur' = NoEvent /\ live' = live
    BY <1>1 DEF EpollWait
  <2>2. \A ev \in Ready :
          /\ ev.type \in {"CLIENT", "TARGET"} => ev.addr \in live
          /\ ev.type = "TIMER" => ev = TimerEvent
    BY ReadyIsLive DEF IInv
  <2>3. TimerInv'
    BY <1>0, <2>1, <2>2 DEF TimerInv
  <2>4. StaleOnlyAfterTimer'
    BY <1>0, <2>1, <2>2 DEF StaleOnlyAfterTimer
  <2> QED BY <2>3, <2>4 DEF EventInv
<1>2. CASE NextEvent
  <2>1. PICK ev \in batch : cur' = ev /\ batch' = batch \ {ev} /\ live' = live
    BY <1>2 DEF NextEvent
  <2> QED BY <2>1, FewerEvents
<1>3. CASE AcceptFails \/ RejectClient \/ AcceptClient
  <2>1. /\ batch' = batch /\ live \subseteq live'
        /\ cur' = cur \/ cur' = NoEvent
    <3>1. CASE AcceptFails \/ RejectClient
      BY <3>1 DEF AcceptFails, RejectClient, DropEvent, Return
    <3>2. CASE AcceptClient
      BY <3>2 DEF AcceptClient
    <3> QED BY <1>3, <3>1, <3>2
  <2> QED BY <1>0, <2>1, FewerEvents DEF EventInv, TimerInv
<1>4. CASE HandleTimer
  <2>1. batch' = batch /\ cur' = NoEvent /\ cur.type = "TIMER"
    BY <1>4 DEF HandleTimer, Handling, Return
  <2>2. TimerEvent \notin batch
    BY <2>1 DEF EventInv, TimerInv
  <2>3. TimerInv'
    BY <1>0, <2>1 DEF EventInv, TimerInv
  <2>4. StaleOnlyAfterTimer'
    BY <1>0, <2>1, <2>2 DEF StaleOnlyAfterTimer
  <2> QED BY <2>3, <2>4 DEF EventInv
<1>5. CASE HandleClient /\ ~Die
  <2>1. /\ UNCHANGED <<live, batch>>
        /\ cur' = cur \/ cur' = NoEvent
    BY <1>5, HandlerKeepsEvents
  <2> QED BY <1>0, <2>1, FewerEvents DEF EventInv, TimerInv
<1>6. CASE Die
  <2>1. batch' = {} /\ cur' = NoEvent
    BY <1>6 DEF Die
  <2> QED BY <1>0, <2>1 DEF EventInv, TimerInv, StaleOnlyAfterTimer
<1>7. CASE UNCHANGED <<live, batch, cur>>
  BY <1>7, FewerEvents DEF EventInv, TimerInv
<1>8. Environment => Die \/ UNCHANGED <<live, batch, cur>>
  BY DEF Environment, ClientConnects, PeerActs, TimerExpires, BecomesIdle,
         Terminate, Restart, KernelOnly, LoopUnchanged
<1> QED BY <1>1, <1>2, <1>3, <1>4, <1>5, <1>6, <1>7, <1>8
        DEF Next, Loop, NullDataEvent, vars

-----------------------------------------------------------------------------
\* What epoll watches for

\* A connection that has not expired holds its client's descriptor, and its
\* target's from the connect on; epoll watches what the connection's state waits
\* for, and the target's input only from register_forwarding_fds on.
Heard(a) ==
  LET s == heap[a] IN
  ~s.expired =>
    /\ s.client_fd # NoFd /\ WatchedFor(s.client_fd, a, TRUE, FALSE)
    /\ s.state \in {"CONNECTING", "FORWARDING"} => s.target_fd # NoFd
    /\ s.target_fd # NoFd => WatchedFor(s.target_fd, a, FALSE, TRUE)
    /\ s.state = "CONNECTING" => ~WatchedFor(s.target_fd, a, TRUE, FALSE)
    /\ s.state = "FORWARDING" =>
         BothWays(a) \/ (DataMayFail /\ ~WatchedFor(s.target_fd, a, TRUE, FALSE))

HeardInv == \A a \in live : Heard(a)

\* WatchedFor, of any interest list.
WatchedIn(list, fd, a, in, out) ==
  \E e \in list : e.fd = fd /\ e.addr = a /\ (in => e.in) /\ (out => e.out)

\* A handler of a gives the client's descriptor up only when a expires, lets a
\* connect with a new target, and forward only after the attempt to register
\* both descriptors anew.
Listens(a) ==
  /\ ~heap[a].expired
  /\ heap'[a].expired \/ heap'[a].client_fd = heap[a].client_fd
  /\ heap'[a].state = "CONNECTING" =>
       heap[a].state = "INITIALIZE_CONNECTION" /\ heap'[a].target_fd # NoFd
  /\ heap'[a].state = "FORWARDING" =>
       /\ heap'[a].target_fd = heap[a].target_fd
       /\ \/ heap[a].state = "FORWARDING" /\ interest' = interest
          \/ heap[a].state = "CONNECTING" /\ interest' \in register_forwarding_fds(a)

LEMMA HandlerListens ==
  ASSUME TypeOK, HandleClient
  PROVE  Die \/ DropEvent \/ Listens(cur.addr)
<1>1. CASE StaleEvent \/ ExpiredEvent
  BY <1>1 DEF StaleEvent, ExpiredEvent
<1>2. ASSUME NEW a \in Addr, ~Die,
             \/ HandleReadingRequest(a)
             \/ AuthAccepted(a) \/ AuthRejected(a)
             \/ ConnectFails(a) \/ ConnectStarts(a) \/ ConnectUnwatched(a)
             \/ ConnectRefused(a) \/ ConnectAccepted(a)
             \/ HandleForwarding(a)
             \/ HandleClosing(a)
      PROVE  Listens(a) /\ cur.addr = a
  <2>1. cur.addr = a /\ ~heap[a].expired
    BY <1>2 DEF HandleReadingRequest, AuthAccepted, AuthRejected,
       ConnectFails, ConnectStarts, ConnectUnwatched, ConnectRefused,
       ConnectAccepted, HandleForwarding, HandleClosing, Dispatch
  <2>2. heap \in [Addr -> ClientState] /\ heap[a] \in ClientState
    BY DEF TypeOK
  <2>3. CASE HandleClosing(a)
    <3>1. heap' = [heap EXCEPT ![a] = [heap[a] EXCEPT !.expired = TRUE,
                     !.client_fd = NoFd, !.target_fd = NoFd]]
      BY <2>2, <2>3 DEF HandleClosing
    <3>2. heap'[a].expired /\ heap'[a].state = heap[a].state
      BY <2>2, <3>1 DEF ClientState
    <3>3. heap[a].state = "CLOSING"
      BY <2>3 DEF HandleClosing, Dispatch
    <3> QED BY <2>1, <3>2, <3>3 DEF Listens
  <2>4. CASE HandleForwarding(a)
    <3>1. heap[a].state = "FORWARDING"
      BY <2>4 DEF HandleForwarding, Dispatch
    <3>2. /\ heap'[a].client_fd = heap[a].client_fd
          /\ heap'[a].target_fd = heap[a].target_fd /\ interest' = interest
      BY <2>4, TransferEffect DEF Keeps, HandleForwarding
    <3>3. heap'[a].state # "CONNECTING"
      BY <2>4, TransferEffect
    <3> QED BY <2>1, <3>1, <3>2, <3>3 DEF Listens
  <2>5. CASE ConnectAccepted(a)
    <3>1. /\ heap[a].state = "CONNECTING"
          /\ interest' \in register_forwarding_fds(a)
          /\ heap' = [heap EXCEPT ![a] =
                 [Established(heap[a]) EXCEPT !.response_len = 0,
                                              !.state = "FORWARDING"]]
      BY <1>2, <2>5 DEF ConnectAccepted, SigPipe, Dispatch
    <3>2. /\ Established(heap[a]) \in ClientState
          /\ Established(heap[a]).client_fd = heap[a].client_fd
          /\ Established(heap[a]).target_fd = heap[a].target_fd
      BY <2>2, EstablishedTyped DEF Established, ClientState
    <3>3. /\ heap'[a].client_fd = heap[a].client_fd
          /\ heap'[a].target_fd = heap[a].target_fd
          /\ heap'[a].state = "FORWARDING"
      BY <2>2, <3>1, <3>2 DEF ClientState
    <3> QED BY <2>1, <3>1, <3>3 DEF Listens
  <2>6. CASE HandleReadingRequest(a)
    <3>1. heap'[a].client_fd = heap[a].client_fd
      BY <2>6, ReadingEffect DEF Keeps
    <3>2. heap'[a].state \notin {"CONNECTING", "FORWARDING"}
      <4>1. PICK o \in read_request_nonblocking(heap[a]) :
              heap' = [heap EXCEPT
                ![a].request_len = o.len,
                ![a].state = IF o.res < 0 THEN "CLOSING"
                             ELSE IF o.res = 1 THEN "AUTHENTICATING" ELSE @]
        BY <2>6 DEF HandleReadingRequest
      <4>2. heap[a].state = "READING_REQUEST"
        BY <2>6 DEF HandleReadingRequest, Dispatch
      <4> QED BY <2>2, <4>1, <4>2 DEF ClientState
    <3> QED BY <2>1, <3>1, <3>2 DEF Listens
  <2>7. CASE AuthAccepted(a) \/ AuthRejected(a)
    <3>1. heap'[a].client_fd = heap[a].client_fd
      BY <1>2, <2>7, AuthEffect DEF Keeps
    <3>2. CASE AuthAccepted(a)
      <4>1. PICK https \in Requests, hostFound \in BOOLEAN :
              heap' = [heap EXCEPT
                   ![a].is_https = https,
                   ![a].state = IF hostFound THEN "INITIALIZE_CONNECTION"
                                ELSE "CLOSING"]
        BY <3>2 DEF AuthAccepted
      <4>2. heap'[a].state \notin {"CONNECTING", "FORWARDING"}
        BY <2>2, <4>1 DEF ClientState
      <4> QED BY <2>1, <3>1, <4>2 DEF Listens
    <3>3. CASE AuthRejected(a)
      <4>1. heap' = [heap EXCEPT ![a].state = "CLOSING"]
        BY <1>2, <3>3 DEF AuthRejected, SigPipe
      <4>2. heap'[a].state \notin {"CONNECTING", "FORWARDING"}
        BY <2>2, <4>1 DEF ClientState
      <4> QED BY <2>1, <3>1, <4>2 DEF Listens
    <3> QED BY <2>7, <3>2, <3>3
  <2>8. CASE ConnectFails(a) \/ ConnectRefused(a)
    <3>1. \/ heap' = [heap EXCEPT ![a] = [heap[a] EXCEPT !.state = "CLOSING"]]
          \/ heap' = [heap EXCEPT ![a] =
               [heap[a] EXCEPT !.target_fd = NoFd, !.state = "CLOSING"]]
      BY <2>2, <2>8 DEF ConnectFails, ConnectRefused
    <3>2. heap'[a].client_fd = heap[a].client_fd /\ heap'[a].state = "CLOSING"
      BY <2>2, <3>1 DEF ClientState
    <3> QED BY <2>1, <3>2 DEF Listens
  <2>9. CASE ConnectStarts(a) \/ ConnectUnwatched(a)
    <3>1. PICK fd \in Fds, st \in {"connecting", "quiet"},
               next \in {"CONNECTING", "CLOSING"} :
            /\ heap' = [heap EXCEPT ![a] = [ConnectedState(a, st) EXCEPT
                          !.target_fd = fd, !.state = next]]
            /\ heap[a].state = "INITIALIZE_CONNECTION"
      BY <1>2, <2>9 DEF Dispatch, ConnectStarts, ConnectUnwatched, ConnectedState, SigPipe
    <3>2. /\ ConnectedState(a, st) \in ClientState
          /\ ConnectedState(a, st).client_fd = heap[a].client_fd
      BY ConnectedStateFields
    <3>3. /\ heap'[a].client_fd = heap[a].client_fd /\ heap'[a].state = next
          /\ heap'[a].target_fd = fd
      BY <2>2, <3>1, <3>2 DEF ClientState
    <3> QED BY <2>1, <3>1, <3>3, NoFdNotOpen DEF Listens
  <2> QED BY <1>2, <2>1, <2>3, <2>4, <2>5, <2>6, <2>7, <2>8, <2>9
<1> QED BY <1>1, <1>2 DEF HandleClient

\* After register_forwarding_fds a is watched both ways, or as in its setup as
\* far as the target's input goes.
LEMMA RegisterHeard ==
  ASSUME NEW a, NEW I \in register_forwarding_fds(a),
         heap[a].client_fd # heap[a].target_fd,
         WatchedFor(heap[a].client_fd, a, TRUE, FALSE),
         WatchedFor(heap[a].target_fd, a, FALSE, TRUE),
         ~WatchedFor(heap[a].target_fd, a, TRUE, FALSE)
  PROVE  LET c == heap[a].client_fd
             t == heap[a].target_fd
         IN /\ WatchedIn(I, c, a, TRUE, FALSE) /\ WatchedIn(I, t, a, FALSE, TRUE)
            /\ \/ WatchedIn(I, c, a, TRUE, TRUE) /\ WatchedIn(I, t, a, TRUE, TRUE)
               \/ DataMayFail /\ ~WatchedIn(I, t, a, TRUE, FALSE)
<1> DEFINE c == heap[a].client_fd
           t == heap[a].target_fd
           half == EpollMod(interest, c, "CLIENT", a)
           whole == EpollMod(half, t, "TARGET", a)
           ce == [fd |-> c, type |-> "CLIENT", addr |-> a, in |-> TRUE, out |-> TRUE]
           te == [fd |-> t, type |-> "TARGET", addr |-> a, in |-> TRUE, out |-> TRUE]
<1>1. /\ WatchedIn(interest, c, a, TRUE, FALSE) /\ WatchedIn(interest, t, a, FALSE, TRUE)
      /\ ~WatchedIn(interest, t, a, TRUE, FALSE)
  BY DEF WatchedFor, WatchedIn
<1>2. EpollWatches(c) /\ EpollWatches(t)
  BY DEF WatchedFor, EpollWatches
<1>3. \/ I = interest /\ EpollModFails(c, "CLIENT")
      \/ I = half /\ EpollModFails(t, "TARGET")
      \/ I = whole
  BY RegisterOutcomes
<1>4. EpollModFails(c, "CLIENT") \/ EpollModFails(t, "TARGET") => DataMayFail
  BY <1>2 DEF EpollModFails, epoll_create_data
<1>5. c # t
  OBVIOUS
<1>6. /\ ce \in half /\ ce.fd = c /\ ce.addr = a /\ ce.in /\ ce.out
      /\ te \in whole /\ te.fd = t /\ te.addr = a /\ te.in /\ te.out
      /\ \A e : e.fd = t => (e \in half <=> e \in interest)
      /\ \A e : e.fd = c => (e \in whole <=> e \in half)
  BY <1>5 DEF EpollMod
<1> HIDE DEF c, t, half, whole, ce, te
<1>7. /\ WatchedIn(half, c, a, TRUE, TRUE) /\ WatchedIn(half, c, a, TRUE, FALSE)
      /\ WatchedIn(half, t, a, FALSE, TRUE) /\ ~WatchedIn(half, t, a, TRUE, FALSE)
  BY <1>1, <1>6 DEF WatchedIn
<1>8. /\ WatchedIn(whole, c, a, TRUE, TRUE) /\ WatchedIn(whole, c, a, TRUE, FALSE)
      /\ WatchedIn(whole, t, a, TRUE, TRUE) /\ WatchedIn(whole, t, a, FALSE, TRUE)
  BY <1>6 DEF WatchedIn
<1> QED BY <1>1, <1>3, <1>4, <1>7, <1>8 DEF c, t

\* The handler of a leaves a watched for what its new state waits for.
LEMMA EffectHeard ==
  ASSUME IInv, ~EpollAddMayFail, NEW a \in live, Heard(a), Effect(a), Listens(a)
  PROVE  Heard(a)'
<1> DEFINE c == heap[a].client_fd
           t == heap[a].target_fd
           u == heap'[a].target_fd
           st == heap'[a].state
           Goal == /\ WatchedIn(interest', c, a, TRUE, FALSE)
                   /\ st \in {"CONNECTING", "FORWARDING"} => u # NoFd
                   /\ u # NoFd => WatchedIn(interest', u, a, FALSE, TRUE)
                   /\ st = "CONNECTING" => ~WatchedIn(interest', u, a, TRUE, FALSE)
                   /\ st = "FORWARDING" =>
                        \/ /\ WatchedIn(interest', c, a, TRUE, TRUE)
                           /\ WatchedIn(interest', u, a, TRUE, TRUE)
                        \/ DataMayFail /\ ~WatchedIn(interest', u, a, TRUE, FALSE)
<1>1. /\ a \in Addr /\ ~heap[a].expired /\ c # NoFd
      /\ WatchedIn(interest, c, a, TRUE, FALSE)
      /\ heap[a].state \in {"CONNECTING", "FORWARDING"} => t # NoFd
      /\ t # NoFd => WatchedIn(interest, t, a, FALSE, TRUE)
      /\ heap[a].state = "CONNECTING" => ~WatchedIn(interest, t, a, TRUE, FALSE)
      /\ heap[a].state = "FORWARDING" =>
           \/ WatchedIn(interest, c, a, TRUE, TRUE) /\ WatchedIn(interest, t, a, TRUE, TRUE)
           \/ DataMayFail /\ ~WatchedIn(interest, t, a, TRUE, FALSE)
  BY DEF Listens, Heard, BothWays, IInv, TypeOK, WatchedFor, WatchedIn
<1> SUFFICES ASSUME ~heap'[a].expired
             PROVE  Goal
  BY <1>1 DEF Heard, BothWays, WatchedFor, WatchedIn, Listens
<1>2. c # t
  BY <1>1 DEF IInv, OwnershipInv, FdOwnership, FdsOf
<1>3. /\ st = "CONNECTING" => heap[a].state = "INITIALIZE_CONNECTION" /\ u # NoFd
      /\ heap[a].state = "INITIALIZE_CONNECTION" => t = NoFd
      /\ st = "FORWARDING" =>
           /\ u = t
           /\ \/ heap[a].state = "FORWARDING" /\ interest' = interest
              \/ heap[a].state = "CONNECTING" /\ interest' \in register_forwarding_fds(a)
  BY <1>1 DEF Listens, IInv, SetupInv
<1>4. CASE Keeps(a)
  <2>1. u = t /\ st # "CONNECTING"
    BY <1>3, <1>4 DEF Keeps
  <2>2. CASE st = "FORWARDING" /\ heap[a].state = "CONNECTING"
    <3>1. interest' \in register_forwarding_fds(a) /\ t # NoFd
      BY <1>1, <1>3, <2>2
    <3>2. /\ WatchedFor(heap[a].client_fd, a, TRUE, FALSE)
          /\ WatchedFor(heap[a].target_fd, a, FALSE, TRUE)
          /\ ~WatchedFor(heap[a].target_fd, a, TRUE, FALSE)
      BY <1>1, <2>2, <3>1 DEF WatchedFor, WatchedIn
    <3>3. /\ WatchedIn(interest', c, a, TRUE, FALSE) /\ WatchedIn(interest', t, a, FALSE, TRUE)
          /\ \/ WatchedIn(interest', c, a, TRUE, TRUE) /\ WatchedIn(interest', t, a, TRUE, TRUE)
             \/ DataMayFail /\ ~WatchedIn(interest', t, a, TRUE, FALSE)
      BY <1>2, <3>1, <3>2, RegisterHeard
    <3> HIDE DEF c, t, u, st
    <3> QED BY <2>1, <2>2, <3>1, <3>3
  <2>3. CASE ~(st = "FORWARDING" /\ heap[a].state = "CONNECTING")
    <3>1. interest' = interest
      BY <1>4, <2>3 DEF Keeps
    <3>2. st = "FORWARDING" => heap[a].state = "FORWARDING"
      BY <1>3, <2>3
    <3> HIDE DEF c, t, u, st
    <3> QED BY <1>1, <2>1, <3>1, <3>2
  <2> QED BY <2>2, <2>3
<1>5. CASE ClosesTarget(a)
  <2>1. u = NoFd /\ \A e \in interest : e.fd = c => e \in interest'
    BY <1>2, <1>5 DEF ClosesTarget, InterestWithout
  <2> HIDE DEF c, t, u, st
  <2>2. WatchedIn(interest', c, a, TRUE, FALSE)
    BY <1>1, <2>1 DEF WatchedIn
  <2> QED BY <1>1, <1>3, <2>1, <2>2
<1>6. CASE ClosesBoth(a)
  BY <1>1, <1>6 DEF ClosesBoth, Listens
<1>7. ASSUME NEW fd \in Fds, NEW k \in SockStatus, Opens(a, fd, k)
      PROVE  Goal
  <2>1. PICK data \in {"TARGET", "NODATA"} : interest' = interest \cup
          {[fd |-> fd, type |-> data, addr |-> a, in |-> FALSE, out |-> TRUE]}
    BY <1>7 DEF Opens
  <2>2. /\ u = fd /\ heap[a].state = "INITIALIZE_CONNECTION"
        /\ \A e \in interest : e.fd # fd
    BY <1>7 DEF Opens, IInv, InterestInv
  <2>3. \A e \in interest' : e.fd = fd => ~e.in
    BY <2>1, <2>2
  <2>4. WatchedIn(interest', c, a, TRUE, FALSE)
    BY <1>1, <2>1 DEF WatchedIn
  <2>5. \E e \in interest' : e.fd = fd /\ e.addr = a /\ e.out
    <3> DEFINE e == [fd |-> fd, type |-> data, addr |-> a, in |-> FALSE, out |-> TRUE]
    <3>1. e \in interest'
      BY <2>1
    <3>2. e.fd = fd /\ e.addr = a /\ e.out
      OBVIOUS
    <3> QED BY <3>1, <3>2
  <2>6. fd # NoFd /\ st # "FORWARDING"
    BY <1>3, <2>2, NoFdNotOpen
  <2>7. WatchedIn(interest', fd, a, FALSE, TRUE) /\ ~WatchedIn(interest', fd, a, TRUE, FALSE)
    BY <2>3, <2>5 DEF WatchedIn
  <2> QED BY <2>2, <2>4, <2>6, <2>7
<1> QED BY <1>4, <1>5, <1>6, <1>7 DEF Effect, Dangles

\* A connection that is not touched, and whose registrations stay.
LEMMA SparedHeard ==
  ASSUME NEW b, Heard(b),
         heap'[b].expired = heap[b].expired, heap'[b].state = heap[b].state,
         heap'[b].client_fd = heap[b].client_fd,
         heap'[b].target_fd = heap[b].target_fd,
         \A e : e.fd \in FdsOf(heap[b]) /\ e.addr = b =>
                 (e \in interest' <=> e \in interest)
  PROVE  Heard(b)'
<1>1. \A fd \in FdsOf(heap[b]), in, out \in BOOLEAN :
        WatchedFor(fd, b, in, out)' <=> WatchedFor(fd, b, in, out)
  BY DEF WatchedFor
<1>2. \A fd \in {heap[b].client_fd, heap[b].target_fd} : fd # NoFd => fd \in FdsOf(heap[b])
  BY DEF FdsOf
<1> QED BY <1>1, <1>2 DEF Heard, BothWays

LEMMA AcceptHeard ==
  ASSUME IInv, HeardInv, AcceptClient
  PROVE  HeardInv'
<1>1. PICK fd \in Fds, a \in Addr \ live, i \in Slots :
        /\ heap' = [heap EXCEPT ![a] =
                      [create_client_state(fd) EXCEPT !.slot = i]]
        /\ live' = live \cup {a}
        /\ interest' = interest \cup
             {[fd |-> fd, type |-> "CLIENT", addr |-> a,
               in |-> TRUE, out |-> FALSE]}
  BY DEF AcceptClient
<1>2. /\ heap'[a].client_fd = fd /\ heap'[a].target_fd = NoFd
      /\ heap'[a].state = "READING_REQUEST"
      /\ \A b \in Addr \ {a} : heap'[b] = heap[b]
  BY <1>1 DEF IInv, TypeOK, create_client_state
<1>3. Heard(a)'
  <2>1. [fd |-> fd, type |-> "CLIENT", addr |-> a, in |-> TRUE, out |-> FALSE]
          \in interest'
    BY <1>1
  <2>2. WatchedFor(fd, a, TRUE, FALSE)'
    BY <2>1 DEF WatchedFor
  <2> QED BY <1>2, <2>2, NoFdNotOpen DEF Heard
<1>4. ASSUME NEW b \in live
      PROVE  Heard(b)'
  <2>1. heap'[b] = heap[b]
    BY <1>1, <1>2 DEF IInv, TypeOK
  <2>2. \A e : e.addr = b => (e \in interest' <=> e \in interest)
    BY <1>1
  <2> QED BY <2>1, <2>2, SparedHeard DEF HeardInv
<1> QED BY <1>1, <1>3, <1>4 DEF HeardInv

LEMMA TimerHeard ==
  ASSUME IInv, ~EpollAddMayFail, HeardInv, HandleTimer
  PROVE  HeardInv'
<1>1. /\ live' = live \ ToFree /\ live \subseteq Addr
      /\ ToFree \subseteq live /\ ToExpire \subseteq live
      /\ interest' = InterestWithout(FreedFds \cup UnwatchedFds)
  BY DEF HandleTimer, ToFree, ToExpire, IInv, TypeOK, RegistryInv
<1> SUFFICES ASSUME NEW b \in live, b \notin ToFree
             PROVE  Heard(b)'
  BY <1>1 DEF HeardInv
<1>2. heap'[b] = IF b \in ToExpire THEN [heap[b] EXCEPT !.expired = TRUE]
                 ELSE heap[b]
  BY <1>1 DEF HandleTimer
<1>3. CASE b \in ToExpire
  <2>1. heap[b] \in ClientState
    BY <1>1 DEF IInv, TypeOK
  <2>2. heap'[b].expired
    BY <1>2, <1>3, <2>1 DEF ClientState
  <2> QED BY <2>2 DEF Heard
<1>4. CASE b \notin ToExpire
  <2>1. \A a \in ToFree \cup ToExpire : FdsOf(heap[a]) \cap FdsOf(heap[b]) = {}
    BY <1>1, <1>4 DEF IInv, OwnershipInv, FdOwnership
  <2>2. FdsOf(heap[b]) \cap (FreedFds \cup UnwatchedFds) = {}
    BY <2>1 DEF FreedFds, UnwatchedFds
  <2>3. \A e : e.fd \in FdsOf(heap[b]) => (e \in interest' <=> e \in interest)
    BY <1>1, <2>2 DEF InterestWithout
  <2> QED BY <1>2, <1>4, <2>3, SparedHeard DEF HeardInv
<1> QED BY <1>3, <1>4

LEMMA HeardInductive ==
  ASSUME IInv, ~EpollAddMayFail, HeardInv, [Next]_vars
  PROVE  HeardInv'
<1>1. CASE UNCHANGED <<heap, live, interest>>
  BY <1>1 DEF HeardInv, Heard, BothWays, WatchedFor
<1>2. CASE AcceptClient
  BY <1>2, AcceptHeard
<1>3. CASE HandleTimer
  BY <1>3, TimerHeard
<1>4. CASE Die
  BY <1>4 DEF Die, HeardInv
<1>5. CASE HandleClient /\ ~Die
  <2>1. CASE DropEvent
    BY <1>1, <2>1 DEF DropEvent
  <2>2. CASE Effect(cur.addr) /\ Listens(cur.addr)
    <3>1. PICK a \in live : a = cur.addr
      BY <2>2 DEF Effect, Keeps, Dangles, ClosesTarget, ClosesBoth, Opens, Within
    <3>2. Effect(a) /\ Listens(a) /\ a \in Addr /\ Heard(a)
      BY <2>2, <3>1 DEF IInv, TypeOK, HeardInv
    <3>3. live' = live
      BY <3>2 DEF Effect, Keeps, Dangles, ClosesTarget, ClosesBoth, Opens, Within
    <3>4. Heard(a)'
      BY <3>2, EffectHeard
    <3>5. ASSUME NEW b \in live \ {a}
          PROVE  Heard(b)'
      <4>1. Spares(a, b)
        BY <3>2, EffectSpares
      <4> QED BY <4>1, SparedHeard DEF Spares, HeardInv
    <3> QED BY <3>3, <3>4, <3>5 DEF HeardInv
  <2> QED BY <1>5, <2>1, <2>2, HandlerEffect, HandlerListens DEF IInv
<1>6. ASSUME NEW a \in Addr, BecomesIdle(a)
      PROVE  HeardInv'
  <2>1. heap \in [Addr -> ClientState] /\ live \subseteq Addr
    BY DEF IInv, TypeOK
  <2>2. /\ heap' = [heap EXCEPT ![a] = [heap[a] EXCEPT !.idle = TRUE]]
        /\ UNCHANGED <<live, interest>>
    BY <1>6, <2>1 DEF BecomesIdle, LoopUnchanged
  <2>3. \A b \in Addr :
          /\ heap'[b].expired = heap[b].expired /\ heap'[b].state = heap[b].state
          /\ heap'[b].client_fd = heap[b].client_fd
          /\ heap'[b].target_fd = heap[b].target_fd
    BY <2>1, <2>2 DEF ClientState
  <2> QED BY <2>1, <2>2, <2>3, SparedHeard DEF HeardInv
<1>7. EpollWait \/ NextEvent \/ AcceptFails \/ RejectClient \/ UNCHANGED vars
        => UNCHANGED <<heap, live, interest>>
  BY DEF EpollWait, NextEvent, AcceptFails, RejectClient, DropEvent, vars
<1>8. ClientConnects \/ PeerActs \/ TimerExpires \/ Restart
        => UNCHANGED <<heap, live, interest>>
  BY DEF ClientConnects, PeerActs, TimerExpires, Restart, KernelOnly
<1> QED BY <1>1, <1>2, <1>3, <1>4, <1>5, <1>6, <1>7, <1>8
        DEF Next, Loop, Environment, Terminate, NullDataEvent

-----------------------------------------------------------------------------
\* The theorems

\* For any number of connections, slots and descriptors: the registry holds
\* exactly the live ClientStates, each in the slot it remembers, so that
\* state_registry_remove empties the right slot and state_registry_for_each
\* never calls timeout_callback on a ClientState already freed.
THEOREM RegistryCorrect == Spec => []RegistryInv
<1>1. IInv => RegistryInv
  BY DEF IInv
<1> QED BY <1>1, SpecInv, PTL

\* For any instance, and also when epoll_ctl fails: every registration in
\* epoll belongs to a live ClientState that holds its descriptor, so that
\* epoll_wait never returns a ClientState freed before the call.
THEOREM InterestCorrect == Spec => []InterestInv
<1>1. IInv => InterestInv
  BY DEF IInv
<1> QED BY <1>1, SpecInv, PTL

\* As long as epoll_ctl(ADD) succeeds, no descriptor is leaked, kept after
\* close() or shared by two connections, whatever the number of connections
\* and the order of events, timers and peers' moves.
THEOREM OwnershipCorrect ==
  ASSUME ~EpollAddMayFail
  PROVE  Spec => []FdOwnership
<1>1. IInv => FdOwnership
  BY DEF IInv, OwnershipInv
<1> QED BY <1>1, SpecInv, PTL

\* As long as epoll_ctl(ADD) succeeds, a handler closes, reads, changes or
\* re-registers nothing of a connection other than the event's own, for any
\* number of connections and any recycling of descriptor numbers.
THEOREM IsolationCorrect ==
  ASSUME ~EpollAddMayFail
  PROVE  Spec => Isolation
<1>1. IInv /\ [Next]_vars =>
        [HandleClient /\ running' =>
           \A b \in live \ {cur.addr} :
             /\ heap'[b] = heap[b]
             /\ \A fd \in FdsOf(heap[b]) :
                  /\ sock'[fd] = sock[fd]
                  /\ {e \in interest' : e.fd = fd}
                       = {e \in interest : e.fd = fd}]_vars
  BY HandlerSpares DEF Spares
<1> QED BY <1>1, SpecInv, PTL DEF Spec, Isolation

\* For any number of connections, descriptors and slots: an event whose
\* ClientState has been freed is handled only behind the timer event of its
\* batch.  handle_closing leaves the memory to timeout_callback, and does so
\* for every event the batch may still hold.
THEOREM StaleEventsCorrect == Spec => []StaleOnlyAfterTimer
<1>1. Init => EventInv
  BY DEF Init, EventInv, TimerInv, StaleOnlyAfterTimer, NoEvent, TimerEvent
<1>2. IInv /\ EventInv /\ [Next]_vars => EventInv'
  BY EventInductive
<1>3. EventInv => StaleOnlyAfterTimer
  BY DEF EventInv
<1> QED BY <1>1, <1>2, <1>3, SpecInv, PTL DEF Spec

\* As long as epoll_ctl(ADD) succeeds, no connection goes deaf: whatever the
\* order of handlers, timers and recycled descriptors, epoll watches each side
\* of a connection that has not expired for what its state waits for.  Where
\* register_forwarding_fds may run out of memory, the target's input can be
\* missing, with or without the client's output, and nothing else.
THEOREM NotDeafCorrect ==
  ASSUME ~EpollAddMayFail
  PROVE  Spec => []NotDeaf
<1>1. Init => HeardInv
  BY DEF Init, HeardInv
<1>2. IInv /\ HeardInv /\ [Next]_vars => HeardInv'
  BY HeardInductive
<1>3. HeardInv => NotDeaf
  BY DEF HeardInv, Heard, NotDeaf
<1> QED BY <1>1, <1>2, <1>3, SpecInv, PTL DEF Spec
=============================================================================
