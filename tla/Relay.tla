------------------------------- MODULE Relay ---------------------------------
(***************************************************************************)
(* One connection of simpleproxy from INITIALIZE_CONNECTION on, with its   *)
(* bytes: connection.c and the handlers of proxy.c that call it.  Each     *)
(* direction is indexed by the side its bytes come from, so buf["client"]  *)
(* is request_buffer and buf["target"] is response_buffer.                 *)
(***************************************************************************)
EXTENDS Integers, Sequences, SequencesExt

CONSTANTS
  Capacity,   \* request_capacity and response_capacity
  HeadLen,    \* bytes of the request head already in request_buffer
  MaxSent,    \* bound on the bytes the client sends
  MaxAnswer   \* bound on the bytes the target sends

ASSUME CapacityAssumption == Capacity \in Nat \ {0}
ASSUME HeadAssumption == HeadLen \in 1 .. Capacity
ASSUME SentAssumption == MaxSent \in Nat /\ MaxSent >= HeadLen
ASSUME AnswerAssumption == MaxAnswer \in 0 .. MaxSent

VARIABLES
  state,      \* ClientState.state
  is_https,
  early,      \* the bytes in request_buffer behind the request head
  expired,
  closed,     \* client_closed and target_closed, by side
  buf,        \* the contents of the two buffers
  replies,    \* "200 Connection Established" replies sent to the client
  peer,       \* kernel: what the other end of each socket has done
  unread,     \* kernel: bytes received on a socket and not yet read
  sent,       \* the bytes each peer has sent, the request head included
  delivered   \* the bytes from each side handed to the other

request == <<is_https, early>>
vars == <<state, request, expired, closed, buf, replies, peer, unread, sent,
          delivered>>

Sides == {"client", "target"}
Other(side) == IF side = "client" THEN "target" ELSE "client"

\* The bytes a peer sends are numbered.  HeadByte is a byte of a CONNECT
\* request, meant for the proxy alone.
HeadByte == 0
Byte == 0 .. MaxSent
RequestRead ==
  [i \in 1 .. HeadLen + early |->
     IF ~is_https THEN i ELSE IF i <= HeadLen THEN HeadByte ELSE i - HeadLen]

\* A plain request is itself part of what is relayed.  Either kind may have been
\* read together with bytes behind its head.
Init ==
  /\ state = "INITIALIZE_CONNECTION" /\ is_https \in BOOLEAN
  /\ early \in 0 .. Capacity - HeadLen /\ HeadLen + early <= MaxSent
  /\ expired = FALSE /\ replies = 0
  /\ closed = [s \in Sides |-> FALSE]
  /\ buf = [s \in Sides |-> IF s = "client" THEN RequestRead ELSE <<>>]
  /\ sent = [s \in Sides |->
               IF s = "target" THEN <<>>
               ELSE [i \in 1 .. early + (IF is_https THEN 0 ELSE HeadLen) |-> i]]
  /\ peer = [s \in Sides |-> IF s = "client" THEN "open" ELSE "none"]
  /\ unread = [s \in Sides |-> <<>>]
  /\ delivered = [s \in Sides |-> <<>>]

-----------------------------------------------------------------------------
\* Readiness, as epoll reports it

\* Mutant: the client's socket is watched for input only.
Writable_TargetOnly(side) ==
  side = "target" /\ peer[side] \in {"open", "fin", "reset"}

Readable(side) == unread[side] # <<>> \/ peer[side] \in {"fin", "reset"}
Writable(side) == peer[side] \in {"open", "fin", "reset"}
Running(st) == ~expired /\ state = st

\* Some event of this connection arrives while epoll watches the client for
\* input and the target for output.
SetupEvent == Readable("client") \/ Writable("target")

-----------------------------------------------------------------------------
\* The handlers

\* Mutant: request_len is not reset.
Established_KeepsRequest(b) == b

\* send_https_established, and request_len = 0.
Established(b) == [b EXCEPT !["client"] = IF is_https THEN <<>> ELSE @]
Replies == replies + IF is_https THEN 1 ELSE 0

\* connection_connect: connect is in progress, or done at once.
ConnectStarts ==
  /\ Running("INITIALIZE_CONNECTION")
  /\ \/ peer' = [peer EXCEPT !["target"] = "connecting"]
        /\ UNCHANGED <<buf, replies>>
     \/ peer' = [peer EXCEPT !["target"] = "open"]
        /\ buf' = Established(buf) /\ replies' = Replies
  /\ state' = "CONNECTING"
  /\ UNCHANGED <<request, expired, closed, unread, sent, delivered>>

\* No address, no socket, or connect fails at once.
ConnectFails ==
  /\ Running("INITIALIZE_CONNECTION")
  /\ state' = "CLOSING"
  /\ UNCHANGED <<request, expired, closed, buf, replies, peer, unread, sent,
                 delivered>>

\* handle_connecting: SO_ERROR is clear, also while the connect goes on.
ConnectAccepted ==
  /\ Running("CONNECTING") /\ SetupEvent
  /\ peer["target"] # "reset"
  /\ buf' = [Established(buf) EXCEPT !["target"] = <<>>]
  /\ replies' = Replies
  /\ state' = "FORWARDING"
  /\ UNCHANGED <<request, expired, closed, peer, unread, sent, delivered>>

\* SO_ERROR is set: handle_client runs handle_closing at once.
ConnectRefused ==
  /\ Running("CONNECTING") /\ SetupEvent
  /\ peer["target"] = "reset"
  /\ state' = "CLOSING" /\ expired' = TRUE
  /\ UNCHANGED <<request, closed, buf, replies, peer, unread, sent,
                 delivered>>

\* recv_into_buffer: recv until EAGAIN, an error, or a 0.  A 0 is end of file
\* or a buffer without room, and counts as closed when nothing was read.
recv_into_buffer(b, u, p) ==
  LET room == Capacity - Len(b)
      n == IF room < Len(u) THEN room ELSE Len(u)
  IN [buf |-> b \o SubSeq(u, 1, n), unread |-> SubSeq(u, n + 1, Len(u)),
      res |-> IF p = "reset" /\ n = Len(u) THEN -1
              ELSE IF n > 0 THEN n
              ELSE IF u # <<>> \/ p = "fin" THEN -2
              ELSE 0]

\* Mutant: the bytes sent are not moved out of the buffer.
send_from_buffer_NoMove(b, k, p) ==
  [out |-> SubSeq(b, 1, k), buf |-> b, res |-> IF p = "reset" THEN -1 ELSE k]

\* send_from_buffer when the socket takes k bytes.
send_from_buffer(b, k, p) ==
  [out |-> SubSeq(b, 1, k), buf |-> SubSeq(b, k + 1, Len(b)),
   res |-> IF p = "reset" THEN -1 ELSE k]

\* The most bytes a socket can take: none in error or still connecting.
Acceptable(b, p) == IF p \in {"open", "fin"} THEN Len(b) ELSE 0

\* handle_forwarding on an event of one side with EPOLLIN and EPOLLOUT bits.
Forward(side, in, out, k) ==
  LET o == Other(side)
      write == out /\ buf[o] # <<>>
      rd == IF in THEN recv_into_buffer(buf[side], unread[side], peer[side])
            ELSE [buf |-> buf[side], unread |-> unread[side], res |-> 0]
      wr == IF write THEN send_from_buffer(buf[o], k, peer[side])
            ELSE [out |-> <<>>, buf |-> buf[o], res |-> 0]
  IN /\ Running("FORWARDING")
     /\ in \/ out
     /\ in => Readable(side)
     /\ out => Writable(side)
     /\ k \in 0 .. (IF write THEN Acceptable(buf[o], peer[side]) ELSE 0)
     /\ buf' = [buf EXCEPT ![side] = rd.buf, ![o] = wr.buf]
     /\ unread' = [unread EXCEPT ![side] = rd.unread]
     /\ delivered' = [delivered EXCEPT ![o] = @ \o wr.out]
     /\ closed' = [closed EXCEPT ![side] = @ \/ rd.res < 0 \/ wr.res < 0]
     /\ state' = IF \A s \in Sides : closed'[s] THEN "CLOSING" ELSE "FORWARDING"
     /\ UNCHANGED <<request, expired, replies, peer, sent>>

\* The number of bytes a send may take is bounded by the buffer.
Forwarding(side) ==
  \E in, out \in BOOLEAN, k \in 0 .. Capacity : Forward(side, in, out, k)

\* handle_closing, on the next event of either side.
HandleClosing ==
  /\ Running("CLOSING")
  /\ \E side \in Sides : Readable(side) \/ Writable(side)
  /\ expired' = TRUE
  /\ UNCHANGED <<state, request, closed, buf, replies, peer, unread, sent,
                 delivered>>

\* timeout_callback, in any state, after ten seconds without progress.
TimesOut ==
  /\ ~expired /\ expired' = TRUE
  /\ UNCHANGED <<state, request, closed, buf, replies, peer, unread, sent,
                 delivered>>

-----------------------------------------------------------------------------
\* The peers

ProxyUnchanged ==
  UNCHANGED <<state, request, expired, closed, buf, replies, delivered>>

\* A client that asked for a tunnel need not wait for the reply to use it.
Send(side) ==
  /\ ~expired /\ peer[side] = "open"
  /\ Len(sent[side]) < IF side = "client" THEN MaxSent ELSE MaxAnswer
  /\ sent' = [sent EXCEPT ![side] = Append(@, Len(@) + 1)]
  /\ unread' = [unread EXCEPT ![side] = Append(@, Len(sent[side]) + 1)]
  /\ UNCHANGED peer /\ ProxyUnchanged

Finish(side) ==
  /\ ~expired /\ peer[side] = "open"
  /\ peer' = [peer EXCEPT ![side] = "fin"]
  /\ UNCHANGED <<unread, sent>> /\ ProxyUnchanged

\* A reset may lose what had not arrived yet.
Reset(side) ==
  /\ ~expired /\ peer[side] \in {"connecting", "open", "fin"}
  /\ peer' = [peer EXCEPT ![side] = "reset"]
  /\ \E n \in 0 .. Len(unread[side]) :
       unread' = [unread EXCEPT ![side] = SubSeq(@, 1, n)]
  /\ UNCHANGED sent /\ ProxyUnchanged

TargetAnswers ==
  /\ ~expired /\ peer["target"] = "connecting"
  /\ peer' = [peer EXCEPT !["target"] = "open"]
  /\ UNCHANGED <<unread, sent>> /\ ProxyUnchanged

Next ==
  \/ ConnectStarts \/ ConnectFails \/ ConnectAccepted \/ ConnectRefused
  \/ HandleClosing \/ TimesOut \/ TargetAnswers
  \/ \E side \in Sides :
       Forwarding(side) \/ Send(side) \/ Finish(side) \/ Reset(side)

Spec == Init /\ [][Next]_vars

\* epoll is level triggered and the loop serves every event it reports, so a
\* readable socket is read; a peer that keeps reading keeps its socket ready
\* to take bytes.  The kernel ends every connect with an answer or an error.
Fairness ==
  /\ WF_vars(TargetAnswers)
  /\ \A side \in Sides :
    /\ WF_vars(\E out \in BOOLEAN, k \in 0 .. Capacity :
                 Forward(side, TRUE, out, k))
    /\ WF_vars(\E in \in BOOLEAN, k \in 1 .. Capacity :
                 Forward(side, in, TRUE, k))

FairSpec == Spec /\ Fairness

-----------------------------------------------------------------------------
\* Properties

\* Type correctness; in particular no buffer holds more than its capacity.
TypeOK ==
  /\ state \in {"INITIALIZE_CONNECTION", "CONNECTING", "FORWARDING", "CLOSING"}
  /\ is_https \in BOOLEAN /\ expired \in BOOLEAN
  /\ early \in 0 .. Capacity - HeadLen
  /\ closed \in [Sides -> BOOLEAN]
  /\ replies \in 0 .. 2
  /\ peer \in [Sides -> {"none", "connecting", "open", "fin", "reset"}]
  /\ \A q \in {buf, unread, sent, delivered} :
       DOMAIN q = Sides /\ \A s \in Sides : q[s] \in Seq(Byte)
  /\ \A s \in Sides : Len(buf[s]) <= Capacity

\* The bytes from one side that the proxy is responsible for, oldest first.
\* A CONNECT request not answered yet is not data.
InProxy(side) ==
  (IF side = "client" /\ is_https /\ replies = 0 THEN <<>> ELSE buf[side])
    \o unread[side]

\* The bytes of a side that are for the other.  What was read together with the
\* head of a CONNECT goes with it, when request_len is set to 0.
Stream(side) ==
  IF side = "client" /\ is_https THEN SubSeq(sent[side], early + 1, Len(sent[side]))
  ELSE sent[side]

\* connection_forward neither loses, repeats, reorders nor invents a byte:
\* what one peer sent is what the other got, then what is buffered, then what
\* waits in the socket, up to the bytes lost to a reset; and handle_connecting
\* drops exactly what has come with the head of a CONNECT, however early the
\* client uses its tunnel.  In particular no byte of the head reaches the target.
Conservation ==
  \A side \in Sides :
    LET kept == delivered[side] \o InProxy(side)
    IN IF peer[side] = "reset" THEN IsPrefix(kept, Stream(side))
       ELSE kept = Stream(side)

\* Once forwarding, every byte of a stream gets through unless a peer resets, the
\* timer expires the connection, or both sides count as closed: a full buffer
\* never stalls a direction for good.
Delivery ==
  \A side \in Sides, n \in 1 .. MaxSent :
    (state = "FORWARDING" /\ Len(Stream(side)) >= n)
      ~> (\/ Len(delivered[side]) >= n
          \/ expired \/ state = "CLOSING"
          \/ \E s \in Sides : peer[s] = "reset")

\* What a tunnel's client reads after the reply to its CONNECT is the target's:
\* the proxy writes one reply and nothing else.  README.md says "raw TCP
\* forwarding"; connection_connect and handle_connecting both write the reply
\* when the connect is done at once.
OneAnswer == replies <= 1

\* A connection is what module Tunnel says: the answers to the request, and then
\* two streams of bytes.
Phase ==
  IF state \in {"INITIALIZE_CONNECTION", "CONNECTING"} THEN "setup" ELSE "streams"
Streams == [s \in Sides |-> Stream(s)]
Promise == INSTANCE Tunnel WITH
  Side <- Sides, phase <- Phase, answers <- replies, written <- Streams,
  got <- delivered
TunnelSpec == Promise!Spec

\* When both peers have ended their streams and the proxy starts closing,
\* everything in their streams has been forwarded.
NothingTruncated ==
  state = "CLOSING" /\ (\A s \in Sides : peer[s] = "fin")
    => \A s \in Sides : delivered[s] = Stream(s)
=============================================================================
