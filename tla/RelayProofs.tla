----------------------------- MODULE RelayProofs ------------------------------
(***************************************************************************)
(* Theorems of Relay for every capacity, every length of the request head  *)
(* and every number of bytes the peers send.                               *)
(***************************************************************************)
EXTENDS Relay, SequenceTheorems, TLAPS

\* What never changes after Init: an abbreviation, like vars.
USE DEF request

-----------------------------------------------------------------------------
\* The buffer operations and sequences

\* A sequence and what is appended to it: the first is a prefix.
LEMMA PrefixOfConcat ==
  ASSUME NEW S, NEW s \in Seq(S), NEW t \in Seq(S)
  PROVE  IsPrefix(s, s \o t)
<1>1. Len(s) \in Nat /\ Len(t) \in Nat
  BY LenProperties
<1>2. s \o t \in Seq(S) /\ Len(s \o t) = Len(s) + Len(t)
  BY ConcatProperties
<1>3. SubSeq(s, 1, Len(s)) = SubSeq(s \o t, 1, Len(s))
  <2>1. CASE s = <<>>
    <3>1. Len(s) < 1
      BY <2>1, <1>1
    <3> QED BY <3>1, <1>1, SubSeqEmpty
  <2>2. CASE s # <<>>
    <3>1. 1 \in 1 .. Len(s) /\ Len(s) \in 1 .. Len(s)
      BY <2>2, <1>1, EmptySeq
    <3> QED BY <3>1, SubSeqOfConcat1
  <2> QED BY <2>1, <2>2
<1> QED BY <1>1, <1>2, <1>3 DEF IsPrefix

\* Cutting a sequence in two loses nothing.
LEMMA CutProperties ==
  ASSUME NEW S, NEW s \in Seq(S), NEW n \in 0 .. Len(s)
  PROVE  /\ SubSeq(s, 1, n) \in Seq(S)
         /\ Len(SubSeq(s, 1, n)) = n
         /\ SubSeq(s, n + 1, Len(s)) \in Seq(S)
         /\ Len(SubSeq(s, n + 1, Len(s))) = Len(s) - n
         /\ SubSeq(s, 1, n) \o SubSeq(s, n + 1, Len(s)) = s
<1>1. Len(s) \in Nat /\ n \in Nat
  BY LenProperties
<1>2. /\ \A i \in 1 .. n : s[i] \in S
      /\ \A i \in n + 1 .. Len(s) : s[i] \in S
  BY <1>1, ElementOfSeq
<1>3. SubSeq(s, 1, n) \in Seq(S) /\ Len(SubSeq(s, 1, n)) = n
  BY <1>1, <1>2, SubSeqProperties
<1>4. /\ SubSeq(s, n + 1, Len(s)) \in Seq(S)
      /\ Len(SubSeq(s, n + 1, Len(s))) = Len(s) - n
  BY <1>1, <1>2, SubSeqProperties
<1>5. SubSeq(s, 1, n) \o SubSeq(s, n + 1, Len(s)) = SubSeq(s, 1, Len(s))
  <2>1. /\ 1 \in 1 .. Len(s) + 1 /\ n \in 1 - 1 .. Len(s)
        /\ Len(s) \in n .. Len(s)
    BY <1>1
  <2> QED BY <2>1, ConcatAdjacentSubSeq, Zenon
<1> QED BY <1>3, <1>4, <1>5, SubSeqFull

\* Concatenation of bytes is associative, in the form the proofs below use.
LEMMA BytesAssociative ==
  \A s, t, v \in Seq(Byte) : (s \o t) \o v = s \o (t \o v)
<1>1. \A S : \A s, t, v \in Seq(S) : (s \o t) \o v = s \o (t \o v)
  BY ConcatAssociative, Zenon
<1> QED BY <1>1

\* recv_into_buffer moves bytes from the socket to the end of the buffer, in
\* order, and never past the capacity.
LEMMA RecvKeeps ==
  ASSUME NEW b \in Seq(Byte), NEW u \in Seq(Byte), NEW p, Len(b) <= Capacity
  PROVE  LET r == recv_into_buffer(b, u, p)
         IN /\ r.buf \in Seq(Byte) /\ Len(r.buf) <= Capacity
            /\ r.unread \in Seq(Byte)
            /\ r.buf \o r.unread = b \o u
<1> DEFINE room == Capacity - Len(b)
           n == IF room < Len(u) THEN room ELSE Len(u)
           front == SubSeq(u, 1, n)
           back == SubSeq(u, n + 1, Len(u))
<1>1. /\ Len(b) \in Nat /\ Len(u) \in Nat
      /\ Capacity \in Nat
  BY LenProperties, CapacityAssumption
<1>2. n \in 0 .. Len(u) /\ Len(b) + n <= Capacity
  BY <1>1
<1> HIDE DEF n
<1>3. /\ front \in Seq(Byte) /\ Len(front) = n /\ back \in Seq(Byte)
      /\ front \o back = u
  BY <1>2, CutProperties
<1> HIDE DEF front, back
<1>4. b \o front \in Seq(Byte) /\ Len(b \o front) <= Capacity
  BY <1>1, <1>2, <1>3, ConcatProperties
<1>5. (b \o front) \o back = b \o u
  <2>1. front \in Seq(Byte) /\ back \in Seq(Byte) /\ front \o back = u
    BY <1>3
  <2> QED BY <2>1, BytesAssociative, Zenon
<1>6. /\ recv_into_buffer(b, u, p).buf = b \o front
      /\ recv_into_buffer(b, u, p).unread = back
  BY DEF recv_into_buffer, front, back, n
<1> QED BY <1>3, <1>4, <1>5, <1>6

\* send_from_buffer takes bytes from the front of the buffer and moves the
\* rest there.
LEMMA SendKeeps ==
  ASSUME NEW b \in Seq(Byte), NEW k \in 0 .. Len(b), NEW p
  PROVE  LET w == send_from_buffer(b, k, p)
         IN /\ w.out \in Seq(Byte) /\ w.buf \in Seq(Byte)
            /\ Len(w.buf) <= Len(b)
            /\ w.out \o w.buf = b
<1> DEFINE out == SubSeq(b, 1, k)
           rest == SubSeq(b, k + 1, Len(b))
<1>1. Len(b) \in Nat /\ k \in Nat
  BY LenProperties
<1>2. /\ out \in Seq(Byte) /\ rest \in Seq(Byte)
      /\ Len(rest) = Len(b) - k
      /\ out \o rest = b
  BY CutProperties
<1>3. /\ send_from_buffer(b, k, p).out = out
      /\ send_from_buffer(b, k, p).buf = rest
  BY DEF send_from_buffer
<1> HIDE DEF out, rest
<1>4. Len(rest) <= Len(b)
  BY <1>1, <1>2
<1> QED BY <1>2, <1>3, <1>4

\* Bytes appended to the last of three parts are appended to the whole.
LastAppended(d, b, u, x) == d \o (b \o (u \o x)) = (d \o (b \o u)) \o x

LEMMA ConcatLast == \A d, b, u, x \in Seq(Byte) : LastAppended(d, b, u, x)
<1> TAKE d, b, u, x \in Seq(Byte)
<1>1. b \o u \in Seq(Byte)
  BY ConcatProperties
<1>2. b \o (u \o x) = (b \o u) \o x
  BY BytesAssociative, Zenon
<1>3. (d \o (b \o u)) \o x = d \o ((b \o u) \o x)
  BY <1>1, BytesAssociative, Zenon
<1> QED BY <1>2, <1>3, Zenon DEF LastAppended

\* Bytes may move from the front of the middle part to the end of the first.
FrontMoved(d, out, b, u) == (d \o out) \o (b \o u) = d \o ((out \o b) \o u)

LEMMA ConcatMove == \A d, out, b, u \in Seq(Byte) : FrontMoved(d, out, b, u)
<1> TAKE d, out, b, u \in Seq(Byte)
<1>1. b \o u \in Seq(Byte)
  BY ConcatProperties
<1>2. (d \o out) \o (b \o u) = d \o (out \o (b \o u))
  BY <1>1, BytesAssociative, Zenon
<1>3. out \o (b \o u) = (out \o b) \o u
  BY BytesAssociative, Zenon
<1> QED BY <1>2, <1>3, Zenon DEF FrontMoved

-----------------------------------------------------------------------------
\* The inductive invariant

\* A CONNECT request that has not been answered.
Unanswered == is_https /\ replies = 0

\* What the state of the connection says of its bytes.  Before forwarding
\* nothing of the target has been read, so handle_connecting may clear its
\* buffer; and the client's buffer, once cleared by connection_connect, is
\* still empty when handle_connecting clears it again.  What came with the
\* head was sent before everything else.
StateInv ==
  /\ state = "INITIALIZE_CONNECTION" => peer["target"] = "none" /\ replies = 0
  /\ state \in {"INITIALIZE_CONNECTION", "CONNECTING"} =>
       /\ buf["target"] = <<>> /\ delivered["target"] = <<>>
       /\ closed["client"] = FALSE
  /\ state = "CONNECTING" =>
       replies <= 1 /\ (is_https /\ replies > 0 => buf["client"] = <<>>)
  /\ Unanswered =>
       state # "FORWARDING" /\ delivered["client"] = <<>>
  /\ Len(sent["client"]) >= early

Inv == TypeOK /\ StateInv /\ Conservation

\* What TypeOK says of the four families of sequences.
LEMMA TypeOfBytes ==
  ASSUME TypeOK, NEW s \in Sides
  PROVE  /\ buf[s] \in Seq(Byte) /\ Len(buf[s]) <= Capacity
         /\ unread[s] \in Seq(Byte) /\ sent[s] \in Seq(Byte)
         /\ delivered[s] \in Seq(Byte)
BY DEF TypeOK

\* The effect of handle_forwarding on the bytes: some move from the socket of
\* the side to its buffer, some from the other buffer to the side.
Moves(side, rb, ru, wo, wb) ==
  /\ rb \o ru = buf[side] \o unread[side] /\ Len(rb) <= Capacity
  /\ wo \o wb = buf[Other(side)] /\ Len(wb) <= Capacity
  /\ buf' = [buf EXCEPT ![side] = rb, ![Other(side)] = wb]
  /\ unread' = [unread EXCEPT ![side] = ru]
  /\ delivered' = [delivered EXCEPT ![Other(side)] = @ \o wo]

LEMMA ForwardMoves ==
  ASSUME TypeOK, NEW side \in Sides, NEW in \in BOOLEAN, NEW out \in BOOLEAN,
         NEW k \in 0 .. Capacity, Forward(side, in, out, k)
  PROVE  \E rb, ru, wo, wb \in Seq(Byte) : Moves(side, rb, ru, wo, wb)
<1> DEFINE o == Other(side)
           write == out /\ buf[o] # <<>>
           rd == IF in THEN recv_into_buffer(buf[side], unread[side], peer[side])
                 ELSE [buf |-> buf[side], unread |-> unread[side], res |-> 0]
           wr == IF write THEN send_from_buffer(buf[o], k, peer[side])
                 ELSE [out |-> <<>>, buf |-> buf[o], res |-> 0]
<1>1. o \in Sides
  BY DEF Other, Sides
<1>2. /\ buf' = [buf EXCEPT ![side] = rd.buf, ![o] = wr.buf]
      /\ unread' = [unread EXCEPT ![side] = rd.unread]
      /\ delivered' = [delivered EXCEPT ![o] = @ \o wr.out]
      /\ write => k \in 0 .. Acceptable(buf[o], peer[side])
  BY Zenon DEF Forward
<1>3. /\ buf[side] \in Seq(Byte) /\ Len(buf[side]) <= Capacity
      /\ unread[side] \in Seq(Byte)
      /\ buf[o] \in Seq(Byte) /\ Len(buf[o]) <= Capacity
      /\ Len(buf[o]) \in Nat
  BY <1>1, TypeOfBytes, LenProperties
<1>4. /\ rd.buf \in Seq(Byte) /\ rd.unread \in Seq(Byte)
      /\ rd.buf \o rd.unread = buf[side] \o unread[side]
      /\ Len(rd.buf) <= Capacity
  <2>1. CASE in
    BY <2>1, <1>3, RecvKeeps
  <2>2. CASE ~in
    BY <2>2, <1>3
  <2> QED BY <2>1, <2>2
<1>5. /\ wr.out \in Seq(Byte) /\ wr.buf \in Seq(Byte)
      /\ wr.out \o wr.buf = buf[o]
      /\ Len(wr.buf) <= Len(buf[o])
  <2>1. CASE write
    <3>1. k \in 0 .. Len(buf[o])
      BY <2>1, <1>2, <1>3 DEF Acceptable
    <3> QED BY <2>1, <3>1, <1>3, SendKeeps
  <2>2. CASE ~write
    <3>1. wr.out = <<>> /\ wr.buf = buf[o]
      BY <2>2
    <3>2. <<>> \in Seq(Byte) /\ <<>> \o buf[o] = buf[o]
      BY <1>3, EmptySeq, ConcatEmptySeq
    <3> HIDE DEF wr
    <3> QED BY <3>1, <3>2, <1>3
  <2> QED BY <2>1, <2>2
<1>6. Len(wr.buf) <= Capacity
  BY <1>3, <1>5, LenProperties, CapacityAssumption
<1> HIDE DEF rd, wr
<1>7. Moves(side, rd.buf, rd.unread, wr.out, wr.buf)
  BY <1>2, <1>4, <1>5, <1>6 DEF Moves
<1> QED BY <1>4, <1>5, <1>7

-----------------------------------------------------------------------------
\* Types

\* The request head fits the buffer, and its bytes are bytes.
LEMMA InitType == Init => TypeOK
<1> SUFFICES ASSUME Init
             PROVE  TypeOK
  OBVIOUS
<1>1. /\ HeadLen \in Nat /\ HeadLen <= Capacity /\ Capacity \in Nat
      /\ early \in Nat /\ HeadLen + early <= Capacity /\ HeadLen + early <= MaxSent
      /\ MaxSent \in Nat
  BY HeadAssumption, SentAssumption, CapacityAssumption DEF Init
<1>2. RequestRead \in Seq(Byte) /\ Len(RequestRead) = HeadLen + early
  <2>1. RequestRead \in [1 .. HeadLen + early -> Byte]
    BY <1>1 DEF RequestRead, Byte, HeadByte
  <2> QED BY <2>1, <1>1
<1>3. sent["client"] \in Seq(Byte)
  <2> DEFINE n == early + (IF is_https THEN 0 ELSE HeadLen)
  <2>1. n \in Nat /\ n <= MaxSent
    BY <1>1 DEF Init
  <2>2. sent["client"] = [i \in 1 .. n |-> i]
    BY DEF Init, Sides
  <2> HIDE DEF n
  <2>3. \A i \in 1 .. n : i \in 0 .. MaxSent
    BY <1>1, <2>1
  <2>4. sent["client"] \in [1 .. n -> Byte]
    BY <2>2, <2>3 DEF Byte
  <2> QED BY <2>1, <2>4
<1>4. <<>> \in Seq(Byte) /\ Len(<<>>) = 0
  BY EmptySeq
<1> HIDE DEF RequestRead, Byte
<1>5. DOMAIN buf = Sides /\ \A s \in Sides : buf[s] \in Seq(Byte) /\ Len(buf[s]) <= Capacity
  BY <1>1, <1>2, <1>4, CapacityAssumption DEF Init
<1>6. /\ DOMAIN unread = Sides /\ \A s \in Sides : unread[s] \in Seq(Byte)
      /\ DOMAIN sent = Sides /\ \A s \in Sides : sent[s] \in Seq(Byte)
      /\ DOMAIN delivered = Sides /\ \A s \in Sides : delivered[s] \in Seq(Byte)
  BY <1>4, <1>3 DEF Init, Sides
<1>7. /\ state \in {"INITIALIZE_CONNECTION", "CONNECTING", "FORWARDING", "CLOSING"}
      /\ is_https \in BOOLEAN /\ expired \in BOOLEAN
      /\ closed \in [Sides -> BOOLEAN] /\ replies \in 0 .. 2
      /\ peer \in [Sides -> {"none", "connecting", "open", "fin", "reset"}]
  <2>1. closed \in [Sides -> BOOLEAN]
    BY DEF Init
  <2>2. peer \in [Sides -> {"none", "connecting", "open", "fin", "reset"}]
    BY DEF Init
  <2>3. is_https \in BOOLEAN /\ expired \in BOOLEAN
    BY DEF Init
  <2>4. /\ state \in {"INITIALIZE_CONNECTION", "CONNECTING", "FORWARDING", "CLOSING"}
        /\ replies \in 0 .. 2
    BY DEF Init
  <2> QED BY <2>1, <2>2, <2>3, <2>4, Zenon
<1>8. early \in 0 .. Capacity - HeadLen
  BY DEF Init
<1> QED BY <1>5, <1>6, <1>7, <1>8 DEF TypeOK

\* send_https_established clears the request, and the buffer stays a buffer.
LEMMA EstablishedBytes ==
  ASSUME TypeOK
  PROVE  /\ DOMAIN Established(buf) = Sides
         /\ \A s \in Sides : /\ Established(buf)[s] \in Seq(Byte)
                            /\ Len(Established(buf)[s]) <= Capacity
<1>1. <<>> \in Seq(Byte) /\ Len(<<>>) = 0 /\ Capacity \in Nat
  BY EmptySeq, CapacityAssumption
<1>2. /\ Established(buf) = [buf EXCEPT !["client"] = IF is_https THEN <<>> ELSE buf["client"]]
      /\ DOMAIN buf = Sides
  BY DEF Established, TypeOK
<1>3. \A s \in Sides : buf[s] \in Seq(Byte) /\ Len(buf[s]) <= Capacity
  BY TypeOfBytes
<1> QED BY <1>1, <1>2, <1>3 DEF Sides

\* The number of the byte sent next is that of a byte.
LEMMA SentIsByte ==
  ASSUME TypeOK, NEW side \in Sides, Send(side)
  PROVE  Len(sent[side]) + 1 \in Byte
<1>1. Len(sent[side]) \in Nat
  BY TypeOfBytes, LenProperties
<1>2. Len(sent[side]) < MaxSent
  BY <1>1, SentAssumption, AnswerAssumption DEF Send
<1> QED BY <1>1, <1>2, SentAssumption DEF Byte

LEMMA NextType == TypeOK /\ StateInv /\ [Next]_vars => TypeOK'
<1> SUFFICES ASSUME TypeOK, StateInv, [Next]_vars
             PROVE  TypeOK'
  OBVIOUS
<1>0. <<>> \in Seq(Byte) /\ Len(<<>>) = 0 /\ Capacity \in Nat
  BY EmptySeq, CapacityAssumption
<1>1. CASE ConnectStarts
  <2>1. /\ UNCHANGED <<request, expired, closed, unread, sent, delivered>>
        /\ state' = "CONNECTING" /\ replies = 0
    BY <1>1 DEF ConnectStarts, StateInv, Running
  <2>2. /\ peer' \in [Sides -> {"none", "connecting", "open", "fin", "reset"}]
    BY <1>1 DEF ConnectStarts, TypeOK
  <2>3. /\ DOMAIN buf' = Sides
        /\ \A s \in Sides : buf'[s] \in Seq(Byte) /\ Len(buf'[s]) <= Capacity
        /\ replies' \in 0 .. 2
    <3>1. CASE UNCHANGED <<buf, replies>>
      BY <3>1 DEF TypeOK
    <3>2. CASE buf' = Established(buf) /\ replies' = Replies
      <4>1. replies' \in 0 .. 2
        BY <3>2, <2>1 DEF Replies
      <4> QED BY <4>1, <3>2, EstablishedBytes
    <3> QED BY <1>1, <3>1, <3>2 DEF ConnectStarts
  <2> QED BY <2>1, <2>2, <2>3 DEF TypeOK
<1>2. CASE ConnectAccepted
  BY <1>2, <1>0 DEF ConnectAccepted, TypeOK, StateInv, Running, Established, Replies, Sides
<1>3. CASE ConnectFails \/ ConnectRefused \/ HandleClosing \/ TimesOut
  BY <1>3 DEF ConnectFails, ConnectRefused, HandleClosing, TimesOut, TypeOK
<1>4. CASE TargetAnswers
  BY <1>4 DEF TargetAnswers, ProxyUnchanged, TypeOK, Sides
<1>5. ASSUME NEW side \in Sides, Forwarding(side)
      PROVE  TypeOK'
  <2>1. PICK in \in BOOLEAN, out \in BOOLEAN, k \in 0 .. Capacity :
          Forward(side, in, out, k)
    BY <1>5 DEF Forwarding
  <2>2. PICK rb \in Seq(Byte), ru \in Seq(Byte), wo \in Seq(Byte), wb \in Seq(Byte) :
          Moves(side, rb, ru, wo, wb)
    BY <2>1, ForwardMoves
  <2>3. Other(side) \in Sides
    BY DEF Other, Sides
  <2>4. delivered[Other(side)] \o wo \in Seq(Byte)
    BY <2>3, TypeOfBytes, ConcatProperties
  <2>5. /\ DOMAIN buf' = Sides /\ DOMAIN unread' = Sides /\ DOMAIN delivered' = Sides
        /\ \A s \in Sides : buf'[s] \in Seq(Byte) /\ Len(buf'[s]) <= Capacity
        /\ \A s \in Sides : unread'[s] \in Seq(Byte)
        /\ \A s \in Sides : delivered'[s] \in Seq(Byte)
    BY <2>2, <2>3, <2>4 DEF Moves, TypeOK
  <2>6. /\ UNCHANGED <<request, expired, replies, peer, sent>>
        /\ state' \in {"CLOSING", "FORWARDING"}
        /\ closed' \in [Sides -> BOOLEAN]
    BY <2>1 DEF Forward, TypeOK
  <2> QED BY <2>5, <2>6 DEF TypeOK
<1>6. ASSUME NEW side \in Sides, Send(side)
      PROVE  TypeOK'
  <2>1. Len(sent[side]) + 1 \in Byte
    BY <1>6, SentIsByte
  <2>2. /\ Append(sent[side], Len(sent[side]) + 1) \in Seq(Byte)
        /\ Append(unread[side], Len(sent[side]) + 1) \in Seq(Byte)
    BY <2>1, TypeOfBytes, AppendProperties
  <2> QED BY <1>6, <2>2 DEF Send, ProxyUnchanged, TypeOK
<1>7. ASSUME NEW side \in Sides, Finish(side)
      PROVE  TypeOK'
  BY <1>7 DEF Finish, ProxyUnchanged, TypeOK
<1>8. ASSUME NEW side \in Sides, Reset(side)
      PROVE  TypeOK'
  <2>1. PICK n \in 0 .. Len(unread[side]) :
          unread' = [unread EXCEPT ![side] = SubSeq(@, 1, n)]
    BY <1>8 DEF Reset
  <2>2. SubSeq(unread[side], 1, n) \in Seq(Byte)
    BY TypeOfBytes, CutProperties
  <2>3. /\ peer' = [peer EXCEPT ![side] = "reset"]
        /\ UNCHANGED sent /\ ProxyUnchanged
    BY <1>8 DEF Reset
  <2> QED BY <2>1, <2>2, <2>3 DEF ProxyUnchanged, TypeOK
<1>9. CASE UNCHANGED vars
  BY <1>9 DEF vars, TypeOK
<1> QED BY <1>1, <1>2, <1>3, <1>4, <1>5, <1>6, <1>7, <1>8, <1>9 DEF Next

-----------------------------------------------------------------------------
\* What the state says of the bytes

LEMMA InitState == Init => StateInv
<1> SUFFICES ASSUME Init
             PROVE  StateInv
  OBVIOUS
<1>1. Len(sent["client"]) >= early
  <2>1. early \in Nat /\ HeadLen \in Nat
    BY HeadAssumption, CapacityAssumption DEF Init
  <2> DEFINE n == early + (IF is_https THEN 0 ELSE HeadLen)
  <2>2. n \in Nat /\ n >= early
    BY <2>1
  <2>3. sent["client"] = [i \in 1 .. n |-> i]
    BY DEF Init, Sides
  <2> HIDE DEF n
  <2>4. Len(sent["client"]) = n
    BY <2>2, <2>3
  <2> QED BY <2>2, <2>4
<1> QED BY <1>1 DEF Init, StateInv, Unanswered, Sides

LEMMA NextState == TypeOK /\ StateInv /\ [Next]_vars => StateInv'
<1> SUFFICES ASSUME TypeOK, StateInv, [Next]_vars
             PROVE  StateInv'
  OBVIOUS
<1> USE DEF Unanswered
<1>1. CASE ConnectStarts
  BY <1>1 DEF ConnectStarts, Running, StateInv, Established, Replies, TypeOK, Sides
<1>2. CASE ConnectAccepted
  BY <1>2 DEF ConnectAccepted, Running, StateInv, Replies, TypeOK
<1>3. CASE ConnectFails \/ ConnectRefused
  BY <1>3 DEF ConnectFails, ConnectRefused, StateInv
<1>4. CASE HandleClosing \/ TimesOut
  BY <1>4 DEF HandleClosing, TimesOut, StateInv
<1>5. CASE TargetAnswers
  BY <1>5 DEF TargetAnswers, ProxyUnchanged, StateInv
<1>6. ASSUME NEW side \in Sides, Forwarding(side)
      PROVE  StateInv'
  <2>1. /\ state = "FORWARDING" /\ state' \in {"CLOSING", "FORWARDING"}
        /\ UNCHANGED <<request, replies>>
    BY <1>6 DEF Forwarding, Forward, Running
  <2>2. UNCHANGED <<request, sent>>
    BY <1>6 DEF Forwarding, Forward
  <2> QED BY <2>1, <2>2 DEF StateInv
<1>7. ASSUME NEW side \in Sides, Send(side)
      PROVE  StateInv'
  <2>1. peer' = peer /\ ProxyUnchanged
    BY <1>7 DEF Send
  <2>2. early \in Int
    BY HeadAssumption, CapacityAssumption DEF TypeOK
  <2>3. Len(sent'["client"]) >= early
    <3>1. CASE side = "client"
      <4>1. sent'["client"] = Append(sent["client"], Len(sent["client"]) + 1)
        BY <1>7, <3>1 DEF Send, TypeOK
      <4>2. Len(sent["client"]) \in Nat /\ Len(sent["client"]) >= early
        BY TypeOfBytes, LenProperties DEF StateInv, Sides
      <4>3. Len(sent["client"]) + 1 \in Byte
        BY <1>7, <3>1, SentIsByte
      <4>4. Len(sent'["client"]) = Len(sent["client"]) + 1
        BY <4>1, <4>3, TypeOfBytes, AppendProperties DEF Sides
      <4> QED BY <2>2, <4>2, <4>4
    <3>2. CASE side # "client"
      <4>1. sent'["client"] = sent["client"]
        BY <1>7, <3>2 DEF Send, TypeOK, Sides
      <4> QED BY <4>1 DEF StateInv
    <3> QED BY <3>1, <3>2
  <2> QED BY <2>1, <2>3 DEF ProxyUnchanged, StateInv
<1>8. ASSUME NEW side \in Sides, Finish(side)
      PROVE  StateInv'
  BY <1>8 DEF Finish, ProxyUnchanged, StateInv, TypeOK
<1>9. ASSUME NEW side \in Sides, Reset(side)
      PROVE  StateInv'
  <2>1. /\ peer' = [peer EXCEPT ![side] = "reset"] /\ peer[side] # "none"
        /\ UNCHANGED sent /\ ProxyUnchanged
    BY <1>9 DEF Reset
  <2>2. peer["target"] = "none" => peer'["target"] = "none"
    BY <2>1 DEF TypeOK, Sides
  <2> QED BY <2>1, <2>2 DEF ProxyUnchanged, StateInv
<1>10. CASE UNCHANGED vars
  BY <1>10 DEF vars, StateInv
<1> QED BY <1>1, <1>2, <1>3, <1>4, <1>5, <1>6, <1>7, <1>8, <1>9, <1>10 DEF Next

-----------------------------------------------------------------------------
\* Conservation

\* The bytes of one side that arrived at the other, or are on their way there.
Kept(side) == delivered[side] \o InProxy(side)

ConservedAt(side) ==
  IF peer[side] = "reset" THEN IsPrefix(Kept(side), Stream(side))
  ELSE Kept(side) = Stream(side)

LEMMA ConservationBySide == Conservation <=> \A side \in Sides : ConservedAt(side)
BY Zenon DEF Conservation, ConservedAt, Kept

\* A stream is a sequence of bytes, and grows by what is sent.
LEMMA StreamType ==
  ASSUME TypeOK, StateInv, NEW s \in Sides
  PROVE  Stream(s) \in Seq(Byte)
<1>1. sent[s] \in Seq(Byte)
  BY TypeOfBytes
<1>2. CASE s = "client" /\ is_https
  <2>1. early \in 0 .. Len(sent[s])
    BY <1>1, <1>2, HeadAssumption, CapacityAssumption, LenProperties DEF TypeOK, StateInv
  <2> QED BY <1>1, <1>2, <2>1, CutProperties DEF Stream
<1>3. CASE ~(s = "client" /\ is_https)
  BY <1>1, <1>3 DEF Stream
<1> QED BY <1>2, <1>3

\* What follows the first e of a sequence grows with the sequence.
LEMMA TailAppended ==
  ASSUME NEW S, NEW q \in Seq(S), NEW e \in 0 .. Len(q), NEW x \in S
  PROVE  SubSeq(Append(q, x), e + 1, Len(Append(q, x)))
           = SubSeq(q, e + 1, Len(q)) \o <<x>>
<1> DEFINE n == Len(q)
           p == Append(q, x)
           back == SubSeq(q, e + 1, n)
<1>1. n \in Nat /\ e \in Nat /\ e <= n
  BY LenProperties
<1>2. p \in Seq(S) /\ Len(p) = n + 1 /\ p[n + 1] = x /\ \A i \in 1 .. n : p[i] = q[i]
  BY AppendProperties
<1>3. back \in Seq(S) /\ Len(back) = n - e
  BY CutProperties
<1>4. \A i \in 1 .. n - e : back[i] = q[e + i]
  <2>1. \A i \in e + 1 .. n : q[i] \in S
    BY <1>1, ElementOfSeq
  <2>2. \A i \in 1 .. n + 1 - (e + 1) : back[i] = q[e + 1 + i - 1]
    BY <1>1, <2>1, SubSeqProperties
  <2> QED BY <1>1, <2>2
<1>5. /\ SubSeq(p, e + 1, n + 1) \in Seq(S)
      /\ Len(SubSeq(p, e + 1, n + 1)) = n + 1 - e
      /\ \A i \in 1 .. n + 1 - e : SubSeq(p, e + 1, n + 1)[i] = p[e + i]
  <2>1. \A i \in e + 1 .. n + 1 : p[i] \in S
    BY <1>1, <1>2, ElementOfSeq
  <2>2. /\ SubSeq(p, e + 1, n + 1) \in Seq(S)
        /\ Len(SubSeq(p, e + 1, n + 1)) = n + 1 - (e + 1) + 1
        /\ \A i \in 1 .. n + 1 - (e + 1) + 1 :
             SubSeq(p, e + 1, n + 1)[i] = p[e + 1 + i - 1]
    BY <1>1, <2>1, SubSeqProperties
  <2> QED BY <1>1, <2>2
<1> HIDE DEF n, p, back
<1>6. /\ back \o <<x>> \in Seq(S)
      /\ Len(back \o <<x>>) = n + 1 - e
      /\ \A i \in 1 .. n - e : (back \o <<x>>)[i] = back[i]
      /\ (back \o <<x>>)[n + 1 - e] = x
  BY <1>1, <1>3
<1>7. \A i \in 1 .. n + 1 - e : SubSeq(p, e + 1, n + 1)[i] = (back \o <<x>>)[i]
  <2> SUFFICES ASSUME NEW i \in 1 .. n + 1 - e
               PROVE  SubSeq(p, e + 1, n + 1)[i] = (back \o <<x>>)[i]
    OBVIOUS
  <2>1. SubSeq(p, e + 1, n + 1)[i] = p[e + i]
    BY <1>5
  <2>2. CASE i = n + 1 - e
    <3>1. p[e + i] = x
      BY <1>1, <1>2, <2>2
    <3> QED BY <1>6, <2>1, <2>2, <3>1
  <2>3. CASE i # n + 1 - e
    <3>1. i \in 1 .. n - e /\ e + i \in 1 .. n
      BY <1>1, <2>3
    <3>2. p[e + i] = q[e + i] /\ back[i] = q[e + i]
      BY <1>2, <1>4, <3>1
    <3> QED BY <1>6, <2>1, <3>1, <3>2
  <2> QED BY <2>2, <2>3
<1>8. SubSeq(p, e + 1, n + 1) = back \o <<x>>
  BY <1>1, <1>5, <1>6, <1>7, SeqEqual
<1> QED BY <1>2, <1>8 DEF n, p, back

LEMMA StreamGrows ==
  ASSUME TypeOK, StateInv, NEW s \in Sides, NEW x \in Byte, UNCHANGED request,
         sent'[s] = Append(sent[s], x)
  PROVE  Stream(s)' = Stream(s) \o <<x>>
<1>1. sent[s] \in Seq(Byte)
  BY TypeOfBytes
<1>2. CASE s = "client" /\ is_https
  <2>1. early \in 0 .. Len(sent[s])
    BY <1>1, <1>2, HeadAssumption, CapacityAssumption, LenProperties DEF TypeOK, StateInv
  <2>2. /\ Stream(s) = SubSeq(sent[s], early + 1, Len(sent[s]))
        /\ Stream(s)' = SubSeq(sent'[s], early + 1, Len(sent'[s]))
    BY <1>2 DEF Stream
  <2> QED BY <1>1, <2>1, <2>2, TailAppended
<1>3. CASE ~(s = "client" /\ is_https)
  <2>1. Stream(s) = sent[s] /\ Stream(s)' = sent'[s]
    BY <1>3 DEF Stream
  <2> QED BY <1>1, <2>1, AppendIsConcat
<1> QED BY <1>2, <1>3

LEMMA InitConservation == Init => Conservation
<1> SUFFICES ASSUME Init
             PROVE  Conservation
  OBVIOUS
<1>1. TypeOK
  BY InitType
<1>2. ASSUME NEW s \in Sides
      PROVE  ConservedAt(s)
  <2>1. /\ delivered[s] = <<>> /\ unread[s] = <<>> /\ peer[s] # "reset"
        /\ replies = 0
    BY DEF Init, Sides
  <2>2. /\ s = "client" => buf[s] = RequestRead
        /\ s = "target" => buf[s] = <<>> /\ sent[s] = <<>>
    BY DEF Init, Sides
  <2>3. InProxy(s) = Stream(s) \o <<>>
    <3>1. CASE s = "target"
      BY <2>1, <2>2, <3>1 DEF InProxy, Stream
    <3>2. CASE s = "client" /\ is_https
      <4>1. early \in Nat
        BY HeadAssumption, CapacityAssumption DEF Init
      <4>2. sent[s] = [i \in 1 .. early |-> i]
        BY <3>2, <4>1 DEF Init, Sides
      <4>3. Len(sent[s]) = early
        BY <4>1, <4>2
      <4>4. Stream(s) = <<>>
        BY <3>2, <4>1, <4>3, SubSeqEmpty DEF Stream
      <4> QED BY <2>1, <3>2, <4>4 DEF InProxy
    <3>3. CASE s = "client" /\ ~is_https
      <4>1. HeadLen \in Nat /\ early \in Nat
        BY HeadAssumption, CapacityAssumption DEF Init
      <4>2. sent[s] = [i \in 1 .. early + HeadLen |-> i]
        BY <3>3, <4>1 DEF Init, Sides
      <4>3. RequestRead = [i \in 1 .. early + HeadLen |-> i]
        BY <3>3, <4>1 DEF RequestRead
      <4> QED BY <2>1, <2>2, <3>3, <4>2, <4>3 DEF InProxy, Stream
    <3> QED BY <3>1, <3>2, <3>3 DEF Sides
  <2>4. Stream(s) \o <<>> = Stream(s) /\ <<>> \o Stream(s) = Stream(s)
    BY <1>1, InitState, StreamType, ConcatEmptySeq
  <2>5. Kept(s) = Stream(s)
    BY <2>1, <2>3, <2>4, Zenon DEF Kept
  <2> QED BY <2>1, <2>5 DEF ConservedAt
<1> QED BY <1>2, ConservationBySide

\* A step that leaves the bytes of a side where they are, and does not end its
\* connection by a reset, conserves them.
LEMMA SameBytes ==
  ASSUME NEW s \in Sides, ConservedAt(s), Kept(s)' = Kept(s),
         sent'[s] = sent[s], peer'[s] = "reset" <=> peer[s] = "reset",
         UNCHANGED request
  PROVE  ConservedAt(s)'
<1>1. Stream(s)' = Stream(s)
  BY DEF Stream
<1> QED BY <1>1 DEF ConservedAt

\* Answering a CONNECT moves no byte of the client's data: the request that is
\* cleared was never data, and what is cleared again is empty.
LEMMA EstablishedKeeps ==
  ASSUME StateInv, state \in {"INITIALIZE_CONNECTION", "CONNECTING"},
         replies' = Replies, TypeOK,
         buf'["client"] = Established(buf)["client"],
         UNCHANGED <<request, unread, delivered>>
  PROVE  Kept("client")' = Kept("client")
<1>1. CASE is_https
  <2>1. InProxy("client") = <<>> \o unread["client"]
    <3>1. replies \in Nat
      BY DEF TypeOK
    <3>2. replies = 0 \/ buf["client"] = <<>>
      BY <1>1, <3>1 DEF StateInv
    <3> QED BY <1>1, <3>2, Zenon DEF InProxy
  <2>2. replies' # 0 /\ buf'["client"] = <<>>
    <3>1. replies \in Nat /\ "client" \in DOMAIN buf
      BY DEF TypeOK, Sides
    <3>2. replies' = replies + 1
      BY <1>1 DEF Replies
    <3>3. Established(buf)["client"] = <<>>
      BY <1>1, <3>1, Zenon DEF Established
    <3> QED BY <3>1, <3>2, <3>3
  <2>3. InProxy("client")' = <<>> \o unread["client"]
    BY <1>1, <2>2 DEF InProxy
  <2> QED BY <2>1, <2>3 DEF Kept
<1>2. CASE ~is_https
  <2>1. buf'["client"] = buf["client"]
    BY <1>2 DEF TypeOK, Established, Sides
  <2> QED BY <1>2, <2>1 DEF Kept, InProxy
<1> QED BY <1>1, <1>2

LEMMA NextConservation ==
  TypeOK /\ StateInv /\ Conservation /\ [Next]_vars => Conservation'
<1> SUFFICES ASSUME TypeOK, StateInv, Conservation, [Next]_vars, NEW s \in Sides
             PROVE  ConservedAt(s)'
  BY ConservationBySide DEF ConservedAt, Conservation, Kept
<1>0. ConservedAt(s) /\ Other(s) \in Sides /\ Other(s) # s
  BY ConservationBySide DEF Other, Sides
<1>1. CASE ConnectStarts
  <2>1. /\ state = "INITIALIZE_CONNECTION"
        /\ UNCHANGED <<request, unread, sent, delivered>>
    BY <1>1 DEF ConnectStarts, Running
  <2>2. peer'[s] = "reset" <=> peer[s] = "reset"
    BY <1>1, <2>1 DEF ConnectStarts, StateInv, TypeOK, Sides
  <2>3. Kept(s)' = Kept(s)
    <3>1. CASE UNCHANGED <<buf, replies>>
      BY <2>1, <3>1 DEF Kept, InProxy
    <3>2. CASE buf' = Established(buf) /\ replies' = Replies /\ s = "client"
      BY <2>1, <3>2, EstablishedKeeps
    <3>3. CASE buf' = Established(buf) /\ s = "target"
      <4>1. buf'[s] = buf[s]
        BY <3>3 DEF Established, TypeOK, Sides
      <4> QED BY <2>1, <3>3, <4>1 DEF Kept, InProxy
    <3> QED BY <1>1, <3>1, <3>2, <3>3 DEF ConnectStarts, Sides
  <2> QED BY <1>0, <2>1, <2>2, <2>3, SameBytes
<1>2. CASE ConnectAccepted
  <2>1. /\ state = "CONNECTING" /\ replies' = Replies
        /\ buf' = [Established(buf) EXCEPT !["target"] = <<>>]
        /\ UNCHANGED <<request, unread, sent, delivered, peer>>
    BY <1>2 DEF ConnectAccepted, Running
  <2>2. Kept(s)' = Kept(s)
    <3>1. CASE s = "client"
      <4>1. buf'["client"] = Established(buf)["client"]
        BY <2>1 DEF Established, TypeOK, Sides
      <4> QED BY <2>1, <3>1, <4>1, EstablishedKeeps
    <3>2. CASE s = "target"
      <4>1. buf'[s] = <<>> /\ buf[s] = <<>>
        BY <2>1, <3>2 DEF StateInv, Established, TypeOK, Sides
      <4> QED BY <2>1, <3>2, <4>1 DEF Kept, InProxy
    <3> QED BY <3>1, <3>2 DEF Sides
  <2> QED BY <1>0, <2>1, <2>2, SameBytes
<1>3. CASE ConnectFails \/ ConnectRefused \/ HandleClosing \/ TimesOut \/ UNCHANGED vars
  <2>1. UNCHANGED <<request, buf, replies, peer, unread, sent, delivered>>
    BY <1>3 DEF ConnectFails, ConnectRefused, HandleClosing, TimesOut, vars
  <2>2. Kept(s)' = Kept(s)
    BY <2>1 DEF Kept, InProxy
  <2> QED BY <1>0, <2>1, <2>2, SameBytes
<1>4. CASE TargetAnswers \/ \E side \in Sides : Finish(side)
  <2>1. UNCHANGED <<request, buf, replies, unread, sent, delivered>>
    BY <1>4 DEF TargetAnswers, Finish, ProxyUnchanged
  <2>2. peer'[s] = "reset" <=> peer[s] = "reset"
    BY <1>4 DEF TargetAnswers, Finish, TypeOK
  <2>3. Kept(s)' = Kept(s)
    BY <2>1 DEF Kept, InProxy
  <2> QED BY <1>0, <2>1, <2>2, <2>3, SameBytes
<1>5. ASSUME NEW side \in Sides, Forwarding(side)
      PROVE  ConservedAt(s)'
  <2>1. PICK in \in BOOLEAN, out \in BOOLEAN, k \in 0 .. Capacity :
          Forward(side, in, out, k)
    BY <1>5 DEF Forwarding
  <2>2. PICK rb \in Seq(Byte), ru \in Seq(Byte), wo \in Seq(Byte), wb \in Seq(Byte) :
          Moves(side, rb, ru, wo, wb)
    BY <2>1, ForwardMoves
  <2>3. /\ state = "FORWARDING"
        /\ UNCHANGED <<request, replies, peer, sent>>
    BY <2>1 DEF Forward, Running
  <2>4. /\ InProxy(s) = buf[s] \o unread[s]
        /\ InProxy(s)' = buf'[s] \o unread'[s]
    BY <2>3 DEF InProxy, StateInv, Unanswered
  <2>5. DOMAIN buf = Sides /\ DOMAIN unread = Sides /\ DOMAIN delivered = Sides
    BY DEF TypeOK
  <2>6. CASE s = side
    <3>1. /\ delivered'[s] = delivered[s]
          /\ buf'[s] = rb /\ unread'[s] = ru
      BY <2>2, <2>5, <2>6 DEF Moves, Other, Sides
    <3>2. rb \o ru = buf[s] \o unread[s]
      BY <2>2, <2>6 DEF Moves
    <3>3. Kept(s)' = Kept(s)
      BY <2>4, <3>1, <3>2, Zenon DEF Kept
    <3> QED BY <1>0, <2>3, <3>3, SameBytes
  <2>7. CASE s = Other(side)
    <3>1. /\ delivered'[s] = delivered[s] \o wo
          /\ buf'[s] = wb /\ unread'[s] = unread[s]
      BY <2>2, <2>5, <2>7 DEF Moves, Other, Sides
    <3>2. wo \o wb = buf[s]
      BY <2>2, <2>7 DEF Moves
    <3>3. FrontMoved(delivered[s], wo, wb, unread[s])
      <4>1. delivered[s] \in Seq(Byte) /\ unread[s] \in Seq(Byte)
        BY TypeOfBytes
      <4> QED BY <4>1, ConcatMove, Zenon
    <3>4. Kept(s)' = Kept(s)
      BY <2>4, <3>1, <3>2, <3>3, Zenon DEF Kept, FrontMoved
    <3> QED BY <1>0, <2>3, <3>4, SameBytes
  <2> QED BY <2>6, <2>7 DEF Other, Sides
<1>6. ASSUME NEW side \in Sides, Send(side)
      PROVE  ConservedAt(s)'
  <2> DEFINE x == Len(sent[side]) + 1
  <2>1. /\ peer[side] = "open" /\ UNCHANGED peer
        /\ sent' = [sent EXCEPT ![side] = Append(@, Len(@) + 1)]
        /\ unread' = [unread EXCEPT ![side] = Append(@, x)]
        /\ UNCHANGED <<request, buf, replies, delivered>>
    BY <1>6 DEF Send, ProxyUnchanged
  <2>2. CASE s # side
    <3>1. sent'[s] = sent[s] /\ unread'[s] = unread[s]
      BY <2>1, <2>2 DEF TypeOK
    <3>2. Kept(s)' = Kept(s)
      BY <2>1, <3>1 DEF Kept, InProxy
    <3> QED BY <1>0, <2>1, <3>1, <3>2, SameBytes
  <2>3. CASE s = side
    <3>1. sent'[s] = Append(sent[s], x) /\ unread'[s] = Append(unread[s], x)
      BY <2>1, <2>3 DEF TypeOK
    <3>2. Len(sent[s]) \in Nat /\ x \in Byte
      BY <1>6, <2>3, SentIsByte, TypeOfBytes, LenProperties
    <3> HIDE DEF x
    <3>3. /\ Stream(s)' = Stream(s) \o <<x>> /\ unread'[s] = unread[s] \o <<x>>
          /\ <<x>> \in Seq(Byte)
      <4>1. unread'[s] = unread[s] \o <<x>> /\ <<x>> \in Seq(Byte)
        BY <3>1, <3>2, TypeOfBytes, AppendIsConcat
      <4>2. Stream(s)' = Stream(s) \o <<x>>
        BY <2>1, <3>1, <3>2, StreamGrows, Zenon
      <4> QED BY <4>1, <4>2
    <3> DEFINE held == IF s = "client" /\ is_https /\ replies = 0 THEN <<>> ELSE buf[s]
    <3>4. /\ InProxy(s) = held \o unread[s]
          /\ InProxy(s)' = held \o unread'[s]
      BY <2>1 DEF InProxy
    <3>5. Kept(s)' = Kept(s) \o <<x>>
      <4>1. /\ delivered[s] \in Seq(Byte) /\ held \in Seq(Byte)
            /\ unread[s] \in Seq(Byte)
        BY TypeOfBytes, EmptySeq
      <4> HIDE DEF held
      <4>2. LastAppended(delivered[s], held, unread[s], <<x>>)
        BY <3>3, <4>1, ConcatLast, Zenon
      <4>3. delivered' = delivered
        BY <2>1
      <4> QED BY <3>3, <3>4, <4>2, <4>3, Zenon DEF Kept, LastAppended
    <3>6. Kept(s) = Stream(s) /\ peer'[s] # "reset"
      BY <1>0, <2>1, <2>3 DEF ConservedAt
    <3> QED BY <3>3, <3>5, <3>6, Zenon DEF ConservedAt
  <2> QED BY <2>2, <2>3
<1>7. ASSUME NEW side \in Sides, Reset(side)
      PROVE  ConservedAt(s)'
  <2>1. PICK n \in 0 .. Len(unread[side]) :
          unread' = [unread EXCEPT ![side] = SubSeq(@, 1, n)]
    BY <1>7 DEF Reset
  <2>2. /\ peer' = [peer EXCEPT ![side] = "reset"] /\ peer[side] # "reset"
        /\ UNCHANGED <<request, buf, replies, delivered, sent>>
    BY <1>7 DEF Reset, ProxyUnchanged
  <2>3. CASE s # side
    <3>1. unread'[s] = unread[s] /\ peer'[s] = peer[s]
      BY <2>1, <2>2, <2>3 DEF TypeOK
    <3>2. Kept(s)' = Kept(s)
      BY <2>2, <3>1 DEF Kept, InProxy
    <3> QED BY <1>0, <2>2, <3>1, <3>2, SameBytes
  <2>4. CASE s = side
    <3> DEFINE held == IF s = "client" /\ is_https /\ replies = 0 THEN <<>> ELSE buf[s]
               left == SubSeq(unread[s], 1, n)
               lost == SubSeq(unread[s], n + 1, Len(unread[s]))
    <3>1. /\ held \in Seq(Byte) /\ delivered[s] \in Seq(Byte)
          /\ unread[s] \in Seq(Byte)
      BY TypeOfBytes, EmptySeq
    <3>2. left \in Seq(Byte) /\ lost \in Seq(Byte) /\ left \o lost = unread[s]
      BY <2>4, <3>1, CutProperties
    <3>3. InProxy(s) = held \o unread[s] /\ InProxy(s)' = held \o left
      BY <2>1, <2>2, <2>4 DEF InProxy, TypeOK
    <3> HIDE DEF held, left, lost
    <3>4. LastAppended(delivered[s], held, left, lost)
      BY <3>1, <3>2, ConcatLast, Zenon
    <3>5. Kept(s)' = delivered[s] \o (held \o left)
      BY <2>2, <3>3 DEF Kept
    <3>6. Kept(s) = Kept(s)' \o lost
      BY <3>2, <3>3, <3>4, <3>5, Zenon DEF Kept, LastAppended
    <3>7. delivered[s] \o (held \o left) \in Seq(Byte)
      <4>1. held \o left \in Seq(Byte)
        BY <3>1, <3>2, ConcatProperties
      <4> QED BY <4>1, <3>1, ConcatProperties
    <3>8. IsPrefix(Kept(s)', Kept(s))
      BY <3>2, <3>5, <3>6, <3>7, PrefixOfConcat
    <3>9. Kept(s) = Stream(s) /\ Stream(s)' = Stream(s)
      BY <1>0, <2>2, <2>4 DEF ConservedAt, Stream
    <3> QED
      <4>1. peer'[s] = "reset"
        BY <2>2, <2>4 DEF TypeOK
      <4> QED BY <4>1, <3>8, <3>9 DEF ConservedAt
  <2> QED BY <2>3, <2>4
<1> QED BY <1>1, <1>2, <1>3, <1>4, <1>5, <1>6, <1>7 DEF Next

-----------------------------------------------------------------------------
\* The theorems

LEMMA Invariance == Spec => []Inv
<1>1. Init => Inv
  BY InitType, InitState, InitConservation DEF Inv
<1>2. Inv /\ [Next]_vars => Inv'
  BY NextType, NextState, NextConservation DEF Inv
<1> QED BY <1>1, <1>2, PTL DEF Spec

\* The buffers of connection.c never hold more than their capacity, and no
\* connection answers a CONNECT more than twice.
THEOREM RelayTypes == Spec => []TypeOK
<1>1. Inv => TypeOK
  BY DEF Inv
<1> QED BY <1>1, Invariance, PTL

\* Whatever the capacity, the interleaving of the two sides and the sizes of
\* the receives and sends, connection_forward neither loses, repeats, reorders
\* nor invents a byte, and no byte of a CONNECT request reaches the target.
THEOREM RelayConserves == Spec => []Conservation
<1>1. Inv => Conservation
  BY DEF Inv
<1> QED BY <1>1, Invariance, PTL

-----------------------------------------------------------------------------
\* The two streams of a tunnel

\* The front part of a prefix is a prefix.
LEMMA FrontOfPrefix ==
  ASSUME NEW S, NEW d \in Seq(S), NEW r \in Seq(S), NEW t \in Seq(S),
         IsPrefix(d \o r, t) \/ d \o r = t
  PROVE  Len(d) <= Len(t) /\ d = SubSeq(t, 1, Len(d))
<1> DEFINE k == d \o r
<1>1. Len(d) \in Nat /\ Len(r) \in Nat /\ Len(t) \in Nat
  BY LenProperties
<1>2. /\ k \in Seq(S) /\ Len(k) = Len(d) + Len(r)
      /\ \A i \in 1 .. Len(d) : k[i] = d[i]
  BY <1>1, ConcatProperties
<1> HIDE DEF k
<1>3. Len(k) <= Len(t) /\ \A i \in 1 .. Len(k) : k[i] = t[i]
  <2>1. CASE k = t
    BY <2>1, <1>1
  <2>2. CASE IsPrefix(k, t)
    <3>1. Len(k) <= Len(t) /\ SubSeq(k, 1, Len(k)) = SubSeq(t, 1, Len(k))
      BY <2>2 DEF IsPrefix
    <3>2. ASSUME NEW i \in 1 .. Len(k)
          PROVE  k[i] = t[i]
      <4>1. /\ \A j \in 1 .. Len(k) : k[j] \in S
            /\ \A j \in 1 .. Len(k) : t[j] \in S
        BY <1>1, <1>2, <3>1, ElementOfSeq
      <4>2. Len(k) \in Nat
        BY <1>1, <1>2
      <4>3. SubSeq(k, 1, Len(k))[i] = k[1 + i - 1]
        BY <4>1, <4>2, SubSeqProperties
      <4>4. SubSeq(t, 1, Len(k))[i] = t[1 + i - 1]
        BY <4>1, <4>2, SubSeqProperties
      <4>5. 1 + i - 1 = i
        BY <4>2
      <4> QED BY <3>1, <4>3, <4>4, <4>5
    <3> QED BY <3>1, <3>2
  <2> QED BY <2>1, <2>2 DEF k
<1>4. Len(d) <= Len(t)
  BY <1>1, <1>2, <1>3
<1> DEFINE f == SubSeq(t, 1, Len(d))
<1>5. f \in Seq(S) /\ Len(f) = Len(d) /\ \A i \in 1 .. Len(d) : f[i] = t[i]
  <2>1. \A j \in 1 .. Len(d) : t[j] \in S
    BY <1>1, <1>4, ElementOfSeq
  <2>2. /\ f \in Seq(S)
        /\ Len(f) = IF 1 <= Len(d) THEN Len(d) - 1 + 1 ELSE 0
        /\ \A j \in 1 .. Len(d) - 1 + 1 : f[j] = t[1 + j - 1]
    BY <1>1, <2>1, SubSeqProperties
  <2> QED BY <1>1, <2>2
<1> HIDE DEF f
<1>6. \A i \in 1 .. Len(d) : f[i] = d[i]
  BY <1>1, <1>2, <1>3, <1>5
<1>7. d = f
  BY <1>5, <1>6, SeqEqual
<1> QED BY <1>4, <1>7 DEF f

\* What the other side has got is the beginning of a stream.
GotIsFront ==
  \A s \in Sides : /\ Len(delivered[s]) <= Len(Stream(s))
                   /\ delivered[s] = SubSeq(Stream(s), 1, Len(delivered[s]))

LEMMA FrontIsGot == Inv => GotIsFront
<1> SUFFICES ASSUME Inv, NEW s \in Sides
             PROVE  /\ Len(delivered[s]) <= Len(Stream(s))
                    /\ delivered[s] = SubSeq(Stream(s), 1, Len(delivered[s]))
  BY DEF GotIsFront
<1> DEFINE held == IF s = "client" /\ is_https /\ replies = 0 THEN <<>> ELSE buf[s]
<1>1. /\ delivered[s] \in Seq(Byte) /\ held \in Seq(Byte) /\ unread[s] \in Seq(Byte)
  BY TypeOfBytes, EmptySeq DEF Inv
<1>2. InProxy(s) = held \o unread[s]
  BY DEF InProxy
<1> HIDE DEF held
<1>3. InProxy(s) \in Seq(Byte)
  BY <1>1, <1>2, ConcatProperties
<1>4. Stream(s) \in Seq(Byte)
  BY StreamType DEF Inv
<1>5. IsPrefix(delivered[s] \o InProxy(s), Stream(s)) \/ delivered[s] \o InProxy(s) = Stream(s)
  BY ConservationBySide DEF Inv, ConservedAt, Kept
<1> QED BY <1>1, <1>3, <1>4, <1>5, FrontOfPrefix

\* The streams grow with what is sent, and with nothing else.
LEMMA SameStreams == UNCHANGED <<request, sent>> => Streams' = Streams
BY DEF Streams, Stream

LEMMA SendWrites ==
  ASSUME Inv, NEW side \in Sides, Send(side)
  PROVE  Promise!Write(side)
<1> DEFINE x == Len(sent[side]) + 1
<1>1. /\ sent' = [sent EXCEPT ![side] = Append(@, x)]
      /\ UNCHANGED <<request, state, replies, delivered>>
  BY DEF Send, ProxyUnchanged
<1>2. x \in Byte
  BY SentIsByte DEF Inv
<1>3. \A s \in Sides : sent'[s] = IF s = side THEN Append(sent[s], x) ELSE sent[s]
  BY <1>1 DEF Inv, TypeOK
<1> HIDE DEF x
<1>4. Stream(side)' = Append(Stream(side), x)
  <2>1. Stream(side)' = Stream(side) \o <<x>>
    BY <1>1, <1>2, <1>3, StreamGrows DEF Inv
  <2>2. Stream(side) \in Seq(Byte)
    BY StreamType DEF Inv
  <2> QED BY <1>2, <2>1, <2>2, AppendIsConcat
<1>5. \A s \in Sides \ {side} : Stream(s)' = Stream(s)
  BY <1>1, <1>3 DEF Stream
<1>6. Streams' = [Streams EXCEPT ![side] = Append(@, x)]
  BY <1>4, <1>5 DEF Streams
<1>7. UNCHANGED <<Phase, replies, delivered>>
  BY <1>1 DEF Phase
<1> QED BY <1>2, <1>6, <1>7 DEF Promise!Write

\* A step of handle_forwarding hands on the next bytes of the other side's
\* stream, perhaps none.
LEMMA ForwardDelivers ==
  ASSUME Inv, GotIsFront', NEW side \in Sides, Forwarding(side)
  PROVE  Promise!Deliver(Other(side)) \/ UNCHANGED Promise!tunnel
<1> DEFINE o == Other(side)
<1>1. PICK in \in BOOLEAN, out \in BOOLEAN, k \in 0 .. Capacity :
        Forward(side, in, out, k)
  BY DEF Forwarding
<1>2. PICK rb \in Seq(Byte), ru \in Seq(Byte), wo \in Seq(Byte), wb \in Seq(Byte) :
        Moves(side, rb, ru, wo, wb)
  BY <1>1, ForwardMoves DEF Inv
<1>3. o \in Sides
  BY DEF Other, Sides
<1>4. /\ state = "FORWARDING" /\ state' \in {"CLOSING", "FORWARDING"}
      /\ UNCHANGED <<request, replies, sent>>
  BY <1>1 DEF Forward, Running
<1>5. Phase = "streams" /\ Phase' = "streams" /\ Streams' = Streams
  BY <1>4, SameStreams DEF Phase
<1>6. delivered' = [delivered EXCEPT ![o] = @ \o wo] /\ delivered[o] \in Seq(Byte)
  BY <1>2, <1>3, TypeOfBytes DEF Moves, Inv
<1>7. Len(delivered[o]) <= Len(delivered'[o]) /\ Len(delivered'[o]) \in Nat
      /\ Len(delivered[o]) \in Nat
  <2>1. delivered'[o] = delivered[o] \o wo
    BY <1>3, <1>6 DEF Inv, TypeOK
  <2>2. Len(delivered'[o]) = Len(delivered[o]) + Len(wo)
    BY <1>6, <2>1, ConcatProperties
  <2> QED BY <1>6, <2>2, LenProperties
<1>8. Streams'[o] = Streams[o] /\ Streams[o] = Stream(o)
  BY <1>3, <1>5 DEF Streams
<1>9. Stream(o)' = Stream(o)
  BY <1>4 DEF Stream
<1>10. /\ Len(delivered'[o]) <= Len(Streams[o])
       /\ delivered'[o] = SubSeq(Streams[o], 1, Len(delivered'[o]))
  BY <1>3, <1>8, <1>9 DEF GotIsFront
<1>11. Len(Streams[o]) \in Nat
  <2>1. Stream(o) \in Seq(Byte)
    BY <1>3, StreamType DEF Inv
  <2> QED BY <1>8, <2>1, LenProperties
<1> DEFINE n == Len(delivered'[o])
<1>12. n \in Len(delivered[o]) .. Len(Streams[o])
  BY <1>7, <1>10, <1>11
<1>13. delivered' = [delivered EXCEPT ![o] = SubSeq(Streams[o], 1, n)]
  BY <1>3, <1>6, <1>10 DEF Inv, TypeOK
<1> HIDE DEF n
<1>14. \E m \in Len(delivered[o]) .. Len(Streams[o]) :
         delivered' = [delivered EXCEPT ![o] = SubSeq(Streams[o], 1, m)]
  BY <1>12, <1>13
<1> QED BY <1>4, <1>5, <1>14 DEF Promise!Deliver

\* The handlers that run until the connection is forwarding, those that close it,
\* and what the peers do besides sending.
LEMMA SetupStep ==
  ASSUME Inv,
         \/ ConnectStarts \/ ConnectFails \/ ConnectAccepted \/ ConnectRefused
         \/ HandleClosing \/ TimesOut \/ TargetAnswers \/ UNCHANGED vars
         \/ \E side \in Sides : Finish(side) \/ Reset(side)
  PROVE  Promise!SetUp \/ UNCHANGED Promise!tunnel
<1>1. UNCHANGED <<request, sent, delivered>>
  BY DEF ConnectStarts, ConnectFails, ConnectAccepted, ConnectRefused, HandleClosing,
         TimesOut, TargetAnswers, Finish, Reset, ProxyUnchanged, vars
<1>2. Streams' = Streams
  BY <1>1, SameStreams
<1>3. CASE ConnectStarts \/ ConnectAccepted
  <2>1. Phase = "setup" /\ Phase' \in {"setup", "streams"}
    BY <1>3 DEF ConnectStarts, ConnectAccepted, Running, Phase
  <2>2. replies' \in {replies, replies + 1}
    BY <1>3 DEF ConnectStarts, ConnectAccepted, Replies, Inv, TypeOK
  <2> QED BY <1>1, <1>2, <2>1, <2>2 DEF Promise!SetUp
<1>4. CASE ConnectFails \/ ConnectRefused
  <2>1. Phase = "setup" /\ Phase' \in {"setup", "streams"} /\ replies' = replies
    BY <1>4 DEF ConnectFails, ConnectRefused, Running, Phase
  <2> QED BY <1>1, <1>2, <2>1 DEF Promise!SetUp
<1>5. CASE \/ HandleClosing \/ TimesOut \/ TargetAnswers \/ UNCHANGED vars
           \/ \E side \in Sides : Finish(side) \/ Reset(side)
  <2>1. UNCHANGED <<state, replies>>
    BY <1>5 DEF HandleClosing, TimesOut, TargetAnswers, Finish, Reset, ProxyUnchanged, vars
  <2>2. UNCHANGED Phase
    BY <2>1 DEF Phase
  <2> QED BY <1>1, <1>2, <2>1, <2>2 DEF Promise!tunnel
<1> QED BY <1>3, <1>4, <1>5

\* connection.c is a tunnel: whatever the sizes of its buffers, of its receives
\* and of its sends, and however early a client uses its tunnel, the ends are
\* answered first, and then get each other's bytes in order, without a gap and once.
THEOREM RelayIsATunnel == Spec => TunnelSpec
<1>1. Init => Promise!Init
  <2> SUFFICES ASSUME Init
               PROVE  Promise!Init
    OBVIOUS
  <2>1. TypeOK /\ StateInv
    BY InitType, InitState
  <2>2. Streams \in [Sides -> Seq(Byte)]
    BY <2>1, StreamType DEF Streams
  <2>3. Phase = "setup" /\ replies = 0 /\ delivered = [s \in Sides |-> <<>>]
    BY DEF Init, Phase
  <2> QED BY <2>2, <2>3 DEF Promise!Init
<1>2. Inv /\ GotIsFront' /\ [Next]_vars => [Promise!Next]_(Promise!tunnel)
  <2> SUFFICES ASSUME Inv, GotIsFront', [Next]_vars
               PROVE  Promise!Next \/ UNCHANGED Promise!tunnel
    OBVIOUS
  <2>1. ASSUME NEW side \in Sides, Send(side)
        PROVE  Promise!Next
    BY <2>1, SendWrites DEF Promise!Next
  <2>2. ASSUME NEW side \in Sides, Forwarding(side)
        PROVE  Promise!Next \/ UNCHANGED Promise!tunnel
    <3>1. Other(side) \in Sides
      BY DEF Other, Sides
    <3> QED BY <2>2, <3>1, ForwardDelivers DEF Promise!Next
  <2>3. CASE \/ ConnectStarts \/ ConnectFails \/ ConnectAccepted \/ ConnectRefused
             \/ HandleClosing \/ TimesOut \/ TargetAnswers \/ UNCHANGED vars
             \/ \E side \in Sides : Finish(side) \/ Reset(side)
    BY <2>3, SetupStep DEF Promise!Next
  <2> QED BY <2>1, <2>2, <2>3 DEF Next
<1> QED BY <1>1, <1>2, Invariance, FrontIsGot, PTL DEF Spec, TunnelSpec, Promise!Spec
=============================================================================
