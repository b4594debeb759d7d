------------------------------ MODULE Credentials ------------------------------
(***************************************************************************)
(* From the headers of a request to the row of the users table and to the  *)
(* target: what extract_basic_auth_b64 finds, what base64_decode (module   *)
(* Base64Decode) and sscanf make of it, whether it is what simpleproxy-conf *)
(* has stored in the meantime, and whom a request that is let through is   *)
(* connected to (module HostField).                                        *)
(*                                                                         *)
(* user.c puts names and passwords into its statements as they are, between *)
(* quotes.  The database is external: a text of Verbatim bytes means itself *)
(* there; with any other byte in it an INSERT may store something else or   *)
(* fail, and a SELECT may answer anything.                                  *)
(*                                                                         *)
(* Only a cache miss is modelled; module AuthCache has the cache.          *)
(***************************************************************************)
EXTENDS Base64Decode, HostField, SequencesExt

CONSTANTS
  Colon, Space,     \* two of the bytes
  Verbatim,         \* the bytes that stand for themselves between SQL's quotes
  Equated,          \* pairs of different names that the column's collation equates
  Names, Passwords, \* what an administrator may type
  MaxName,          \* 50, the width of the column
  MaxPassword,      \* 100
  MaxField,         \* 255, the width in the format of sscanf
  OtherTexts,       \* other texts behind "Basic "
  HostNames, Ports, Blanks, \* what a client may write into its Host line
  Texts             \* the rest of a request, from the end of its first line

ASSUME SpecialAssumption ==
  Colon \in Byte \ {0} /\ Space \in Byte \ {0} /\ Colon # Space
ASSUME TypedAssumption ==
  Names \cup Passwords \subseteq Seq(Byte \ {0}) /\ OtherTexts \subseteq Seq(Symbol)
ASSUME MaxAssumption ==
  /\ MaxName \in Nat /\ MaxPassword \in Nat /\ MaxField \in Nat
  /\ MaxName <= MaxField /\ MaxPassword <= MaxField
ASSUME VerbatimAssumption == Verbatim \subseteq Byte \ {0}

ASSUME HostAssumption ==
  /\ HostNames \subseteq Seq(Char \ {LF, CR, COLON, BLANK})
  /\ Ports \subseteq {NoPort} \cup 0 .. 2^PortBits - 1
  /\ Blanks \subseteq Seq({BLANK}) /\ Texts \subseteq Seq(Char)

VARIABLES
  row,      \* the row of the users table, if any
  added,    \* what was typed for it, if the statement carries that as it is
  request,  \* the request being served: its two headers
  granted,  \* what has_valid_auth returned
  rest,     \* the text that parse_host_port has read, once granted
  target    \* the address for connect; NoPlace when there is none

login == <<row, added, request, granted, rest, target, decoder>>

Pair(user, password) == [username |-> user, password |-> password]
None == Pair(<<0>>, <<>>)   \* no C string
Rows == {None} \cup [username: Names, password: Passwords]

\* A header is missing, of another scheme, or "Basic " and a text.
NoText == <<Bad>>
Missing == [scheme |-> "missing", text |-> NoText]
Foreign == [scheme |-> "foreign", text |-> NoText]
Header == [scheme: {"missing", "foreign", "basic"}, text: Seq(Symbol)]
Basic(text) == [scheme |-> "basic", text |-> text]

\* What a client sends for a name and a password.
Joined(p) == p.username \o <<Colon>> \o p.password
HeaderOf(p) == Basic(Padded(Joined(p)))

Headers == {Missing, Foreign} \cup {HeaderOf(Pair(u, w)) : u \in Names, w \in Passwords}
Others == {Basic(t) : t \in OtherTexts}
Requests == [proxy: Headers, origin: Headers] \cup [proxy: Others, origin: {Foreign}]

NoRequest == [proxy |-> Missing, origin |-> Missing]

LoginInit ==
  /\ row = None /\ added = None /\ request = NoRequest
  /\ granted = FALSE /\ DecoderInit
  /\ rest = <<>> /\ target = NoPlace

-----------------------------------------------------------------------------
\* Mutant: any header will do.
extract_basic_auth_b64_Any(r) ==
  IF r.proxy.scheme = "basic" THEN r.proxy ELSE r.origin

\* Proxy-Authorization if it is there at all, whatever its scheme.
extract_basic_auth_b64(r) ==
  IF r.proxy.scheme # "missing" THEN r.proxy ELSE r.origin

\* Mutant: the width counts the NUL.
Span_Short(bytes, byte) ==
  LET stops == {k \in DOMAIN bytes : bytes[k] = byte \/ k >= MaxField}
  IN IF stops = {} THEN Len(bytes) ELSE (CHOOSE k \in stops : \A m \in stops : k <= m) - 1

\* The length of the longest prefix without the given byte, up to MaxField.
Span(bytes, byte) ==
  LET stops == {k \in DOMAIN bytes : bytes[k] = byte \/ k > MaxField}
  IN IF stops = {} THEN Len(bytes) ELSE (CHOOSE k \in stops : \A m \in stops : k <= m) - 1

\* What is left of the bytes from the first on that is no white space.
Unspaced(bytes) ==
  LET words == {k \in DOMAIN bytes : bytes[k] # Space}
  IN IF words = {} THEN <<>>
     ELSE SubSeq(bytes, CHOOSE k \in words : \A m \in words : k <= m, Len(bytes))

\* "%255[^:]:%255s": a field up to the colon, the colon, white space, a word.
\* None when fewer than two fields match.
Scan(bytes) ==
  LET n == Span(bytes, Colon)
      word == Unspaced(SubSeq(bytes, n + 2, Len(bytes)))
  IN IF n = 0 \/ n = Len(bytes) \/ word = <<>> THEN None
     ELSE IF bytes[n + 1] # Colon THEN None
     ELSE Pair(SubSeq(bytes, 1, n), SubSeq(word, 1, Span(word, Space)))

\* The scan starts at the front of the decoded C string, if there is one.
get_user_from_b64 == IF pc = "done" THEN Scan(CString(decoded)) ELSE None

\* What a statement carries as it is, and what it takes for the same name.
Plain(text) == Range(text) \subseteq Verbatim
SameName(u, v) == u = v \/ <<u, v>> \in Equated

\* The outcomes of the SELECT and of strcmp, which compares the passwords only.
Valid(user) ==
  IF Plain(user.username)
  THEN {row # None /\ SameName(user.username, row.username) /\ user.password = row.password}
  ELSE BOOLEAN

-----------------------------------------------------------------------------
\* INSERT and DELETE; the table refuses what is wider than its columns, and an
\* INSERT that does not carry what was typed leaves some other row, or none.
FitsColumns(r) == Len(r.username) <= MaxName /\ Len(r.password) <= MaxPassword

cmd_add ==
  /\ row = None
  /\ \E u \in Names, w \in Passwords :
       IF Plain(u) /\ Plain(w)
       THEN row' = Pair(u, w) /\ FitsColumns(row') /\ added' = row'
       ELSE row' \in {r \in Rows : FitsColumns(r)} /\ added' = None
  /\ UNCHANGED <<request, granted, rest, target, decoder>>

cmd_remove ==
  /\ row # None /\ row' = None /\ added' = None
  /\ UNCHANGED <<request, granted, rest, target, decoder>>

\* has_valid_auth without a cache entry, up to base64_decode: there is a header
\* and memory for its text, or it returns 0.
Arrives ==
  /\ pc = "idle" /\ granted' = FALSE /\ UNCHANGED <<row, added>>
  /\ rest' = <<>> /\ target' = NoPlace
  /\ \/ \E r \in Requests :
          /\ extract_basic_auth_b64(r).scheme = "basic"
          /\ request' = r /\ Call(extract_basic_auth_b64(r).text)
     \/ request' = NoRequest /\ UNCHANGED decoder

Decoding == base64_decode /\ UNCHANGED <<row, added, request, granted, rest, target>>

\* The rest of it: the scan, the query and the comparison.
has_valid_auth ==
  /\ Free
  /\ granted' \in IF get_user_from_b64 = None THEN {FALSE} ELSE Valid(get_user_from_b64)
  /\ request' = NoRequest /\ UNCHANGED <<row, added>>

\* What handle_authenticating and connection_connect make of the answer.
Answers ==
  /\ has_valid_auth
  /\ \/ ~granted' /\ UNCHANGED <<rest, target>>
     \/ /\ granted' /\ rest' \in Texts
        /\ target' = IF parse_host_port(rest') = NoPlace THEN NoPlace
                     ELSE server_addr(parse_host_port(rest'))

\* There is no memory for the scan, the query or the row, or no answer from the
\* database.
Fails ==
  /\ Free /\ granted' = FALSE /\ request' = NoRequest
  /\ UNCHANGED <<row, added, rest, target>>

LoginNext == cmd_add \/ cmd_remove \/ Arrives \/ Decoding \/ Answers \/ Fails

LoginSpec == LoginInit /\ [][LoginNext]_login

-----------------------------------------------------------------------------
\* Properties

\* The bytes of every name and password come back from the text a client makes
\* of them; from the program's own encoding too, as far as a C string goes: the
\* zero bits that stand there for '=' are NULs behind it.
RoundTrip ==
  pc = "done" => \A u \in Names, w \in Passwords :
    LET bytes == Joined(Pair(u, w))
    IN /\ input = Padded(bytes) => SubSeq(decoded, 1, decoded_len) = bytes
       /\ input \in {Padded(bytes), base64_encode(bytes)} => CString(decoded) = bytes

\* The header that speaks for the client, and the bytes it stands for.
Own(r) == IF r.proxy = Missing THEN r.origin ELSE r.proxy

\* Names and passwords that the format of sscanf can carry.
Readable(p) ==
  /\ p.username # <<>> /\ Colon \notin Range(p.username)
  /\ p.password # <<>> /\ Space \notin Range(p.password)

\* A user who was added with a name and a password that the statement and the
\* scan can carry gets in, through INSERT, padding, decoding, scanning and SELECT,
\* whatever the other header holds, if nothing fails.
ReadableLogsIn ==
  [][Answers /\ pc # "nomem" /\ Readable(added) /\ Own(request) = HeaderOf(added) => granted']_login

\* In the header that is the client's own there stand a name that the column
\* equates with the row's, a colon and, somewhere behind it, the row's password.
Sent ==
  LET claimed == Decoded(Own(request).text)
  IN /\ Own(request).scheme = "basic"
     /\ \E name \in {SubSeq(claimed, 1, n) : n \in 0 .. Len(claimed)} :
          /\ IsPrefix(name \o <<Colon>>, claimed) /\ SameName(name, row.username)
          /\ \E k \in Len(name) + 1 .. Len(claimed) :
               IsPrefix(row.password, SubSeq(claimed, k + 1, Len(claimed)))

\* Whoever gets in with a name that the SELECT carries as it is has sent the row's
\* name and password: neither the other header nor a text cut short is taken for
\* them.
GrantedWasSent ==
  [][Answers /\ granted' /\ Plain(get_user_from_b64.username) => row # None /\ Sent]_login

\* The lines of the request that begin with a spelling of Host.
Lines(word) ==
  {k \in 1 .. Len(rest) - 2 : SubSeq(rest, k, k + 2) = <<LF, word, COLON>>}

\* A request is connected to the host and the port that its Host line gives,
\* whatever stands in its other lines and behind its head, if the line ends in
\* CR, fits into host_port, and no other Host line competes with it; and
\* nothing is connected to without a Host line.
TargetAsAsked ==
  /\ target # NoPlace => Lines(HOST) \cup Lines(LOWER) # {}
  /\ \A w \in {HOST, LOWER}, b \in Blanks, name \in HostNames, port \in Ports :
       LET line == HostLine(w, b, name, port)
       IN Len(Written(name, port)) < MaxHostPort =>
            \A k \in Lines(w) :
              IsPrefix(line, SubSeq(rest, k, Len(rest))) /\ Lines(w) \cup Lines(HOST) = {k} =>
                target = Place(name, IF port = NoPort THEN 80 ELSE port)
=============================================================================
