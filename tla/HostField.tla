------------------------------ MODULE HostField --------------------------------
(***************************************************************************)
(* parse_host_port and the port that connection_connect makes of its       *)
(* result.  Characters are their codes; the word of a header's name counts *)
(* as one character.                                                       *)
(***************************************************************************)
EXTENDS Integers, Sequences, SequencesExt

CONSTANTS
  MaxHostPort,   \* 256, the size of host_port
  PortBits       \* 16, the width of sin_port

Tens == <<1, 10, 100, 1000, 10000, 100000>>

\* 80 is a port, and no port has more than five digits.
ASSUME HostFieldAssumption ==
  /\ MaxHostPort \in Nat \ {0} /\ PortBits \in Nat
  /\ 80 < 2^PortBits /\ 2^PortBits <= Tens[6]

LF == 10
CR == 13
BLANK == 32
COLON == 58
HOST == 256        \* the word "Host"
LOWER == 257       \* the word "host"
Numeral == 48 .. 57
Char == 0 .. 257

Place(name, port) == [host |-> name, port |-> port]
NoPlace == Place(<<>>, -1)   \* parse_host_port has failed

-----------------------------------------------------------------------------
\* The part of a text before the first of the given characters, and the part
\* from the first other character on.
UpTo(text, stops) ==
  LET n == SelectInSeq(text, LAMBDA c : c \in stops)
  IN IF n = 0 THEN text ELSE SubSeq(text, 1, n - 1)
Skip(text, chars) ==
  SubSeq(text, Len(UpTo(text, Char \ chars)) + 1, Len(text))

\* The number that numerals stand for.
NumberOf(digits) ==
  LET number[k \in 0 .. Len(digits)] ==
        IF k = 0 THEN 0 ELSE 10 * number[k - 1] + (digits[k] - 48)
  IN number[Len(digits)]

\* atoi of a number that an int can hold.
atoi(text) ==
  LET number == Skip(text, {BLANK})
      minus == number # <<>> /\ Head(number) = 45
      digits == UpTo(IF minus THEN Tail(number) ELSE number, Char \ Numeral)
  IN IF minus THEN -NumberOf(digits) ELSE NumberOf(digits)

\* Mutant: the name is found anywhere in a line.
FieldPlaces_Anywhere(text, word) ==
  {k \in 2 .. Len(text) - 1 : SubSeq(text, k, k + 1) = <<word, COLON>>}

\* Where strstr finds the name, at the start of a line: the places of the word.
FieldPlaces(text, word) ==
  {k \in 2 .. Len(text) - 1 : SubSeq(text, k - 1, k + 1) = <<LF, word, COLON>>}

\* The first "Host:" of the whole text, bytes behind the head included, or
\* else the first "host:".
HostPlaces(text) ==
  IF FieldPlaces(text, HOST) # {} THEN FieldPlaces(text, HOST) ELSE FieldPlaces(text, LOWER)

\* What is copied to host_port: up to the end of the line, and no more than fits.
HostPort(text) ==
  LET value == Skip(SubSeq(text, Min(HostPlaces(text)) + 2, Len(text)), {BLANK})
      stop == IF \E k \in DOMAIN value : value[k] = CR THEN CR ELSE LF
      line == UpTo(value, {stop})
  IN SubSeq(line, 1, IF Len(line) >= MaxHostPort THEN MaxHostPort - 1 ELSE Len(line))

parse_host_port(text) ==
  IF HostPlaces(text) = {} THEN NoPlace
  ELSE LET host_port == HostPort(text)
           name == UpTo(host_port, {COLON})
       IN IF name = host_port THEN Place(name, 80)
          ELSE Place(name, atoi(SubSeq(host_port, Len(name) + 2, Len(host_port))))

\* The address of connect: the port goes through htons.
server_addr(place) == [place EXCEPT !.port = @ % 2^PortBits]

-----------------------------------------------------------------------------
\* What a client writes

NoPort == -1
Digits(n) ==
  LET places == CHOOSE l \in 1 .. 5 : n < Tens[l + 1] /\ (l > 1 => n >= Tens[l])
  IN [j \in 1 .. places |-> 48 + ((n \div Tens[places - j + 1]) % 10)]
Written(name, port) ==
  name \o (IF port = NoPort THEN <<>> ELSE <<COLON>> \o Digits(port))
HostLine(word, blanks, name, port) ==
  <<LF, word, COLON>> \o blanks \o Written(name, port) \o <<CR>>
=============================================================================
