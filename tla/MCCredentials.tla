---------------------------- MODULE MCCredentials -----------------------------
(* Digits of three bits and bytes of four; names and passwords of up to two *)
(* bytes with a colon or a space at each place, texts of two groups, one    *)
(* byte that SQL does not take as it is, and one name that selects another. *)
EXTENDS Credentials

Quote == 9
MCVerbatim == Byte \ {0, Quote}
MCEquated == {<< <<5>>, <<5, 7>> >>}

MCNames == {<<5>>, <<5, 7>>, <<5, Colon>>, <<5, Quote>>}
MCPasswords == {<<7>>, <<7, 5>>, <<Space, 7>>}
MCOtherTexts ==
  UNION {[1 .. n -> {0, 3, 5, Pad, Bad}] : n \in 0 .. 4}
    \cup {<<3, Pad, 5, Pad, 6, Pad, 7, Pad>>, Padded(<<5, 0, Colon, 7>>)}
    \cup {base64_encode(u \o <<Colon>> \o w) : u \in MCNames \cup {<<>>}, w \in MCPasswords}
    \cup {Padded(u \o <<Colon, 7, Space>>) : u \in MCNames}

\* Host lines of every form, and some of them between other lines that hold the
\* same words, in either spelling, twice, behind the head, without CR, with too
\* much or nothing in them.
MCHostNames == {<<97>>, <<97, 98>>}
MCPorts == {NoPort, 0, 8, 443, 65535}
MCBlanks == {<<>>, <<BLANK, BLANK>>}
MCHostLines ==
  {HostLine(w, b, n, p) : w \in {HOST, LOWER}, b \in MCBlanks, n \in MCHostNames, p \in MCPorts}
MCAmong ==
  {<<>>, HostLine(HOST, <<>>, <<97>>, 8), HostLine(LOWER, <<BLANK, BLANK>>, <<97, 98>>, NoPort)}
MCOddLines ==
  {<<>>, <<LF, 88, COLON, CR>>, <<LF, 88, COLON, HOST, COLON, 99, CR>>,
   <<LF, 88, HOST, COLON, 99, CR>>, <<LF, HOST, COLON, CR>>, <<LF, LOWER, COLON, 99, CR>>,
   <<LF, HOST, COLON, 97, COLON, 45, 49, CR>>, <<LF, HOST, COLON, 97>>,
   <<LF, HOST, COLON, 97, 97, 97, 97, 97, 97, 97, COLON, 56, CR>>}
MCTexts ==
  {line \o <<LF, CR, LF>> : line \in MCHostLines}
    \cup {pair[1] \o line \o pair[2] \o <<LF, CR, LF>> \o body :
            pair \in MCOddLines \X {<<>>} \cup {<<>>} \X MCOddLines,
            line \in MCAmong, body \in {<<>>, <<LF, HOST, COLON, 98>>}}
=============================================================================
