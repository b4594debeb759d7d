-------------------------------- MODULE Tunnel --------------------------------
(***************************************************************************)
(* What the two ends of a connection through the proxy are promised: any   *)
(* answers come first, and then each end gets the bytes that the other has *)
(* written, in their order, without a gap and once.  How often the proxy   *)
(* answers is not limited here: Relay's OneAnswer is about that.           *)
(***************************************************************************)
EXTENDS Integers, Sequences

CONSTANTS Side, Byte

VARIABLES
  phase,    \* "setup", then "streams"
  answers,  \* the replies to the request
  written,  \* side -> the bytes written there
  got       \* side -> those of them that the other side has got

tunnel == <<phase, answers, written, got>>

Init ==
  /\ phase = "setup" /\ answers = 0
  /\ written \in [Side -> Seq(Byte)] /\ got = [s \in Side |-> <<>>]

\* The request is answered or not, and the setup goes on or ends.
SetUp ==
  /\ phase = "setup" /\ phase' \in {"setup", "streams"}
  /\ answers' \in {answers, answers + 1}
  /\ UNCHANGED <<written, got>>

Write(s) ==
  /\ \E b \in Byte : written' = [written EXCEPT ![s] = Append(@, b)]
  /\ UNCHANGED <<phase, answers, got>>

\* The next bytes get through.
Deliver(s) ==
  /\ phase = "streams"
  /\ \E n \in Len(got[s]) .. Len(written[s]) :
       got' = [got EXCEPT ![s] = SubSeq(written[s], 1, n)]
  /\ UNCHANGED <<phase, answers, written>>

Next == SetUp \/ \E s \in Side : Write(s) \/ Deliver(s)

Spec == Init /\ [][Next]_tunnel
===============================================================================
