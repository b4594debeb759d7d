---------------------------- MODULE MCAuthCache ------------------------------
(* AuthCache with one user who may have either of two passwords, a request   *)
(* text for each, and a text that does not decode to a user and a password.  *)
EXTENDS AuthCache

CONSTANTS u1, p1, p2, c1, c2, c3

MCDecode == [c \in Credential |->
               CASE c = c1 -> <<u1, p1>> [] c = c2 -> <<u1, p2>> [] c = c3 -> NULL]
=============================================================================
