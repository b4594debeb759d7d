----------------------------- MODULE MCConfigTool -----------------------------
(* Ports 0 .. 3 in ints of 16 values, and two texts of which one changes.  *)
EXTENDS ConfigTool

CONSTANTS Plain, Odd, Cut

MCKey == {"PORT", "DB_PORT", "DB_HOST", "DB_DATABASE", "DB_USER", "DB_PASS"}
MCNumber == {"PORT", "DB_PORT"}
MCValue == (-8 .. 7) \cup {Plain, Odd, Cut}

\* Odd holds a '#', and atoi makes 0 of a text that is no number.
MCParse ==
  [kv \in MCKey \X MCValue |->
    IF kv[1] \in MCNumber THEN IF kv[2] \in {Plain, Odd, Cut} THEN 0 ELSE kv[2]
    ELSE IF kv[2] = Odd THEN Cut ELSE kv[2]]

Entry(k) == [key |-> k, val |-> IF k \in MCNumber THEN 1 ELSE Plain]

\* The installed file, and one without DB_PORT.
Installed ==
  <<Entry("PORT"), Entry("DB_DATABASE"), Entry("DB_PORT"), Entry("DB_USER"),
    Entry("DB_PASS"), Entry("DB_HOST")>>
MCInitialConf == {Installed, SelectSeq(Installed, LAMBDA l : l.key # "DB_PORT")}
=============================================================================
