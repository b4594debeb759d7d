----------------------------- MODULE MCConfigFile -----------------------------
(* Two keys, one of them a number, in files of up to four lines. *)
EXTENDS ConfigFile

CONSTANTS Port, Host, One, Two, Cut

MCKey == {Port, Host}
MCNumber == {Port}
MCValue == {Zero, One, Two, Cut}

\* The host Two holds a character that prepare_line takes out.
MCParse == [kv \in MCKey \X MCValue |->
             IF kv = <<Host, Two>> THEN Cut ELSE kv[2]]
MCWanted == {[k \in MCKey |-> One], [k \in MCKey |-> Two]}

Entry(k) == [key |-> k, val |-> One]
MCInitialFile ==
  {<<Entry(Other), Entry(Port), Entry(Host)>>,
   <<Entry(Port), Entry(Other), Entry(Host), Entry(Port)>>}
=============================================================================
