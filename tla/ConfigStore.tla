------------------------------ MODULE ConfigStore -----------------------------
(***************************************************************************)
(* What update_config_file should be to its callers: one text, replaced as *)
(* a whole by itself with one configuration written into it.               *)
(***************************************************************************)
EXTENDS ConfigText

VARIABLE text

Init == text \in Text

Update == \E c \in Config : text' = Rewrite(text, c)

Spec == Init /\ [][Update]_text
=============================================================================
