------------------------------ MODULE ConfigText ------------------------------
(***************************************************************************)
(* config.c without its files: what load_config makes of a text, what      *)
(* check_config asks of the result, and the text that update_config_file's *)
(* loop writes in its place.                                               *)
(*                                                                         *)
(* A line is either KEY=value with a key of struct Config, or any other    *)
(* line: a comment, an unknown key, a line without '='.                    *)
(***************************************************************************)
EXTENDS Integers, Sequences

CONSTANTS
  Key,      \* the fields of struct Config, by their names in the file
  Number,   \* PORT and DB_PORT, the keys whose value goes through atoi
  Value,    \* texts of values
  Parse,    \* what prepare_line, and atoi or strdup, make of a key's value
  Zero,     \* the number 0
  Unset,    \* a NULL string
  Other,    \* the key of any other line
  NoFile    \* a file that does not exist

Line == [key: Key \cup {Other}, val: Value]
Text == Seq(Line)
Config == [Key -> Value]

ASSUME KeyAssumption == Key # {} /\ Number \subseteq Key
ASSUME ParseAssumption == Parse \in [Key \X Value -> Value]
ASSUME ZeroAssumption == Zero \in Value /\ Unset \notin Value
ASSUME OtherAssumption == Other \notin Key
ASSUME NoFileAssumption == NoFile \notin Text

create_default_config == [k \in Key |-> IF k \in Number THEN Zero ELSE Unset]

\* The lines that set key k; the last of them wins.
LinesOf(file, k) == {i \in DOMAIN file : file[i].key = k}
LastLine(file, k) ==
  CHOOSE i \in LinesOf(file, k) : \A j \in LinesOf(file, k) : j <= i

load_config(file) ==
  [k \in Key |->
    IF file # NoFile /\ LinesOf(file, k) # {}
    THEN Parse[k, file[LastLine(file, k)].val]
    ELSE create_default_config[k]]

check_config(c) == \A k \in Key : c[k] # Unset /\ (k \in Number => c[k] # Zero)

\* The loop of update_config_file: a line with a known key gets the value of
\* c, every other line is copied, and no key is added.
Rewrite(file, c) ==
  [i \in DOMAIN file |->
    IF file[i].key \in Key THEN [key |-> file[i].key, val |-> c[file[i].key]]
                           ELSE file[i]]
=============================================================================
