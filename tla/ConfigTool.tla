------------------------------ MODULE ConfigTool ------------------------------
(***************************************************************************)
(* simpleproxy-conf: the dispatch of its commands, the setup dialogue, the *)
(* statements against the users table, the systemd service; and the start  *)
(* of the proxy that the service runs.  update_config_file is one step     *)
(* here, with the outcomes that module ConfigFile shows it to have.        *)
(*                                                                         *)
(* Numbers typed by the administrator and ports keep their widths: an int  *)
(* has IntRange values and a port 0 .. MaxPort.                            *)
(***************************************************************************)
EXTENDS ConfigText

CONSTANTS
  MaxPort,       \* 65535
  IntRange,      \* number of values of an int, 2^32
  Typed,         \* the numbers an administrator may type
  Words,         \* the other texts an administrator may type
  DefaultText,   \* DEFAULT_DB_HOST and DEFAULT_DB_DATABASE
  DefaultPort,   \* DEFAULT_PORT and DEFAULT_DB_PORT
  InitialConf    \* texts the configuration file may hold

ASSUME WidthAssumption ==
  MaxPort \in Nat /\ IntRange \in Nat /\ IntRange > 2 * MaxPort
ASSUME TypedAssumption == Typed \subseteq Nat
ASSUME InitialAssumption == InitialConf \subseteq Text
ASSUME PortAssumption == DefaultPort \in 1 .. MaxPort

VARIABLES
  conf,      \* the configuration file
  table,     \* the users table: "absent", "empty" or with "rows"
  service,   \* enabled at boot, and started, by systemctl
  pc,        \* where the command is
  question,  \* index in Questions
  cfg,       \* the Config being filled
  run,       \* the command, its exit code, whether a part of it has failed,
             \* and whether it was asked for the service
  port       \* where the proxy listens, or Down

vars == <<conf, table, service, pc, question, cfg, run, port>>
system == <<conf, table, service, port>>

\* The fields of struct Config, in the order setup asks for them.
Questions == <<"PORT", "DB_PORT", "DB_HOST", "DB_DATABASE", "DB_USER", "DB_PASS">>
ASSUME QuestionsAssumption ==
  /\ Key = {Questions[i] : i \in DOMAIN Questions}
  /\ Number = {"PORT", "DB_PORT"} /\ Zero = 0

\* What an int can be.
Ints == -(IntRange \div 2) .. IntRange - 1 - IntRange \div 2

\* The file can hold every answer, and a stored number is loaded as it is.
ASSUME ValueAssumption == Ints \cup Words \cup {DefaultText} \subseteq Value
ASSUME NumberAssumption ==
  \A k \in Number, v \in Value :
    Parse[k, v] \in Ints /\ (v \in Ints => Parse[k, v] = v)

Down == 0
Statements == {"migrate", "drop", "reset", "add", "remove"}
Commands == Statements \cup {"setup", "setup-service", "--help", "--version", "none"}

Init ==
  /\ conf \in InitialConf /\ table = "absent"
  /\ service = [enabled |-> FALSE, started |-> FALSE] /\ port = Down
  /\ pc = "idle" /\ question = 1 /\ cfg = create_default_config
  /\ run = [cmd |-> "none", exit |-> "none", failed |-> FALSE, wanted |-> FALSE]

Exit(code) == pc' = "idle" /\ run' = [run EXCEPT !.exit = code]
FailedExit == pc' = "idle" /\ run' = [run EXCEPT !.exit = "failure", !.failed = TRUE]

-----------------------------------------------------------------------------
\* main of simpleproxy-conf: what a command line leads to.

\* Commands other than setup need a complete configuration and the database,
\* one that does not exist and --help too.  The database may refuse.
Configured == check_config(load_config(conf))

Invoke(c) ==
  /\ pc = "idle"
  /\ \E root \in BOOLEAN :
       LET begin(code) ==
             run' = [cmd |-> c, exit |-> code, failed |-> code = "failure",
                     wanted |-> c = "setup-service"]
           go(place) == pc' = place /\ begin("none")
           stop(code) == pc' = "idle" /\ begin(code)
       IN \/ c = "--version" /\ stop("success")
          \/ c = "none" /\ stop("failure")
          \/ c = "setup" /\ IF root THEN go("ask") ELSE stop("failure")
          \/ /\ c \notin {"--version", "none", "setup"}
             /\ \/ stop("failure")
                \/ Configured /\ c = "setup-service" /\ go("enable")
                \/ Configured /\ c \in Statements /\ go(c)
  /\ question' = 1 /\ cfg' = create_default_config
  /\ UNCHANGED system

-----------------------------------------------------------------------------
\* cmd_setup and its dialogue

\* Mutant: the number is taken as it is typed.
atoi_Unbounded(n) == n

\* atoi of a text of digits, converted to int as the C library does.
atoi(n) == ((n + IntRange \div 2) % IntRange) - IntRange \div 2

\* Mutant: the test of the other port is repeated here.
DbPortAccepted_AsPort(p) == ~(p < 0 /\ p > MaxPort)

\* The tests of ask_port, which no number fails, and of ask_db_port.
PortAccepted(p) == ~(p < 0 /\ p > MaxPort)
DbPortAccepted(p) == ~(p < 0 \/ p > MaxPort)

Accepted(k, p) == IF k = "PORT" THEN PortAccepted(p) ELSE DbPortAccepted(p)

\* The answers a question takes, with what is stored: an empty line stands
\* for the default where there is one; other answers are asked for again.
Taken(k) ==
  IF k \in Number THEN {DefaultPort} \cup {p \in {atoi(n) : n \in Typed} : Accepted(k, p)}
  ELSE Words \cup IF k \in {"DB_HOST", "DB_DATABASE"} THEN {DefaultText} ELSE {}

\* -1 is also what ask_port returns when the input ends.
Answer(v) ==
  LET k == Questions[question]
  IN /\ pc = "ask" /\ v \in Taken(k)
     /\ IF k \in Number /\ v = -1
        THEN FailedExit /\ UNCHANGED <<question, cfg>>
        ELSE /\ cfg' = [cfg EXCEPT ![k] = v]
             /\ IF question = Len(Questions)
                THEN pc' = "store" /\ UNCHANGED question
                ELSE question' = question + 1 /\ UNCHANGED pc
             /\ UNCHANGED run
     /\ UNCHANGED system

InputEnds ==
  /\ pc \in {"ask", "prompt"}
  /\ FailedExit
  /\ UNCHANGED <<question, cfg>> /\ UNCHANGED system

\* Mutant: the result of update_config_file is not looked at.
StoreConfig_Unchecked ==
  /\ pc = "store"
  /\ conf' \in {conf, NoFile, Rewrite(conf, cfg)} /\ pc' = "prompt"
  /\ UNCHANGED <<table, service, question, cfg, run, port>>

\* update_config_file stores everything or fails; when the rename fails the
\* file is gone.
StoreConfig ==
  /\ pc = "store"
  /\ \/ conf # NoFile /\ conf' = Rewrite(conf, cfg) /\ pc' = "prompt" /\ UNCHANGED run
     \/ conf' \in {conf, NoFile} /\ FailedExit
  /\ UNCHANGED <<table, service, question, cfg, port>>

\* prompt_and_enable_service: !tolower(c) == 'y' is false for every c, so
\* every answer, also N, leads to the service being enabled and started.
Prompt ==
  /\ pc = "prompt"
  /\ \E yes \in BOOLEAN : run' = [run EXCEPT !.wanted = yes]
  /\ pc' = "enable"
  /\ UNCHANGED <<question, cfg>> /\ UNCHANGED system

\* start_enable_service: systemctl enable, then systemctl start.
Systemctl ==
  /\ \/ pc = "enable" /\ service' = [service EXCEPT !.enabled = TRUE]
        /\ pc' = "start" /\ UNCHANGED run
     \/ pc = "start" /\ service' = [service EXCEPT !.started = TRUE] /\ Exit("success")
     \/ pc \in {"enable", "start"} /\ FailedExit /\ UNCHANGED service
  /\ UNCHANGED <<conf, table, question, cfg, port>>

-----------------------------------------------------------------------------
\* The commands on the users table.  A statement may fail at any time.

SetTable(t, code) == table' = t /\ Exit(code)
StatementFails == FailedExit /\ UNCHANGED table
Same == UNCHANGED <<conf, service, question, cfg, port>>

\* Mutant: the table is created anew.
Migrated_Anew == "empty"

\* The result of CREATE TABLE IF NOT EXISTS.
Migrated == IF table = "absent" THEN "empty" ELSE table

cmd_migrate ==
  /\ pc = "migrate"
  /\ SetTable(Migrated, "success") \/ StatementFails
  /\ Same

\* db_drop_database has no statement to make when there is no table.
cmd_drop ==
  /\ pc = "drop"
  /\ \/ table = "absent" /\ SetTable(table, "failure")
     \/ table # "absent" /\ SetTable("absent", "success")
     \/ StatementFails
  /\ Same

ResetDrops ==
  /\ pc = "reset"
  /\ \/ table = "absent" /\ SetTable(table, "failure")
     \/ /\ table # "absent" /\ pc' = "recreate"
        /\ \/ table' = "absent" /\ UNCHANGED run
           \/ UNCHANGED table /\ run' = [run EXCEPT !.failed = TRUE]
  /\ Same

\* Mutant: one of the two statements is enough.
ResetRecreates_Either ==
  /\ pc = "recreate"
  /\ SetTable(Migrated, "success") \/ StatementFails
  /\ Same

\* The second statement of cmd_reset runs whatever the first returned; both
\* count for the exit code.
ResetRecreates ==
  /\ pc = "recreate"
  /\ \/ SetTable(Migrated, IF run.failed THEN "failure" ELSE "success")
     \/ StatementFails
  /\ Same

\* Wrong arguments, no password, a failed INSERT, or a new row.
cmd_add ==
  /\ pc = "add"
  /\ \/ table # "absent" /\ SetTable("rows", "success")
     \/ StatementFails
  /\ Same

\* A DELETE that finds no row succeeds.
cmd_remove ==
  /\ pc = "remove"
  /\ \/ table # "absent" /\ \E t \in {"empty", table} : SetTable(t, "success")
     \/ StatementFails
  /\ Same

-----------------------------------------------------------------------------
\* The proxy's main, and the world

\* sin_port has 16 bits; for port 0 the kernel takes any free one.
Bound(p) ==
  LET bits == p % (MaxPort + 1) IN IF bits = 0 THEN 1 .. MaxPort ELSE {bits}

StartProxy ==
  /\ service.started /\ port = Down /\ Configured
  /\ port' \in Bound(load_config(conf)["PORT"])
  /\ UNCHANGED <<conf, table, service, pc, question, cfg, run>>

ProxyEnds ==
  /\ port # Down /\ port' = Down
  /\ UNCHANGED <<conf, table, service, pc, question, cfg, run>>

Next == \/ \E c \in Commands : Invoke(c)
        \/ \E v \in UNION {Taken(k) : k \in Key} : Answer(v)
        \/ InputEnds \/ StoreConfig \/ Prompt \/ Systemctl
        \/ cmd_migrate \/ cmd_drop \/ ResetDrops \/ ResetRecreates
        \/ cmd_add \/ cmd_remove
        \/ StartProxy \/ ProxyEnds

Spec == Init /\ [][Next]_vars

-----------------------------------------------------------------------------
\* Properties

TypeOK ==
  /\ conf \in Text \cup {NoFile} /\ table \in {"absent", "empty", "rows"}
  /\ service \in [enabled: BOOLEAN, started: BOOLEAN] /\ port \in 0 .. MaxPort
  /\ pc \in Statements \cup
            {"idle", "ask", "store", "prompt", "enable", "start", "recreate"}
  /\ question \in DOMAIN Questions /\ cfg \in [Key -> Value \cup {Unset}]
  /\ run \in [cmd: Commands, exit: {"none", "success", "failure"},
              failed: BOOLEAN, wanted: BOOLEAN]

\* What exit code 0 promises holds when the command has ended.  If the service
\* was asked for, by setup-service or by answering y, systemctl has enabled and
\* started it; every line that the file has for a field is loaded as what setup
\* was answered for it; migrate has left a table, drop none, and reset an empty
\* one.  (A field without a line gets none, and after answering N nothing is
\* said of the service, which the code enables all the same.)
SuccessIsEffective ==
  run.exit = "success" =>
    /\ run.wanted => service.enabled /\ service.started
    /\ run.cmd = "setup" =>
         /\ conf # NoFile
         /\ \A k \in Key : LinesOf(conf, k) # {} => load_config(conf)[k] = Parse[k, cfg[k]]
    /\ run.cmd = "migrate" => table # "absent"
    /\ run.cmd = "drop" => table = "absent"
    /\ run.cmd = "reset" => table = "empty"

\* The rows of the users table go only by commands that say so: a drop or a
\* reset removes the table, a remove the last row, and nothing else does,
\* whichever statements fail.
RowsGoByRequest ==
  [][table = "rows" /\ table' # "rows" =>
       run.cmd \in {"drop", "reset", "remove"} /\ (run.cmd = "remove" => table' = "empty")]_vars

\* A setup that succeeds leaves a configuration that the proxy and the other
\* commands accept unless a port was answered that is 0, which both dialogues
\* take, or the file has no line for some field; and what they accept has a
\* database port "between 1 and 65535".
ReadyAfterSetup ==
  run.cmd = "setup" /\ run.exit = "success" =>
    /\ Configured <=> /\ \A k \in Key : LinesOf(conf, k) # {}
                      /\ \A k \in Number : cfg[k] # 0
    /\ Configured => load_config(conf)["DB_PORT"] \in 1 .. MaxPort

\* A proxy that starts after a successful setup listens on the port that was
\* answered, if that is a port at all: what the dialogue took, stored and
\* reported survives the file, load_config, check_config and the 16 bits of
\* sin_port.
ListensWhereAnswered ==
  [][port = Down /\ port' # Down
       /\ run.cmd = "setup" /\ run.exit = "success" /\ cfg["PORT"] \in 1 .. MaxPort
     => port' = cfg["PORT"]]_vars
=============================================================================
