---------------------------- MODULE ConfigToolProofs ----------------------------
(***************************************************************************)
(* Theorems of ConfigTool for all widths of numbers, answers and texts.    *)
(***************************************************************************)
EXTENDS ConfigTool, ConfigTextProofs

-----------------------------------------------------------------------------
\* The inductive invariant

\* Where the command is says which command it is, and that it has not ended.
PlaceInv ==
  /\ pc \in Statements => run.cmd = pc
  /\ pc \in {"ask", "store", "prompt"} => run.cmd = "setup"
  /\ pc = "recreate" => run.cmd = "reset"
  /\ pc \in {"enable", "start"} => run.cmd \in {"setup", "setup-service"}
  /\ pc # "idle" => run.exit = "none"
  /\ run.wanted => run.cmd \in {"setup", "setup-service"}

\* What the dialogue has so far.
AnswerInv ==
  /\ pc = "ask" => \A j \in DOMAIN Questions : j < question => cfg[Questions[j]] \in Value
  /\ pc = "store" => cfg \in Config
  /\ pc = "store" \/ (pc = "ask" /\ question > 1) => cfg["PORT"] \in Ints
  /\ pc = "store" \/ (pc = "ask" /\ question > 2) => cfg["DB_PORT"] \in 0 .. MaxPort

\* The answers are complete, and the file holds them.
Stored ==
  /\ cfg \in Config /\ cfg["PORT"] \in Ints /\ cfg["DB_PORT"] \in 0 .. MaxPort
  /\ conf # NoFile /\ conf = Rewrite(conf, cfg)

\* What a command has done so far; a setup that has succeeded leaves more than
\* SuccessIsEffective says.
DoneInv ==
  /\ pc \in {"prompt", "enable", "start"} /\ run.cmd = "setup" => Stored
  /\ pc = "start" => service.enabled
  /\ pc = "recreate" /\ ~run.failed => table = "absent"
  /\ run.exit = "success" /\ run.cmd = "setup" => Stored
  /\ run.exit = "success" /\ run.wanted => service.enabled /\ service.started
  /\ run.exit = "success" =>
       /\ run.cmd = "migrate" => table # "absent"
       /\ run.cmd = "drop" => table = "absent"
       /\ run.cmd = "reset" => table = "empty"

Inv == TypeOK /\ PlaceInv /\ AnswerInv /\ DoneInv

Run == [cmd: Commands, exit: {"none", "success", "failure"}, failed: BOOLEAN,
        wanted: BOOLEAN]

-----------------------------------------------------------------------------
\* Lemmas about the dialogue and the outcomes

\* The questions by their number.
LEMMA QuestionsByNumber ==
  /\ DOMAIN Questions = 1 .. 6 /\ Len(Questions) = 6
  /\ Questions[1] = "PORT" /\ Questions[2] = "DB_PORT" /\ Questions[3] = "DB_HOST"
  /\ Questions[4] = "DB_DATABASE" /\ Questions[5] = "DB_USER" /\ Questions[6] = "DB_PASS"
  /\ Key = {"PORT", "DB_PORT", "DB_HOST", "DB_DATABASE", "DB_USER", "DB_PASS"}
<1>1. /\ DOMAIN Questions = 1 .. 6 /\ Len(Questions) = 6
      /\ Questions[1] = "PORT" /\ Questions[2] = "DB_PORT" /\ Questions[3] = "DB_HOST"
      /\ Questions[4] = "DB_DATABASE" /\ Questions[5] = "DB_USER" /\ Questions[6] = "DB_PASS"
  BY DEF Questions
<1>2. \A i \in 1 .. 6 : i = 1 \/ i = 2 \/ i = 3 \/ i = 4 \/ i = 5 \/ i = 6
  OBVIOUS
<1>3. Key = {Questions[i] : i \in 1 .. 6}
  BY <1>1, QuestionsAssumption
<1>4. ASSUME NEW k
      PROVE  k \in Key <=> k \in {"PORT", "DB_PORT", "DB_HOST", "DB_DATABASE", "DB_USER", "DB_PASS"}
  BY <1>1, <1>2, <1>3
<1> QED BY <1>1, <1>4

\* A number that is typed becomes an int, whatever its size.
LEMMA AtoiIsInt == ASSUME NEW n \in Nat PROVE atoi(n) \in Ints
<1>1. IntRange \in Nat /\ IntRange > 0 /\ IntRange \div 2 \in Nat
  BY WidthAssumption
<1>2. (n + IntRange \div 2) % IntRange \in 0 .. IntRange - 1
  BY <1>1
<1> QED BY <1>1, <1>2 DEF atoi, Ints

\* What a question takes can be stored, a port is an int, and the database port
\* is a port or 0.
LEMMA TakenIsValue ==
  ASSUME NEW k \in Key, NEW v \in Taken(k)
  PROVE  /\ v \in Value /\ (k = "PORT" => v \in Ints)
         /\ k = "DB_PORT" => v \in 0 .. MaxPort
<1>1. DefaultPort \in Ints /\ DefaultPort \in 0 .. MaxPort /\ DefaultPort # -1
  <2>1. IntRange \div 2 >= MaxPort /\ IntRange - 1 - IntRange \div 2 >= MaxPort
    BY WidthAssumption
  <2> QED BY <2>1, PortAssumption, WidthAssumption DEF Ints
<1>2. CASE k \in Number
  <2>1. v = DefaultPort \/ \E n \in Typed : v = atoi(n) /\ Accepted(k, v)
    BY <1>2 DEF Taken
  <2>2. CASE v = DefaultPort
    BY <1>1, <2>2, ValueAssumption
  <2>3. CASE \E n \in Typed : v = atoi(n) /\ Accepted(k, v)
    <3>1. v \in Ints
      BY <2>3, TypedAssumption, AtoiIsInt
    <3>2. v \in Int
      BY <3>1, WidthAssumption DEF Ints
    <3>3. k = "DB_PORT" => v \in 0 .. MaxPort
      BY <2>3, <3>2, WidthAssumption DEF Accepted, DbPortAccepted
    <3> QED BY <3>1, <3>3, ValueAssumption
  <2> QED BY <2>1, <2>2, <2>3
<1>3. CASE k \notin Number
  <2>1. v \in Words \/ v = DefaultText
    BY <1>3 DEF Taken
  <2>2. k # "DB_PORT" /\ k # "PORT"
    BY <1>3, QuestionsAssumption
  <2> QED BY <2>1, <2>2, ValueAssumption
<1> QED BY <1>2, <1>3

\* The default configuration has a configuration's type.
LEMMA DefaultIsTyped == create_default_config \in [Key -> Value \cup {Unset}]
BY ZeroAssumption DEF create_default_config

\* An exit changes the exit code, and failed when the command failed.
LEMMA ExitStep ==
  ASSUME run \in Run, NEW code \in {"success", "failure"},
         Exit(code) \/ (code = "failure" /\ FailedExit)
  PROVE  /\ pc' = "idle" /\ run' \in Run
         /\ run'.cmd = run.cmd /\ run'.exit = code /\ run'.wanted = run.wanted
BY DEF Exit, FailedExit, Run

-----------------------------------------------------------------------------
\* Each action keeps the invariant

\* What the command line leads to.
LEMMA InvokeStep ==
  ASSUME NEW c \in Commands, Invoke(c)
  PROVE  /\ UNCHANGED system /\ question' = 1 /\ cfg' = create_default_config
         /\ run' \in Run /\ run'.cmd = c
         /\ run'.wanted => c = "setup-service"
         /\ run'.exit = "success" => c = "--version"
         /\ \/ pc' = "idle"
            \/ run'.exit = "none" /\ \/ c = "setup" /\ pc' = "ask"
                                     \/ c = "setup-service" /\ pc' = "enable"
                                     \/ c \in Statements /\ pc' = c
<1>1. UNCHANGED system /\ question' = 1 /\ cfg' = create_default_config
  BY DEF Invoke
<1>2. PICK e \in {"none", "success", "failure"} :
        /\ run' = [cmd |-> c, exit |-> e, failed |-> e = "failure",
                   wanted |-> c = "setup-service"]
        /\ \/ pc' = "idle" /\ c = "--version" /\ e = "success"
           \/ pc' = "idle" /\ e = "failure"
           \/ e = "none" /\ \/ c = "setup" /\ pc' = "ask"
                            \/ c = "setup-service" /\ pc' = "enable"
                            \/ c \in Statements /\ pc' = c
  BY Zenon DEF Invoke
<1>3. (e = "failure") \in BOOLEAN /\ (c = "setup-service") \in BOOLEAN
  BY Zenon
<1>4. ASSUME NEW f \in BOOLEAN, NEW w \in BOOLEAN
      PROVE  [cmd |-> c, exit |-> e, failed |-> f, wanted |-> w] \in Run
  BY DEF Run
<1>5. run' \in Run
  BY <1>2, <1>3, <1>4, Zenon
<1>6. run'.cmd = c /\ run'.exit = e /\ (run'.wanted <=> c = "setup-service")
  BY <1>2
<1>7. \/ pc' = "idle"
      \/ run'.exit = "none" /\ \/ c = "setup" /\ pc' = "ask"
                               \/ c = "setup-service" /\ pc' = "enable"
                               \/ c \in Statements /\ pc' = c
  BY <1>2, <1>6
<1> QED BY <1>1, <1>2, <1>5, <1>6, <1>7

\* A new command starts with nothing done and nothing answered.
LEMMA InvokeInv ==
  ASSUME Inv, NEW c \in Commands, Invoke(c)
  PROVE  Inv'
<1>1. /\ UNCHANGED system /\ question' = 1 /\ cfg' = create_default_config
      /\ run' \in Run /\ run'.cmd = c
      /\ run'.wanted => c = "setup-service"
      /\ run'.exit = "success" => c = "--version"
      /\ \/ pc' = "idle"
         \/ run'.exit = "none" /\ \/ c = "setup" /\ pc' = "ask"
                                  \/ c = "setup-service" /\ pc' = "enable"
                                  \/ c \in Statements /\ pc' = c
  BY InvokeStep
<1>2. TypeOK'
  <2>1. question' \in DOMAIN Questions
    BY <1>1, QuestionsByNumber
  <2>2. pc' \in Statements \cup
            {"idle", "ask", "store", "prompt", "enable", "start", "recreate"}
    BY <1>1
  <2>3. cfg' \in [Key -> Value \cup {Unset}]
    BY <1>1, DefaultIsTyped
  <2>4. conf' = conf /\ table' = table /\ service' = service /\ port' = port
    BY <1>1 DEF system
  <2> QED BY <1>1, <2>1, <2>2, <2>3, <2>4 DEF Inv, TypeOK, Run
<1>3. PlaceInv'
  BY <1>1 DEF PlaceInv, Statements
<1>4. AnswerInv'
  <2>1. \A j \in DOMAIN Questions : ~(j < 1)
    BY QuestionsByNumber
  <2>2. pc' # "store" /\ question' = 1
    BY <1>1 DEF Statements
  <2> QED BY <2>1, <2>2 DEF AnswerInv
<1>5. DoneInv'
  BY <1>1 DEF DoneInv, Statements
<1> QED BY <1>2, <1>3, <1>4, <1>5 DEF Inv

\* An answer is stored under its key.
LEMMA AnswerKeeps ==
  ASSUME Inv, NEW v, Answer(v)
  PROVE  Inv'
<1> DEFINE k == Questions[question]
<1>1. question \in 1 .. 6 /\ k \in Key
  BY QuestionsByNumber DEF Inv, TypeOK
<1>2. pc = "ask" /\ v \in Taken(k) /\ UNCHANGED system
  BY DEF Answer
<1>3. /\ v \in Value /\ (k = "PORT" => v \in Ints)
      /\ k = "DB_PORT" => v \in 0 .. MaxPort
  BY <1>1, <1>2, TakenIsValue
<1>4. run \in Run /\ cfg \in [Key -> Value \cup {Unset}]
  BY DEF Inv, TypeOK, Run
<1>5. conf' = conf /\ table' = table /\ service' = service /\ port' = port
  BY <1>2 DEF system
<1>6. CASE FailedExit /\ UNCHANGED <<question, cfg>>
  <2>1. /\ pc' = "idle" /\ run' \in Run /\ run'.cmd = run.cmd /\ run'.exit = "failure"
        /\ run'.wanted = run.wanted
    BY <1>4, <1>6, ExitStep
  <2>2. TypeOK'
    BY <1>5, <1>6, <2>1 DEF Inv, TypeOK, Run
  <2>3. PlaceInv' /\ AnswerInv' /\ DoneInv'
    BY <2>1 DEF Inv, PlaceInv, AnswerInv, DoneInv, Stored, Statements
  <2> QED BY <2>2, <2>3 DEF Inv
<1>7. CASE /\ cfg' = [cfg EXCEPT ![k] = v] /\ run' = run
           /\ \/ question = 6 /\ pc' = "store" /\ question' = question
              \/ question # 6 /\ pc' = pc /\ question' = question + 1
  <2>1. cfg' \in [Key -> Value \cup {Unset}] /\ cfg'[k] = v
        /\ \A x \in Key : x # k => cfg'[x] = cfg[x]
    BY <1>1, <1>3, <1>4, <1>7
  <2>2. pc' \in {"ask", "store"} /\ question' \in 1 .. 6
    BY <1>1, <1>2, <1>7
  <2>3. TypeOK'
    BY <1>5, <1>7, <2>1, <2>2, QuestionsByNumber DEF Inv, TypeOK
  <2>4. PlaceInv'
    BY <1>2, <1>7, <2>2 DEF Inv, PlaceInv, Statements
  <2>5. AnswerInv'
    <3>1. \A j \in 1 .. 6 : j <= question => cfg'[Questions[j]] \in Value
      <4> SUFFICES ASSUME NEW j \in 1 .. 6, j <= question
                   PROVE  cfg'[Questions[j]] \in Value
        OBVIOUS
      <4>1. CASE Questions[j] = k
        BY <1>3, <2>1, <4>1
      <4>2. CASE Questions[j] # k
        <5>1. j < question
          BY <1>1, <4>2
        <5>2. cfg[Questions[j]] \in Value
          BY <1>2, <5>1, QuestionsByNumber DEF Inv, AnswerInv
        <5> QED BY <2>1, <4>2, <5>2, QuestionsByNumber
      <4> QED BY <4>1, <4>2
    <3>2. pc' = "store" => cfg' \in Config
      <4> SUFFICES ASSUME pc' = "store", NEW x \in Key PROVE cfg'[x] \in Value
        BY <2>1 DEF Config
      <4>1. \A j \in 1 .. 6 : cfg'[Questions[j]] \in Value
        BY <1>2, <1>7, <3>1
      <4>2. x = "PORT" \/ x = "DB_PORT" \/ x = "DB_HOST" \/ x = "DB_DATABASE"
            \/ x = "DB_USER" \/ x = "DB_PASS"
        BY QuestionsByNumber
      <4> QED BY <4>1, <4>2, QuestionsByNumber
    <3>3. pc' = "ask" => \A j \in DOMAIN Questions :
                           j < question' => cfg'[Questions[j]] \in Value
      BY <1>1, <1>7, <3>1, QuestionsByNumber
    <3>4. pc' = "store" \/ (pc' = "ask" /\ question' > 2) => cfg'["DB_PORT"] \in 0 .. MaxPort
      <4>1. CASE question = 2
        BY <1>3, <2>1, <4>1, QuestionsByNumber
      <4>2. CASE question > 2
        <5>1. k # "DB_PORT" /\ "DB_PORT" \in Key
          BY <1>1, <4>2, QuestionsByNumber
        <5>2. cfg["DB_PORT"] \in 0 .. MaxPort
          BY <1>2, <4>2 DEF Inv, AnswerInv
        <5> QED BY <2>1, <5>1, <5>2
      <4>3. CASE question = 1
        BY <1>2, <1>7, <4>3
      <4> QED BY <1>1, <4>1, <4>2, <4>3
    <3>5. pc' = "store" \/ (pc' = "ask" /\ question' > 1) => cfg'["PORT"] \in Ints
      <4>1. CASE question = 1
        BY <1>3, <2>1, <4>1, QuestionsByNumber
      <4>2. CASE question > 1
        <5>1. k # "PORT" /\ "PORT" \in Key
          BY <1>1, <4>2, QuestionsByNumber
        <5>2. cfg["PORT"] \in Ints
          BY <1>2, <4>2 DEF Inv, AnswerInv
        <5> QED BY <2>1, <5>1, <5>2
      <4> QED BY <1>1, <4>1, <4>2
    <3> QED BY <3>2, <3>3, <3>4, <3>5 DEF AnswerInv
  <2>6. DoneInv'
    <3>1. run'.exit = "none"
      BY <1>2, <1>7 DEF Inv, PlaceInv
    <3> QED BY <2>2, <3>1 DEF DoneInv
  <2> QED BY <2>3, <2>4, <2>5, <2>6 DEF Inv
<1> HIDE DEF k
<1>8. \/ FailedExit /\ UNCHANGED <<question, cfg>>
      \/ /\ cfg' = [cfg EXCEPT ![k] = v] /\ run' = run
         /\ \/ question = 6 /\ pc' = "store" /\ question' = question
            \/ question # 6 /\ pc' = pc /\ question' = question + 1
  BY QuestionsByNumber DEF Answer, k
<1> QED BY <1>6, <1>7, <1>8

\* A command that ends with a failure, or moves on without an answer, leaves
\* nothing for the dialogue to keep.
LEMMA FailureKeeps ==
  ASSUME Inv, pc' = "idle", run' \in Run, run'.exit = "failure",
         run'.cmd = run.cmd, run'.wanted = run.wanted,
         UNCHANGED <<question, cfg, service, port>>,
         conf' \in {conf, NoFile}, table' \in {"absent", "empty", "rows"}
  PROVE  Inv'
<1>1. TypeOK'
  BY DEF Inv, TypeOK, Run
<1>2. PlaceInv' /\ AnswerInv' /\ DoneInv'
  BY DEF Inv, PlaceInv, AnswerInv, DoneInv, Statements
<1> QED BY <1>1, <1>2 DEF Inv

\* The end of the input is a failure.
LEMMA InputEndsKeeps == ASSUME Inv, InputEnds PROVE Inv'
<1>1. run \in Run /\ table \in {"absent", "empty", "rows"}
  BY DEF Inv, TypeOK, Run
<1>2. FailedExit /\ UNCHANGED <<question, cfg, service, port, conf, table>>
  BY DEF InputEnds, system
<1> QED BY <1>1, <1>2, ExitStep, FailureKeeps

\* The file holds the answers once they are stored.
LEMMA StoreKeeps == ASSUME Inv, StoreConfig PROVE Inv'
<1>1. /\ pc = "store" /\ cfg \in Config /\ run \in Run
      /\ cfg["PORT"] \in Ints /\ cfg["DB_PORT"] \in 0 .. MaxPort
      /\ UNCHANGED <<table, service, question, cfg, port>>
      /\ conf \in Text \cup {NoFile} /\ table \in {"absent", "empty", "rows"}
  BY DEF StoreConfig, Inv, TypeOK, AnswerInv, Run
<1>2. CASE conf' \in {conf, NoFile} /\ FailedExit
  BY <1>1, <1>2, ExitStep, FailureKeeps
<1>3. CASE conf # NoFile /\ conf' = Rewrite(conf, cfg) /\ pc' = "prompt" /\ UNCHANGED run
  <2>1. conf \in Text /\ conf' \in Text
    BY <1>1, <1>3, RewriteIsText
  <2>2. conf' = Rewrite(conf', cfg) /\ conf' # NoFile
    BY <1>1, <1>3, <2>1, RewriteAgain, NoFileAssumption
  <2>3. TypeOK'
    BY <1>1, <1>3, <2>1 DEF Inv, TypeOK
  <2>4. run.cmd = "setup" /\ run.exit = "none"
    BY <1>1 DEF Inv, PlaceInv
  <2>5. PlaceInv' /\ AnswerInv' /\ DoneInv'
    BY <1>1, <1>3, <2>2, <2>4
       DEF Inv, PlaceInv, AnswerInv, DoneInv, Stored, Statements
  <2> QED BY <2>3, <2>5 DEF Inv
<1> QED BY <1>2, <1>3 DEF StoreConfig

\* The service is enabled before it is started.
LEMMA ServiceKeeps == ASSUME Inv, Prompt \/ Systemctl PROVE Inv'
<1>1. /\ run \in Run /\ table \in {"absent", "empty", "rows"}
      /\ service \in [enabled: BOOLEAN, started: BOOLEAN]
      /\ cfg \in [Key -> Value \cup {Unset}]
  BY DEF Inv, TypeOK, Run
<1>2. CASE Prompt
  <2>1. /\ pc = "prompt" /\ pc' = "enable"
        /\ UNCHANGED <<question, cfg, conf, table, service, port>>
    BY <1>2 DEF Prompt, system
  <2>2. /\ run' \in Run /\ run'.cmd = run.cmd /\ run'.exit = run.exit
        /\ run'.failed = run.failed
    BY <1>1, <1>2 DEF Prompt, Run
  <2>3. TypeOK'
    BY <2>1, <2>2 DEF Inv, TypeOK, Run
  <2>4. PlaceInv' /\ AnswerInv' /\ DoneInv'
    BY <2>1, <2>2 DEF Inv, PlaceInv, AnswerInv, DoneInv, Stored, Statements
  <2> QED BY <2>3, <2>4 DEF Inv
<1>3. CASE Systemctl
  <2>1. UNCHANGED <<conf, table, question, cfg, port>>
    BY <1>3 DEF Systemctl
  <2>2. CASE FailedExit /\ UNCHANGED service
    BY <1>1, <2>1, <2>2, ExitStep, FailureKeeps
  <2>3. CASE pc = "enable" /\ service' = [service EXCEPT !.enabled = TRUE] /\ pc' = "start"
             /\ UNCHANGED run
    <3>1. service' \in [enabled: BOOLEAN, started: BOOLEAN] /\ service'.enabled
      BY <1>1, <2>3
    <3>2. TypeOK'
      BY <2>1, <2>3, <3>1 DEF Inv, TypeOK
    <3>3. run.exit = "none"
      BY <2>3 DEF Inv, PlaceInv
    <3>4. PlaceInv' /\ AnswerInv' /\ DoneInv'
      BY <2>1, <2>3, <3>1, <3>3
         DEF Inv, PlaceInv, AnswerInv, DoneInv, Stored, Statements
    <3> QED BY <3>2, <3>4 DEF Inv
  <2>4. CASE pc = "start" /\ service' = [service EXCEPT !.started = TRUE] /\ Exit("success")
    <3>1. service' \in [enabled: BOOLEAN, started: BOOLEAN] /\ service'.started
          /\ service'.enabled = service.enabled
      BY <1>1, <2>4
    <3>2. /\ pc' = "idle" /\ run' \in Run /\ run'.cmd = run.cmd /\ run'.exit = "success"
          /\ run'.wanted = run.wanted
      BY <1>1, <2>4, ExitStep
    <3>3. TypeOK'
      BY <2>1, <3>1, <3>2 DEF Inv, TypeOK, Run
    <3>4. service.enabled /\ run.cmd \in {"setup", "setup-service"}
          /\ (run.cmd = "setup" => Stored)
      BY <2>4 DEF Inv, PlaceInv, DoneInv
    <3>5. PlaceInv' /\ AnswerInv' /\ DoneInv'
      BY <2>1, <3>1, <3>2, <3>4
         DEF Inv, PlaceInv, AnswerInv, DoneInv, Stored, Statements
    <3> QED BY <3>3, <3>5 DEF Inv
  <2> QED BY <1>3, <2>2, <2>3, <2>4 DEF Systemctl
<1> QED BY <1>2, <1>3

\* What the commands on the table do to it, and what they claim.
LEMMA TableStep ==
  ASSUME Inv,
         cmd_migrate \/ cmd_drop \/ ResetDrops \/ ResetRecreates \/ cmd_add \/ cmd_remove
  PROVE  /\ UNCHANGED <<conf, service, question, cfg, port>>
         /\ table' \in {"absent", "empty", "rows"} /\ run' \in Run /\ run'.cmd = run.cmd
         /\ run'.wanted = run.wanted
         /\ pc \in Statements \cup {"recreate"}
         /\ \/ pc' = "idle" /\ run'.exit \in {"success", "failure"}
            \/ /\ pc = "reset" /\ pc' = "recreate" /\ run'.exit = run.exit
               /\ ~run'.failed => table' = "absent"
         /\ run'.exit = "success" =>
              \/ pc = "migrate" /\ table' # "absent"
              \/ pc = "drop" /\ table' = "absent"
              \/ pc = "recreate" /\ table' = "empty"
              \/ pc \in {"add", "remove"}
         /\ table = "rows" /\ table' # "rows" =>
              pc \in {"drop", "reset", "recreate", "remove"} /\ (pc = "remove" => table' = "empty")
<1>1. /\ table \in {"absent", "empty", "rows"} /\ run \in Run
      /\ pc # "idle" => run.exit = "none"
      /\ pc = "recreate" /\ ~run.failed => table = "absent"
  BY DEF Inv, TypeOK, PlaceInv, DoneInv, Run
<1>2. ASSUME NEW t, NEW code \in {"success", "failure"}, SetTable(t, code)
      PROVE  /\ table' = t /\ pc' = "idle" /\ run' \in Run
             /\ run'.cmd = run.cmd /\ run'.exit = code /\ run'.wanted = run.wanted
  BY <1>1, <1>2, ExitStep DEF SetTable
<1>3. ASSUME StatementFails
      PROVE  /\ table' = table /\ pc' = "idle" /\ run' \in Run
             /\ run'.cmd = run.cmd /\ run'.exit = "failure" /\ run'.wanted = run.wanted
  BY <1>1, <1>3, ExitStep DEF StatementFails
<1>4. CASE cmd_migrate
  BY <1>1, <1>2, <1>3, <1>4 DEF cmd_migrate, Same, Migrated, Statements
<1>5. CASE cmd_drop
  BY <1>1, <1>2, <1>3, <1>5 DEF cmd_drop, Same, Statements
<1>6. CASE ResetDrops
  <2>1. pc = "reset" /\ UNCHANGED <<conf, service, question, cfg, port>>
    BY <1>6 DEF ResetDrops, Same
  <2>2. CASE table = "absent" /\ SetTable(table, "failure")
    BY <1>1, <1>2, <2>1, <2>2 DEF Statements
  <2>3. CASE pc' = "recreate" /\ table' = "absent" /\ UNCHANGED run
    BY <1>1, <2>1, <2>3 DEF Statements
  <2>4. CASE pc' = "recreate" /\ UNCHANGED table /\ run' = [run EXCEPT !.failed = TRUE]
    <3>1. /\ run' \in Run /\ run'.cmd = run.cmd /\ run'.exit = run.exit /\ run'.failed
          /\ run'.wanted = run.wanted
      BY <1>1, <2>4 DEF Run
    <3> QED BY <1>1, <2>1, <2>4, <3>1 DEF Statements
  <2> QED BY <1>6, <2>2, <2>3, <2>4 DEF ResetDrops
<1>7. CASE ResetRecreates
  <2>1. pc = "recreate" /\ UNCHANGED <<conf, service, question, cfg, port>>
    BY <1>7 DEF ResetRecreates, Same
  <2>2. CASE run.failed /\ SetTable(Migrated, "failure")
    BY <1>1, <1>2, <2>1, <2>2 DEF Migrated
  <2>3. CASE ~run.failed /\ SetTable(Migrated, "success")
    BY <1>1, <1>2, <2>1, <2>3 DEF Migrated
  <2>4. CASE StatementFails
    BY <1>1, <1>3, <2>1, <2>4
  <2> QED BY <1>7, <2>2, <2>3, <2>4 DEF ResetRecreates
<1>8. CASE cmd_add
  BY <1>1, <1>2, <1>3, <1>8 DEF cmd_add, Same, Statements
<1>9. CASE cmd_remove
  BY <1>1, <1>2, <1>3, <1>9 DEF cmd_remove, Same, Statements
<1> QED BY <1>4, <1>5, <1>6, <1>7, <1>8, <1>9

\* A command on the table ends, or is a reset between its two statements.
LEMMA TableKeeps ==
  ASSUME Inv,
         cmd_migrate \/ cmd_drop \/ ResetDrops \/ ResetRecreates \/ cmd_add \/ cmd_remove
  PROVE  Inv'
<1>1. /\ UNCHANGED <<conf, service, question, cfg, port>>
      /\ table' \in {"absent", "empty", "rows"} /\ run' \in Run /\ run'.cmd = run.cmd
      /\ run'.wanted = run.wanted
      /\ pc \in Statements \cup {"recreate"}
      /\ \/ pc' = "idle" /\ run'.exit \in {"success", "failure"}
         \/ /\ pc = "reset" /\ pc' = "recreate" /\ run'.exit = run.exit
            /\ ~run'.failed => table' = "absent"
      /\ run'.exit = "success" =>
           \/ pc = "migrate" /\ table' # "absent"
           \/ pc = "drop" /\ table' = "absent"
           \/ pc = "recreate" /\ table' = "empty"
           \/ pc \in {"add", "remove"}
  BY TableStep
<1>2. /\ pc \in Statements => run.cmd = pc
      /\ pc = "recreate" => run.cmd = "reset"
      /\ pc # "idle" => run.exit = "none"
      /\ run.wanted => run.cmd \in {"setup", "setup-service"}
  BY DEF Inv, PlaceInv
<1>3. TypeOK'
  BY <1>1 DEF Inv, TypeOK, Run
<1>4. run'.cmd \in Statements
  BY <1>1, <1>2 DEF Statements
<1>5. PlaceInv' /\ AnswerInv' /\ DoneInv'
  BY <1>1, <1>2, <1>4 DEF PlaceInv, AnswerInv, DoneInv, Statements
<1> QED BY <1>3, <1>5 DEF Inv

\* A number that is loaded is an int.
LEMMA LoadedPortIsInt == Configured /\ conf \in Text \cup {NoFile} => load_config(conf)["PORT"] \in Ints
<1> SUFFICES ASSUME Configured, conf \in Text \cup {NoFile}
             PROVE  load_config(conf)["PORT"] \in Ints
  OBVIOUS
<1>1. "PORT" \in Key /\ "PORT" \in Number
  BY QuestionsAssumption, QuestionsByNumber
<1>2. load_config(conf)["PORT"] # 0
  BY <1>1, QuestionsAssumption DEF Configured, check_config
<1>3. conf # NoFile /\ LinesOf(conf, "PORT") # {}
  BY <1>1, <1>2, QuestionsAssumption DEF load_config, create_default_config
<1>4. LastLine(conf, "PORT") \in LinesOf(conf, "PORT")
  BY <1>1, <1>3, LastLineExists
<1>5. conf[LastLine(conf, "PORT")] \in Line
  BY <1>3, <1>4, ElementOfSeq, LenProperties DEF LinesOf, Text
<1>6. conf[LastLine(conf, "PORT")].val \in Value
  BY <1>5 DEF Line
<1> QED BY <1>1, <1>3, <1>6, NumberAssumption DEF load_config

\* A port that is bound is one of the sixteen bits.
LEMMA BoundIsPort ==
  ASSUME NEW p \in Ints
  PROVE  /\ Bound(p) \subseteq 1 .. MaxPort
         /\ p \in 1 .. MaxPort => Bound(p) = {p}
<1>1. p \in Int /\ MaxPort \in Nat
  BY WidthAssumption DEF Ints
<1>2. p % (MaxPort + 1) \in 0 .. MaxPort
  BY <1>1
<1>3. p \in 1 .. MaxPort => p % (MaxPort + 1) = p
  BY <1>1
<1> QED BY <1>1, <1>2, <1>3 DEF Bound

\* The proxy touches only its port, and takes a port there is.
LEMMA ProxyKeeps == ASSUME Inv, StartProxy \/ ProxyEnds PROVE Inv'
<1>1. UNCHANGED <<conf, table, service, pc, question, cfg, run>>
  BY DEF StartProxy, ProxyEnds
<1>2. port' \in 0 .. MaxPort
  <2>1. CASE StartProxy
    <3>1. load_config(conf)["PORT"] \in Ints
      BY <2>1, LoadedPortIsInt DEF StartProxy, Inv, TypeOK
    <3> QED BY <2>1, <3>1, BoundIsPort, WidthAssumption DEF StartProxy
  <2>2. CASE ProxyEnds
    BY <2>2, WidthAssumption DEF ProxyEnds, Down
  <2> QED BY <2>1, <2>2
<1>3. TypeOK'
  BY <1>1, <1>2 DEF Inv, TypeOK
<1>4. PlaceInv' /\ AnswerInv' /\ DoneInv'
  BY <1>1 DEF Inv, PlaceInv, AnswerInv, DoneInv, Stored
<1> QED BY <1>3, <1>4 DEF Inv

\* The invariant holds at the start.
LEMMA InitInv == Init => Inv
<1> SUFFICES ASSUME Init PROVE Inv
  OBVIOUS
<1>1. run = [cmd |-> "none", exit |-> "none", failed |-> FALSE, wanted |-> FALSE]
      /\ pc = "idle"
  BY DEF Init
<1>2. TypeOK
  <2>1. run \in Run
    BY <1>1 DEF Run, Commands
  <2>2. conf \in Text \cup {NoFile} /\ table = "absent" /\ port \in 0 .. MaxPort
    BY InitialAssumption, WidthAssumption DEF Init, Down
  <2>3. service \in [enabled: BOOLEAN, started: BOOLEAN]
    BY DEF Init
  <2>4. question \in DOMAIN Questions /\ cfg \in [Key -> Value \cup {Unset}]
    BY QuestionsByNumber, DefaultIsTyped DEF Init
  <2> QED BY <1>1, <2>1, <2>2, <2>3, <2>4 DEF TypeOK, Run
<1>3. PlaceInv /\ AnswerInv /\ DoneInv
  BY <1>1 DEF PlaceInv, AnswerInv, DoneInv, Stored, Statements
<1> QED BY <1>2, <1>3 DEF Inv

\* No step leaves the invariant.
LEMMA NextInv == ASSUME Inv, [Next]_vars PROVE Inv'
<1>1. CASE \E c \in Commands : Invoke(c)
  BY <1>1, InvokeInv
<1>2. CASE \E v \in UNION {Taken(k) : k \in Key} : Answer(v)
  <2>1. PICK v : Answer(v)
    BY <1>2
  <2> QED BY <2>1, AnswerKeeps
<1>3. CASE UNCHANGED vars
  BY <1>3 DEF vars, Inv, TypeOK, PlaceInv, AnswerInv, DoneInv, Stored
<1> QED BY <1>1, <1>2, <1>3, InputEndsKeeps, StoreKeeps, ServiceKeeps, TableKeeps, ProxyKeeps
        DEF Next

-----------------------------------------------------------------------------
\* The theorems

\* The invariant holds whatever the administrator types, in whatever order the
\* commands come and wherever they fail.
THEOREM Invariant == Spec => []Inv
<1>1. Inv /\ [Next]_vars => Inv'
  BY NextInv
<1> QED BY InitInv, <1>1, PTL DEF Spec

\* Every variable keeps its type; in particular the port the proxy has bound is
\* one, whatever number the file holds, and a Config is filled key by key.
THEOREM TypeCorrect == Spec => []TypeOK
<1>1. Inv => TypeOK
  BY DEF Inv
<1> QED BY Invariant, <1>1, PTL

\* What the file is loaded as after a setup: an answer for each line it has.
LEMMA StoredIsLoaded ==
  ASSUME TypeOK, Stored, NEW k \in Key
  PROVE  IF LinesOf(conf, k) # {} THEN load_config(conf)[k] = Parse[k, cfg[k]]
         ELSE load_config(conf)[k] = create_default_config[k]
<1>1. conf \in Text /\ conf = Rewrite(conf, cfg) /\ cfg \in Config
  BY DEF TypeOK, Stored
<1>2. CASE LinesOf(conf, k) # {}
  BY <1>1, <1>2, LoadRewritten
<1>3. CASE LinesOf(conf, k) = {}
  BY <1>3 DEF load_config
<1> QED BY <1>2, <1>3

\* A command that exits with 0 has done what it is for, as far as the code does
\* it: start_enable_service when it was asked for, the rewrite of the lines that
\* the file has, and the statements on the table.
THEOREM SuccessMeansDone == Spec => []SuccessIsEffective
<1>1. Inv => SuccessIsEffective
  <2> SUFFICES ASSUME Inv, run.exit = "success" PROVE SuccessIsEffective
    BY DEF SuccessIsEffective
  <2>1. run.wanted => service.enabled /\ service.started
    BY DEF Inv, DoneInv
  <2>2. run.cmd = "setup" =>
          /\ conf # NoFile
          /\ \A k \in Key : LinesOf(conf, k) # {} => load_config(conf)[k] = Parse[k, cfg[k]]
    <3>1. run.cmd = "setup" => TypeOK /\ Stored
      BY DEF Inv, DoneInv
    <3> QED BY <3>1, StoredIsLoaded DEF Stored
  <2> QED BY <2>1, <2>2 DEF Inv, DoneInv, SuccessIsEffective
<1> QED BY Invariant, <1>1, PTL

\* A successful setup leaves a configuration that is accepted, but for a port of
\* 0 and for a file without a line for some field, whatever was typed; and an
\* accepted one has a database port that a socket can have.
THEOREM SetupMakesReady == Spec => []ReadyAfterSetup
<1>1. Inv => ReadyAfterSetup
  <2> SUFFICES ASSUME Inv, run.cmd = "setup", run.exit = "success"
               PROVE  /\ Configured <=> /\ \A k \in Key : LinesOf(conf, k) # {}
                                       /\ \A k \in Number : cfg[k] # 0
                      /\ Configured => load_config(conf)["DB_PORT"] \in 1 .. MaxPort
    BY DEF ReadyAfterSetup
  <2>1. TypeOK /\ Stored
    BY DEF Inv, DoneInv
  <2>2. /\ Number = {"PORT", "DB_PORT"} /\ Zero = 0 /\ Number \subseteq Key
        /\ \A k \in Number : cfg[k] \in Ints /\ cfg[k] \in Value
    <3>1. 0 .. MaxPort \subseteq Ints
      <4>1. IntRange \div 2 >= MaxPort /\ IntRange - 1 - IntRange \div 2 >= MaxPort
        BY WidthAssumption
      <4> QED BY <4>1, WidthAssumption DEF Ints
    <3>2. Number = {"PORT", "DB_PORT"} /\ Zero = 0 /\ Number \subseteq Key
      BY QuestionsAssumption, KeyAssumption
    <3>3. cfg["PORT"] \in Ints /\ cfg["DB_PORT"] \in Ints
      BY <2>1, <3>1 DEF Stored
    <3>4. cfg \in [Key -> Value]
      BY <2>1 DEF Stored, Config
    <3> QED BY <3>2, <3>3, <3>4
  <2>3. ASSUME NEW k \in Number, LinesOf(conf, k) # {}
        PROVE  load_config(conf)[k] = cfg[k]
    BY <2>1, <2>2, <2>3, StoredIsLoaded, NumberAssumption
  <2>4. ASSUME NEW k \in Key, LinesOf(conf, k) # {}
        PROVE  load_config(conf)[k] # Unset
    <3>1. load_config(conf)[k] = Parse[k, cfg[k]] /\ cfg[k] \in Value
      BY <2>1, <2>4, StoredIsLoaded DEF Stored, Config
    <3>2. <<k, cfg[k]>> \in Key \X Value
      BY <3>1
    <3>3. Parse[k, cfg[k]] \in Value
      BY <3>2, ParseAssumption
    <3> QED BY <3>1, <3>3, ZeroAssumption
  <2>5. ASSUME NEW k \in Key, LinesOf(conf, k) = {}
        PROVE  ~Configured
    <3>1. load_config(conf)[k] = create_default_config[k]
      BY <2>1, <2>5, StoredIsLoaded
    <3>2. load_config(conf)[k] = IF k \in Number THEN Zero ELSE Unset
      BY <3>1 DEF create_default_config
    <3> QED BY <3>2 DEF Configured, check_config
  <2>6. Configured <=> /\ \A k \in Key : LinesOf(conf, k) # {}
                       /\ \A k \in Number : cfg[k] # 0
    <3>1. ASSUME Configured
          PROVE  (\A k \in Key : LinesOf(conf, k) # {}) /\ \A k \in Number : cfg[k] # 0
      <4>1. \A k \in Key : LinesOf(conf, k) # {}
        BY <3>1, <2>5
      <4>2. \A k \in Number : load_config(conf)[k] # 0
        BY <3>1, <2>2 DEF Configured, check_config
      <4> QED BY <2>2, <2>3, <4>1, <4>2
    <3>2. ASSUME \A k \in Key : LinesOf(conf, k) # {}, \A k \in Number : cfg[k] # 0
          PROVE  Configured
      BY <2>2, <2>3, <2>4, <3>2 DEF Configured, check_config
    <3> QED BY <3>1, <3>2
  <2>7. Configured => load_config(conf)["DB_PORT"] \in 1 .. MaxPort
    <3> SUFFICES ASSUME Configured PROVE load_config(conf)["DB_PORT"] \in 1 .. MaxPort
      OBVIOUS
    <3>1. load_config(conf)["DB_PORT"] = cfg["DB_PORT"] /\ cfg["DB_PORT"] # 0
      BY <2>2, <2>3, <2>6
    <3>2. cfg["DB_PORT"] \in 0 .. MaxPort /\ MaxPort \in Nat
      BY <2>1, WidthAssumption DEF Stored
    <3> QED BY <3>1, <3>2
  <2> QED BY <2>6, <2>7
<1> QED BY Invariant, <1>1, PTL

\* No command takes rows away that was not asked to, also when one of the
\* statements of cmd_reset fails.
THEOREM RowsStay == Spec => RowsGoByRequest
<1>1. ASSUME Inv, [Next]_vars, table = "rows" /\ table' # "rows"
      PROVE  run.cmd \in {"drop", "reset", "remove"} /\ (run.cmd = "remove" => table' = "empty")
  <2>1. CASE cmd_migrate \/ cmd_drop \/ ResetDrops \/ ResetRecreates \/ cmd_add \/ cmd_remove
    <3>1. pc \in {"drop", "reset", "recreate", "remove"} /\ (pc = "remove" => table' = "empty")
      BY <1>1, <2>1, TableStep
    <3>2. run.cmd = (IF pc = "recreate" THEN "reset" ELSE pc)
      BY <1>1, <3>1 DEF Inv, PlaceInv, Statements
    <3> QED BY <3>1, <3>2
  <2>2. CASE ~(cmd_migrate \/ cmd_drop \/ ResetDrops \/ ResetRecreates \/ cmd_add \/ cmd_remove)
    <3>1. UNCHANGED table
      BY <1>1, <2>2 DEF Next, vars, system, Invoke, Answer, InputEnds, StoreConfig, Prompt,
                        Systemctl, StartProxy, ProxyEnds
    <3> QED BY <1>1, <3>1
  <2> QED BY <2>1, <2>2
<1>2. Inv /\ [Next]_vars =>
        [table = "rows" /\ table' # "rows" =>
           run.cmd \in {"drop", "reset", "remove"} /\ (run.cmd = "remove" => table' = "empty")]_vars
  BY <1>1
<1> QED BY Invariant, <1>2, PTL DEF Spec, RowsGoByRequest

\* The port that was answered is the port that is bound, for every width of an
\* int and of a port.
THEOREM PortSurvives == Spec => ListensWhereAnswered
<1>1. ASSUME Inv, [Next]_vars, port = Down, port' # Down,
             run.cmd = "setup", run.exit = "success", cfg["PORT"] \in 1 .. MaxPort
      PROVE  port' = cfg["PORT"]
  <2>1. StartProxy
    BY <1>1 DEF Next, vars, system, Invoke, Answer, InputEnds, StoreConfig, Prompt, Systemctl,
                cmd_migrate, cmd_drop, ResetDrops, ResetRecreates, cmd_add, cmd_remove, Same,
                ProxyEnds
  <2>2. cfg \in Config /\ conf \in Text /\ conf # NoFile /\ conf = Rewrite(conf, cfg)
    BY <1>1 DEF Inv, TypeOK, DoneInv, Stored
  <2>3. "PORT" \in Key /\ "PORT" \in Number
    BY QuestionsAssumption, QuestionsByNumber
  <2>4. load_config(conf)["PORT"] # 0
    BY <2>1, <2>3, QuestionsAssumption DEF StartProxy, Configured, check_config
  <2>5. LinesOf(conf, "PORT") # {}
    BY <2>3, <2>4, QuestionsAssumption DEF load_config, create_default_config
  <2>6. load_config(conf)["PORT"] = Parse["PORT", cfg["PORT"]]
    BY <2>2, <2>3, <2>5, LoadRewritten
  <2>7. cfg["PORT"] \in Ints /\ cfg["PORT"] \in Value
    <3>1. IntRange \div 2 >= MaxPort /\ IntRange - 1 - IntRange \div 2 >= MaxPort
      BY WidthAssumption
    <3> QED BY <1>1, <2>2, <2>3, <3>1, WidthAssumption DEF Config, Ints
  <2>8. load_config(conf)["PORT"] = cfg["PORT"]
    BY <2>3, <2>6, <2>7, NumberAssumption
  <2>9. port' \in Bound(cfg["PORT"])
    BY <2>1, <2>8 DEF StartProxy
  <2>10. Bound(cfg["PORT"]) = {cfg["PORT"]}
    BY <1>1, <2>7, BoundIsPort
  <2> QED BY <2>9, <2>10
<1>2. Inv /\ [Next]_vars =>
        [port = Down /\ port' # Down
           /\ run.cmd = "setup" /\ run.exit = "success" /\ cfg["PORT"] \in 1 .. MaxPort
         => port' = cfg["PORT"]]_vars
  BY <1>1
<1> QED BY Invariant, <1>2, PTL DEF Spec, ListensWhereAnswered
=============================================================================
