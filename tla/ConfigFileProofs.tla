--------------------------- MODULE ConfigFileProofs ---------------------------
(***************************************************************************)
(* Theorems of ConfigFile for all keys, values, texts and numbers of       *)
(* updates.                                                                *)
(***************************************************************************)
EXTENDS ConfigFile, ConfigTextProofs

-----------------------------------------------------------------------------
\* The inductive invariant

\* Where an update is says what the two files hold.  SuccessInv says what the
\* last update left behind when it returned true.
PcInv ==
  /\ pc = "copy" =>
       /\ conf # NoFile /\ tmp # NoFile /\ cfg \in asked
       /\ copied \in 0 .. Len(conf)
  /\ pc = "remove" => conf # NoFile /\ tmp = Rewrite(conf, cfg) /\ cfg \in asked
  /\ pc = "rename" => conf = NoFile /\ tmp = Rewrite(first, cfg) /\ cfg \in asked

SuccessInv ==
  result = "ok" => pc = "idle" /\ conf = Rewrite(first, cfg)

Inv == TypeOK /\ PcInv /\ NothingLost /\ SuccessInv /\ RunsOnWhole

\* Whole texts stay whole while configurations are only added to the asked
\* ones, and are texts.
LEMMA WholeIsText ==
  ASSUME TypeOK, NEW file, Whole(file)
  PROVE  file \in Text
BY RewriteIsText DEF TypeOK, Whole

\* The prefix of a rewriting that reaches the disk is a text.
LEMMA WrittenIsText ==
  ASSUME conf \in Text, cfg \in Config, NEW n \in 0 .. Len(conf)
  PROVE  /\ Written(n) \in Text
         /\ n = Len(conf) => Written(n) = Rewrite(conf, cfg)
<1> DEFINE new == Rewrite(conf, cfg)
<1>1. new \in Text /\ Len(new) = Len(conf)
  BY RewriteIsText
<1>2. Len(conf) \in Nat
  BY LenProperties DEF Text
<1> HIDE DEF new
<1>3. SubSeq(new, 1, n) \in Seq(Line)
  BY <1>1, <1>2, SubSeqProperties DEF Text
<1>4. n = Len(conf) => SubSeq(new, 1, n) = new
  BY <1>1, SubSeqFull DEF Text
<1> QED BY <1>3, <1>4 DEF Written, new, Text

\* The initial states.
LEMMA InitInv == Init => Inv
<1> SUFFICES ASSUME Init
             PROVE  Inv
  OBVIOUS
<1> USE DEF Init
<1>1. first \in Text /\ conf = first /\ conf # NoFile /\ cfg \in Config
  BY InitialAssumption, WantedAssumption, NoFileAssumption
<1>2. TypeOK
  BY <1>1, UpdatesAssumption DEF TypeOK
<1>3. PcInv /\ SuccessInv
  BY DEF PcInv, SuccessInv
<1>4. NothingLost
  BY <1>1 DEF NothingLost, Whole
<1>5. RunsOnWhole
  BY DEF RunsOnWhole
<1> QED BY <1>2, <1>3, <1>4, <1>5 DEF Inv

-----------------------------------------------------------------------------
\* Every action preserves it

\* A step that leaves the file and the proxy alone.
LEMMA FilesKept ==
  ASSUME Inv, first' = first, asked \subseteq asked',
         UNCHANGED <<conf, proxy>>, conf = NoFile => tmp' = tmp
  PROVE  NothingLost' /\ RunsOnWhole'
<1>1. NothingLost'
  BY DEF Inv, NothingLost, Whole
<1>2. RunsOnWhole'
  BY DEF Inv, RunsOnWhole, Stopped
<1> QED BY <1>1, <1>2

\* Opening the temporary file, which is only emptied when the configuration is there.
LEMMA OpenTempInv ==
  ASSUME Inv, NEW c \in Wanted, OpenTemp(c)
  PROVE  Inv'
<1> USE DEF OpenTemp
<1>1. c \in Config
  BY WantedAssumption
<1>2. asked \subseteq asked' /\ asked' \subseteq Config
  BY <1>1 DEF Inv, TypeOK
<1>3. TypeOK'
  <2>1. updates' \in 0 .. MaxUpdates
    BY UpdatesAssumption DEF Inv, TypeOK
  <2>2. tmp' \in Text \cup {NoFile}
    BY EmptySeq DEF Inv, TypeOK, Text
  <2> QED BY <1>1, <1>2, <2>1, <2>2 DEF Inv, TypeOK, Fails
<1>4. PcInv' /\ SuccessInv'
  <2>1. <<>> \in Text
    BY EmptySeq DEF Text
  <2>2. conf # NoFile => 0 \in 0 .. Len(conf)
    BY LenProperties DEF Inv, TypeOK, Text
  <2> QED BY <2>1, <2>2, NoFileAssumption DEF PcInv, SuccessInv, Fails
<1>5. NothingLost' /\ RunsOnWhole'
  BY <1>2, FilesKept
<1> QED BY <1>3, <1>4, <1>5 DEF Inv

\* Reading a line changes no file.
LEMMA CopyLineInv ==
  ASSUME Inv, CopyLine
  PROVE  Inv'
<1> USE DEF CopyLine, history
<1>1. copied' \in 0 .. Len(conf)
  BY LenProperties DEF Inv, TypeOK, PcInv, Text
<1>2. TypeOK' /\ PcInv' /\ SuccessInv'
  BY <1>1 DEF Inv, TypeOK, PcInv, SuccessInv
<1>3. NothingLost' /\ RunsOnWhole'
  BY FilesKept
<1> QED BY <1>2, <1>3 DEF Inv

\* A flush puts a prefix of the rewriting into the temporary file.
LEMMA FlushInv ==
  ASSUME Inv, Flush
  PROVE  Inv'
<1> USE DEF Flush, history
<1>1. PICK n \in 0 .. copied : tmp' = Written(n)
  OBVIOUS
<1>2. conf \in Text /\ cfg \in Config /\ n \in 0 .. Len(conf)
  BY LenProperties DEF Inv, TypeOK, PcInv, Text
<1>3. tmp' \in Text /\ tmp' # NoFile
  BY <1>1, <1>2, WrittenIsText, NoFileAssumption
<1>4. TypeOK' /\ PcInv' /\ SuccessInv'
  BY <1>3 DEF Inv, TypeOK, PcInv, SuccessInv
<1>5. NothingLost' /\ RunsOnWhole'
  BY FilesKept DEF Inv, PcInv
<1> QED BY <1>4, <1>5 DEF Inv

\* Closing the stream completes the temporary file.
LEMMA CloseTempInv ==
  ASSUME Inv, CloseTemp
  PROVE  Inv'
<1> USE DEF CloseTemp, history
<1>1. conf \in Text /\ cfg \in Config /\ copied \in 0 .. Len(conf)
  BY DEF Inv, TypeOK, PcInv
<1>2. tmp' = Rewrite(conf, cfg) /\ tmp' \in Text
  BY <1>1, WrittenIsText
<1>3. TypeOK' /\ PcInv' /\ SuccessInv'
  BY <1>2 DEF Inv, TypeOK, PcInv, SuccessInv
<1>4. NothingLost' /\ RunsOnWhole'
  BY FilesKept DEF Inv, PcInv
<1> QED BY <1>3, <1>4 DEF Inv

\* What is removed was whole, so what is left is.
LEMMA RemoveConfInv ==
  ASSUME Inv, RemoveConf
  PROVE  Inv'
<1> USE DEF RemoveConf, history
<1>1. tmp = Rewrite(conf, cfg) /\ cfg \in asked /\ conf # NoFile
  BY DEF Inv, PcInv
<1>2. Rewrite(conf, cfg) = Rewrite(first, cfg)
  BY <1>1, RewriteAgain DEF Inv, TypeOK, NothingLost, Whole
<1>3. tmp \in Text /\ tmp # NoFile
  BY <1>1, NoFileAssumption, RewriteIsText DEF Inv, TypeOK
<1>4. TypeOK' /\ PcInv' /\ SuccessInv'
  BY <1>1, <1>2 DEF Inv, TypeOK, PcInv, SuccessInv, Fails
<1>5. NothingLost'
  BY <1>1, <1>2, <1>3 DEF Inv, NothingLost, Whole
<1>6. RunsOnWhole'
  BY DEF Inv, RunsOnWhole, Stopped
<1> QED BY <1>4, <1>5, <1>6 DEF Inv

\* The rename moves a whole text to the configuration, or leaves it where it is.
LEMMA RenameTempInv ==
  ASSUME Inv, RenameTemp
  PROVE  Inv'
<1> USE DEF RenameTemp, history
<1>1. /\ tmp = Rewrite(first, cfg) /\ cfg \in asked
      /\ conf = NoFile /\ tmp # NoFile
  BY DEF Inv, PcInv, NothingLost
<1>2. TypeOK' /\ PcInv' /\ SuccessInv'
  BY <1>1 DEF Inv, TypeOK, PcInv, SuccessInv, Fails
<1>3. NothingLost'
  BY <1>1 DEF Inv, NothingLost, Whole
<1>4. RunsOnWhole'
  BY DEF Inv, RunsOnWhole, Stopped
<1> QED BY <1>2, <1>3, <1>4 DEF Inv

\* A crash changes no file.
LEMMA CrashInv ==
  ASSUME Inv, Crash
  PROVE  Inv'
<1> USE DEF Crash, history
<1>1. TypeOK' /\ PcInv' /\ SuccessInv'
  BY DEF Inv, TypeOK, PcInv, SuccessInv
<1>2. NothingLost' /\ RunsOnWhole'
  BY FilesKept
<1> QED BY <1>1, <1>2 DEF Inv

\* A proxy that starts reads a whole text, for a missing one is refused.
LEMMA ProxyStartsInv ==
  ASSUME Inv, ProxyStarts
  PROVE  Inv'
<1> USE DEF ProxyStarts, history
<1>1. conf # NoFile
  <2> SUFFICES ASSUME conf = NoFile
               PROVE  FALSE
    OBVIOUS
  <2>1. PICK k \in Key : TRUE
    BY KeyAssumption
  <2>2. load_config(conf)[k] = create_default_config[k]
    BY DEF load_config
  <2> QED BY <2>1, <2>2 DEF check_config, create_default_config
<1>2. load_config(conf) \in [Key -> Value \cup {Unset}]
  BY LoadIsConfig DEF Inv, TypeOK
<1>3. TypeOK' /\ PcInv' /\ SuccessInv'
  BY <1>2 DEF Inv, TypeOK, PcInv, SuccessInv
<1>4. NothingLost'
  BY DEF Inv, NothingLost, Whole
<1>5. RunsOnWhole'
  BY <1>1 DEF Inv, NothingLost, Whole, RunsOnWhole
<1> QED BY <1>3, <1>4, <1>5 DEF Inv

\* The end of the proxy changes no file.
LEMMA ProxyEndsInv ==
  ASSUME Inv, ProxyEnds
  PROVE  Inv'
<1> USE DEF ProxyEnds, history
<1>1. TypeOK' /\ PcInv' /\ SuccessInv' /\ NothingLost'
  BY DEF Inv, TypeOK, PcInv, SuccessInv, NothingLost, Whole
<1>2. RunsOnWhole'
  BY DEF RunsOnWhole
<1> QED BY <1>1, <1>2 DEF Inv

\* Every step keeps the invariant.
LEMMA NextInv ==
  ASSUME Inv, [Next]_vars
  PROVE  Inv'
<1>1. CASE UNCHANGED vars
  BY <1>1 DEF vars, Inv, TypeOK, PcInv, SuccessInv, NothingLost, Whole,
              RunsOnWhole
<1>2. CASE Next
  BY <1>2, OpenTempInv, CopyLineInv, FlushInv, CloseTempInv, RemoveConfInv,
     RenameTempInv, CrashInv, ProxyStartsInv, ProxyEndsInv
     DEF Next, UpdateStep
<1> QED BY <1>1, <1>2

-----------------------------------------------------------------------------
\* Theorems

\* The inductive invariant holds.
LEMMA Invariance == Spec => []Inv
<1>1. Inv /\ [Next]_vars => Inv'
  BY NextInv
<1> QED BY <1>1, InitInv, PTL DEF Spec

\* Every variable keeps its type; what is read from a file by a proxy is a
\* configuration, set or unset.
THEOREM TypeCorrect == Spec => []TypeOK
<1>1. Inv => TypeOK
  BY DEF Inv
<1> QED BY <1>1, Invariance, PTL

\* No interleaving of crashes, failed calls and repeated updates loses the
\* configuration text or mixes two of them: at every moment one of the two
\* files is whole.
THEOREM NothingIsLost == Spec => []NothingLost
<1>1. Inv => NothingLost
  BY DEF Inv
<1> QED BY <1>1, Invariance, PTL

\* The proxy never runs with a mixture of configurations.
THEOREM RunsOnWholeConfig == Spec => []RunsOnWhole
<1>1. Inv => RunsOnWhole
  BY DEF Inv
<1> QED BY <1>1, Invariance, PTL

\* An update that returned true is what load_config finds, key by key, for
\* the keys the file mentions.
THEOREM SuccessLoads == Spec => []SuccessIsLoaded
<1>1. Inv => SuccessIsLoaded
  <2> SUFFICES ASSUME Inv, result = "ok", NEW k \in Key, LinesOf(first, k) # {}
               PROVE  load_config(conf)[k] = Parse[k, cfg[k]]
    BY DEF SuccessIsLoaded
  <2>1. first \in Text /\ cfg \in Config /\ conf = Rewrite(first, cfg)
    BY DEF Inv, TypeOK, SuccessInv
  <2> QED BY <2>1, LoadRewritten
<1> QED BY <1>1, Invariance, PTL

\* update_config_file implements the atomic update of ConfigStore: the two
\* files together change by whole updates only.
THEOREM ImplementsStore == Spec => StoreSpec
<1> DEFINE bar == IF conf = NoFile THEN tmp ELSE conf
<1>1. Init => Store!Init
  BY InitialAssumption, NoFileAssumption DEF Init, Store!Init, Text, Store!Text, Line, Store!Line
<1>2. Inv /\ [Next]_vars => [Store!Update]_bar
  <2> SUFFICES ASSUME Inv, [Next]_vars
               PROVE  Store!Update \/ bar' = bar
    OBVIOUS
  <2>1. CASE RemoveConf /\ conf' = NoFile
    <3>1. /\ tmp = Rewrite(conf, cfg) /\ tmp # NoFile /\ conf # NoFile
          /\ cfg \in Config /\ tmp' = tmp
      BY <2>1, RewriteIsText, NoFileAssumption
         DEF RemoveConf, Inv, PcInv, TypeOK
    <3>2. bar = conf /\ bar' = Rewrite(conf, cfg)
      BY <2>1, <3>1
    <3> HIDE DEF bar
    <3> QED BY <3>1, <3>2
         DEF Store!Update, Rewrite, Store!Rewrite, Config, Store!Config, bar
  <2>2. CASE RenameTemp
    BY <2>2 DEF RenameTemp, Inv, PcInv, NothingLost
  <2>3. CASE conf' = conf /\ (conf = NoFile => tmp' = tmp)
    BY <2>3
  <2>4. CASE UNCHANGED vars
    BY <2>4 DEF vars
  <2>5. (\E c \in Wanted : OpenTemp(c)) \/ CopyLine \/ Flush \/ CloseTemp
          \/ Crash \/ ProxyStarts \/ ProxyEnds
        => conf' = conf /\ (conf = NoFile => tmp' = tmp)
    BY DEF OpenTemp, CopyLine, Flush, CloseTemp, Crash, ProxyStarts, ProxyEnds,
           Inv, PcInv
  <2>6. RemoveConf /\ conf' # NoFile => conf' = conf /\ tmp' = tmp
    BY DEF RemoveConf
  <2> HIDE DEF bar
  <2> QED BY <2>1, <2>2, <2>3, <2>4, <2>5, <2>6 DEF Next, UpdateStep
<1> QED BY <1>1, <1>2, Invariance, PTL DEF Spec, StoreSpec, Store!Spec
=============================================================================
