--------------------------- MODULE ConfigTextProofs ---------------------------
(***************************************************************************)
(* Facts about load_config and the rewriting of a text, for all keys and   *)
(* values.                                                                 *)
(***************************************************************************)
EXTENDS ConfigText, TLAPS, SequenceTheorems, WellFoundedInduction

\* Rewriting keeps the number of lines and gives a text.
LEMMA RewriteIsText ==
  ASSUME NEW file \in Text, NEW c \in Config
  PROVE  /\ Rewrite(file, c) \in Text
         /\ Len(Rewrite(file, c)) = Len(file)
         /\ DOMAIN Rewrite(file, c) = DOMAIN file
<1>1. DOMAIN file = 1 .. Len(file) /\ Len(file) \in Nat
  BY LenProperties DEF Text
<1>2. \A i \in 1 .. Len(file) : file[i] \in Line
  BY ElementOfSeq DEF Text
<1>3. \A i \in 1 .. Len(file) : Rewrite(file, c)[i] \in Line
  BY <1>1, <1>2 DEF Rewrite, Line, Config
<1>4. Rewrite(file, c) = [i \in 1 .. Len(file) |-> Rewrite(file, c)[i]]
  BY <1>1 DEF Rewrite
<1>5. Rewrite(file, c) \in Text
  BY <1>1, <1>3, <1>4, IsASeq DEF Text
<1> QED BY <1>1, <1>4, <1>5, LenProperties DEF Text

\* A second rewriting leaves nothing of the first.
LEMMA RewriteAgain ==
  ASSUME NEW file \in Text, NEW b \in Config, NEW c \in Config
  PROVE  Rewrite(Rewrite(file, b), c) = Rewrite(file, c)
<1>1. DOMAIN Rewrite(file, b) = DOMAIN file
  BY RewriteIsText
<1>2. \A i \in DOMAIN file :
        /\ Rewrite(file, b)[i].key = file[i].key
        /\ file[i].key \notin Key => Rewrite(file, b)[i] = file[i]
  BY DEF Rewrite
<1> QED BY <1>1, <1>2 DEF Rewrite

\* A key that has a line has a last one.
LEMMA LastLineExists ==
  ASSUME NEW file \in Text, NEW k \in Key, LinesOf(file, k) # {}
  PROVE  LastLine(file, k) \in LinesOf(file, k)
<1> DEFINE n == Len(file)
           L == LinesOf(file, k)
           D == {d \in Nat : n - d \in L}
<1>1. n \in Nat /\ L \subseteq 1 .. n
  BY LenProperties DEF Text, LinesOf
<1>2. D # {}
  <2>1. PICK i \in L : TRUE
    OBVIOUS
  <2>2. n - i \in Nat /\ n - (n - i) = i
    BY <1>1, <2>1
  <2> QED BY <2>1, <2>2
<1>3. PICK d \in D : \A e \in D : ~(<<e, d>> \in OpToRel(<, Nat))
  <2>1. D \subseteq Nat
    OBVIOUS
  <2>2. IsWellFoundedOn(OpToRel(<, Nat), Nat)
    BY NatLessThanWellFounded
  <2> HIDE DEF D
  <2> QED BY <1>2, <2>1, <2>2, WFMin
<1>4. \A e \in D : d <= e
  <2> SUFFICES ASSUME NEW e \in D, e < d
               PROVE  FALSE
    OBVIOUS
  <2>1. <<e, d>> \in {ss \in Nat \X Nat : ss[1] < ss[2]}
    OBVIOUS
  <2> QED BY <1>3, <2>1, Zenon DEF OpToRel
<1>5. \A j \in L : j <= n - d
  <2> TAKE j \in L
  <2>1. j \in Nat /\ n - j \in Nat /\ n - (n - j) = j
    BY <1>1
  <2>2. d <= n - j
    BY <1>4, <2>1
  <2> QED BY <1>1, <2>1, <2>2
<1>6. n - d \in L
  OBVIOUS
<1> HIDE DEF L, D, n
<1>7. \E i \in L : \A j \in L : j <= i
  BY <1>5, <1>6
<1> QED BY <1>7 DEF LastLine, L

\* After a rewriting, load_config reads the new value of every key that has
\* a line.
LEMMA LoadRewritten ==
  ASSUME NEW file \in Text, NEW c \in Config, NEW k \in Key,
         LinesOf(file, k) # {}
  PROVE  load_config(Rewrite(file, c))[k] = Parse[k, c[k]]
<1> DEFINE new == Rewrite(file, c)
           i == LastLine(new, k)
<1>1. new \in Text /\ new # NoFile
  BY RewriteIsText, NoFileAssumption
<1>2. LinesOf(new, k) = LinesOf(file, k)
  BY RewriteIsText DEF LinesOf, Rewrite
<1>3. i \in LinesOf(new, k)
  BY <1>1, <1>2, LastLineExists
<1>4. new[i].val = c[k]
  BY <1>2, <1>3 DEF LinesOf, Rewrite
<1> QED BY <1>1, <1>2, <1>4 DEF load_config

\* What load_config makes of a text or of a missing file has a configuration's
\* type.
LEMMA LoadIsConfig ==
  ASSUME NEW file \in Text \cup {NoFile}
  PROVE  load_config(file) \in [Key -> Value \cup {Unset}]
<1> SUFFICES ASSUME NEW k \in Key
             PROVE  load_config(file)[k] \in Value \cup {Unset}
  BY DEF load_config
<1>1. CASE file # NoFile /\ LinesOf(file, k) # {}
  <2>1. LastLine(file, k) \in LinesOf(file, k)
    BY <1>1, LastLineExists
  <2>2. file[LastLine(file, k)] \in Line
    BY <1>1, <2>1, ElementOfSeq, LenProperties DEF LinesOf, Text
  <2>3. file[LastLine(file, k)].val \in Value
    BY <2>2 DEF Line
  <2> QED BY <1>1, <2>3, ParseAssumption DEF load_config
<1>2. CASE ~(file # NoFile /\ LinesOf(file, k) # {})
  BY <1>2, ZeroAssumption DEF load_config, create_default_config
<1> QED BY <1>1, <1>2
=============================================================================
