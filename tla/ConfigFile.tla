------------------------------ MODULE ConfigFile ------------------------------
(***************************************************************************)
(* The configuration file of simpleProxy on disk: update_config_file step  *)
(* by step, with a failure or a crash at any of them, while the proxy is   *)
(* started and stopped beside it.                                          *)
(*                                                                         *)
(* A file is written through a stdio stream, so the temporary file holds   *)
(* any prefix of what the loop has written until the stream is closed.     *)
(* Writes succeed: the code asks neither fputs nor fclose.                 *)
(***************************************************************************)
EXTENDS ConfigText

CONSTANTS
  InitialFile,   \* texts the file may hold when it is installed or edited
  Wanted,        \* configurations simpleproxy-conf setup may be told to store
  MaxUpdates     \* bound on the runs of setup

ASSUME InitialAssumption == InitialFile \subseteq Text
ASSUME WantedAssumption == Wanted \subseteq Config
ASSUME UpdatesAssumption == MaxUpdates \in Nat

VARIABLES
  first,    \* the text the file had at first
  asked,    \* the configurations asked for so far
  updates,  \* runs of update_config_file so far
  conf,     \* the file at CONF_PATH
  tmp,      \* the file at CONF_PATH.tmp
  pc,       \* where update_config_file is
  cfg,      \* its argument
  copied,   \* lines it has read and written to its stream
  result,   \* what the last update returned
  proxy     \* the configuration the proxy runs with

vars == <<first, asked, updates, conf, tmp, pc, cfg, copied, result, proxy>>
history == <<first, asked, updates>>

Stopped == Unset

Init ==
  /\ first \in InitialFile /\ conf = first /\ tmp = NoFile
  /\ asked = {} /\ updates = 0
  /\ pc = "idle" /\ cfg \in Wanted /\ copied = 0 /\ result = "none"
  /\ proxy = Stopped

-----------------------------------------------------------------------------
\* update_config_file

\* The lines that reach the disk when the first n have been written.
Written(n) == SubSeq(Rewrite(conf, cfg), 1, n)

Fails == pc' = "idle" /\ result' = "failed"

\* Mutant: the temporary file is opened before the configuration is.
OpenTemp_First(c) ==
  /\ pc = "idle" /\ updates < MaxUpdates
  /\ updates' = updates + 1 /\ cfg' = c /\ copied' = 0
  /\ tmp' = <<>>
  /\ IF conf = NoFile THEN Fails /\ UNCHANGED asked
     ELSE pc' = "copy" /\ result' = "none" /\ asked' = asked \cup {c}
  /\ UNCHANGED <<first, conf, proxy>>

\* fopen of the configuration, which must be there, then of the temporary
\* file, which an earlier update may have left behind: it is emptied.
OpenTemp(c) ==
  /\ pc = "idle" /\ updates < MaxUpdates
  /\ updates' = updates + 1 /\ cfg' = c /\ copied' = 0
  /\ \/ Fails /\ UNCHANGED <<asked, tmp>>
     \/ /\ conf # NoFile /\ tmp' = <<>>
        /\ pc' = "copy" /\ result' = "none" /\ asked' = asked \cup {c}
  /\ UNCHANGED <<first, conf, proxy>>

CopyLine ==
  /\ pc = "copy" /\ copied < Len(conf)
  /\ copied' = copied + 1
  /\ UNCHANGED <<conf, tmp, pc, cfg, result, proxy>> /\ UNCHANGED history

\* Mutant: the lines are written into the configuration itself.
Flush_InPlace ==
  /\ pc = "copy"
  /\ \E n \in 1 .. copied : conf' = Written(n) \o SubSeq(conf, n + 1, Len(conf))
  /\ UNCHANGED <<tmp, pc, cfg, copied, result, proxy>> /\ UNCHANGED history

\* A full stdio buffer goes to the disk.
Flush ==
  /\ pc = "copy"
  /\ \E n \in 0 .. copied : n > Len(tmp) /\ tmp' = Written(n)
  /\ UNCHANGED <<conf, pc, cfg, copied, result, proxy>> /\ UNCHANGED history

\* Mutant: the loop leaves before it has written the last line.
CloseTemp_LosesLast ==
  /\ pc = "copy" /\ copied = Len(conf)
  /\ tmp' = Written(copied - 1)
  /\ pc' = "remove"
  /\ UNCHANGED <<conf, cfg, copied, result, proxy>> /\ UNCHANGED history

\* fgets returns NULL and both files are closed.
CloseTemp ==
  /\ pc = "copy" /\ copied = Len(conf)
  /\ tmp' = Written(copied)
  /\ pc' = "remove"
  /\ UNCHANGED <<conf, cfg, copied, result, proxy>> /\ UNCHANGED history

RemoveConf ==
  /\ pc = "remove"
  /\ \/ conf' = NoFile /\ pc' = "rename" /\ UNCHANGED result
     \/ Fails /\ UNCHANGED conf
  /\ UNCHANGED <<tmp, cfg, copied, proxy>> /\ UNCHANGED history

RenameTemp ==
  /\ pc = "rename"
  /\ \/ conf' = tmp /\ tmp' = NoFile /\ pc' = "idle" /\ result' = "ok"
     \/ Fails /\ UNCHANGED <<conf, tmp>>
  /\ UNCHANGED <<cfg, copied, proxy>> /\ UNCHANGED history

\* simpleproxy-conf is killed: the stream's buffer is lost, the files stay.
Crash ==
  /\ pc # "idle"
  /\ pc' = "idle" /\ result' = "none"
  /\ UNCHANGED <<conf, tmp, cfg, copied, proxy>> /\ UNCHANGED history

-----------------------------------------------------------------------------
\* The proxy: main reads the file once, and gives up unless it is complete;
\* systemd starts it again every ten seconds.

ProxyStarts ==
  /\ proxy = Stopped
  /\ check_config(load_config(conf))
  /\ proxy' = load_config(conf)
  /\ UNCHANGED <<conf, tmp, pc, cfg, copied, result>> /\ UNCHANGED history

ProxyEnds ==
  /\ proxy # Stopped /\ proxy' = Stopped
  /\ UNCHANGED <<conf, tmp, pc, cfg, copied, result>> /\ UNCHANGED history

-----------------------------------------------------------------------------
UpdateStep == CopyLine \/ CloseTemp \/ RemoveConf \/ RenameTemp

Next == \/ \E c \in Wanted : OpenTemp(c)
        \/ UpdateStep \/ Flush \/ Crash \/ ProxyStarts \/ ProxyEnds

Spec == Init /\ [][Next]_vars

\* A running setup goes on until it is killed; systemd keeps trying.
FairSpec == Spec /\ WF_vars(UpdateStep) /\ WF_vars(ProxyStarts)

-----------------------------------------------------------------------------
\* Properties

TypeOK ==
  /\ first \in Text /\ asked \subseteq Config /\ updates \in 0 .. MaxUpdates
  /\ conf \in Text \cup {NoFile} /\ tmp \in Text \cup {NoFile}
  /\ pc \in {"idle", "copy", "remove", "rename"}
  /\ cfg \in Config /\ copied \in Nat
  /\ result \in {"none", "failed", "ok"}
  /\ proxy \in [Key -> Value \cup {Unset}] \cup {Stopped}

\* A whole text: the first one, or the first one with one of the requested
\* configurations in it and everything else as it was.
Whole(file) == file = first \/ \E c \in asked : file = Rewrite(first, c)

\* No crash, failure or repetition of an update leaves a mixture: the file is
\* whole, or it is gone and the temporary file is whole.  The second half is
\* what the order of the two fopen calls protects.
NothingLost ==
  IF conf = NoFile THEN tmp # NoFile /\ Whole(tmp) ELSE Whole(conf)

\* After an update that returned true, load_config finds the new value of
\* every key the file mentions, also of a key that is set twice.
SuccessIsLoaded ==
  result = "ok" =>
    \A k \in Key : LinesOf(first, k) # {} =>
      load_config(conf)[k] = Parse[k, cfg[k]]

\* What a running proxy read is one whole configuration, never part of one
\* and part of another, however its start and the update interleave.
RunsOnWhole ==
  proxy # Stopped =>
    \/ proxy = load_config(first)
    \/ \E c \in asked : proxy = load_config(Rewrite(first, c))

\* The two files together hold one text that changes by whole updates only.
\* The update takes effect when the old file is removed.
Store == INSTANCE ConfigStore WITH
           text <- IF conf = NoFile THEN tmp ELSE conf
StoreSpec == Store!Spec

\* A proxy that has ended comes back, whatever an update does meanwhile,
\* unless an update stopped between remove and rename: the file is then gone
\* for good, for no later update brings it back.
ProxyReturns ==
  (proxy = Stopped) ~> (proxy # Stopped \/ [](conf = NoFile))
=============================================================================
