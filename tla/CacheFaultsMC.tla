---------------------------- MODULE CacheFaultsMC ----------------------------
(* Two scenarios of the translation cache with faults: commands on a cache   *)
(* that has room for one translation, and commands that share a --to         *)
(* directory.  The clock, which ticks before the first command or not at     *)
(* all, tells which of them a behaviour is about.                            *)
EXTENDS TranslationCacheMC

AllCommands == Runs \cup DirMixed

\* The cache sees processes that are killed; the directory, processes that are
\* interrupted and requests, jobs and archives that fail.
EvictingExits == {"none", "OK", "KILLED", "CANT_CREATE", "TEMPFAIL"}
OneScenario ==
  LET evicting == clock = 1 IN
  /\ clock' # clock => started = 0
  /\ \A p \in Procs :
       /\ cmd'[p] \in {None, cmd[p]} \cup IF evicting THEN Runs ELSE DirMixed
       /\ evicting => exit'[p] \in EvictingExits
       /\ exit'[p] = "KILLED" /\ pc[p] \in {"clear", "place"} /\ pc'[p] = "idle" =>
            (staging' = staging <=> evicting)
       /\ evicting /\ pc[p] = "poll" /\ exit'[p] = "TEMPFAIL" => PollStatus(p) = "running"
  /\ evicting => \A j \in Jobs : job'[j].status # "failed"
============================================================================
