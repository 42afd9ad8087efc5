-------------------------- MODULE ExternalCheckers --------------------------
(***************************************************************************)
(* `with-tlc` and `with-apalache` (wunderspec/tlc.py, apalache.py): the    *)
(* files that are generated for a checker, its command, what is read of    *)
(* its output, the verdict that is drawn from it and the files that are    *)
(* kept.  Requests follow each other and may share an output directory.    *)
(*                                                                         *)
(* The checker is external: it reports that the predicate is violated, a   *)
(* deadlock, that nothing is wrong, or that it failed.                     *)
(***************************************************************************)
EXTENDS Integers, FiniteSets, SequencesExt

\* The sets that the successive requests are taken from.
CONSTANT Requests

\* What the options of the two commands say, before they are checked.
CheckerRequests ==
  [tool : {"TLC", "Apalache"}, kind : {"invariant", "temporal", "example"}, maxFindings : Nat,
   outDir : BOOLEAN, keepFiles : BOOLEAN, simulate : BOOLEAN, variants : BOOLEAN]
ASSUME RequestsAssumption == Requests \in Seq(SUBSET CheckerRequests)

VARIABLES
  served,     \* how many requests there have been
  request,    \* the last of them
  stage,      \* how far it is
  files,      \* each file that exists, with the request that wrote it
  report,     \* what the checker printed and how it ended
  result      \* what the command returned
checkerVars == <<served, request, stage, files, report, result>>

NoReport == [code |-> 0, traces |-> <<>>, unread |-> {}, violated |-> FALSE]
NoResult == [outcome |-> "none", artifacts |-> {}, itf |-> {}]
Lesser(m, n) == IF m < n THEN m ELSE n

\* A directory of its own, unless the user names one.
OutputDir == IF request.outDir THEN 0 ELSE served
InDir(names) == {<<OutputDir, name>> : name \in names}
Existing(dir) == {f \in DOMAIN files : f[1] = dir}
Write(names) == [f \in DOMAIN files \cup InDir(names) |-> IF f \in InDir(names) THEN served ELSE files[f]]
RemoveTemporary == IF request.outDir \/ request.keepFiles THEN files
                   ELSE [f \in DOMAIN files \ Existing(OutputDir) |-> files[f]]

Named(name) == <<name, 1>>
Generated ==
  {Named("base"), Named("wrapper")} \cup (IF request.tool = "TLC" THEN {Named("cfg")} ELSE {})
\* Modules that TLC does not have are put beside the specification, if it extends
\* them and they are not there yet.
SupportModules == IF request.tool = "TLC" /\ request.variants THEN {Named("Variants")} ELSE {}
EnsureSupportModules == SupportModules \ {f[2] : f \in Existing(OutputDir)}

\* The jar that is given, of the environment, of the repository, of the cache, or
\* one that is downloaded; "missing" stands for a path that names no file.
JarSituations ==
  [given : {"unset", "missing", "there"}, environment : {"unset", "missing", "there"},
   repository : BOOLEAN, cache : BOOLEAN, download : BOOLEAN]
ResolveJar(at) ==
  IF at.given # "unset" THEN at.given = "there"
  ELSE IF at.environment # "unset" THEN at.environment = "there"
  ELSE at.repository \/ at.cache \/ at.download

JarMayResolve(found) == found \in {ResolveJar(at) : at \in JarSituations}

Directive == IF request.kind = "temporal" THEN "PROPERTY" ELSE "INVARIANT"
\* The flags that decide what the checker may report.
TlcFlags == (IF request.simulate THEN {"-simulate"} ELSE {})
            \cup (IF request.maxFindings > 1 THEN {"-continue"} ELSE {})
ApalacheFlags ==
  IF request.simulate THEN {"simulate"}
  ELSE {"check", "--max-error"} \cup (IF request.maxFindings > 1 THEN {"--view=Vars"} ELSE {})

----------------------------------------------------------------------------

CheckersInit ==
  /\ served = 0
  /\ request = [tool |-> "none"]
  /\ stage = "idle"
  /\ files = <<>>
  /\ report = NoReport
  /\ result = NoResult

\* The checks that come before a file is written; simulation has no temporal
\* properties in Apalache.
Accepted(r) == r.maxFindings >= 1 /\ ~(r.tool = "Apalache" /\ r.kind = "temporal" /\ r.simulate)
Submit ==
  /\ stage = "idle" /\ served < Len(Requests)
  /\ \E r \in Requests[served + 1] : Accepted(r) /\ request' = r
  /\ served' = served + 1
  /\ stage' = "accepted" /\ report' = NoReport /\ result' = NoResult
  /\ UNCHANGED files

\* The modules and the configuration are written, or one of them cannot be generated:
\* then a directory of its own is removed.
Generate ==
  /\ stage = "accepted"
  /\ \/ files' = Write(Generated \cup EnsureSupportModules) /\ stage' = "generated"
     \/ \E written \in {{}, {Named("base")}, Generated} :
          /\ files' = [f \in {g \in DOMAIN files \cup InDir(written) :
                                g[1] # OutputDir \/ request.outDir \/ request.keepFiles} |->
                         IF f \in InDir(written) THEN served ELSE files[f]]
          /\ stage' = "failed"
  /\ UNCHANGED <<served, request, report, result>>

NoJar ==
  /\ stage = "generated"
  /\ JarMayResolve(FALSE)
  /\ files' = RemoveTemporary
  /\ stage' = "failed"
  /\ UNCHANGED <<served, request, report, result>>

\* What the checker may report.  TLC prints a trace for a violation of an invariant and
\* for a deadlock; with -continue it goes on and exits with 0.  A violated temporal
\* property is printed in another form.
Several == IF request.maxFindings > 1 THEN 1..3 ELSE {1}
TlcReports ==
  LET ends(code, traces, violated) ==
        {[code |-> code, traces |-> traces, unread |-> u, violated |-> violated] : u \in SUBSET DOMAIN traces}
      violations == [n \in Several |-> [i \in 1..n |-> "predicate"]]
  IN ends(0, <<>>, FALSE) \cup ends(1, <<>>, FALSE) \cup ends(11, <<"deadlock">>, FALSE)
     \cup IF Directive = "PROPERTY" THEN ends(13, <<>>, TRUE)
          ELSE UNION {ends(IF "-continue" \in TlcFlags THEN 0 ELSE 12, violations[n], TRUE) : n \in Several}
ApalacheReports ==
  LET ends(code, traces, violated) ==
        {[code |-> code, traces |-> traces, unread |-> u, violated |-> violated] : u \in SUBSET DOMAIN traces}
  IN ends(0, <<>>, FALSE) \cup ends(1, <<>>, FALSE)
     \cup UNION {ends(12, [i \in 1..n |-> "predicate"], TRUE) :
                   n \in IF "--view=Vars" \in ApalacheFlags THEN 1..3 ELSE {1}}

\* The process runs to its end; its output is complete when the readers have joined.
ViolationFile(i) == <<"violation", i>>
RunChecker ==
  /\ stage = "generated"
  /\ JarMayResolve(TRUE)
  /\ \E r \in IF request.tool = "TLC" THEN TlcReports ELSE ApalacheReports :
       /\ report' = r
       /\ files' = IF request.tool = "TLC" THEN files
                   ELSE Write({Named("log")} \cup {ViolationFile(i) : i \in DOMAIN r.traces})
  /\ stage' = "ended"
  /\ UNCHANGED <<served, request, result>>

\* The traces that are taken: TLC's are in its output; Apalache's are the files in the
\* order of their numbers.
ViolationFiles == {i \in 1..3 : <<OutputDir, ViolationFile(i)>> \in DOMAIN files}
TracesTaken ==
  IF request.tool = "TLC" THEN 1..Lesser(Len(report.traces), request.maxFindings)
  ELSE {i \in ViolationFiles : Cardinality({j \in ViolationFiles : j <= i}) <= request.maxFindings}
Found == TracesTaken # {}

\* Mutant of Outcome: the exit code is asked before the traces.
OutcomeOfCode ==
  IF report.code = 0 THEN IF request.kind = "example" THEN "example_not_found" ELSE "checked"
  ELSE IF request.kind = "example" /\ Found THEN "example_found" ELSE "violation"
Outcome ==
  IF request.kind = "example" /\ Found THEN "example_found"
  ELSE IF Found \/ report.code # 0 THEN "violation"
  ELSE IF request.kind = "example" THEN "example_not_found" ELSE "checked"

\* Raw traces of TLC, and an ITF trace of each trace that is read; if TLC's output has
\* one that cannot be read, then none is.
RawTraces == IF request.tool = "TLC" THEN {<<"raw", i>> : i \in TracesTaken} ELSE {}
TracesRead ==
  IF request.tool = "TLC" /\ report.unread # {} THEN {} ELSE TracesTaken \ report.unread
ItfTraces == {<<"itf", i>> : i \in 1..Cardinality(TracesRead)}
Conclude ==
  /\ stage = "ended"
  /\ result' = [outcome |-> Outcome,
                artifacts |-> Generated \cup SupportModules \cup RawTraces \cup ItfTraces,
                itf |-> ItfTraces]
  /\ files' = IF Outcome \in {"checked", "example_not_found"} THEN RemoveTemporary
              ELSE Write(RawTraces \cup ItfTraces)
  /\ stage' = "done"
  /\ UNCHANGED <<served, request, report>>

\* The command ends, and the next one may come.
Return ==
  /\ stage \in {"done", "failed"} /\ served < Len(Requests)
  /\ stage' = "idle"
  /\ UNCHANGED <<served, request, files, report, result>>

CheckersNext == Submit \/ Generate \/ NoJar \/ RunChecker \/ Conclude \/ Return
CheckersSpec == CheckersInit /\ [][CheckersNext]_checkerVars

----------------------------------------------------------------------------

\* TLC prints a deadlock in the form of a violation, and counterexamples that Apalache
\* left in a directory are taken for those of the next run there.
Misled ==
  \/ "deadlock" \in ToSet(report.traces)
  \/ \E i \in ViolationFiles : files[<<OutputDir, ViolationFile(i)>>] # served

\* A command succeeds only if the checker did, and says that an example was found or an
\* invariant violated when the checker says so, whatever the exit code and whether or not
\* its traces can be read; of these it reports as many as it was asked for.
VerdictIsTheCheckers ==
  stage = "done" =>
    /\ result.outcome \in {"checked", "example_not_found"} => report.code = 0 /\ ~report.violated
    /\ report.violated =>
         result.outcome = (IF request.kind = "example" THEN "example_found" ELSE "violation")
    /\ result.outcome = "example_found" /\ ~Misled => report.violated
    /\ report.unread = {} /\ ~Misled =>
         Cardinality(result.itf) = Lesser(Len(report.traces), request.maxFindings)
\* What a command returns as files is there and is its own work, and a directory of its own
\* stays only for a finding, a failure of the checker or at the user's wish.
FilesAreItsOwn ==
  /\ stage = "done" =>
       /\ Existing(OutputDir) # {} =>
            /\ InDir(result.artifacts) \subseteq DOMAIN files
            /\ \A f \in InDir(result.artifacts \ SupportModules) : files[f] = served
       /\ ~request.outDir =>
            (Existing(OutputDir) = {} <=> result.outcome \in {"checked", "example_not_found"} /\ ~request.keepFiles)
  /\ stage = "failed" /\ ~request.outDir /\ ~request.keepFiles => Existing(OutputDir) = {}
=============================================================================
