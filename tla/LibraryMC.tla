------------------------------ MODULE LibraryMC ------------------------------
(* The parts of the library that have no state in common, each on an        *)
(* instance of its own: `topic` is the part that a behaviour is about, and  *)
(* the variables of the others keep what Init gives them.                   *)
EXTENDS ActionContextsMC, MachineState, Verdicts, RandomWalkMC, Flow

VARIABLES topic, draft, node, value, left, right

Scripts == INSTANCE QuintMC
Formats == INSTANCE ValueFormatsMC WITH FingerprintWidth <- 3
Sets == INSTANCE SetValuesMC WITH MaterializationBound <- 3, DrawBound <- 4

\* A first request leaves its files in the user's directory, and one of any kind follows.
FirstRequest ==
  [tool : {"TLC", "Apalache"}, kind : {"invariant"}, maxFindings : {2}, outDir : {TRUE},
   keepFiles : {FALSE}, simulate : {FALSE}, variants : {TRUE}]
AnyRequest ==
  [tool : {"TLC", "Apalache"}, kind : {"invariant", "temporal", "example"}, maxFindings : {1, 2},
   outDir : BOOLEAN, keepFiles : BOOLEAN, simulate : BOOLEAN, variants : {TRUE}]
TwoRequests == <<FirstRequest, AnyRequest>>

\* Two commands in one project, in any pair of kinds.
Pairs ==
  {<<"check", "check">>, <<"check", "run">>, <<"check", "replay">>, <<"run", "run">>, <<"run", "replay">>,
   <<"replay", "replay">>}

\* What earlier commands have left: schedules in every place.  In the project, it is where
\* a check with two findings writes, and one with fewer does not.
Leaving == {{<<"project", 1>>, <<"cwd", 0>>, <<"named", 0>>}}

actionVars == vars
scriptVars == <<draft, node, value>>
setVars == <<left, right>>
libraryVars ==
  <<topic, actionVars, scriptVars, setVars, walkVars, flowVars, machineVars, checkerVars, driverVars>>

\* What identifies a state: no step reads what commands have printed.
View ==
  <<topic, actionVars, scriptVars, setVars, walkVars, flowVars, machineVars, checkerVars, command,
    inDirectory, options, progress, target, findings, process, disk, alone>>

Idle == <<"idle">>
LibraryInit ==
  /\ topic \in {"actions", "scripts", "sets", "values", "walks", "flows", "states", "checkers", "driver"}
  /\ Init
  /\ IF topic = "scripts" THEN Scripts!Init \/ Scripts!QuintInit ELSE draft = Idle /\ node = Idle /\ value = Idle
  /\ CASE topic = "sets" -> Sets!Init
       [] topic = "values" -> Formats!Init
       [] OTHER -> left = Idle /\ right = Idle
  /\ FlowInit
  /\ MachineInit
  /\ CheckersInit
  /\ IF topic = "driver" THEN TRUE ELSE inDirectory = TRUE /\ command = CHOOSE pair \in Given : TRUE
  /\ DriverInit
  /\ IF topic = "walks" THEN TRUE
     ELSE machine = (CHOOSE m \in Machines : TRUE) /\ phase = "walking"
  /\ WalkInit

NotScripts == UNCHANGED scriptVars
NotActions == UNCHANGED actionVars
NotSets == UNCHANGED setVars
NotWalks == UNCHANGED walkVars
NotFlows == UNCHANGED flowVars
NotStates == UNCHANGED machineVars
NotCheckers == UNCHANGED <<checkerVars, driverVars>>

OnlyActions ==
  /\ UNCHANGED topic /\ NotScripts /\ NotSets /\ NotWalks
  /\ NotFlows /\ NotStates /\ NotCheckers
OnlyScripts ==
  /\ UNCHANGED topic /\ NotActions /\ NotSets /\ NotWalks
  /\ NotFlows /\ NotStates /\ NotCheckers
OnlySets ==
  /\ UNCHANGED topic /\ NotActions /\ NotScripts /\ NotWalks
  /\ NotFlows /\ NotStates /\ NotCheckers
OnlyWalks ==
  /\ UNCHANGED topic /\ NotActions /\ NotScripts /\ NotSets
  /\ NotFlows /\ NotStates /\ NotCheckers
OnlyFlows ==
  /\ UNCHANGED topic /\ NotActions /\ NotScripts /\ NotSets
  /\ NotWalks /\ NotStates /\ NotCheckers
OnlyStates ==
  /\ UNCHANGED topic /\ NotActions /\ NotScripts /\ NotSets
  /\ NotWalks /\ NotFlows /\ NotCheckers
OnlyCheckers ==
  /\ UNCHANGED <<topic, driverVars>> /\ NotActions /\ NotScripts /\ NotSets
  /\ NotWalks /\ NotFlows /\ NotStates
OnlyDriver ==
  /\ UNCHANGED <<topic, checkerVars>> /\ NotActions /\ NotScripts /\ NotSets
  /\ NotWalks /\ NotFlows /\ NotStates

\* The actions of this instance assign samples to x only, cache no cached values, and
\* have conditions on x.
LibraryNext ==
  \/ topic = "actions" /\ \E o \in Operands : Assign("x", o, Added(o)) /\ OnlyActions
  \/ topic = "actions" /\ \E o \in Operands \ {"sample"} : Assign("y", o, Added(o)) /\ OnlyActions
  \/ topic = "actions" /\ Assume("x") /\ OnlyActions
  \/ topic = "actions" /\ \E o \in Uncached : Cache(o) /\ OnlyActions
  \/ topic = "actions" /\ \E o \in Operands : OneOf(o) /\ OnlyActions
  \/ topic = "actions" /\ Split("x") /\ OnlyActions
  \/ topic = "actions" /\ Alternatives /\ OnlyActions
  \/ topic = "actions" /\ EndOneOf /\ OnlyActions
  \/ topic = "actions" /\ EnterAlternative /\ OnlyActions
  \/ topic = "actions" /\ ExitAlternative /\ OnlyActions
  \/ topic = "actions" /\ Build /\ OnlyActions
  \/ topic = "scripts" /\ Scripts!Write /\ OnlyScripts
  \/ topic = "scripts" /\ Scripts!ToTla /\ OnlyScripts
  \/ topic = "scripts" /\ Scripts!Convert /\ OnlyScripts
  \/ topic = "scripts" /\ Scripts!ConvertAction /\ OnlyScripts
  \/ topic = "sets" /\ Sets!Meet /\ OnlySets
  \/ topic = "values" /\ Formats!Take /\ OnlySets
  \/ topic = "walks" /\ Attempt /\ OnlyWalks
  \/ topic = "walks" /\ EndTrace /\ OnlyWalks
  \/ topic = "walks" /\ Check /\ OnlyWalks
  \/ topic = "walks" /\ TimeOut /\ OnlyWalks
  \/ topic = "walks" /\ Replay /\ OnlyWalks
  \/ topic = "flows" /\ If /\ OnlyFlows
  \/ topic = "flows" /\ ElseBlock /\ OnlyFlows
  \/ topic = "flows" /\ Else /\ OnlyFlows
  \/ topic = "flows" /\ FlowReturn /\ OnlyFlows
  \/ topic = "flows" /\ Leave /\ OnlyFlows
  \/ topic = "flows" /\ End /\ OnlyFlows
  \/ topic = "states" /\ \E f \in MachineFields : SetField(f) /\ OnlyStates
  \/ topic = "states" /\ \E f \in MachineFields, k \in ObjectKeys : SetKey(f, k) /\ OnlyStates
  \/ topic = "states" /\ Editing /\ OnlyStates
  \/ topic = "states" /\ \E i \in Sessions, f \in MachineFields, k \in ObjectKeys : EditKey(i, f, k) /\ OnlyStates
  \/ topic = "states" /\ \E i \in Sessions, f \in MachineFields : EditField(i, f) /\ OnlyStates
  \/ topic = "states" /\ EndEditing /\ OnlyStates
  \/ topic = "states" /\ OpenAlternatives /\ OnlyStates
  \/ topic = "states" /\ EnterArm /\ OnlyStates
  \/ topic = "states" /\ ExitArm /\ OnlyStates
  \/ topic = "states" /\ Commit /\ OnlyStates
  \/ topic = "checkers" /\ Submit /\ OnlyCheckers
  \/ topic = "checkers" /\ Generate /\ OnlyCheckers
  \/ topic = "checkers" /\ NoJar /\ OnlyCheckers
  \/ topic = "checkers" /\ RunChecker /\ OnlyCheckers
  \/ topic = "checkers" /\ Conclude /\ OnlyCheckers
  \/ topic = "checkers" /\ Return /\ OnlyCheckers
  \/ topic = "driver" /\ \E c \in Commands : RefuseOptions(c) /\ OnlyDriver
  \/ topic = "driver" /\ \E c \in Commands : Translate(c) /\ OnlyDriver
  \/ topic = "driver" /\ \E c \in Commands : PrepareRun(c) /\ OnlyDriver
  \/ topic = "driver" /\ \E c \in Commands : PrepareCheck(c) /\ OnlyDriver
  \/ topic = "driver" /\ \E c \in Commands : PrepareReplay(c) /\ OnlyDriver
  \/ topic = "driver" /\ \E c \in Commands : StartModel(c) /\ OnlyDriver
  \/ topic = "driver" /\ \E c \in Commands : Find(c) /\ OnlyDriver
  \/ topic = "driver" /\ \E c \in Commands : EndModel(c) /\ OnlyDriver
  \/ topic = "driver" /\ \E c \in Commands : ReportRejected(c) /\ OnlyDriver
  \/ topic = "driver" /\ \E c \in Commands : ReportCheck(c) /\ OnlyDriver
  \/ topic = "driver" /\ \E c \in Commands : ReportRun(c) /\ OnlyDriver
  \/ topic = "driver" /\ \E c \in Commands : ReportReplay(c) /\ OnlyDriver

LibrarySpec == LibraryInit /\ [][LibraryNext]_libraryVars

\* A built action binds the names that it uses and agrees with its native execution
\* (ActionContexts).
BuiltActionsAgree == NamesAreBound /\ AgreesWithoutStaleReads
\* An expression that the API accepts evaluates to a value of the sort that the
\* API gave it, or to an error that the script itself contains (ScriptsMC).
AcceptedScriptsEvaluate == topic = "scripts" => Scripts!AcceptedScriptsEvaluate
\* The interpreter's value of a script is the one that the script means (ScriptsMC).
ScriptsMeanWhatTheySay == topic = "scripts" => Scripts!ScriptsMeanWhatTheySay
\* The TLA+ of an expression means what the interpreter computes (ScriptsMC).
ConvertedExpressionsAgree == topic = "scripts" => Scripts!ConvertedExpressionsAgree
\* What the API builds passes through the transfer format unchanged (ScriptsMC).
ExportedIsImported == topic = "scripts" => Scripts!ExportedIsImported
\* The lazy set values compute what the sets that they stand for give (SetValuesMC).
SetOperationsAgree == topic = "sets" => Sets!SetOperationsAgree
\* Values are equal, and have one fingerprint, exactly when they stand for one set
\* (SetValuesMC) or are one value, as which they are shown and handed to Python
\* (ValueFormatsMC).
EqualValuesAreOneState ==
  /\ topic = "sets" => Sets!EqualSetsAreOneState
  /\ topic = "values" => Formats!EqualValuesAreOneState
\* A value that is written to a schedule, printed by TLC or Apalache, or handed to Python
\* is the same value when it is read back (ValueFormatsMC).
ValuesReadBack == topic = "values" => Formats!ValuesReadBack
\* Draws from a set value stay in it and reach each element of it (SetValuesMC).
DrawsCoverTheSet == topic = "sets" => Sets!DrawsCoverTheSet
=============================================================================
