------------------------------ MODULE Verdicts ------------------------------
(***************************************************************************)
(* What the commands that have a checker of their own tell their user: the *)
(* external checkers of `with-tlc` and `with-apalache` and the generated   *)
(* models of `wunderspec rust`.  The two kinds of command have no state in *)
(* common: a behaviour of both is one of each.                             *)
(***************************************************************************)
EXTENDS ExternalCheckers, ModelDriver

\* The verdict and the files of with-tlc and with-apalache are those that the checker
\* reported (ExternalCheckers), and `wunderspec rust` succeeds only if its model has
\* (ModelDriver).
VerdictsAreTheCheckers ==
  /\ VerdictIsTheCheckers
  /\ FilesAreItsOwn
  /\ \A c \in Commands : SuccessIsComplete(c)
=============================================================================
