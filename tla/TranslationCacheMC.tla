------------------------- MODULE TranslationCacheMC -------------------------
(* Constants of the TranslationCache runs.                                  *)
EXTENDS TranslationCache, Sequences, TLC

CONSTANTS p1, p2

TwoProcs == {p1, p2}
Symmetric == Permutations(TwoProcs)

\* Keys 1 and 2 belong to one specification file, key 3 to another one; 10 is
\* a --to directory.
SpecFiles == <<"a.py", "a.py", "b.py">>

Command(s, k) ==
  [slot |-> s, key |-> k, noCache |-> FALSE, force |-> FALSE, config |-> TRUE,
   build |-> TRUE, runs |-> TRUE]
Afresh(c) == [c EXCEPT !.noCache = TRUE]
Offline(c) == [c EXCEPT !.config = FALSE]

\* run SPEC for each key of the cache
Runs == {Command(k, k) : k \in Keys}
\* ... also without a configuration, or compile --no-build
SharingRuns ==
  Runs \cup {Offline(c) : c \in Runs}
       \cup {[c EXCEPT !.build = FALSE, !.runs = FALSE] : c \in Runs}

OnlyAfresh == {Afresh(c) : c \in Runs}

\* run SPEC --to DIR: reuse, --no-cache, without a configuration, and --force
\* for another specification file
DirMixed ==
  {Command(10, 1), Afresh(Command(10, 1)), Offline(Command(10, 1)),
   [Command(10, 3) EXCEPT !.force = TRUE]}
============================================================================
