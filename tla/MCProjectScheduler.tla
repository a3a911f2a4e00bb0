------------------------ MODULE MCProjectScheduler ------------------------
(* ProjectScheduler under arbitrary callers, with a bounded number of      *)
(* dispatches in one life of the daemon.                                   *)
EXTENDS ProjectScheduler, FiniteSetsExt, TLC

CONSTANT MaxDispatches

MCJobs == 1..3
Dispatches == MapThenSumSet(LAMBDA j : gen[j], Jobs)

MCNext == SchedNext /\ Dispatches' <= MaxDispatches

MCSpec == SchedInit /\ [][MCNext]_schedVars

Symmetry == Permutations(Workers) \cup Permutations(Projects)
              \cup Permutations(Scopes)
=============================================================================
