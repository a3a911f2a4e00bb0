--------------------------- MODULE MCScheduleLoop ---------------------------
(* ScheduleLoop over every queue of four jobs.                             *)
EXTENDS ScheduleLoop, TLC

MCJobs == 1..4

Symmetry == Permutations(Projects) \cup Permutations(Scopes)
=============================================================================
