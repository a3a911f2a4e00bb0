---------------------------- MODULE MCJobStream ----------------------------
(* TLC instances of JobStream.  The jobs are alike: the first one opened is  *)
(* always the same, which halves the states without a symmetry set.          *)
EXTENDS JobStream

FirstJob == CHOOSE j \in Jobs : TRUE

MCNext == Next /\ (showsLeft = MaxShows => active' \in {NoJob, FirstJob})

MCSpec == Init /\ [][MCNext]_vars
MCFairSpec == MCSpec /\ Fairness
=============================================================================
