----------------------------- MODULE MCJobScreen -----------------------------
(* Two projects; both jobs belong to the first, so a route to the second    *)
(* names a job of another project.  The jobs are alike, and to a query only  *)
(* whether one is selected matters, so the second job is first opened after  *)
(* the first one, and only when the job is watched.                          *)
EXTENDS JobScreen

MCProjects == {"p1", "p2"}
MCOwner == [j \in Jobs |-> "p1"]

FirstJob == CHOOSE j \in Jobs : TRUE
Alike == { at \in Routes : at.job \in {NoJob, FirstJob} }

MCInit == Init /\ route \in Alike /\ (watched = "project" => route.job = NoJob)

MCNext ==
  /\ Next
  /\ route'.job \notin {NoJob, FirstJob} => route.job = FirstJob /\ watched = "job"
  /\ watched = "project" => route'.job = NoJob /\ ~hidden'
  /\ watched # "job" => \A j \in Jobs \ {FirstJob} : version'[j] < MaxVersion

MCSpec == MCInit /\ [][MCNext]_vars
MCFairSpec == MCSpec /\ Fairness
=============================================================================
