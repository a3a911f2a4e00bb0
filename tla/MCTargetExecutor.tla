-------------------------- MODULE MCTargetExecutor --------------------------
(* Two jobs that share target 1; the second one may go on to target 2.     *)
EXTENDS TargetExecutor, TLC

MCJobs == 1..2
MCTargets == 1..2
MCCapacity == [t \in MCTargets |-> 1]
MCPlans == {<<1>>, <<1, 2>>}

MCInit ==
  /\ Init /\ job[1].plan = <<1>> /\ job[2].plan = <<1, 2>>
  /\ job[1].scope = CHOOSE s \in Scopes : TRUE  (* the scopes are alike *)

MCSpec == MCInit /\ [][Next]_vars

MCFairSpec == MCSpec /\ Fairness

Symmetry == Permutations(Scopes)
=============================================================================
