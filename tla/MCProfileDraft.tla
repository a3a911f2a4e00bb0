--------------------------- MODULE MCProfileDraft ---------------------------
(* An instance of ProfileDraft: a profile with two workflows, one of which   *)
(* its parent declares with a timeout.                                       *)
EXTENDS ProfileDraft

MCTargets == <<"fast", "slow">>
MCParent == [w \in {"review", "consult"} |->
  IF w = "review" THEN [targets |-> <<"slow">>, max_attempts |-> 2, timeout_s |-> 1] ELSE NoPolicy]
=============================================================================
