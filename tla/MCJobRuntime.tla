---------------------------- MODULE MCJobRuntime ----------------------------
(* Instances of JobRuntime for TLC: two or three jobs, with the dependency *)
(* shapes and the session scopes that tell the admission rules apart.      *)
EXTENDS JobRuntime, TLC

MCJobs == 1..3
MCTwoJobs == 1..2

(* No dependency, one link beside a free job, a chain, a fan-in.           *)
Shapes ==
  LET Shape(links) == [j \in Jobs |-> {i \in Jobs : <<j, i>> \in links}]
  IN {Shape({}), Shape({<<2, 1>>}), Shape({<<2, 1>>, <<3, 2>>}),
      Shape({<<3, 1>>, <<3, 2>>})}

(* Jobs 1 and 2 can overlap when they read; job 3 shares a scope with one. *)
MCInit == Init /\ deps \in Shapes /\ ~SameScope(1, 2)

MCSpec == MCInit /\ [][Next]_vars

Symmetry == Permutations(Workers) \cup Permutations(Projects)
              \cup Permutations(Scopes)
=============================================================================
