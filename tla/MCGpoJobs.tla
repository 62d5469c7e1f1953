----------------------------- MODULE MCGpoJobs -----------------------------
(***************************************************************************)
(* Instances of GpoJobs for TLC: one controller executes all jobs.  The    *)
(* users are interchangeable.                                              *)
(***************************************************************************)
EXTENDS GpoJobs, TLC

CONSTANTS d1, i1, c1, p1

OneController == [j \in Jobs |-> d1]
AnyUser == Permutations(Users)

=============================================================================
