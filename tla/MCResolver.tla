------------------------------ MODULE MCResolver ------------------------------
(***************************************************************************)
(* Resolver on small instances; the configurations choose the processes,   *)
(* the endpoints and how much storage changes, fails and how often the     *)
(* process restarts.  Bucket 1 is public and bucket 2 (and 3) private, as  *)
(* in the two-bucket deployments of the documentation.                     *)
(***************************************************************************)
EXTENDS Resolver, TLC

MCPublic == {1}

\* Workers are alike, and so are keys: the safety runs may permute them.
MCSymmetry == Permutations(Workers) \cup Permutations(Keys)
=============================================================================
