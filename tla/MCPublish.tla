------------------------------- MODULE MCPublish -------------------------------
(* Small instances of Publish: up to two publications and three subscribers. *)
EXTENDS Publish, TLC

CONSTANTS p1, p2, s1, s2, s3

(* Publications are interchangeable, and so are subscribers of one kind.   *)
Alike == Subscribers \ (SyncForm \cup Exiting)
PublicationSymmetry ==
  Permutations(Publications \cup Alike) \cap
    {f @@ g : f \in Permutations(Publications), g \in Permutations(Alike)}
===============================================================================
