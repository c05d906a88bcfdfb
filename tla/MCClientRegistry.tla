-------------------------- MODULE MCClientRegistry --------------------------
(* Keys, ids and tasks are interchangeable. *)
EXTENDS ClientRegistry, TLC

MCSymmetry ==
  Permutations(Tasks) \cup Permutations(Ids) \cup Permutations(Digests)
=============================================================================
