---------------------------- MODULE MCJwksCache ----------------------------
(***************************************************************************)
(* Requests are interchangeable, and so are keys.                          *)
(***************************************************************************)
EXTENDS JwksCache, TLC

MCSymmetry == Permutations(Requests) \cup Permutations(Keys)
=============================================================================
