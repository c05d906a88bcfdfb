--------------------------- MODULE MCRateLimiter ---------------------------
(***************************************************************************)
(* Requests are interchangeable.                                           *)
(***************************************************************************)
EXTENDS RateLimiter, TLC

MCSymmetry == Permutations(Requests)
=============================================================================
