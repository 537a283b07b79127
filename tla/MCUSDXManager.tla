---------------------------- MODULE MCUSDXManager ----------------------------
(***************************************************************************)
(* Instances of USDXManager for TLC.  Each configuration opens one part of *)
(* the contract wide and keeps the rest narrow.                            *)
(***************************************************************************)
EXTENDS USDXManagerRefinement, TLC

\* The users are interchangeable.
UserSymmetry == Permutations(Users)
=============================================================================
