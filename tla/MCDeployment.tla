----------------------------- MODULE MCDeployment -----------------------------
(***************************************************************************)
(* Instances of Deployment for TLC.                                        *)
(***************************************************************************)
EXTENDS Deployment

\* The constant deploy/mainnet_constants.ts lacks, set to the guardian.
GuardianOMMF == Guardian
=============================================================================
