--------------------------- MODULE MCHowlGuardPaced ---------------------------
(***************************************************************************)
(* The instances of MCHowlGuard, for liveness.                             *)
(***************************************************************************)
EXTENDS MCHowlGuard, HowlGuardPaced
===============================================================================
