----------------------------- MODULE MCAttribution -----------------------------
(***************************************************************************)
(* Three mics, so that the loudest can wander while a third is left out.   *)
(***************************************************************************)
EXTENDS AttributionHistory

ThreeMics == 1..3
===============================================================================
