---------------------------- MODULE MCHowlDetector ----------------------------
(***************************************************************************)
(* A small detector for TLC: three bands, a window of three ticks, three   *)
(* levels of envelope, 6 dB apart.                                         *)
(***************************************************************************)
EXTENDS HowlDetectorHistory

(* One line over a floor, at 6 or 12 dB in any band; and the floor alone. *)
OneLine == {[b \in 1..3 |-> IF b = at THEN height ELSE 1] : at \in 1..3, height \in {1, 2, 4}}
Log2(e) == CASE e = 1 -> 0 [] e = 2 -> 1 [] e = 4 -> 2

Loudness == {1, 2, 3}
(* The one-pole tracker moves towards the power, and not past it. *)
Towards(p, pw) == IF pw > p THEN p + 1 ELSE IF pw < p THEN p - 1 ELSE p

(* Two onsets of 6 dB fall short of the rise of 6 (in units of the slope): the
   hypothesis under which OnsetNeverTrips is proved holds here. *)
ASSUME OnsetsFallShort
===============================================================================
