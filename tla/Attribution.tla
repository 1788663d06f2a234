----------------------------- MODULE Attribution -----------------------------
(***************************************************************************)
(* Per-mic attribution of detector trips (howl_guard.h, attribute()).      *)
(*                                                                         *)
(* A howl lives in the shared speaker signal, so every residual carries    *)
(* it.  On a block with trips the guard ducks only the mics whose level at *)
(* the shared peak is near the loudest; if that left a mic out and the     *)
(* howl is still there one window later, every mic is ducked (the          *)
(* fallback).  The state between blocks is one EPISODE, shared by all mics.*)
(*                                                                         *)
(* Band levels are abstracted to what they decide: the non-empty set of    *)
(* mics that read near the loudest at the peak band.                       *)
(***************************************************************************)
EXTENDS Naturals, FiniteSets

CONSTANTS
  Mics,   \* the microphones
  KBig    \* where every tick counter saturates (k_big)

ASSUME MicsAssumption == IsFiniteSet(Mics) /\ Mics # {}
ASSUME KBigAssumption == KBig \in Nat \ {0}

VARIABLES
  episode,  \* an attribution left a mic out: [on, age, quiet]
  tripped   \* the mics the last block's trips were applied to

(* quiet is a plain count: it only runs while the episode does, and ends it. *)
Episode == [on : BOOLEAN, age : 0..KBig, quiet : Nat]
NoEpisode == [on |-> FALSE, age |-> 0, quiet |-> 0]

Later(n) == IF n < KBig THEN n + 1 ELSE KBig

(* An episode's age is in range; a trip is of known mics. *)
AttributionTypeOK ==
  /\ episode \in Episode
  /\ tripped \in SUBSET Mics

AttributionInit ==
  /\ episode = NoEpisode
  /\ tripped = {}

(***************************************************************************)
(* The age of an episode counts blocks: update() attributes, then render() *)
(* ages an episode that is (still) on.                                     *)
(***************************************************************************)
Aged(e) == IF e.on THEN [e EXCEPT !.age = Later(@)] ELSE e

QuietNeeded(quietTicks) == IF quietTicks > 1 THEN quietTicks ELSE 1

(* Mutant: the run is compared before this block is counted. *)
NoTripLate(quietTicks) ==
  /\ tripped' = {}
  /\ LET q == episode.quiet + 1
     IN episode' = IF episode.on
                   THEN Aged([episode EXCEPT !.quiet = q,
                                             !.on = episode.quiet < QuietNeeded(quietTicks)])
                   ELSE episode

(* A block without a trip: an episode ends after quietTicks of them. *)
NoTrip(quietTicks) ==
  /\ tripped' = {}
  /\ LET q == episode.quiet + 1
     IN episode' = IF episode.on
                   THEN Aged([episode EXCEPT !.quiet = q, !.on = q < QuietNeeded(quietTicks)])
                   ELSE episode

FallbackDue(windowTicks) == episode.on /\ episode.age >= windowTicks

(* A single mic has nobody to be told apart from. *)
TripOnly ==
  /\ Cardinality(Mics) = 1
  /\ tripped' = Mics
  /\ episode' = Aged([episode EXCEPT !.quiet = 0])

(* A mic was left out a window ago and some mic still trips: duck them all. *)
Fallback(windowTicks) ==
  /\ Cardinality(Mics) > 1
  /\ FallbackDue(windowTicks)
  /\ tripped' = Mics
  /\ episode' = [episode EXCEPT !.quiet = 0, !.on = FALSE]

(* Mutant: leaving a mic out restarts an episode that is running. *)
AttributedAfresh(near, windowTicks) ==
  /\ Cardinality(Mics) > 1
  /\ ~ FallbackDue(windowTicks)
  /\ tripped' = near
  /\ LET heard == [episode EXCEPT !.quiet = 0]
     IN episode' = IF near # Mics THEN Aged([heard EXCEPT !.on = TRUE, !.age = 0])
                   ELSE Aged(heard)

(* The mics near the loudest at the shared peak; leaving one out opens an
   episode, unless one is running already. *)
Attributed(near, windowTicks) ==
  /\ Cardinality(Mics) > 1
  /\ ~ FallbackDue(windowTicks)
  /\ tripped' = near
  /\ LET heard == [episode EXCEPT !.quiet = 0]
     IN episode' = IF near # Mics /\ ~ episode.on
                   THEN Aged([heard EXCEPT !.on = TRUE, !.age = 0])
                   ELSE Aged(heard)

Attribute(raw, near, quietTicks, windowTicks) ==
  \/ raw = {} /\ NoTrip(quietTicks)
  \/ raw # {} /\ TripOnly
  \/ raw # {} /\ Fallback(windowTicks)
  \/ raw # {} /\ Attributed(near, windowTicks)

===============================================================================
