-------------------------- MODULE AttributionHistory --------------------------
(***************************************************************************)
(* Attribution on its own, block after block, with a history variable for  *)
(* what the fallback promises: how long a mic has been left out of the     *)
(* ducks of a howl that goes on.                                           *)
(***************************************************************************)
EXTENDS Attribution

CONSTANTS
  QuietTicks,   \* m_quiet_ticks
  WindowTicks   \* m_window_ticks: the attack ramp and 50 ms

ASSUME QuietAssumption == QuietTicks \in 0..KBig
ASSUME WindowAssumption == WindowTicks \in 1..KBig

VARIABLES
  still,  \* blocks since the last trip: the howl went away after QuietTicks
  owed    \* per mic: blocks since this howl first left it out, 0 if it did not

attributionVars == <<episode, tripped, still, owed>>

(* The types of the attribution's variables and of their history. *)
HistoryTypeOK ==
  /\ AttributionTypeOK
  /\ still \in 0..KBig
  /\ owed \in [Mics -> 0..KBig]

(* The howl is gone once the detectors report no trip for the quiet time
   (and for a block at least, where the quiet time is 0). *)
Gone == still' >= QuietNeeded(QuietTicks)

AttributionBlock(raw, near) ==
  /\ Attribute(raw, near, QuietTicks, WindowTicks)
  /\ still' = IF raw = {} THEN Later(still) ELSE 0
  /\ owed' = [m \in Mics |->
                IF Gone \/ m \in tripped' THEN 0
                ELSE IF owed[m] > 0 \/ tripped' # {} THEN Later(owed[m])
                ELSE 0]

AttributionHistoryInit ==
  /\ AttributionInit
  /\ still = KBig
  /\ owed = [m \in Mics |-> 0]

AttributionNext ==
  \E raw \in SUBSET Mics, near \in SUBSET Mics \ {{}} : AttributionBlock(raw, near)

AttributionSpec == AttributionHistoryInit /\ [][AttributionNext]_attributionVars

(* The episode is that of the howl going on (attribute(), m_episode): a mic
   this howl has left out has an episode counting for it, at least as old as
   the debt, whatever trips, silences and changes of the loudest mic came in
   between; and an episode does not outlive its howl, or its age would bring
   the fallback down at the first trip of the next one. *)
EpisodeOfThisHowl ==
  /\ \A m \in Mics : owed[m] > 0 => episode.on /\ owed[m] <= episode.age
  /\ episode.on => still < QuietNeeded(QuietTicks)

(* The fallback comes in time: however the loudest mic changes from trip to
   trip, a howl that goes on leaves no mic out for more than the window. *)
FallbackInTime ==
  [][ tripped' # {} => \A m \in Mics : owed[m] >= WindowTicks => m \in tripped'
    ]_attributionVars

===============================================================================
