-------------------------- MODULE AttributionProofs --------------------------
(***************************************************************************)
(* The fallback of the attribution comes in time, for any number of mics,  *)
(* quiet time and window, and its episodes are those of the howl going on. *)
(* The inductive invariant adds to EpisodeOfThisHowl that a running episode *)
(* has counted the very blocks since the last trip.                        *)
(***************************************************************************)
EXTENDS AttributionHistory, TLAPS

AttributionInv ==
  /\ HistoryTypeOK
  /\ EpisodeOfThisHowl
  /\ episode.on => episode.quiet = still

(* What EpisodeOfThisHowl says of the debts. *)
LEMMA DebtHasEpisode ==
  ASSUME AttributionInv, NEW m \in Mics
  PROVE  owed[m] > 0 => episode.on /\ owed[m] <= episode.age
  BY DEF AttributionInv, EpisodeOfThisHowl

LEMMA NeededFacts ==
  /\ QuietNeeded(QuietTicks) \in 1..KBig
  BY QuietAssumption, KBigAssumption DEF QuietNeeded

LEMMA LaterFacts ==
  ASSUME NEW n \in 0..KBig
  PROVE  Later(n) \in 0..KBig /\ Later(n) > 0 /\ Later(n) >= n
  BY KBigAssumption DEF Later

LEMMA LaterMonotone ==
  ASSUME NEW i \in 0..KBig, NEW j \in 0..KBig, i <= j
  PROVE  Later(i) <= Later(j)
  BY KBigAssumption DEF Later

LEMMA AgedFacts ==
  ASSUME NEW e \in Episode
  PROVE  /\ Aged(e) \in Episode
         /\ Aged(e).on = e.on
         /\ Aged(e).quiet = e.quiet
         /\ e.on => Aged(e).age = Later(e.age)
<1>1. e.age \in 0..KBig
  BY DEF Episode
<1>2. Later(e.age) \in 0..KBig
  BY <1>1, LaterFacts
<1>3. QED
  BY <1>2 DEF Aged, Episode

LEMMA InitAttribution == AttributionHistoryInit => AttributionInv
  BY KBigAssumption DEF AttributionHistoryInit, AttributionInit, AttributionInv,
     HistoryTypeOK, AttributionTypeOK, EpisodeOfThisHowl, NoEpisode, Episode

(* A block without trips: the debts and the episode age together, and end
   together once the howl is gone. *)
LEMMA NoTripInv ==
  ASSUME AttributionInv, NoTrip(QuietTicks), still' = Later(still),
         owed' = [m \in Mics |->
                    IF Gone \/ m \in tripped' THEN 0
                    ELSE IF owed[m] > 0 \/ tripped' # {} THEN Later(owed[m])
                    ELSE 0]
  PROVE  AttributionInv'
<1> DEFINE q == episode.quiet + 1
           needed == QuietNeeded(QuietTicks)
           e == [episode EXCEPT !.quiet = q, !.on = q < needed]
<1>1. /\ episode \in Episode /\ still \in 0..KBig /\ owed \in [Mics -> 0..KBig]
      /\ episode.quiet \in Nat /\ episode.age \in 0..KBig
  BY DEF AttributionInv, HistoryTypeOK, AttributionTypeOK, Episode
<1>2. still' \in 0..KBig /\ still' > 0 /\ q \in Nat /\ needed \in 1..KBig
  BY <1>1, LaterFacts, NeededFacts
<1>3. tripped' = {} /\ episode' = IF episode.on THEN Aged(e) ELSE episode
  BY DEF NoTrip
<1>4. Gone <=> ~ (still' < needed)
  BY <1>2 DEF Gone
<1>5. owed' \in [Mics -> 0..KBig]
  <2>1. \A m \in Mics : Later(owed[m]) \in 0..KBig
    BY <1>1, LaterFacts
  <2>2. 0 \in 0..KBig
    BY KBigAssumption
  <2>3. QED
    BY <2>1, <2>2
<1>6. CASE ~ episode.on
  <2>1. episode' = episode
    BY <1>3, <1>6
  <2>2. \A m \in Mics : owed[m] = 0
    BY <1>1, <1>6, DebtHasEpisode
  <2>3. \A m \in Mics : owed'[m] = 0
    BY <1>3, <2>2
  <2>4. QED
    BY <1>1, <1>2, <1>3, <1>5, <1>6, <2>1, <2>3
       DEF AttributionInv, HistoryTypeOK, AttributionTypeOK, EpisodeOfThisHowl
<1>7. CASE episode.on
  <2>1. q = still' /\ (q < needed) \in BOOLEAN
    <3>1. episode.quiet = still /\ still < needed
      BY <1>7 DEF AttributionInv, EpisodeOfThisHowl
    <3> HIDE DEF needed
    <3>2. still < KBig
      BY <1>1, <1>2, <3>1, KBigAssumption
    <3>3. still' = still + 1
      BY <3>2 DEF Later
    <3>4. QED
      BY <3>1, <3>3
  <2>2. e \in Episode /\ e.quiet = q /\ e.age = episode.age
    <3> HIDE DEF q, needed
    <3>1. QED
      BY <1>1, <1>2, <2>1 DEF Episode
  <2>3. e.on <=> q < needed
    <3> HIDE DEF q, needed
    <3>1. QED
      BY <1>1, <2>1 DEF Episode
  <2> HIDE DEF e
  <2>4. episode' = Aged(e)
    BY <1>3, <1>7
  <2>5. /\ episode' \in Episode /\ episode'.quiet = still'
        /\ episode'.on <=> ~ Gone
        /\ episode'.on => episode'.age = Later(episode.age)
    <3> HIDE DEF q, needed
    <3>1. QED
      BY <1>4, <2>1, <2>2, <2>3, <2>4, AgedFacts
  <2>6. ASSUME NEW m \in Mics, owed'[m] > 0
        PROVE  episode'.on /\ owed'[m] <= episode'.age
    <3>1. ~ Gone /\ owed[m] > 0 /\ owed'[m] = Later(owed[m])
      BY <1>3, <2>6
    <3>2. owed[m] <= episode.age /\ owed[m] \in 0..KBig
      BY <1>1, <3>1, DebtHasEpisode
    <3>3. QED
      BY <1>1, <2>5, <3>1, <3>2, LaterMonotone
  <2>7. episode'.on => still' < needed
    BY <1>4, <2>5
  <2>8. QED
    BY <1>2, <1>3, <1>5, <2>5, <2>6, <2>7
       DEF AttributionInv, HistoryTypeOK, AttributionTypeOK, EpisodeOfThisHowl
<1>8. QED
  BY <1>6, <1>7

(* A block with trips that ducks every mic settles every debt. *)
LEMMA AllTrippedInv ==
  ASSUME AttributionInv, TripOnly \/ Fallback(WindowTicks), still' = 0,
         owed' = [m \in Mics |->
                    IF Gone \/ m \in tripped' THEN 0
                    ELSE IF owed[m] > 0 \/ tripped' # {} THEN Later(owed[m])
                    ELSE 0]
  PROVE  AttributionInv'
<1>1. episode \in Episode /\ 0 \in 0..KBig
  BY KBigAssumption DEF AttributionInv, HistoryTypeOK, AttributionTypeOK
<1>2. tripped' = Mics
  BY DEF TripOnly, Fallback
<1>3. \A m \in Mics : owed'[m] = 0
  BY <1>2
<1>4. owed' \in [Mics -> 0..KBig]
  BY <1>1, <1>3
<1>5. episode' \in Episode /\ (episode'.on => episode'.quiet = 0)
  <2>1. CASE TripOnly
    <3>1. [episode EXCEPT !.quiet = 0] \in Episode /\ [episode EXCEPT !.quiet = 0].quiet = 0
      BY <1>1 DEF Episode
    <3>2. QED
      BY <2>1, <3>1, AgedFacts DEF TripOnly
  <2>2. CASE Fallback(WindowTicks)
    BY <1>1, <2>2 DEF Fallback, Episode
  <2>3. QED
    BY <2>1, <2>2
<1>6. EpisodeOfThisHowl'
  BY <1>3, NeededFacts DEF EpisodeOfThisHowl
<1>7. QED
  BY <1>1, <1>2, <1>4, <1>5, <1>6 DEF AttributionInv, HistoryTypeOK, AttributionTypeOK

(* A block with trips that leaves a mic out has an episode running. *)
LEMMA AttributedInv ==
  ASSUME AttributionInv, NEW near \in SUBSET Mics \ {{}},
         Attributed(near, WindowTicks), still' = 0,
         owed' = [m \in Mics |->
                    IF Gone \/ m \in tripped' THEN 0
                    ELSE IF owed[m] > 0 \/ tripped' # {} THEN Later(owed[m])
                    ELSE 0]
  PROVE  AttributionInv'
<1> DEFINE heard == [episode EXCEPT !.quiet = 0]
           opened == [heard EXCEPT !.on = TRUE, !.age = 0]
<1>1. /\ episode \in Episode /\ owed \in [Mics -> 0..KBig] /\ 0 \in 0..KBig
      /\ episode.age \in 0..KBig
  BY KBigAssumption DEF AttributionInv, HistoryTypeOK, AttributionTypeOK, Episode
<1>2. /\ heard \in Episode /\ heard.quiet = 0
      /\ heard.on = episode.on /\ heard.age = episode.age
  BY <1>1 DEF Episode
<1>3. opened \in Episode /\ opened.quiet = 0 /\ opened.on = TRUE /\ opened.age = 0
  <2> HIDE DEF heard
  <2>1. QED
    BY <1>1, <1>2 DEF Episode
<1>4. /\ tripped' = near
      /\ episode' = IF near # Mics /\ ~ episode.on THEN Aged(opened) ELSE Aged(heard)
  BY DEF Attributed
<1> HIDE DEF heard, opened
<1>5. ~ Gone
  BY NeededFacts DEF Gone
<1>6. episode' \in Episode /\ episode'.quiet = 0
  BY <1>2, <1>3, <1>4, AgedFacts
<1>7. owed' \in [Mics -> 0..KBig]
  BY <1>1, LaterFacts
<1>8. ASSUME NEW m \in Mics, owed'[m] > 0
      PROVE  episode'.on /\ owed'[m] <= episode'.age
  <2>1. m \notin near /\ owed'[m] = Later(owed[m])
    BY <1>4, <1>5, <1>8
  <2>2. near # Mics
    BY <2>1
  <2>3. CASE episode.on
    <3>1. episode' = Aged(heard)
      BY <1>4, <2>3
    <3>2. episode'.on /\ episode'.age = Later(episode.age)
      BY <1>2, <2>3, <3>1, AgedFacts
    <3>3. owed[m] <= episode.age
      BY <1>1, <1>8, <2>1, DebtHasEpisode, KBigAssumption DEF AttributionInv, EpisodeOfThisHowl
    <3>4. QED
      BY <1>1, <2>1, <3>2, <3>3, LaterMonotone
  <2>4. CASE ~ episode.on
    <3>1. episode' = Aged(opened)
      BY <1>4, <2>2, <2>4
    <3>2. episode'.on /\ episode'.age = Later(0)
      BY <1>3, <3>1, AgedFacts
    <3>3. owed[m] = 0
      BY <1>1, <2>4, DebtHasEpisode
    <3>4. QED
      BY <1>1, <2>1, <3>2, <3>3, LaterFacts
  <2>5. QED
    BY <2>3, <2>4
<1>9. EpisodeOfThisHowl'
  BY <1>8, NeededFacts DEF EpisodeOfThisHowl
<1>10. QED
  BY <1>1, <1>4, <1>6, <1>7, <1>9 DEF AttributionInv, HistoryTypeOK, AttributionTypeOK

LEMMA NextAttribution ==
  AttributionInv /\ [AttributionNext]_attributionVars => AttributionInv'
<1> SUFFICES ASSUME AttributionInv, [AttributionNext]_attributionVars
             PROVE  AttributionInv'
  OBVIOUS
<1>1. CASE AttributionNext
  <2>1. PICK raw \in SUBSET Mics, near \in SUBSET Mics \ {{}} : AttributionBlock(raw, near)
    BY <1>1 DEF AttributionNext
  <2>2. CASE raw = {} /\ NoTrip(QuietTicks)
    BY <2>1, <2>2, NoTripInv DEF AttributionBlock
  <2>3. CASE raw # {} /\ (TripOnly \/ Fallback(WindowTicks))
    BY <2>1, <2>3, AllTrippedInv DEF AttributionBlock
  <2>4. CASE raw # {} /\ Attributed(near, WindowTicks)
    BY <2>1, <2>4, AttributedInv DEF AttributionBlock
  <2>5. QED
    BY <2>1, <2>2, <2>3, <2>4 DEF AttributionBlock, Attribute
<1>2. CASE UNCHANGED attributionVars
  BY <1>2 DEF attributionVars, AttributionInv, HistoryTypeOK, AttributionTypeOK,
        EpisodeOfThisHowl
<1>3. QED
  BY <1>1, <1>2

(* The types, and the tie between the history and the episode. *)
THEOREM AttributionInvariant == AttributionSpec => []AttributionInv
  BY InitAttribution, NextAttribution, PTL DEF AttributionSpec

(* An episode is that of the howl going on, for any number of mics, any quiet
   time and any window: a debt of this howl has an episode at least as old, and
   no episode outlives its howl. *)
THEOREM EpisodeAlwaysOfThisHowl == AttributionSpec => []EpisodeOfThisHowl
<1>1. AttributionInv => EpisodeOfThisHowl
  BY DEF AttributionInv
<1>2. QED
  BY <1>1, AttributionInvariant, PTL

(* The fallback comes in time: a howl that goes on leaves no mic out for more
   than the window, however the loudest mic changes. *)
THEOREM FallbackAlwaysInTime == AttributionSpec => FallbackInTime
<1> DEFINE InTime == tripped' # {} => \A m \in Mics : owed[m] >= WindowTicks => m \in tripped'
<1>1. AttributionInv /\ [AttributionNext]_attributionVars => [InTime]_attributionVars
  <2> SUFFICES ASSUME AttributionInv, AttributionNext, tripped' # {},
                      NEW m \in Mics, owed[m] >= WindowTicks
               PROVE  m \in tripped'
    OBVIOUS
  <2>1. PICK raw \in SUBSET Mics, near \in SUBSET Mics \ {{}} : AttributionBlock(raw, near)
    BY DEF AttributionNext
  <2>2. FallbackDue(WindowTicks)
    <3>1. owed[m] \in 0..KBig /\ episode.age \in 0..KBig
      BY DEF AttributionInv, HistoryTypeOK, AttributionTypeOK, Episode
    <3>2. QED
      BY <3>1, WindowAssumption, DebtHasEpisode DEF FallbackDue
  <2>3. TripOnly \/ Fallback(WindowTicks)
    BY <2>1, <2>2 DEF AttributionBlock, Attribute, Attributed, NoTrip
  <2>4. QED
    BY <2>3 DEF TripOnly, Fallback
<1>2. QED
  BY <1>1, AttributionInvariant, PTL DEF AttributionSpec, FallbackInTime

===============================================================================
