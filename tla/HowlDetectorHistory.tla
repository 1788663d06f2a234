-------------------------- MODULE HowlDetectorHistory --------------------------
(***************************************************************************)
(* The howl detector with the part of its past that its promises are       *)
(* about: history variables, which no action of the detector reads.        *)
(***************************************************************************)
EXTENDS HowlDetector, FiniteSets

VARIABLES
  lines,  \* the line levels since the lines began to grow, and of the window
          \* before, the oldest first
  grown,  \* the slopes of the ticks since the lines began to grow, 0 where a
          \* band did not
  footing,   \* the program level before the lines began to grow; 0 if none grows
  due,    \* a growing howl stands OverProgram above that level, and prominent
  since   \* ticks since the last verdict, up to HoldTicks + 1

detectorHistoryVars == <<detectorVars, lines, grown, footing, due, since>>

(* A line that grew for this many ticks has reached Rise. *)
RiseTicks == (Rise + GrowthTick - 1) \div GrowthTick

Last(seq, n) == IF Len(seq) <= n THEN seq ELSE SubSeq(seq, Len(seq) - n + 1, Len(seq))

(* Whether band b grows at the last of the ticks, by the file comment's words:
   over a full window, prominent, steep and straight. *)
SlopeNow(ticks, gate, b) ==
  LET window == [i \in 1..Slots |-> ticks[Len(ticks) - Slots + i][b]]
  IN IF Len(ticks) >= Slots /\ b \in gate /\ Climbs(window) THEN Fit(window).slope ELSE 0

HistoryDecide(heard, pw) ==
  LET seen    == Append(lines, heard.line)
      slopes  == [b \in Bands |-> SlopeNow(seen, heard.gate, b)]
      growing == slopes # Silent
      before  == IF program = 0 THEN pw ELSE program
  IN /\ lines' = Last(seen, IF growing THEN Slots - 1 + RiseTicks ELSE Slots - 1)
     /\ grown' = IF growing THEN Last(Append(grown, slopes), RiseTicks) ELSE <<>>
     /\ footing' = IF ~ growing THEN 0 ELSE IF footing = 0 THEN before ELSE footing
     /\ due' = (growing /\ heard.loud /\ pw >= OverProgram * footing')
     /\ since' = IF trigger' # "none" THEN 0
                 ELSE IF since <= HoldTicks THEN since + 1 ELSE since

DetectorHistoryInit ==
  /\ DetectorInit
  /\ lines = <<>> /\ grown = <<>>
  /\ footing = 0 /\ due = FALSE
  /\ since = HoldTicks + 1

DetectorHistoryNext ==
  \/ \E heard \in Ticks, pw \in Powers :
       Decide(heard, pw) /\ HistoryDecide(heard, pw)
  \/ /\ Cleared
     /\ lines' = <<>> /\ grown' = <<>> /\ footing' = 0 /\ due' = FALSE
     /\ since' = HoldTicks + 1

DetectorHistorySpec == DetectorHistoryInit /\ [][DetectorHistoryNext]_detectorHistoryVars

(* The walks over the bands that end at band b in the last tick: one band per
   tick, each next to the one before, growing at every tick. *)
Walks(b) ==
  UNION {{w \in [t..Len(grown) -> Bands] :
            /\ w[Len(grown)] = b
            /\ \A i \in t..Len(grown) : grown[i][w[i]] > 0
            /\ \A i \in t+1..Len(grown) : w[i] - w[i - 1] \in -1..1} :
         t \in 1..Len(grown)}

Climb(w) == SumFunction([i \in DOMAIN w |-> grown[i][w[i]]])

(* The integrated rise is the climb of one line, followed tick by tick from band
   to neighbouring band over full windows of this detector's own ticks (the
   GROWTH PATH of the file comment): never the sum of two lines, of a line and
   one that had died, or of what was heard before a reset. *)
RiseIsOfOneLine ==
  \A b \in Bands :
    /\ \A w \in Walks(b) : Capped(Climb(w)) <= rise[b]
    /\ rise[b] # 0 => \E w \in Walks(b) : Capped(Climb(w)) = rise[b]

(* "A step (onset) never passes the linearity gate long enough": the growth path
   does not trip on one jump of the lines, however high. *)
OnsetNeverTrips ==
  trigger = "growth" =>
    Cardinality({t \in 2..Len(lines) :
                   \E b \in Bands : lines[t][b] > lines[t - 1][b]}) >= 2

(* A window that rises nowhere but in the step k ticks before its end. *)
RisesOnly(y, k) == \A i \in 2..Slots : y[i] > y[i - 1] => i = Slots - k

(* What it takes of the thresholds: the steepest windows that pass the gates with
   one onset in them, over the places it can have in a window, add up to less
   than the rise that trips. *)
OnsetsFallShort ==
  \E cap \in [0..Slots-2 -> 0..Rise-1] :
    /\ SumFunction(cap) < Rise
    /\ \A k \in 0..Slots-2, y \in Windows :
         RisesOnly(y, k) /\ Fit(y).slope >= GrowthTick /\ Fit(y).misfit <= Linearity
           => Fit(y).slope <= cap[k]

(* The tracker "cannot climb with a slow howl": a prominent howl that stands
   OverProgram above the level the program had before it began to grow is
   caught, whatever its power did to the tracker meanwhile. *)
HowlNotLearned == due /\ LevelCatch => trigger # "none"

(* tripped(): "from the tick the verdict fires until hold_s after it last
   fired". *)
HeldAfterVerdict == tripped <=> since <= HoldTicks

===============================================================================
