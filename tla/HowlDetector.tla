----------------------------- MODULE HowlDetector -----------------------------
(***************************************************************************)
(* The howl detector of one signal (include/mutap/howl_detector.h): a bank *)
(* of band envelopes, the growth of each band's line over a window, the    *)
(* integrated rise of each line, a level catch and a held verdict.  One    *)
(* action is one detector tick.                                            *)
(*                                                                         *)
(* The resonators are not modelled: a tick brings any envelopes and any    *)
(* block power.  Envelopes and powers are numbers, their levels integers;  *)
(* the line fit is exact, in integers (Slope, Misfit).              *)
(***************************************************************************)
EXTENDS Integers, Sequences, FiniteSetsExt, Functions, DelayLine

CONSTANTS
  N,            \* bands
  Slots,        \* growth window, ticks
  HoldTicks,    \* hold_ticks
  Banks, Powers,  \* the band envelopes and block powers of a tick
  Level(_),     \* the level of an envelope
  Prominence,   \* P, as a ratio
  GrowthTick,   \* the slope a tick needs, in units of Slope
  Linearity,    \* the misfit a tick may have, in units of Misfit
  Rise,         \* X, in units of Slope
  LevelCatch,   \* level_catch
  Ceiling,      \* ceiling_pow
  OverProgram,  \* L, as a ratio
  LevelProminence,  \* the gate of the relative catch, as a ratio
  Track(_, _)   \* the program tracker's next value, from its value and a power

ASSUME DetectorSizesAssumption ==
  N \in Nat /\ N >= 3 /\ Slots \in Nat /\ Slots >= 3 /\ HoldTicks \in Nat
ASSUME DetectorInputsAssumption ==
  /\ Banks \subseteq [1..N -> Nat \ {0}]
  /\ Powers \subseteq Nat \ {0}
  /\ \A env \in Banks, b \in 1..N : Level(env[b]) \in Nat
  /\ LevelCatch \in BOOLEAN
(* validated() admits any finite growth_db_per_pass and rise_db: see the README. *)
ASSUME DetectorGrowthAssumption == GrowthTick \in Nat \ {0} /\ Rise \in Nat \ {0}

VARIABLES
  ring,       \* the line levels of the last ticks, per slot
  ringPos,    \* where the next tick goes
  ringCount,  \* slots filled
  rise,       \* per band, the integrated rise of its line; 0 = no line
  program,    \* the program level; 0 = none yet (program_ok)
  holdLeft,   \* ticks the verdict still holds
  trigger,    \* the last tick's verdict, and its path
  tripped     \* the verdict, held

detectorVars == <<ring, ringPos, ringCount, rise, program, holdLeft, trigger, tripped>>

Bands == 1..N
Silent == [b \in Bands |-> 0]
Paths == {"none", "growth", "ceiling", "level"}

(* The ring of the last ticks, its position and count, and the hold stay in
   range through fills, wraps and resets. *)
DetectorTypeOK ==
  /\ ring \in [0..Slots-1 -> [Bands -> Nat]]
  /\ ringPos \in 0..Slots-1
  /\ ringCount \in 0..Slots
  /\ rise \in [Bands -> Nat]
  /\ program \in Nat
  /\ holdLeft \in 0..HoldTicks
  /\ trigger \in Paths
  /\ tripped \in BOOLEAN

Near(b) == {k \in Bands : k - b \in -1..1}

(* A band over the mean of the others by the ratio p. *)
OverOthers(env, b, p) ==
  env[b] * (N - 1) >= p * SumFunction([k \in Bands \ {b} |-> env[k]])

Peak(env) ==
  CHOOSE b \in Bands : \A k \in Bands : env[b] > env[k] \/ (env[b] = env[k] /\ b <= k)

(* The loudest of a band and its neighbours: a line that moves by a band stays
   one line. *)
Loudest(env, b) == Max({Level(env[k]) : k \in Near(b)})

(* What a tick reads of the bank: the lines, the bands at or next to a prominent
   one, and whether the loudest band stands out. *)
Heard(env) ==
  [line |-> [b \in Bands |-> Loudest(env, b)],
   gate |-> {b \in Bands : \E k \in Near(b) : OverOthers(env, k, Prominence)},
   loud |-> OverOthers(env, Peak(env), LevelProminence)]

Ticks == {Heard(env) : env \in Banks}

(* The least-squares line through a window of m points, the oldest first: its
   slope times m (m^2 - 1) / 6, and its residual sum of squares times
   m (m^2 - 1). *)
Slope(y) == SumFunction([i \in 1..Slots |-> (2 * i - 1 - Slots) * y[i]])

Misfit(y) ==
  LET sum     == SumFunction(y)
      squares == SumFunction([i \in 1..Slots |-> y[i] * y[i]])
  IN (Slots * Slots - 1) * (Slots * squares - sum * sum) - 3 * Slope(y) * Slope(y)

Windows == [1..Slots -> {Level(env[b]) : env \in Banks, b \in Bands}]

(* The fits of all windows the bank can bring, a table that TLC fills once. *)
Fits == {[window |-> y, slope |-> Slope(y), misfit |-> Misfit(y)] : y \in Windows}
Fit(y) == CHOOSE f \in Fits : f.window = y

(* Mutant: a jump is taken for a climb. *)
ClimbsOrJumps(y) == Fit(y).slope >= GrowthTick

(* A window that climbs: steep enough, and along a straight line. *)
Climbs(y) ==
  LET fit == Fit(y) IN fit.slope >= GrowthTick /\ fit.misfit <= Linearity

(* Band b's line in a ring, from its oldest slot on. *)
Column(r, pos, b) == [i \in 1..Slots |-> r[Slot(pos, i - 1, Slots)][b]]

(* Mutant: a band inherits from the loudest line of the whole bank. *)
InheritedFromAnywhere(old, b) == Max({old[k] : k \in Bands})

(* What a band takes over from the lines of the previous tick. *)
Inherited(old, b) == Max({old[k] : k \in Near(b)})

(* The bound of the model on an integral: from Rise on they all trip, and a
   growing line only adds to them. *)
Capped(x) == IF x > Rise THEN Rise ELSE x

(* Mutant: the tracker learns the howl while it grows. *)
TrackedAlways(growing, pw) ==
  LET p == IF program = 0 THEN pw ELSE program
  IN Track(p, pw)

(* The program level, frozen while a line grows. *)
Tracked(growing, pw) ==
  LET p == IF program = 0 THEN pw ELSE program
  IN IF growing THEN p ELSE Track(p, pw)

Verdict(maxRise, loud, pw) ==
  LET before == IF program = 0 THEN pw ELSE program
  IN IF maxRise >= Rise THEN "growth"
     ELSE IF LevelCatch /\ pw >= Ceiling THEN "ceiling"
     ELSE IF LevelCatch /\ pw >= OverProgram * before /\ loud THEN "level"
     ELSE "none"

(* Mutant: a trip inside the hold does not start it again. *)
HeldOnce(raw) ==
  IF raw /\ holdLeft = 0 THEN HoldTicks ELSE IF holdLeft > 0 THEN holdLeft - 1 ELSE 0

Held(raw) ==
  IF raw THEN HoldTicks ELSE IF holdLeft > 0 THEN holdLeft - 1 ELSE 0

(* One detector tick: decide(). *)
Decide(heard, pw) ==
  LET r       == [ring EXCEPT ![ringPos] = heard.line]
      pos     == Advance(ringPos, 1, Slots)
      count   == IF ringCount < Slots THEN ringCount + 1 ELSE ringCount
      growing == {b \in heard.gate : count = Slots /\ Climbs(Column(r, pos, b))}
      risen   == [b \in Bands |->
                    IF b \in growing
                    THEN Capped(Inherited(rise, b) + Fit(Column(r, pos, b)).slope) ELSE 0]
      verdict == Verdict(Max({risen[b] : b \in Bands}), heard.loud, pw)
  IN /\ ring' = r
     /\ ringPos' = pos
     /\ ringCount' = count
     /\ rise' = risen
     /\ program' = Tracked(growing # {}, pw)
     /\ trigger' = verdict
     /\ holdLeft' = Held(verdict # "none")
     /\ tripped' = (verdict # "none" \/ holdLeft > 0)

(* Every state as constructed. *)
Cleared ==
  /\ ring' = [k \in 0..Slots-1 |-> Silent]
  /\ ringPos' = 0 /\ ringCount' = 0
  /\ rise' = Silent
  /\ program' = 0
  /\ holdLeft' = 0
  /\ trigger' = "none" /\ tripped' = FALSE

DetectorInit ==
  /\ ring = [k \in 0..Slots-1 |-> Silent]
  /\ ringPos = 0 /\ ringCount = 0
  /\ rise = Silent
  /\ program = 0
  /\ holdLeft = 0
  /\ trigger = "none" /\ tripped = FALSE

DetectorNext ==
  \/ \E heard \in Ticks, pw \in Powers : Decide(heard, pw)
  \/ Cleared

DetectorSpec == DetectorInit /\ [][DetectorNext]_detectorVars

===============================================================================
