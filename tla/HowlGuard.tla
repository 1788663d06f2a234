------------------------------ MODULE HowlGuard ------------------------------
(***************************************************************************)
(* The howl guard: a per-mic gain policy over the cancellers' residuals    *)
(* (include/mutap/howl_guard.h).  Time advances one BLOCK at a time: the   *)
(* chain analyses every mic's residual and calls update() once, and        *)
(* between blocks the host may call any of the setters.                    *)
(*                                                                         *)
(* Abstractions.  Gains are integers (dB) and ramps are counted in whole   *)
(* blocks; the thresholds and times of the policy are tick counts, as      *)
(* derive() leaves them.  A residual block is the detector's verdict on it *)
(* alone, without its hold ("silent", "growth", or a level "catch", alone  *)
(* or behind a growth verdict), with the canceller's two statistics.       *)
(* The since-reset counters (trips, ducks, rearms, hints) are readouts     *)
(* nothing reads back and are left out.                                    *)
(***************************************************************************)
EXTENDS Attribution, Integers

CONSTANTS
  Policies,   \* the policies the host may set
  Caps,       \* the ceilings the host may set (dB)
  Inputs,     \* what each mic's residual block may read as
  OwnThr,     \* the soundcheck thresholds the host may set: [d, a]
  StrikeCap   \* strikes saturate here (30 in the code)

States == {"arming", "open", "open_capped", "ducked", "releasing", "latched"}
Heard == {"silent", "growth", "catch"}  \* the verdict of this tick alone, no hold
Ticks == 0..KBig

Policy == [ d_db : Int, a_db : Int, restart_a_db : Int,
            trip : 1..KBig, release : 1..KBig, timeout : 1..KBig,
            rearm : 1..KBig, decay : 1..KBig, window : 1..KBig,
            quiet : Ticks, probation : Ticks,
            attack : Nat, release_ramp : Nat,
            duck_db : Nat, arming_duck_db : Nat, strike_db : Nat,
            max_strikes : Nat \ {0}, lost_strikes : BOOLEAN,
            has_cap : BOOLEAN, cap : Int ]

Input == [finite : BOOLEAN, d : Int, a : Int, heard : Heard]

ASSUME PolicyAssumption == Policies \subseteq Policy /\ Policies # {}
ASSUME CapsAssumption == Caps \subseteq Int
ASSUME InputsAssumption == Inputs \in [Mics -> SUBSET Input]
ASSUME OwnThrAssumption == OwnThr \subseteq [d : Int, a : Int]
ASSUME StrikeCapAssumption == StrikeCap \in Nat

VARIABLES
  policy,   \* the policy in force, clamped and derived
  mics,     \* each mic's mic_state
  bus       \* the post-reverb bus gain at the end of the last block, dB

vars == <<policy, mics, bus, episode, tripped>>

Mic == [ state : States,
         cur : Int, tgt : Int, left : Nat,                    \* the gain ramp
         d_thr : Int, a_thr : Int, own_thr : BOOLEAN, ok : BOOLEAN,
         in_state : Ticks, ok_run : Ticks, notok_run : Ticks, since : Ticks,
         hold : Ticks, probation : Ticks, decay : Ticks,
         ok_seen : BOOLEAN, rearm_hold : BOOLEAN, fell : BOOLEAN,
         declared : BOOLEAN, latched : BOOLEAN, latch_notok : BOOLEAN,
         timed_out : BOOLEAN,
         strikes : 0..StrikeCap, level : Int, floor : Int ]

(* Each field keeps the range its type and its saturation give it in the code:
   the counters stop at k_big, the strikes at 30 (mic_state). *)
GuardTypeOK ==
  /\ policy \in Policy
  /\ mics \in [Mics -> Mic]
  /\ AttributionTypeOK

Lesser(a, b) == IF a < b THEN a ELSE b

-------------------------------------------------------------------------------
(* Gains *)

ArmingDb == IF policy.has_cap THEN Lesser(-policy.arming_duck_db, policy.cap)
                              ELSE -policy.arming_duck_db

(* Mutant: an undeclared mic restores to its level, cap or not. *)
RestoreUncapped(s) == IF s.latched THEN s.floor
                      ELSE IF s.declared \/ policy.has_cap THEN s.level ELSE ArmingDb

(* What RELEASING ramps to and OPEN, OPEN_CAPPED and LATCHED hold. *)
RestoreDb(s) ==
  CASE s.latched                                      -> s.floor
    [] ~ s.latched /\ s.declared                      -> s.level
    [] ~ s.latched /\ ~ s.declared /\ policy.has_cap  -> Lesser(policy.cap, s.level)
    [] OTHER                                          -> ArmingDb

(* Mutant: DUCKED holds the restore gain. *)
TargetUnducked(s) == IF s.state = "arming" THEN ArmingDb ELSE RestoreDb(s)

TargetDb(s) ==
  CASE s.state = "arming" -> ArmingDb
    [] s.state = "ducked" -> RestoreDb(s) - policy.duck_db
    [] OTHER              -> RestoreDb(s)

LevelAt(strikes) == -policy.strike_db * Lesser(strikes, policy.max_strikes)

(* A new target starts a ramp from wherever the gain is. *)
Aimed(s) ==
  LET tgt == TargetDb(s)
      n   == IF tgt < s.cur THEN policy.attack ELSE policy.release_ramp
  IN IF tgt = s.tgt THEN s
     ELSE [s EXCEPT !.tgt = tgt, !.left = n, !.cur = IF n = 0 THEN tgt ELSE @]

(* One block of the ramp; its last block lands on the target. *)
Ramped(s) ==
  IF s.left = 0 THEN s
  ELSE [s EXCEPT !.left = @ - 1,
                 !.cur  = IF s.left = 1 THEN s.tgt
                          ELSE @ + (s.tgt - @) \div s.left]

Rendered(s) == Ramped(Aimed(s))

(* The mic's duck relative to its restore target, as the bus stage sees it. *)
BusDuck(s) == IF s.state \in {"ducked", "releasing"}
              THEN Lesser(s.cur - RestoreDb(s), 0) ELSE 0

-------------------------------------------------------------------------------
(* Transitions *)

Enter(s, next) ==
  CASE next = "ducked" ->
         [s EXCEPT !.state = next, !.in_state = 0,
                   !.hold = 0, !.ok_run = 0, !.ok_seen = FALSE]
    [] next \in {"open", "open_capped"} ->
         [s EXCEPT !.state = next, !.in_state = 0,
                   !.probation = policy.probation, !.decay = 0]
    [] next = "latched" ->
         [s EXCEPT !.state = next, !.in_state = 0, !.latch_notok = FALSE]
    [] OTHER ->
         [s EXCEPT !.state = next, !.in_state = 0]

(* A canceller restart: the declaration, the latch and the timeout are
   forgotten, the strikes are kept. *)
EnterArming(s) ==
  [Enter(s, "arming") EXCEPT !.fell = FALSE, !.latched = FALSE,
                             !.declared = FALSE, !.ok_seen = FALSE,
                             !.rearm_hold = FALSE, !.timed_out = FALSE,
                             !.ok_run = 0]

(* Mutant: the strikes do not saturate. *)
StruckUnsaturated(s) ==
  [s EXCEPT !.strikes = @ + 1, !.level = LevelAt(s.strikes + 1), !.decay = 0]

Struck(s) ==
  LET k == Lesser(s.strikes + 1, StrikeCap)
      latches == s.state # "arming" /\ k >= policy.max_strikes /\ ~ s.latched
  IN [s EXCEPT !.strikes = k, !.level = LevelAt(k), !.decay = 0,
               !.latched = @ \/ latches,
               !.floor = IF ~ latches THEN @
                         ELSE IF policy.has_cap THEN policy.cap ELSE LevelAt(k)]

Declared(s) == [s EXCEPT !.declared = TRUE, !.timed_out = FALSE]

Quiet(s) == s.since >= policy.quiet
Held(s) == s.ok_run >= policy.release /\ Quiet(s)
Lost(s) == s.declared /\ s.ok_seen /\ s.notok_run >= policy.trip

(* The hold before a timer re-arm doubles with every strike. *)
RearmTicks(s) ==
  LET factor == 2 ^ s.strikes
  IN IF policy.rearm > KBig \div factor THEN KBig ELSE policy.rearm * factor

(* Mutant: a trip in ARMING leaves the hold running. *)
StepArmingKeepsHold(s, trip) ==
  IF trip THEN Struck(s)
  ELSE IF Held(s) THEN Enter(Declared(s), "open") ELSE s

StepArming(s, trip) ==
  CASE trip -> [Struck(s) EXCEPT !.ok_run = 0]
    [] ~ trip /\ Held(s) -> Enter(Declared(s), "open")
    [] ~ trip /\ ~ Held(s) /\ s.in_state >= policy.timeout ->
         LET t == [s EXCEPT !.timed_out = TRUE]
         IN IF policy.has_cap /\ Quiet(s) THEN Enter(t, "open_capped") ELSE t
    [] OTHER -> s

(* Mutant: a decay takes the strike back and leaves the level. *)
DecayedKeepsLevel(s) ==
  LET d == Later(s.decay)
  IN IF s.strikes = 0 THEN s
     ELSE IF d >= policy.decay THEN [s EXCEPT !.strikes = @ - 1, !.decay = 0]
     ELSE [s EXCEPT !.decay = d]

Decayed(s) ==
  LET d == Later(s.decay)
  IN IF s.strikes = 0 THEN s
     ELSE IF d >= policy.decay
     THEN [s EXCEPT !.strikes = @ - 1, !.level = LevelAt(s.strikes - 1), !.decay = 0]
     ELSE [s EXCEPT !.decay = d]

Probed(s) == [s EXCEPT !.probation = IF @ > 0 THEN @ - 1 ELSE 0]

StepOpen(s, trip) ==
  CASE trip \/ Lost(s) ->
         LET strikes == s.probation > 0 /\ (trip \/ policy.lost_strikes)
         IN Enter(IF strikes THEN Struck(s) ELSE s, "ducked")
    [] OTHER -> Decayed(Probed(s))

(* Mutants: the late declaration is tried before the trip; it is not made. *)
StepOpenCappedHeldFirst(s, trip) ==
  IF Held(s) THEN Enter(Declared(s), "releasing")
  ELSE IF trip THEN Enter(IF s.probation > 0 THEN Struck(s) ELSE s, "ducked")
  ELSE Probed(s)

StepOpenCappedForGood(s, trip) ==
  IF trip THEN Enter(IF s.probation > 0 THEN Struck(s) ELSE s, "ducked")
  ELSE Probed(s)

StepOpenCapped(s, trip) ==
  CASE trip -> Enter(IF s.probation > 0 THEN Struck(s) ELSE s, "ducked")
    [] ~ trip /\ Held(s) -> Enter(Declared(s), "releasing")
    [] OTHER -> Probed(s)

(* Mutants: a trip in DUCKED leaves the ok run; there is no re-arm timer. *)
StepDuckedKeepsRun(s, trip) ==
  IF trip THEN [s EXCEPT !.hold = 0]
  ELSE IF Held(s) THEN Enter(Declared(s), "releasing")
  ELSE [s EXCEPT !.hold = Later(@)]

StepDuckedWaits(s, trip) ==
  IF trip THEN [s EXCEPT !.hold = 0, !.ok_run = 0]
  ELSE IF Held(s) THEN Enter(Declared(s), "releasing")
  ELSE [s EXCEPT !.hold = Later(@)]

StepDucked(s, trip) ==
  LET t == [s EXCEPT !.hold = Later(@)]
  IN CASE trip -> [s EXCEPT !.hold = 0, !.ok_run = 0]
       [] ~ trip /\ Held(s) -> Enter(Declared(t), "releasing")
       [] ~ trip /\ ~ Held(s) /\ Quiet(s) /\ t.hold >= RearmTicks(s) ->
            Enter([t EXCEPT !.ok_seen = FALSE, !.rearm_hold = TRUE,
                            !.notok_run = 0], "releasing")
       [] OTHER -> t

Arrived(s) == s.left = 0 /\ s.cur = RestoreDb(s)

(* Mutant: an arrival forgets the latch. *)
StepReleasingUnlatched(s, trip) ==
  IF trip THEN Enter(Struck(s), "ducked")
  ELSE IF Lost(s) THEN Enter(s, "ducked")
  ELSE IF Arrived(s) THEN Enter(s, IF s.declared THEN "open" ELSE "open_capped")
  ELSE s

StepReleasing(s, trip) ==
  CASE trip -> Enter(Struck(s), "ducked")
    [] ~ trip /\ Lost(s) -> Enter(s, "ducked")
    [] ~ trip /\ ~ Lost(s) /\ Arrived(s) ->
         Enter(s, IF s.latched THEN "latched"
                  ELSE IF s.declared THEN "open" ELSE "open_capped")
    [] OTHER -> s

(* Mutant: a latched mic does not answer a trip. *)
StepLatchedDeaf(s, trip) == [s EXCEPT !.latch_notok = @ \/ ~ s.ok]

StepLatched(s, trip) ==
  LET t == [s EXCEPT !.latch_notok = @ \/ ~ s.ok]
  IN CASE trip -> Enter(t, "ducked")
       [] ~ trip /\ t.latch_notok /\ Held(s) ->
            Enter([t EXCEPT !.latched = FALSE, !.declared = TRUE], "releasing")
       [] OTHER -> t

(* Mutant: LOST arms on the first ok block after a timer re-arm. *)
ClockedArmsAtOnce(s) ==
  [s EXCEPT !.ok_run = IF s.ok THEN Later(@) ELSE 0,
            !.notok_run = IF s.ok THEN 0 ELSE Later(@), !.in_state = Later(@),
            !.ok_seen = @ \/ s.ok, !.rearm_hold = @ /\ ~ s.ok]

(* The runs of the verdict, and LOST's arming on an ok block (after a timer
   re-arm only on one that ends an ok run of the release hold). *)
Clocked(s) ==
  LET run == IF s.ok THEN Later(s.ok_run) ELSE 0
      arms == s.ok /\ (~ s.rearm_hold \/ run >= policy.release)
  IN [s EXCEPT !.ok_run = run, !.notok_run = IF s.ok THEN 0 ELSE Later(@),
               !.in_state = Later(@),
               !.ok_seen = @ \/ arms, !.rearm_hold = @ /\ ~ arms]

(* The progress statistic fell below a_db and is back at the restart level. *)
Fallen(s, a) == [s EXCEPT !.fell = @ \/ a < policy.a_db]

(* Mutant: only an OPEN mic answers a canceller restart. *)
RestartedOpen(s, a) == s.state = "open" /\ s.fell /\ a >= policy.restart_a_db
Restarted(s, a) == s.state # "arming" /\ s.fell /\ a >= policy.restart_a_db

Step(s0, a, trip) ==
  LET s == Fallen(Clocked(s0), a)
  IN CASE Restarted(s, a) -> EnterArming(s)
       [] OTHER -> CASE s.state = "arming"      -> StepArming(s, trip)
                     [] s.state = "open"        -> StepOpen(s, trip)
                     [] s.state = "open_capped" -> StepOpenCapped(s, trip)
                     [] s.state = "ducked"      -> StepDucked(s, trip)
                     [] s.state = "releasing"   -> StepReleasing(s, trip)
                     [] s.state = "latched"     -> StepLatched(s, trip)

-------------------------------------------------------------------------------
(* The block: analyze() for every mic, then update() *)

(* A residual block or statistic that is not finite sends the mic to ARMING,
   clears its detector and reads as 0 dB for both statistics. *)
StatD(in) == IF in.finite THEN in.d ELSE 0
StatA(in) == IF in.finite THEN in.a ELSE 0
HeardOf(in) == IF in.finite THEN in.heard ELSE "silent"

Analyzed(s, in) == IF in.finite THEN s ELSE EnterArming(s)

Observed(s, in) ==
  [Analyzed(s, in) EXCEPT !.ok = StatD(in) < s.d_thr /\ StatA(in) < s.a_thr,
                          !.since = IF HeardOf(in) = "silent" THEN Later(@) ELSE 0]

(* The level catch always trips; growth only while the verdict is not ok. *)
RawTrip(s, in) == HeardOf(in) = "catch" \/ (HeardOf(in) = "growth" /\ ~ s.ok)

(* Mutant: the bus follows the shallowest duck. *)
BusShallowest(ms) == LET ducks == {BusDuck(ms[m]) : m \in Mics}
                     IN CHOOSE x \in ducks : \A y \in ducks : x >= y

(* The deepest duck among the mics, 0 dB if none ducks. *)
BusDb(ms) == LET ducks == {BusDuck(ms[m]) : m \in Mics}
             IN CHOOSE x \in ducks : \A y \in ducks : x <= y

Update(in, near) ==
  LET seen == [m \in Mics |-> Observed(mics[m], in[m])]
      raw  == {m \in Mics : RawTrip(seen[m], in[m])}
  IN /\ Attribute(raw, near, policy.quiet, policy.window)
     /\ mics' = [m \in Mics |->
                   Rendered(Step(seen[m], StatA(in[m]), m \in tripped'))]
     /\ bus' = BusDb(mics')
     /\ UNCHANGED policy

Residuals == {in \in [Mics -> UNION {Inputs[m] : m \in Mics}] :
                \A m \in Mics : in[m] \in Inputs[m]}

Block == \E in \in Residuals, near \in SUBSET Mics \ {{}} : Update(in, near)

-------------------------------------------------------------------------------
(* The host, between blocks *)

(* Mics without thresholds of their own follow the policy's. *)
Rethresholded(s, p) ==
  IF s.own_thr THEN s ELSE [s EXCEPT !.d_thr = p.d_db, !.a_thr = p.a_db]

(* Mutant: removing the cap leaves a latched mic on its floor. *)
OnCapChangeKeepsLatched(s, p) ==
  IF ~ p.has_cap /\ ~ s.declared /\ ~ s.latched /\ s.state # "arming"
  THEN EnterArming(s) ELSE s

(* Without a cap, a mic that runs on one before a declaration re-arms. *)
OnCapChange(s, p) ==
  IF ~ p.has_cap /\ ~ s.declared /\ s.state # "arming" THEN EnterArming(s) ELSE s

ApplyPolicy(p) ==
  /\ policy' = p
  /\ mics' = [m \in Mics |-> OnCapChange(Rethresholded(mics[m], p), p)]
  /\ UNCHANGED <<bus, episode, tripped>>

SetPolicy(p) == ApplyPolicy(p)
SetCap(c) == ApplyPolicy([policy EXCEPT !.has_cap = TRUE, !.cap = c])
RemoveCap == ApplyPolicy([policy EXCEPT !.has_cap = FALSE, !.cap = 0])

(* As constructed, but the thresholds stay. *)
Fresh(d, a, own) ==
  [ state |-> "arming", cur |-> ArmingDb, tgt |-> ArmingDb, left |-> 0,
    d_thr |-> d, a_thr |-> a, own_thr |-> own, ok |-> FALSE,
    in_state |-> 0, ok_run |-> 0, notok_run |-> 0, since |-> policy.quiet,
    hold |-> 0, probation |-> 0, decay |-> 0,
    ok_seen |-> FALSE, rearm_hold |-> FALSE, fell |-> FALSE,
    declared |-> FALSE, latched |-> FALSE, latch_notok |-> FALSE,
    timed_out |-> FALSE, strikes |-> 0, level |-> 0, floor |-> 0 ]

Reset ==
  /\ mics' = [m \in Mics |-> Fresh(mics[m].d_thr, mics[m].a_thr, mics[m].own_thr)]
  /\ bus' = 0
  /\ episode' = [episode EXCEPT !.on = FALSE]
  /\ tripped' = {}
  /\ UNCHANGED policy

(* The host clears the back-off and releases the latch. *)
Cleared(s) ==
  LET t == [s EXCEPT !.strikes = 0, !.level = 0, !.decay = 0,
                     !.timed_out = FALSE, !.latched = FALSE]
      u == IF s.latched /\ s.state = "latched" THEN Enter(t, "releasing") ELSE t
  IN IF u.state = "arming" THEN [u EXCEPT !.in_state = 0] ELSE u

Clear ==
  /\ mics' = [m \in Mics |-> Cleared(mics[m])]
  /\ UNCHANGED <<policy, bus, episode, tripped>>

SetThresholds(m, thr) ==
  /\ mics' = [mics EXCEPT ![m].d_thr = thr.d, ![m].a_thr = thr.a,
                          ![m].own_thr = TRUE, ![m].ok_seen = FALSE]
  /\ UNCHANGED <<policy, bus, episode, tripped>>

ClearCalibration ==
  /\ mics' = [m \in Mics |->
               Rethresholded([mics[m] EXCEPT !.own_thr = FALSE, !.ok_seen = FALSE],
                             policy)]
  /\ UNCHANGED <<policy, bus, episode, tripped>>

Host ==
  \/ \E p \in Policies : SetPolicy(p)
  \/ \E c \in Caps : SetCap(c)
  \/ RemoveCap
  \/ Reset
  \/ Clear
  \/ \E m \in Mics, thr \in OwnThr : SetThresholds(m, thr)
  \/ ClearCalibration

-------------------------------------------------------------------------------

Init ==
  /\ policy \in Policies
  /\ mics = [m \in Mics |-> Fresh(policy.d_db, policy.a_db, FALSE)]
  /\ bus = 0
  /\ AttributionInit

Next == Block \/ Host

Spec == Init /\ [][Next]_vars

-------------------------------------------------------------------------------
(* Properties *)

(* The cap is mandatory for opening without a declaration: whatever the host
   does with the policy and the cap, a mic that left ARMING undeclared runs
   under a cap, latched or not (on_cap_change(), ARMING's timeout). *)
UndeclaredNeedsCap ==
  \A m \in Mics : mics[m].state # "arming" /\ ~ mics[m].declared => policy.has_cap

(* What the readouts of a mic say agrees with its state: nothing in ARMING is
   certified or latched, OPEN is certified, OPEN_CAPPED is not, and a latch is
   only ever served in LATCHED, DUCKED or RELEASING. *)
FlagsMatchState ==
  \A m \in Mics :
    LET s == mics[m]
    IN /\ s.state = "arming" => ~ s.declared /\ ~ s.latched
       /\ s.state = "open" => s.declared /\ ~ s.latched
       /\ s.state = "open_capped" => ~ s.declared /\ ~ s.latched
       /\ s.state = "latched" => s.latched

(* Fail safe: a mic that was given a TRIP in the last block is shut, whatever
   state the trip found it in and whatever the host called since. *)
TripShuts == \A m \in tripped : mics[m].state \in {"arming", "ducked"}

(* The restore level is always the back-off of the strikes in force, through
   strikes, decays, clear() and reset() (one strike_db and max_strikes). *)
LevelFollowsStrikes == \A m \in Mics : mics[m].level = LevelAt(mics[m].strikes)

(* The gain of a mic that is neither certified nor latched is never raised
   past the host's cap, nor past the arming gain where there is no cap. *)
NeverRaisedPastCap ==
  [][ \A m \in Mics :
        LET s == mics'[m]
        IN s.cur > mics[m].cur /\ ~ s.declared /\ ~ s.latched
           => s.cur <= IF policy'.has_cap THEN policy'.cap ELSE -policy'.arming_duck_db
    ]_vars

(* A trip that ducks a mic never aims its gain higher than it already was
   aimed, not even where the strike latches it onto a cap above its restore
   level (a trip on the block of a canceller restart may: it re-arms). *)
TripNeverRaises ==
  [][ \A m \in tripped' : mics'[m].state = "ducked" =>
        \/ mics'[m].tgt <= TargetDb(mics[m])
        \/ mics'[m].tgt = mics[m].tgt ]_vars

(* On a trip the post-reverb bus is cut too: it is a full duck down as soon as
   the ramp of a tripped mic has landed, whatever the other mics do. *)
BusCutOnTrip ==
  [][ \A m \in tripped' :
        mics'[m].state = "ducked" /\ mics'[m].left = 0 => bus' <= -policy.duck_db
    ]_vars

(* unprotected() *)
Unprotected(s) == s.timed_out \/ s.latched \/ s.state = "open_capped"

(* "The canceller has not certified this mic": a mic reads unprotected() only
   while it is undeclared or latched (howl_guard.h, unprotected()). *)
UnprotectedIsUncertified ==
  \A m \in Mics : Unprotected(mics[m]) => ~ mics[m].declared \/ mics[m].latched

===============================================================================
