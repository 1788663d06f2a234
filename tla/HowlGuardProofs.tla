--------------------------- MODULE HowlGuardProofs ---------------------------
(***************************************************************************)
(* Proofs about the howl guard, for any microphones, policies, caps and    *)
(* residuals: its type invariant; that a mic's flags always match its      *)
(* state, so that nothing runs undeclared without a cap; that a            *)
(* declaration is earned and nothing pumps; the cap, the back-off, the aim *)
(* of a trip and the bus; that a restarted canceller is noticed.           *)
(*                                                                         *)
(* The argument is per mic.  FlagsOf(s), the inductive invariant, says of  *)
(* one mic what FlagsMatchState and UndeclaredNeedsCap say of all of them. *)
(* Every operator of the guard either keeps the fields it speaks of        *)
(* (SameControl), or is a transition for which it is proved directly.  The *)
(* invariants of the later sections (Waits, Landed, Knows) go the same     *)
(* way.                                                                    *)
(***************************************************************************)
EXTENDS HowlGuardHistory, FiniteSetTheorems, WellFoundedInduction, TLAPS

FlagsOf(s) ==
  /\ s.state = "arming" => ~ s.declared /\ ~ s.latched
  /\ s.state = "open" => s.declared /\ ~ s.latched
  /\ s.state = "open_capped" => ~ s.declared /\ ~ s.latched
  /\ s.state = "latched" => s.latched
  /\ s.state # "arming" /\ ~ s.declared => policy.has_cap

GuardInv == GuardTypeOK /\ \A m \in Mics : FlagsOf(mics[m])

SameControl(s, t) ==
  /\ t.state = s.state
  /\ t.declared = s.declared
  /\ t.latched = s.latched

-------------------------------------------------------------------------------
(* Facts about the fields of a policy and of a mic *)

LEMMA PolicyFields ==
  ASSUME policy \in Policy
  PROVE  /\ policy.probation \in Ticks
         /\ policy.quiet \in Ticks
         /\ policy.attack \in Nat /\ policy.release_ramp \in Nat
         /\ policy.max_strikes \in Nat
         /\ policy.has_cap \in BOOLEAN
         /\ policy.cap \in Int /\ policy.duck_db \in Int
         /\ policy.arming_duck_db \in Int
         /\ policy.strike_db \in Int
         /\ policy.d_db \in Int /\ policy.a_db \in Int
  BY DEF Policy

LEMMA ZeroTick == 0 \in Ticks
  BY KBigAssumption DEF Ticks

LEMMA LaterType == ASSUME NEW n \in Ticks PROVE Later(n) \in Ticks
  BY KBigAssumption DEF Later, Ticks

LEMMA LevelAtType ==
  ASSUME NEW k \in Nat, policy \in Policy PROVE LevelAt(k) \in Int
  BY PolicyFields DEF LevelAt, Lesser

LEMMA ArmingDbType == ASSUME policy \in Policy PROVE ArmingDb \in Int
  BY PolicyFields DEF ArmingDb, Lesser

LEMMA RestoreDbType ==
  ASSUME NEW s \in Mic, policy \in Policy PROVE RestoreDb(s) \in Int
<1>1. s.latched \in BOOLEAN /\ s.declared \in BOOLEAN /\ s.level \in Int /\ s.floor \in Int
  BY DEF Mic
<1>2. QED
  BY <1>1, PolicyFields, ArmingDbType DEF RestoreDb, Lesser

LEMMA TargetDbType ==
  ASSUME NEW s \in Mic, policy \in Policy PROVE TargetDb(s) \in Int
  BY PolicyFields, ArmingDbType, RestoreDbType DEF TargetDb

-------------------------------------------------------------------------------
(* The operators that only move a mic's gain, clocks and verdict *)

LEMMA AimedType ==
  ASSUME NEW s \in Mic, policy \in Policy
  PROVE  Aimed(s) \in Mic /\ SameControl(s, Aimed(s))
<1> DEFINE tgt == TargetDb(s)
           n == IF tgt < s.cur THEN policy.attack ELSE policy.release_ramp
<1>1. tgt \in Int /\ n \in Nat
  BY TargetDbType, PolicyFields
<1> HIDE DEF tgt, n
<1>2. [s EXCEPT !.tgt = tgt, !.left = n, !.cur = IF n = 0 THEN tgt ELSE @] \in Mic
  BY <1>1 DEF Mic
<1>3. SameControl(s, [s EXCEPT !.tgt = tgt, !.left = n, !.cur = IF n = 0 THEN tgt ELSE @])
  BY DEF Mic, SameControl
<1>4. QED
  BY <1>2, <1>3 DEF Aimed, tgt, n, SameControl

LEMMA RampedType ==
  ASSUME NEW s \in Mic
  PROVE  Ramped(s) \in Mic /\ SameControl(s, Ramped(s))
<1>1. CASE s.left = 0
  BY <1>1 DEF Ramped, SameControl
<1>2. CASE s.left # 0
  <2> DEFINE c == IF s.left = 1 THEN s.tgt ELSE s.cur + (s.tgt - s.cur) \div s.left
  <2>1. s.left \in Nat \ {0} /\ s.tgt \in Int /\ s.cur \in Int
    BY <1>2 DEF Mic
  <2>2. c \in Int /\ s.left - 1 \in Nat
    BY <2>1
  <2> HIDE DEF c
  <2>3. /\ [s EXCEPT !.left = @ - 1, !.cur = c] \in Mic
        /\ SameControl(s, [s EXCEPT !.left = @ - 1, !.cur = c])
    BY <2>2 DEF Mic, SameControl
  <2>4. QED
    BY <1>2, <2>3 DEF Ramped, c
<1>3. QED
  BY <1>1, <1>2

LEMMA RenderedType ==
  ASSUME NEW s \in Mic, policy \in Policy
  PROVE  Rendered(s) \in Mic /\ SameControl(s, Rendered(s))
  BY AimedType, RampedType DEF Rendered, SameControl

LEMMA ClockedType ==
  ASSUME NEW s \in Mic, policy \in Policy
  PROVE  Clocked(s) \in Mic /\ SameControl(s, Clocked(s))
<1> DEFINE run == IF s.ok THEN Later(s.ok_run) ELSE 0
           off == IF s.ok THEN 0 ELSE Later(s.notok_run)
           arms == s.ok /\ (~ s.rearm_hold \/ run >= policy.release)
<1>1. run \in Ticks /\ off \in Ticks /\ Later(s.in_state) \in Ticks
  BY ZeroTick, LaterType DEF Mic
<1>2. (s.ok_seen \/ arms) \in BOOLEAN /\ (s.rearm_hold /\ ~ arms) \in BOOLEAN
  OBVIOUS
<1> HIDE DEF run, off, arms
<1> DEFINE t == [s EXCEPT !.ok_run = run, !.notok_run = off, !.in_state = Later(@),
                          !.ok_seen = @ \/ arms, !.rearm_hold = @ /\ ~ arms]
<1>3. t \in Mic /\ SameControl(s, t)
  BY <1>1, <1>2 DEF Mic, SameControl
<1>4. Clocked(s) = t
  BY DEF Clocked, run, off, arms
<1>5. QED
  BY <1>3, <1>4

LEMMA FallenType ==
  ASSUME NEW s \in Mic, NEW a
  PROVE  Fallen(s, a) \in Mic /\ SameControl(s, Fallen(s, a))
<1>1. (s.fell \/ a < policy.a_db) \in BOOLEAN
  OBVIOUS
<1>2. QED
  BY <1>1 DEF Fallen, Mic, SameControl

LEMMA BackOffType ==
  ASSUME NEW s \in Mic, NEW k \in 0..StrikeCap, NEW l \in Int, NEW d \in Ticks
  PROVE  LET t == [s EXCEPT !.strikes = k, !.level = l, !.decay = d]
         IN t \in Mic /\ SameControl(s, t)
  BY DEF Mic, SameControl

LEMMA ProbedType ==
  ASSUME NEW s \in Mic PROVE Probed(s) \in Mic /\ SameControl(s, Probed(s))
<1>1. (IF s.probation > 0 THEN s.probation - 1 ELSE 0) \in Ticks
  BY KBigAssumption DEF Mic, Ticks
<1>2. QED
  BY <1>1 DEF Probed, Mic, SameControl

LEMMA DecayedType ==
  ASSUME NEW s \in Mic, policy \in Policy
  PROVE  Decayed(s) \in Mic /\ SameControl(s, Decayed(s))
<1>1. CASE s.strikes = 0
  BY <1>1 DEF Decayed, SameControl
<1>2. CASE s.strikes # 0
  <2>1. s.strikes - 1 \in 0..StrikeCap /\ s.strikes - 1 \in Nat
    BY <1>2, StrikeCapAssumption DEF Mic
  <2>2. LevelAt(s.strikes - 1) \in Int /\ Later(s.decay) \in Ticks /\ 0 \in Ticks
    BY <2>1, LevelAtType, LaterType, ZeroTick DEF Mic
  <2>3. /\ [s EXCEPT !.strikes = @ - 1, !.level = LevelAt(s.strikes - 1), !.decay = 0] \in Mic
        /\ SameControl(s, [s EXCEPT !.strikes = @ - 1, !.level = LevelAt(s.strikes - 1), !.decay = 0])
    BY <2>1, <2>2, BackOffType
  <2>4. /\ [s EXCEPT !.decay = Later(s.decay)] \in Mic
        /\ SameControl(s, [s EXCEPT !.decay = Later(s.decay)])
    BY <2>2 DEF Mic, SameControl
  <2>5. QED
    BY <1>2, <2>3, <2>4 DEF Decayed
<1>3. QED
  BY <1>1, <1>2

-------------------------------------------------------------------------------
(* Transitions *)

LEMMA EnterType ==
  ASSUME NEW s \in Mic, NEW next \in States, policy \in Policy
  PROVE  /\ Enter(s, next) \in Mic
         /\ Enter(s, next).state = next
         /\ Enter(s, next).declared = s.declared
         /\ Enter(s, next).latched = s.latched
<1>0. policy.probation \in Ticks /\ 0 \in Ticks
  BY PolicyFields, ZeroTick
<1>1. CASE next = "ducked"
  BY <1>0, <1>1 DEF Enter, Mic
<1>2. CASE next \in {"open", "open_capped"}
  BY <1>0, <1>2 DEF Enter, Mic
<1>3. CASE next = "latched"
  BY <1>0, <1>3 DEF Enter, Mic
<1>4. CASE next \in {"arming", "releasing"}
  BY <1>0, <1>4 DEF Enter, Mic
<1>5. QED
  BY <1>1, <1>2, <1>3, <1>4 DEF States

LEMMA EnterArmingType ==
  ASSUME NEW s \in Mic, policy \in Policy
  PROVE  EnterArming(s) \in Mic /\ FlagsOf(EnterArming(s))
<1>1. Enter(s, "arming") \in Mic /\ Enter(s, "arming").state = "arming"
  BY EnterType DEF States
<1>2. EnterArming(s) \in Mic
  BY <1>1, ZeroTick DEF EnterArming, Mic
<1>3. /\ EnterArming(s).state = "arming"
      /\ ~ EnterArming(s).declared
      /\ ~ EnterArming(s).latched
  BY <1>1 DEF EnterArming, Mic
<1>4. QED
  BY <1>2, <1>3 DEF FlagsOf

LEMMA DeclaredType ==
  ASSUME NEW s \in Mic
  PROVE  /\ Declared(s) \in Mic
         /\ Declared(s).state = s.state
         /\ Declared(s).declared
         /\ Declared(s).latched = s.latched
  BY DEF Declared, Mic

(* A strike never latches in ARMING. *)
LEMMA StruckType ==
  ASSUME NEW s \in Mic, policy \in Policy
  PROVE  /\ Struck(s) \in Mic
         /\ Struck(s).state = s.state
         /\ Struck(s).declared = s.declared
         /\ s.state = "arming" => Struck(s).latched = s.latched
<1> DEFINE k == Lesser(s.strikes + 1, StrikeCap)
           latches == s.state # "arming" /\ k >= policy.max_strikes /\ ~ s.latched
           floor == IF ~ latches THEN s.floor
                    ELSE IF policy.has_cap THEN policy.cap ELSE LevelAt(k)
           t == [s EXCEPT !.strikes = k, !.level = LevelAt(k), !.decay = 0,
                          !.latched = s.latched \/ latches, !.floor = floor]
<1>1. s.strikes \in 0..StrikeCap /\ s.floor \in Int /\ s.latched \in BOOLEAN
  BY DEF Mic
<1>2. k \in 0..StrikeCap /\ k \in Nat
  BY <1>1, StrikeCapAssumption DEF Lesser
<1>3. LevelAt(k) \in Int
  BY <1>2, LevelAtType
<1>4. floor \in Int
  BY <1>1, <1>3, PolicyFields
<1>5. (s.latched \/ latches) \in BOOLEAN /\ (s.state = "arming" => (s.latched \/ latches) = s.latched)
  BY <1>1
<1> HIDE DEF k, latches, floor
<1>6. t \in Mic
  BY <1>2, <1>3, <1>4, <1>5, ZeroTick DEF Mic
<1>7. t.state = s.state /\ t.declared = s.declared /\ t.latched = (s.latched \/ latches)
  BY DEF Mic
<1>8. Struck(s) = t
  BY DEF Struck, k, latches, floor
<1>9. QED
  BY <1>5, <1>6, <1>7, <1>8

-------------------------------------------------------------------------------
(* One block of a mic's state machine *)

LEMMA StepArmingInv ==
  ASSUME NEW s \in Mic, NEW trip \in BOOLEAN, policy \in Policy,
         s.state = "arming", FlagsOf(s)
  PROVE  StepArming(s, trip) \in Mic /\ FlagsOf(StepArming(s, trip))
<1>1. CASE trip
  <2>1. [Struck(s) EXCEPT !.ok_run = 0] \in Mic /\ SameControl(Struck(s), [Struck(s) EXCEPT !.ok_run = 0])
    BY StruckType, ZeroTick DEF Mic, SameControl
  <2>2. QED
    BY <1>1, <2>1, StruckType DEF StepArming, SameControl, FlagsOf
<1>2. CASE ~ trip /\ Held(s)
  BY <1>2, DeclaredType, EnterType DEF StepArming, FlagsOf, States
<1>3. CASE ~ trip /\ ~ Held(s) /\ s.in_state >= policy.timeout
  <2> DEFINE t == [s EXCEPT !.timed_out = TRUE]
  <2>1. t \in Mic /\ SameControl(s, t)
    BY DEF Mic, SameControl
  <2> HIDE DEF t
  <2>2. StepArming(s, trip) =
          IF policy.has_cap /\ Quiet(s) THEN Enter(t, "open_capped") ELSE t
    BY <1>3 DEF StepArming, t
  <2>3. QED
    BY <2>1, <2>2, EnterType DEF SameControl, FlagsOf, States
<1>4. CASE ~ trip /\ ~ Held(s) /\ ~ (s.in_state >= policy.timeout)
  BY <1>4 DEF StepArming
<1>5. QED
  BY <1>1, <1>2, <1>3, <1>4

LEMMA StepOpenInv ==
  ASSUME NEW s \in Mic, NEW trip \in BOOLEAN, policy \in Policy,
         s.state = "open", FlagsOf(s)
  PROVE  StepOpen(s, trip) \in Mic /\ FlagsOf(StepOpen(s, trip))
<1>1. CASE trip \/ Lost(s)
  <2> DEFINE t == IF s.probation > 0 /\ (trip \/ policy.lost_strikes) THEN Struck(s) ELSE s
  <2>1. t \in Mic /\ t.declared = s.declared
    BY StruckType
  <2> HIDE DEF t
  <2>2. StepOpen(s, trip) = Enter(t, "ducked")
    BY <1>1 DEF StepOpen, t
  <2>3. QED
    BY <2>1, <2>2, EnterType DEF FlagsOf, States
<1>2. CASE ~ (trip \/ Lost(s))
  <2>1. Decayed(Probed(s)) \in Mic /\ SameControl(s, Decayed(Probed(s)))
    BY ProbedType, DecayedType DEF SameControl
  <2>2. QED
    BY <1>2, <2>1 DEF StepOpen, SameControl, FlagsOf
<1>3. QED
  BY <1>1, <1>2

LEMMA StepOpenCappedInv ==
  ASSUME NEW s \in Mic, NEW trip \in BOOLEAN, policy \in Policy,
         s.state = "open_capped", FlagsOf(s)
  PROVE  StepOpenCapped(s, trip) \in Mic /\ FlagsOf(StepOpenCapped(s, trip))
<1>1. CASE trip
  <2> DEFINE t == IF s.probation > 0 THEN Struck(s) ELSE s
  <2>1. t \in Mic /\ t.declared = s.declared
    BY StruckType
  <2> HIDE DEF t
  <2>2. StepOpenCapped(s, trip) = Enter(t, "ducked")
    BY <1>1 DEF StepOpenCapped, t
  <2>3. QED
    BY <2>1, <2>2, EnterType DEF FlagsOf, States
<1>2. CASE ~ trip /\ Held(s)
  BY <1>2, DeclaredType, EnterType DEF StepOpenCapped, FlagsOf, States
<1>3. CASE ~ trip /\ ~ Held(s)
  BY <1>3, ProbedType DEF StepOpenCapped, SameControl, FlagsOf
<1>4. QED
  BY <1>1, <1>2, <1>3

LEMMA StepDuckedInv ==
  ASSUME NEW s \in Mic, NEW trip \in BOOLEAN, policy \in Policy,
         s.state = "ducked", FlagsOf(s)
  PROVE  StepDucked(s, trip) \in Mic /\ FlagsOf(StepDucked(s, trip))
<1> DEFINE t == [s EXCEPT !.hold = Later(@)]
           r == [t EXCEPT !.ok_seen = FALSE, !.rearm_hold = TRUE, !.notok_run = 0]
<1>1. t \in Mic /\ SameControl(s, t)
  BY LaterType DEF Mic, SameControl
<1>2. r \in Mic /\ SameControl(t, r)
  BY <1>1, ZeroTick DEF Mic, SameControl
<1>3. [s EXCEPT !.hold = 0, !.ok_run = 0] \in Mic /\ SameControl(s, [s EXCEPT !.hold = 0, !.ok_run = 0])
  BY ZeroTick DEF Mic, SameControl
<1>4. \/ StepDucked(s, trip) = [s EXCEPT !.hold = 0, !.ok_run = 0]
      \/ StepDucked(s, trip) = Enter(Declared(t), "releasing")
      \/ StepDucked(s, trip) = Enter(r, "releasing")
      \/ StepDucked(s, trip) = t
  BY DEF StepDucked
<1> HIDE DEF t, r
<1>5. CASE StepDucked(s, trip) = [s EXCEPT !.hold = 0, !.ok_run = 0]
  BY <1>3, <1>5 DEF SameControl, FlagsOf
<1>6. CASE StepDucked(s, trip) = Enter(Declared(t), "releasing")
  BY <1>1, <1>6, DeclaredType, EnterType DEF FlagsOf, States
<1>7. CASE StepDucked(s, trip) = Enter(r, "releasing")
  BY <1>1, <1>2, <1>7, EnterType DEF SameControl, FlagsOf, States
<1>8. CASE StepDucked(s, trip) = t
  BY <1>1, <1>8 DEF SameControl, FlagsOf
<1>9. QED
  BY <1>4, <1>5, <1>6, <1>7, <1>8

LEMMA StepReleasingInv ==
  ASSUME NEW s \in Mic, NEW trip \in BOOLEAN, policy \in Policy,
         s.state = "releasing", FlagsOf(s)
  PROVE  StepReleasing(s, trip) \in Mic /\ FlagsOf(StepReleasing(s, trip))
<1>1. CASE trip
  BY <1>1, StruckType, EnterType DEF StepReleasing, FlagsOf, States
<1>2. CASE ~ trip /\ Lost(s)
  BY <1>2, EnterType DEF StepReleasing, FlagsOf, States
<1>3. CASE ~ trip /\ ~ Lost(s) /\ Arrived(s)
  <2> DEFINE next == IF s.latched THEN "latched"
                     ELSE IF s.declared THEN "open" ELSE "open_capped"
  <2>1. StepReleasing(s, trip) = Enter(s, next)
    BY <1>3 DEF StepReleasing
  <2>2. next \in States
    BY DEF States
  <2>3. QED
    BY <2>1, <2>2, EnterType DEF FlagsOf
<1>4. CASE ~ trip /\ ~ Lost(s) /\ ~ Arrived(s)
  BY <1>4 DEF StepReleasing
<1>5. QED
  BY <1>1, <1>2, <1>3, <1>4

LEMMA StepLatchedInv ==
  ASSUME NEW s \in Mic, NEW trip \in BOOLEAN, policy \in Policy,
         s.state = "latched", FlagsOf(s)
  PROVE  StepLatched(s, trip) \in Mic /\ FlagsOf(StepLatched(s, trip))
<1> DEFINE t == [s EXCEPT !.latch_notok = @ \/ ~ s.ok]
           u == [t EXCEPT !.latched = FALSE, !.declared = TRUE]
<1>1. t \in Mic /\ SameControl(s, t)
  BY DEF Mic, SameControl
<1> HIDE DEF t
<1>2. u \in Mic /\ u.latched = FALSE /\ u.declared = TRUE
  BY <1>1 DEF Mic
<1>3. \/ StepLatched(s, trip) = Enter(t, "ducked")
      \/ StepLatched(s, trip) = Enter(u, "releasing")
      \/ StepLatched(s, trip) = t
  BY DEF StepLatched, t
<1> HIDE DEF u
<1>4. CASE StepLatched(s, trip) = Enter(t, "ducked")
  BY <1>1, <1>4, EnterType DEF SameControl, FlagsOf, States
<1>5. CASE StepLatched(s, trip) = Enter(u, "releasing")
  BY <1>2, <1>5, EnterType DEF FlagsOf, States
<1>6. CASE StepLatched(s, trip) = t
  BY <1>1, <1>6 DEF SameControl, FlagsOf
<1>7. QED
  BY <1>3, <1>4, <1>5, <1>6

LEMMA StepInv ==
  ASSUME NEW s0 \in Mic, NEW a, NEW trip \in BOOLEAN, policy \in Policy, FlagsOf(s0)
  PROVE  Step(s0, a, trip) \in Mic /\ FlagsOf(Step(s0, a, trip))
<1> DEFINE s == Fallen(Clocked(s0), a)
<1>1. s \in Mic /\ SameControl(s0, s)
  BY ClockedType, FallenType DEF SameControl
<1>2. FlagsOf(s) /\ s.state \in States
  BY <1>1 DEF SameControl, FlagsOf, Mic
<1> HIDE DEF s
<1>3. CASE Restarted(s, a)
  BY <1>1, <1>3, EnterArmingType DEF Step, s
<1>4. CASE ~ Restarted(s, a)
  <2>1. \/ s.state = "arming" /\ Step(s0, a, trip) = StepArming(s, trip)
        \/ s.state = "open" /\ Step(s0, a, trip) = StepOpen(s, trip)
        \/ s.state = "open_capped" /\ Step(s0, a, trip) = StepOpenCapped(s, trip)
        \/ s.state = "ducked" /\ Step(s0, a, trip) = StepDucked(s, trip)
        \/ s.state = "releasing" /\ Step(s0, a, trip) = StepReleasing(s, trip)
        \/ s.state = "latched" /\ Step(s0, a, trip) = StepLatched(s, trip)
    BY <1>2, <1>4 DEF Step, s, States
  <2>2. QED
    BY <1>1, <1>2, <2>1, StepArmingInv, StepOpenInv, StepOpenCappedInv,
       StepDuckedInv, StepReleasingInv, StepLatchedInv
<1>5. QED
  BY <1>3, <1>4

-------------------------------------------------------------------------------
(* The block *)

LEMMA AgedType == ASSUME NEW e \in Episode PROVE Aged(e) \in Episode
<1>1. Later(e.age) \in 0..KBig
  BY LaterType DEF Episode, Ticks
<1>2. QED
  BY <1>1 DEF Aged, Episode

LEMMA AttributeType ==
  ASSUME NEW raw, NEW near \in SUBSET Mics, NEW q, NEW w,
         AttributionTypeOK, Attribute(raw, near, q, w)
  PROVE  AttributionTypeOK'
<1>1. episode \in Episode /\ 0 \in 0..KBig /\ episode.quiet + 1 \in Nat
  BY KBigAssumption DEF AttributionTypeOK, Episode, Ticks
<1>2. /\ [episode EXCEPT !.quiet = 0] \in Episode
      /\ [episode EXCEPT !.quiet = 0, !.on = FALSE] \in Episode
  BY <1>1 DEF Episode
<1>3. [[episode EXCEPT !.quiet = 0] EXCEPT !.on = TRUE, !.age = 0] \in Episode
  BY <1>1, <1>2 DEF Episode
<1>4. CASE NoTrip(q)
  <2> DEFINE n == episode.quiet + 1
             needed == QuietNeeded(q)
             e == [episode EXCEPT !.quiet = n, !.on = n < needed]
  <2>1. (n < needed) \in BOOLEAN
    OBVIOUS
  <2>2. e \in Episode
    <3> HIDE DEF needed
    <3>1. n \in Nat
      BY <1>1
    <3> HIDE DEF n
    <3>2. QED
      BY <1>1, <2>1, <3>1 DEF Episode
  <2> HIDE DEF e
  <2>3. tripped' = {} /\ episode' = IF episode.on THEN Aged(e) ELSE episode
    BY <1>4 DEF NoTrip, e, n, needed
  <2>4. QED
    BY <1>1, <2>2, <2>3, AgedType DEF AttributionTypeOK
<1>5. CASE TripOnly
  BY <1>2, <1>5, AgedType DEF TripOnly, AttributionTypeOK
<1>6. CASE Fallback(w)
  BY <1>2, <1>6 DEF Fallback, AttributionTypeOK
<1>7. CASE Attributed(near, w)
  <2> DEFINE heard == [episode EXCEPT !.quiet = 0]
  <2>1. /\ tripped' = near
        /\ \/ episode' = Aged([heard EXCEPT !.on = TRUE, !.age = 0])
           \/ episode' = Aged(heard)
    BY <1>7 DEF Attributed
  <2>2. QED
    BY <1>2, <1>3, <2>1, AgedType DEF AttributionTypeOK
<1>8. QED
  BY <1>4, <1>5, <1>6, <1>7 DEF Attribute

LEMMA ObservedInv ==
  ASSUME NEW s \in Mic, NEW in, policy \in Policy, FlagsOf(s)
  PROVE  Observed(s, in) \in Mic /\ FlagsOf(Observed(s, in))
<1> DEFINE t == Analyzed(s, in)
           ok == StatD(in) < s.d_thr /\ StatA(in) < s.a_thr
           since == IF HeardOf(in) = "silent" THEN Later(t.since) ELSE 0
           o == [t EXCEPT !.ok = ok, !.since = since]
<1>1. t \in Mic /\ FlagsOf(t)
  BY EnterArmingType DEF Analyzed
<1> HIDE DEF t
<1>2. since \in Ticks
  BY <1>1, LaterType, ZeroTick DEF Mic
<1>3. ok \in BOOLEAN
  OBVIOUS
<1> HIDE DEF ok, since
<1>4. o \in Mic /\ SameControl(t, o)
  BY <1>1, <1>2, <1>3 DEF Mic, SameControl
<1>5. Observed(s, in) = o
  BY DEF Observed, t, ok, since
<1>6. QED
  BY <1>1, <1>4, <1>5 DEF SameControl, FlagsOf

LEMMA BlockInv ==
  ASSUME GuardInv, Block PROVE GuardInv'
<1>1. PICK in \in Residuals, near \in SUBSET Mics \ {{}} : Update(in, near)
  BY DEF Block
<1> DEFINE seen == [m \in Mics |-> Observed(mics[m], in[m])]
           raw == {m \in Mics : RawTrip(seen[m], in[m])}
<1>2. /\ Attribute(raw, near, policy.quiet, policy.window)
      /\ mics' = [m \in Mics |-> Rendered(Step(seen[m], StatA(in[m]), m \in tripped'))]
      /\ policy' = policy
  BY <1>1 DEF Update
<1>3. policy \in Policy /\ AttributionTypeOK
  BY DEF GuardInv, GuardTypeOK
<1>4. AttributionTypeOK'
  <2> HIDE DEF raw
  <2>1. near \in SUBSET Mics
    OBVIOUS
  <2>2. QED
    BY <1>2, <1>3, <2>1, AttributeType
<1>5. ASSUME NEW m \in Mics
      PROVE  mics'[m] \in Mic /\ FlagsOf(mics'[m])
  <2>1. mics[m] \in Mic /\ FlagsOf(mics[m])
    BY DEF GuardInv, GuardTypeOK
  <2>2. seen[m] \in Mic /\ FlagsOf(seen[m])
    BY <1>3, <2>1, ObservedInv
  <2> HIDE DEF seen
  <2> DEFINE n == Step(seen[m], StatA(in[m]), m \in tripped')
  <2>3. n \in Mic /\ FlagsOf(n)
    <3>1. (m \in tripped') \in BOOLEAN
      OBVIOUS
    <3>2. QED
      BY <1>3, <2>2, <3>1, StepInv
  <2>4. mics'[m] = Rendered(n)
    BY <1>2
  <2> HIDE DEF n
  <2>5. QED
    BY <1>3, <2>3, <2>4, RenderedType DEF SameControl, FlagsOf
<1>6. mics' \in [Mics -> Mic]
  <2> HIDE DEF seen
  <2>1. QED
    BY <1>2, <1>5
<1>7. \A m \in Mics : FlagsOf(mics[m])'
  BY <1>2, <1>5 DEF FlagsOf
<1>8. QED
  BY <1>2, <1>3, <1>4, <1>6, <1>7 DEF GuardInv, GuardTypeOK

-------------------------------------------------------------------------------
(* The host *)

LEMMA RethresholdedType ==
  ASSUME NEW s \in Mic, NEW p \in Policy
  PROVE  Rethresholded(s, p) \in Mic /\ SameControl(s, Rethresholded(s, p))
<1>1. p.d_db \in Int /\ p.a_db \in Int
  BY DEF Policy
<1>2. QED
  BY <1>1 DEF Rethresholded, Mic, SameControl

LEMMA ApplyPolicyInv ==
  ASSUME NEW p \in Policy, GuardInv, ApplyPolicy(p) PROVE GuardInv'
<1>1. /\ policy' = p
      /\ mics' = [m \in Mics |-> OnCapChange(Rethresholded(mics[m], p), p)]
      /\ episode' = episode /\ tripped' = tripped
  BY DEF ApplyPolicy
<1>2. ASSUME NEW m \in Mics
      PROVE  mics'[m] \in Mic /\ FlagsOf(mics[m])'
  <2> DEFINE s == Rethresholded(mics[m], p)
  <2>1. mics[m] \in Mic /\ FlagsOf(mics[m]) /\ policy \in Policy
    BY DEF GuardInv, GuardTypeOK
  <2>2. s \in Mic /\ SameControl(mics[m], s)
    BY <2>1, RethresholdedType
  <2> HIDE DEF s
  <2>3. mics'[m] = OnCapChange(s, p)
    BY <1>1 DEF s
  <2>4. CASE ~ p.has_cap /\ ~ s.declared /\ s.state # "arming"
    <3>1. mics'[m] = EnterArming(s)
      BY <2>3, <2>4 DEF OnCapChange
    <3>2. /\ EnterArming(s) \in Mic /\ EnterArming(s).state = "arming"
          /\ ~ EnterArming(s).declared /\ ~ EnterArming(s).latched
      <4>1. Enter(s, "arming") \in Mic /\ Enter(s, "arming").state = "arming"
        BY <2>1, <2>2, EnterType DEF States
      <4>2. QED
        BY <2>1, <2>2, <4>1, EnterArmingType DEF EnterArming, Mic
    <3>3. QED
      BY <3>1, <3>2 DEF FlagsOf
  <2>5. CASE ~ (~ p.has_cap /\ ~ s.declared /\ s.state # "arming")
    <3>1. mics'[m] = s
      BY <2>3, <2>5 DEF OnCapChange
    <3>2. QED
      BY <1>1, <2>1, <2>2, <2>5, <3>1 DEF SameControl, FlagsOf
  <2>6. QED
    BY <2>4, <2>5
<1>3. mics' \in [Mics -> Mic]
  BY <1>1, <1>2
<1>4. QED
  BY <1>1, <1>2, <1>3 DEF GuardInv, GuardTypeOK, AttributionTypeOK

LEMMA FreshType ==
  ASSUME NEW d \in Int, NEW a \in Int, NEW own \in BOOLEAN, policy \in Policy
  PROVE  Fresh(d, a, own) \in Mic /\ FlagsOf(Fresh(d, a, own))
<1>1. ArmingDb \in Int /\ policy.quiet \in Ticks /\ 0 \in Ticks /\ 0 \in 0..StrikeCap
  BY ArmingDbType, PolicyFields, ZeroTick, StrikeCapAssumption
<1>2. Fresh(d, a, own) \in Mic
  BY <1>1 DEF Fresh, Mic, States
<1>3. /\ Fresh(d, a, own).state = "arming"
      /\ ~ Fresh(d, a, own).declared /\ ~ Fresh(d, a, own).latched
  BY DEF Fresh
<1>4. QED
  BY <1>2, <1>3 DEF FlagsOf

LEMMA ResetInv == ASSUME GuardInv, Reset PROVE GuardInv'
<1>1. policy \in Policy /\ mics \in [Mics -> Mic] /\ episode \in Episode
  BY DEF GuardInv, GuardTypeOK, AttributionTypeOK
<1>2. ASSUME NEW m \in Mics
      PROVE  mics'[m] \in Mic /\ FlagsOf(mics'[m])
  <2>1. mics[m].d_thr \in Int /\ mics[m].a_thr \in Int /\ mics[m].own_thr \in BOOLEAN
    BY <1>1 DEF Mic
  <2>2. mics'[m] = Fresh(mics[m].d_thr, mics[m].a_thr, mics[m].own_thr)
    BY DEF Reset
  <2>3. QED
    BY <1>1, <2>1, <2>2, FreshType
<1>3. mics' \in [Mics -> Mic]
  BY <1>2 DEF Reset
<1>4. [episode EXCEPT !.on = FALSE] \in Episode
  BY <1>1 DEF Episode
<1>5. \A m \in Mics : FlagsOf(mics[m])'
  BY <1>2 DEF FlagsOf, Reset
<1>6. QED
  BY <1>1, <1>3, <1>4, <1>5 DEF Reset, GuardInv, GuardTypeOK, AttributionTypeOK

LEMMA ClearedInv ==
  ASSUME NEW s \in Mic, policy \in Policy, FlagsOf(s)
  PROVE  Cleared(s) \in Mic /\ FlagsOf(Cleared(s))
<1> DEFINE t == [s EXCEPT !.strikes = 0, !.level = 0, !.decay = 0,
                          !.timed_out = FALSE, !.latched = FALSE]
           u == IF s.latched /\ s.state = "latched" THEN Enter(t, "releasing") ELSE t
<1>0. 0 \in Ticks /\ 0 \in 0..StrikeCap /\ 0 \in Int
  BY ZeroTick, StrikeCapAssumption
<1>1. t \in Mic
  <2> DEFINE b == [s EXCEPT !.strikes = 0, !.level = 0, !.decay = 0]
  <2>1. b \in Mic
    BY <1>0, BackOffType, Zenon
  <2> HIDE DEF b
  <2>2. t = [b EXCEPT !.timed_out = FALSE, !.latched = FALSE]
    BY DEF b
  <2> HIDE DEF t
  <2>3. QED
    BY <2>1, <2>2 DEF Mic
<1>2. t.state = s.state /\ t.declared = s.declared /\ t.latched = FALSE
  BY DEF Mic
<1> HIDE DEF t
<1>3. u \in Mic /\ FlagsOf(u)
  BY <1>1, <1>2, EnterType DEF FlagsOf, States
<1> HIDE DEF u
<1>4. [u EXCEPT !.in_state = 0] \in Mic /\ SameControl(u, [u EXCEPT !.in_state = 0])
  BY <1>3, ZeroTick DEF Mic, SameControl
<1>5. Cleared(s) = IF u.state = "arming" THEN [u EXCEPT !.in_state = 0] ELSE u
  BY DEF Cleared, t, u
<1>6. QED
  BY <1>3, <1>4, <1>5 DEF SameControl, FlagsOf

LEMMA ClearInv == ASSUME GuardInv, Clear PROVE GuardInv'
<1>1. policy \in Policy /\ mics \in [Mics -> Mic]
  BY DEF GuardInv, GuardTypeOK
<1>2. \A m \in Mics : mics'[m] \in Mic /\ FlagsOf(mics'[m])
  BY <1>1, ClearedInv DEF Clear, GuardInv
<1>3. mics' \in [Mics -> Mic]
  BY <1>2 DEF Clear
<1>4. \A m \in Mics : FlagsOf(mics[m])'
  BY <1>2 DEF FlagsOf, Clear
<1>5. QED
  BY <1>1, <1>3, <1>4 DEF Clear, GuardInv, GuardTypeOK, AttributionTypeOK

LEMMA SetThresholdsInv ==
  ASSUME NEW m \in Mics, NEW thr \in OwnThr, GuardInv, SetThresholds(m, thr)
  PROVE  GuardInv'
<1> DEFINE t == [mics[m] EXCEPT !.d_thr = thr.d, !.a_thr = thr.a,
                                !.own_thr = TRUE, !.ok_seen = FALSE]
<1>1. mics[m] \in Mic /\ FlagsOf(mics[m]) /\ mics \in [Mics -> Mic] /\ policy \in Policy
  BY DEF GuardInv, GuardTypeOK
<1>2. thr.d \in Int /\ thr.a \in Int
  BY OwnThrAssumption
<1>3. t \in Mic /\ SameControl(mics[m], t)
  BY <1>1, <1>2 DEF Mic, SameControl
<1>4. mics' = [mics EXCEPT ![m] = t]
  BY <1>1 DEF SetThresholds
<1> HIDE DEF t
<1>5. mics' \in [Mics -> Mic]
  BY <1>1, <1>3, <1>4
<1>6. policy' = policy /\ episode' = episode /\ tripped' = tripped
  BY DEF SetThresholds
<1>7. FlagsOf(t)
  BY <1>1, <1>3 DEF SameControl, FlagsOf
<1>8. \A x \in Mics : FlagsOf(mics'[x])
  BY <1>1, <1>4, <1>7 DEF GuardInv
<1>9. \A x \in Mics : FlagsOf(mics[x])'
  BY <1>6, <1>8 DEF FlagsOf
<1>10. QED
  BY <1>1, <1>5, <1>6, <1>9 DEF GuardInv, GuardTypeOK, AttributionTypeOK

LEMMA ClearCalibrationInv ==
  ASSUME GuardInv, ClearCalibration PROVE GuardInv'
<1>1. policy \in Policy /\ mics \in [Mics -> Mic]
  BY DEF GuardInv, GuardTypeOK
<1>2. ASSUME NEW m \in Mics
      PROVE  mics'[m] \in Mic /\ FlagsOf(mics'[m])
  <2> DEFINE t == [mics[m] EXCEPT !.own_thr = FALSE, !.ok_seen = FALSE]
  <2>1. mics[m] \in Mic /\ FlagsOf(mics[m])
    BY DEF GuardInv, GuardTypeOK
  <2>2. t \in Mic /\ SameControl(mics[m], t)
    BY <2>1 DEF Mic, SameControl
  <2> HIDE DEF t
  <2>3. mics'[m] = Rethresholded(t, policy)
    BY DEF ClearCalibration, t
  <2>4. QED
    BY <1>1, <2>1, <2>2, <2>3, RethresholdedType DEF SameControl, FlagsOf
<1>3. mics' \in [Mics -> Mic]
  BY <1>2 DEF ClearCalibration
<1>4. \A m \in Mics : FlagsOf(mics[m])'
  BY <1>2 DEF FlagsOf, ClearCalibration
<1>5. QED
  BY <1>1, <1>3, <1>4 DEF ClearCalibration, GuardInv, GuardTypeOK, AttributionTypeOK

LEMMA UncappedType ==
  ASSUME policy \in Policy
  PROVE  [policy EXCEPT !.has_cap = FALSE, !.cap = 0] \in Policy
<1> DEFINE q == [policy EXCEPT !.has_cap = FALSE]
<1>1. q \in Policy
  BY DEF Policy
<1> HIDE DEF q
<1>2. [q EXCEPT !.cap = 0] \in Policy
  BY <1>1 DEF Policy
<1>3. QED
  BY <1>2 DEF q

LEMMA HostInv == ASSUME GuardInv, Host PROVE GuardInv'
<1>1. policy \in Policy
  BY DEF GuardInv, GuardTypeOK
<1>2. ASSUME NEW p \in Policies, SetPolicy(p) PROVE GuardInv'
  BY <1>2, ApplyPolicyInv, PolicyAssumption DEF SetPolicy
<1>3. ASSUME NEW c \in Caps, SetCap(c) PROVE GuardInv'
  <2>1. [policy EXCEPT !.has_cap = TRUE, !.cap = c] \in Policy
    BY <1>1, CapsAssumption DEF Policy
  <2>2. QED
    BY <1>3, <2>1, ApplyPolicyInv DEF SetCap
<1>4. CASE RemoveCap
  BY <1>1, <1>4, UncappedType, ApplyPolicyInv DEF RemoveCap
<1>5. QED
  BY <1>2, <1>3, <1>4, ResetInv, ClearInv, SetThresholdsInv, ClearCalibrationInv
     DEF Host

-------------------------------------------------------------------------------
(* The theorems *)

LEMMA InitInv == Init => GuardInv
<1> SUFFICES ASSUME Init PROVE GuardInv
  OBVIOUS
<1>1. policy \in Policy
  BY PolicyAssumption DEF Init
<1>2. policy.d_db \in Int /\ policy.a_db \in Int
  BY <1>1, PolicyFields
<1>3. \A m \in Mics : mics[m] \in Mic /\ FlagsOf(mics[m])
  BY <1>1, <1>2, FreshType DEF Init
<1>4. mics \in [Mics -> Mic]
  BY <1>3 DEF Init
<1>5. AttributionTypeOK
  BY KBigAssumption DEF Init, AttributionInit, AttributionTypeOK, NoEpisode, Episode
<1>6. QED
  BY <1>1, <1>3, <1>4, <1>5 DEF GuardInv, GuardTypeOK

LEMMA NextInv == GuardInv /\ [Next]_vars => GuardInv'
<1> SUFFICES ASSUME GuardInv, [Next]_vars PROVE GuardInv'
  OBVIOUS
<1>1. CASE Block
  BY <1>1, BlockInv
<1>2. CASE Host
  BY <1>2, HostInv
<1>3. CASE UNCHANGED vars
  BY <1>3 DEF vars, GuardInv, GuardTypeOK, AttributionTypeOK, FlagsOf
<1>4. QED
  BY <1>1, <1>2, <1>3 DEF Next

(* The inductive invariant holds in every state the guard can reach. *)
THEOREM GuardInvariant == Spec => []GuardInv
  BY InitInv, NextInv, PTL DEF Spec

(* Every variable of the guard keeps its type, the counters their saturation
   (the bus gain is left out: it is the least element of a finite set, whose
   existence takes an induction). *)
THEOREM GuardTypeCorrect == Spec => []GuardTypeOK
<1>1. GuardInv => GuardTypeOK
  BY DEF GuardInv
<1>2. QED
  BY <1>1, GuardInvariant, PTL

(* The readouts of a mic agree with its state, for every number of mics,
   policy, cap and sequence of residuals and host calls. *)
THEOREM FlagsAlwaysMatchState == Spec => []FlagsMatchState
<1>1. GuardInv => FlagsMatchState
  BY DEF GuardInv, FlagsOf, FlagsMatchState
<1>2. QED
  BY <1>1, GuardInvariant, PTL

(* The cap is mandatory for opening without a declaration. *)
THEOREM CapIsMandatory == Spec => []UndeclaredNeedsCap
<1>1. GuardInv => UndeclaredNeedsCap
  BY DEF GuardInv, FlagsOf, UndeclaredNeedsCap
<1>2. QED
  BY <1>1, GuardInvariant, PTL

-------------------------------------------------------------------------------
(* A trip shuts the mic *)

Shut(s) == s.state \in {"arming", "ducked"}

LEMMA StepShuts ==
  ASSUME NEW s0 \in Mic, NEW a, policy \in Policy
  PROVE  Shut(Step(s0, a, TRUE))
<1> DEFINE s == Fallen(Clocked(s0), a)
<1>1. s \in Mic /\ s.state \in States
  BY ClockedType, FallenType DEF Mic
<1> HIDE DEF s
<1>2. CASE Restarted(s, a)
  <2>1. Step(s0, a, TRUE) = EnterArming(s)
    BY <1>2 DEF Step, s
  <2>2. Enter(s, "arming") \in Mic /\ Enter(s, "arming").state = "arming"
    BY <1>1, EnterType DEF States
  <2>3. EnterArming(s).state = "arming"
    BY <2>2 DEF EnterArming, Mic
  <2>4. QED
    BY <2>1, <2>3 DEF Shut
<1>3. CASE ~ Restarted(s, a)
  <2>1. CASE s.state = "arming"
    <3>1. Step(s0, a, TRUE) = [Struck(s) EXCEPT !.ok_run = 0]
      BY <1>3, <2>1 DEF Step, StepArming, s
    <3>2. [Struck(s) EXCEPT !.ok_run = 0].state = Struck(s).state
      BY <1>1, StruckType DEF Mic
    <3>3. QED
      BY <1>1, <2>1, <3>1, <3>2, StruckType DEF Shut
  <2>2. CASE s.state = "ducked"
    <3>1. Step(s0, a, TRUE) = [s EXCEPT !.hold = 0, !.ok_run = 0]
      BY <1>3, <2>2 DEF Step, StepDucked, s
    <3>2. [s EXCEPT !.hold = 0, !.ok_run = 0].state = s.state
      BY <1>1 DEF Mic
    <3>3. QED
      BY <2>2, <3>1, <3>2 DEF Shut
  <2>3. CASE s.state \in {"open", "open_capped", "releasing", "latched"}
    <3>1. PICK t \in {s, Struck(s), [s EXCEPT !.latch_notok = @ \/ ~ s.ok]} :
            Step(s0, a, TRUE) = Enter(t, "ducked")
      <4>1. CASE s.state = "open"
        BY <1>3, <4>1 DEF Step, StepOpen, s
      <4>2. CASE s.state = "open_capped"
        BY <1>3, <4>2 DEF Step, StepOpenCapped, s
      <4>3. CASE s.state = "releasing"
        BY <1>3, <4>3 DEF Step, StepReleasing, s
      <4>4. CASE s.state = "latched"
        BY <1>3, <4>4 DEF Step, StepLatched, s
      <4>5. QED
        BY <2>3, <4>1, <4>2, <4>3, <4>4
    <3>2. [s EXCEPT !.latch_notok = @ \/ ~ s.ok] \in Mic
      BY <1>1 DEF Mic
    <3>3. t \in Mic
      BY <1>1, <3>1, <3>2, StruckType
    <3>4. Enter(t, "ducked").state = "ducked"
      BY <3>3, EnterType DEF States
    <3>5. Step(s0, a, TRUE).state = "ducked"
      BY <3>1, <3>4, Zenon
    <3>6. QED
      BY <3>5 DEF Shut
  <2>4. QED
    BY <1>1, <2>1, <2>2, <2>3 DEF States
<1>4. QED
  BY <1>2, <1>3

LEMMA BlockShuts ==
  ASSUME GuardInv, Block PROVE TripShuts'
<1>1. PICK in \in Residuals, near \in SUBSET Mics \ {{}} : Update(in, near)
  BY DEF Block
<1> SUFFICES ASSUME NEW m \in tripped' PROVE Shut(mics'[m])
  BY DEF TripShuts, Shut
<1> DEFINE seen == Observed(mics[m], in[m])
<1>2. m \in Mics /\ policy \in Policy
  BY BlockInv DEF GuardInv, GuardTypeOK, AttributionTypeOK
<1>3. seen \in Mic
  BY <1>2, ObservedInv DEF GuardInv, GuardTypeOK
<1>4. (m \in tripped') = TRUE
  OBVIOUS
<1>5. mics'[m] = Rendered(Step(seen, StatA(in[m]), m \in tripped'))
  BY <1>1, <1>2 DEF Update
<1>6. mics'[m] = Rendered(Step(seen, StatA(in[m]), TRUE))
  BY <1>4, <1>5
<1>7. FlagsOf(seen)
  BY <1>2, ObservedInv DEF GuardInv, GuardTypeOK
<1> HIDE DEF seen
<1>8. Step(seen, StatA(in[m]), TRUE) \in Mic
  BY <1>2, <1>3, <1>7, StepInv
<1>9. QED
  BY <1>2, <1>3, <1>6, <1>8, StepShuts, RenderedType DEF SameControl, Shut

(* What the host does between blocks opens no mic that a trip has shut. *)
LEMMA HostKeepsShut ==
  ASSUME GuardInv, TripShuts, Host PROVE TripShuts'
<1>1. policy \in Policy /\ mics \in [Mics -> Mic] /\ tripped \subseteq Mics
  BY DEF GuardInv, GuardTypeOK, AttributionTypeOK
<1>2. \A m \in tripped : Shut(mics[m])
  BY DEF TripShuts, Shut
<1>3. ASSUME NEW p \in Policy, ApplyPolicy(p) PROVE TripShuts'
  <2> SUFFICES ASSUME NEW m \in tripped PROVE Shut(mics'[m])
    BY <1>3 DEF ApplyPolicy, TripShuts, Shut
  <2> DEFINE s == Rethresholded(mics[m], p)
  <2>1. s \in Mic /\ Shut(s)
    BY <1>1, <1>2, RethresholdedType DEF SameControl, Shut
  <2>2. mics'[m] = OnCapChange(s, p)
    BY <1>1, <1>3 DEF ApplyPolicy
  <2> HIDE DEF s
  <2>3. Enter(s, "arming") \in Mic /\ Enter(s, "arming").state = "arming"
    BY <1>1, <2>1, EnterType DEF States
  <2>4. EnterArming(s).state = "arming"
    BY <2>3 DEF EnterArming, Mic
  <2>5. QED
    BY <2>1, <2>2, <2>4 DEF OnCapChange, Shut
<1>4. ASSUME NEW p \in Policies, SetPolicy(p) PROVE TripShuts'
  BY <1>3, <1>4, PolicyAssumption DEF SetPolicy
<1>5. ASSUME NEW c \in Caps, SetCap(c) PROVE TripShuts'
  <2>1. [policy EXCEPT !.has_cap = TRUE, !.cap = c] \in Policy
    BY <1>1, CapsAssumption DEF Policy
  <2>2. QED
    BY <1>3, <1>5, <2>1 DEF SetCap
<1>6. CASE RemoveCap
  BY <1>1, <1>3, <1>6, UncappedType DEF RemoveCap
<1>7. CASE Reset
  BY <1>7 DEF Reset, TripShuts
<1>8. CASE Clear
  <2> SUFFICES ASSUME NEW m \in tripped PROVE Shut(mics'[m])
    BY <1>8 DEF Clear, TripShuts, Shut
  <2> DEFINE t == [mics[m] EXCEPT !.strikes = 0, !.level = 0, !.decay = 0,
                                  !.timed_out = FALSE, !.latched = FALSE]
  <2>1. mics[m] \in Mic /\ Shut(mics[m]) /\ mics'[m] = Cleared(mics[m])
    BY <1>1, <1>2, <1>8 DEF Clear
  <2>2. t.state = mics[m].state /\ [t EXCEPT !.in_state = 0].state = mics[m].state
    BY <2>1 DEF Mic
  <2>3. mics[m].state # "latched"
    BY <2>1 DEF Shut
  <2>4. Cleared(mics[m]) \in {t, [t EXCEPT !.in_state = 0]}
    BY <2>3 DEF Cleared
  <2> HIDE DEF t
  <2>5. QED
    BY <2>1, <2>2, <2>4 DEF Shut
<1>9. ASSUME NEW x \in Mics, NEW thr \in OwnThr, SetThresholds(x, thr) PROVE TripShuts'
  <2> SUFFICES ASSUME NEW m \in tripped PROVE Shut(mics'[m])
    BY <1>9 DEF SetThresholds, TripShuts, Shut
  <2>1. mics'[m].state = mics[m].state
    <3>1. mics[m] \in Mic
      BY <1>1
    <3>2. CASE m = x
      BY <1>1, <1>9, <3>1, <3>2 DEF SetThresholds, Mic
    <3>3. CASE m # x
      BY <1>1, <1>9, <3>3 DEF SetThresholds
    <3>4. QED
      BY <3>2, <3>3
  <2>2. QED
    BY <1>2, <2>1 DEF Shut
<1>10. CASE ClearCalibration
  <2> SUFFICES ASSUME NEW m \in tripped PROVE Shut(mics'[m])
    BY <1>10 DEF ClearCalibration, TripShuts, Shut
  <2> DEFINE t == [mics[m] EXCEPT !.own_thr = FALSE, !.ok_seen = FALSE]
  <2>1. mics[m] \in Mic /\ mics'[m] = Rethresholded(t, policy)
    BY <1>1, <1>10 DEF ClearCalibration
  <2>2. t \in Mic /\ t.state = mics[m].state
    BY <2>1 DEF Mic
  <2> HIDE DEF t
  <2>3. QED
    BY <1>1, <1>2, <2>1, <2>2, RethresholdedType DEF SameControl, Shut
<1>11. QED
  BY <1>4, <1>5, <1>6, <1>7, <1>8, <1>9, <1>10 DEF Host

(* Fail safe: whatever state a trip finds a mic in, and whatever the host calls
   until the next block, the mic is shut. *)
THEOREM TripAlwaysShuts == Spec => []TripShuts
<1>1. Init => TripShuts
  BY DEF Init, AttributionInit, TripShuts
<1>2. GuardInv /\ TripShuts /\ [Next]_vars => TripShuts'
  <2> SUFFICES ASSUME GuardInv, TripShuts, [Next]_vars PROVE TripShuts'
    OBVIOUS
  <2>1. CASE Block
    BY <2>1, BlockShuts
  <2>2. CASE Host
    BY <2>2, HostKeepsShut
  <2>3. CASE UNCHANGED vars
    BY <2>3 DEF vars, TripShuts
  <2>4. QED
    BY <2>1, <2>2, <2>3 DEF Next
<1>3. QED
  BY <1>1, <1>2, GuardInvariant, PTL DEF Spec

-------------------------------------------------------------------------------
(* Certificates and pumping, over the history.  What a transition may do to a
   mic's runs and flags is Follows; of the old state s the runs are clocked. *)

LEMMA PolicyTimes ==
  ASSUME policy \in Policy
  PROVE  policy.release \in 1..KBig /\ policy.trip \in 1..KBig
  BY DEF Policy

SameReading(s, t) ==
  /\ t.ok = s.ok /\ t.since = s.since
  /\ t.d_thr = s.d_thr /\ t.a_thr = s.a_thr

SameRuns(s, t) ==
  /\ SameControl(s, t)
  /\ SameReading(s, t) /\ t.ok_run = s.ok_run
  /\ t.ok_seen = s.ok_seen /\ t.rearm_hold = s.rearm_hold

(* Every way into ARMING or DUCKED is harmless, and so is every undeclared mic;
   the rest was held, is re-armed by the timer, or keeps what arms LOST. *)
Follows(s, t, trip) ==
  /\ SameReading(s, t)
  /\ t.ok_run \in {s.ok_run, 0}
  /\ trip => t.ok_run = 0
  /\ t.declared => s.declared \/ (Held(s) /\ ~ trip)
  /\ \/ t.state \in {"arming", "ducked"} \/ ~ t.declared
     \/ Held(s) /\ ~ trip
     \/ ~ t.ok_seen /\ t.rearm_hold
     \/ /\ s.state \notin {"arming", "ducked"} /\ s.declared /\ ~ trip
        /\ t.ok_seen = s.ok_seen /\ t.rearm_hold = s.rearm_hold
  /\ s.state = "ducked" /\ t.state = "releasing" =>
       \/ Held(s) /\ ~ trip /\ t.rearm_hold = s.rearm_hold
       \/ ~ t.ok_seen /\ t.rearm_hold
  /\ t.state = "ducked" /\ ~ trip => s.state = "ducked" \/ Lost(s)

LEMMA EnterRuns ==
  ASSUME NEW s \in Mic, NEW next \in States
  PROVE  LET t == Enter(s, next)
         IN  /\ t.state = next /\ t.declared = s.declared /\ t.latched = s.latched
             /\ SameReading(s, t) /\ t.rearm_hold = s.rearm_hold
             /\ t.ok_run = IF next = "ducked" THEN 0 ELSE s.ok_run
             /\ t.ok_seen = IF next = "ducked" THEN FALSE ELSE s.ok_seen
<1>1. CASE next = "ducked"
  BY <1>1 DEF Enter, Mic, SameReading
<1>2. CASE next \in {"open", "open_capped"}
  BY <1>2 DEF Enter, Mic, SameReading
<1>3. CASE next = "latched"
  BY <1>3 DEF Enter, Mic, SameReading
<1>4. CASE next \in {"arming", "releasing"}
  BY <1>4 DEF Enter, Mic, SameReading
<1>5. QED
  BY <1>1, <1>2, <1>3, <1>4 DEF States

LEMMA EnterArmingRuns ==
  ASSUME NEW s \in Mic, policy \in Policy
  PROVE  LET t == EnterArming(s)
         IN  /\ t.state = "arming" /\ ~ t.declared /\ t.ok_run = 0
             /\ SameReading(s, t)
<1> DEFINE e == Enter(s, "arming")
<1>1. e \in Mic /\ e.state = "arming" /\ SameReading(s, e)
  BY EnterType, EnterRuns DEF States
<1> HIDE DEF e
<1>2. EnterArming(s) = [e EXCEPT !.fell = FALSE, !.latched = FALSE, !.declared = FALSE,
                                 !.ok_seen = FALSE, !.rearm_hold = FALSE,
                                 !.timed_out = FALSE, !.ok_run = 0]
  BY DEF EnterArming, e
<1>3. QED
  BY <1>1, <1>2 DEF Mic, SameReading

LEMMA StruckRuns ==
  ASSUME NEW s \in Mic
  PROVE  LET t == Struck(s)
         IN  /\ t.state = s.state /\ t.declared = s.declared
             /\ SameReading(s, t) /\ t.ok_run = s.ok_run
             /\ t.ok_seen = s.ok_seen /\ t.rearm_hold = s.rearm_hold
  BY DEF Struck, Mic, SameReading

LEMMA DeclaredRuns ==
  ASSUME NEW s \in Mic
  PROVE  LET t == Declared(s)
         IN  /\ t.state = s.state /\ t.declared /\ t.latched = s.latched
             /\ SameReading(s, t) /\ t.ok_run = s.ok_run
             /\ t.ok_seen = s.ok_seen /\ t.rearm_hold = s.rearm_hold
  BY DEF Declared, Mic, SameReading

LEMMA RampRuns == ASSUME NEW s \in Mic, policy \in Policy PROVE SameRuns(s, Rendered(s))
<1>1. \A r \in Mic : SameRuns(r, Ramped(r))
  BY DEF Ramped, SameRuns, SameControl, Mic, SameReading
<1>2. SameRuns(s, Aimed(s))
  BY DEF Aimed, SameRuns, SameControl, Mic, SameReading
<1>3. Aimed(s) \in Mic
  BY AimedType
<1>4. QED
  BY <1>1, <1>2, <1>3 DEF Rendered, SameRuns, SameControl, SameReading

LEMMA OpenRuns == ASSUME NEW s \in Mic PROVE SameRuns(s, Probed(s)) /\ SameRuns(s, Decayed(Probed(s)))
<1>1. \A r \in Mic : SameRuns(r, Decayed(r))
  BY DEF Decayed, SameRuns, SameControl, Mic, SameReading
<1>2. SameRuns(s, Probed(s))
  BY DEF Probed, SameRuns, SameControl, Mic, SameReading
<1>3. QED
  BY <1>1, <1>2, ProbedType DEF SameRuns, SameControl, SameReading

(* A mic that keeps its runs and its state. *)
LEMMA KeptFollows ==
  ASSUME NEW s \in Mic, NEW t, NEW trip \in BOOLEAN, ~ trip, SameRuns(s, t)
  PROVE  Follows(s, t, trip)
  BY DEF Follows, SameRuns, SameControl, Mic, States

LEMMA DuckFollows ==
  ASSUME NEW s \in Mic, NEW r \in Mic, NEW trip \in BOOLEAN, SameRuns(s, r) \/ r = Struck(s),
         trip \/ Lost(s)
  PROVE  Follows(s, Enter(r, "ducked"), trip)
<1>1. r.declared = s.declared /\ SameReading(s, r)
  BY StruckRuns DEF SameRuns, SameControl
<1>2. LET t == Enter(r, "ducked")
      IN t.state = "ducked" /\ t.declared = s.declared /\ SameReading(s, t) /\ t.ok_run = 0
  BY <1>1, EnterRuns DEF States, SameReading
<1>3. QED
  BY <1>2 DEF Follows

(* A declaration on a held run, from anywhere. *)
LEMMA HeldFollows ==
  ASSUME NEW s \in Mic, NEW r \in Mic, NEW next \in {"open", "releasing"}, NEW trip \in BOOLEAN,
         ~ trip, Held(s), SameReading(s, r), r.ok_run = s.ok_run, r.rearm_hold = s.rearm_hold
  PROVE  Follows(s, Enter(r, next), trip)
<1> DEFINE t == Enter(r, next)
<1>1. next \in States /\ next # "ducked"
  BY DEF States
<1>2. /\ t.state = next /\ SameReading(s, t) /\ t.ok_run = s.ok_run
      /\ t.rearm_hold = s.rearm_hold
  BY <1>1, EnterRuns DEF SameReading
<1> HIDE DEF t
<1>3. Follows(s, t, trip)
  BY <1>1, <1>2 DEF Follows
<1>4. QED
  BY <1>3 DEF t

LEMMA ArmingFollows ==
  ASSUME NEW s \in Mic, NEW trip \in BOOLEAN, policy \in Policy, s.state = "arming", ~ s.declared
  PROVE  Follows(s, StepArming(s, trip), trip)
<1>1. CASE trip
  <2> DEFINE t == [Struck(s) EXCEPT !.ok_run = 0]
  <2>1. Struck(s) \in Mic
    BY StruckType
  <2>2. t.state = "arming" /\ t.declared = s.declared /\ SameReading(s, t) /\ t.ok_run = 0
    BY <2>1, StruckRuns DEF Mic, SameReading
  <2> HIDE DEF t
  <2>3. StepArming(s, trip) = t
    BY <1>1 DEF StepArming, t
  <2>4. QED
    BY <1>1, <2>2, <2>3 DEF Follows
<1>2. CASE ~ trip /\ Held(s)
  <2>1. StepArming(s, trip) = Enter(Declared(s), "open")
    BY <1>2 DEF StepArming
  <2>2. QED
    BY <1>2, <2>1, DeclaredType, DeclaredRuns, HeldFollows
<1>3. CASE ~ trip /\ ~ Held(s)
  <2> DEFINE r == [s EXCEPT !.timed_out = TRUE]
  <2>1. r \in Mic /\ SameRuns(s, r)
    BY DEF Mic, SameRuns, SameControl, SameReading
  <2> HIDE DEF r
  <2>2. StepArming(s, trip) \in {s, r, Enter(r, "open_capped")}
    BY <1>3 DEF StepArming, r
  <2> DEFINE t == Enter(r, "open_capped")
  <2>3. "open_capped" \in States /\ "open_capped" # "ducked"
    BY DEF States
  <2>4. /\ t.declared = r.declared /\ t.state = "open_capped"
        /\ SameReading(r, t) /\ t.ok_run = r.ok_run
    BY <2>1, <2>3, EnterRuns
  <2> HIDE DEF t
  <2>5. Follows(s, t, trip)
    BY <1>3, <2>1, <2>4 DEF Follows, SameReading, SameRuns, SameControl
  <2>6. SameRuns(s, s)
    BY DEF SameRuns, SameControl, SameReading
  <2>7. QED
    BY <1>3, <2>1, <2>2, <2>5, <2>6, KeptFollows DEF t
<1>4. QED
  BY <1>1, <1>2, <1>3

LEMMA OpenFollows ==
  ASSUME NEW s \in Mic, NEW trip \in BOOLEAN, policy \in Policy, s.state = "open"
  PROVE  Follows(s, StepOpen(s, trip), trip)
<1>0. SameRuns(s, s)
  BY DEF SameRuns, SameControl, SameReading
<1>1. CASE trip \/ Lost(s)
  <2>1. PICK r \in {s, Struck(s)} : StepOpen(s, trip) = Enter(r, "ducked")
    BY <1>1 DEF StepOpen
  <2>2. QED
    BY <1>0, <1>1, <2>1, StruckType, DuckFollows
<1>2. CASE ~ (trip \/ Lost(s))
  <2>1. StepOpen(s, trip) = Decayed(Probed(s))
    BY <1>2 DEF StepOpen
  <2>2. QED
    BY <1>2, <2>1, OpenRuns, KeptFollows
<1>3. QED
  BY <1>1, <1>2

LEMMA OpenCappedFollows ==
  ASSUME NEW s \in Mic, NEW trip \in BOOLEAN, policy \in Policy, s.state = "open_capped"
  PROVE  Follows(s, StepOpenCapped(s, trip), trip)
<1>0. SameRuns(s, s)
  BY DEF SameRuns, SameControl, SameReading
<1>1. CASE trip
  <2>1. PICK r \in {s, Struck(s)} : StepOpenCapped(s, trip) = Enter(r, "ducked")
    BY <1>1 DEF StepOpenCapped
  <2>2. QED
    BY <1>0, <1>1, <2>1, StruckType, DuckFollows
<1>2. CASE ~ trip /\ Held(s)
  <2>1. StepOpenCapped(s, trip) = Enter(Declared(s), "releasing")
    BY <1>2 DEF StepOpenCapped
  <2>2. QED
    BY <1>2, <2>1, DeclaredType, DeclaredRuns, HeldFollows
<1>3. CASE ~ trip /\ ~ Held(s)
  <2>1. StepOpenCapped(s, trip) = Probed(s)
    BY <1>3 DEF StepOpenCapped
  <2>2. QED
    BY <1>3, <2>1, OpenRuns, KeptFollows
<1>4. QED
  BY <1>1, <1>2, <1>3

LEMMA DuckedFollows ==
  ASSUME NEW s \in Mic, NEW trip \in BOOLEAN, policy \in Policy, s.state = "ducked"
  PROVE  Follows(s, StepDucked(s, trip), trip)
<1> DEFINE t == [s EXCEPT !.hold = Later(@)]
           r == [t EXCEPT !.ok_seen = FALSE, !.rearm_hold = TRUE, !.notok_run = 0]
<1>1. t \in Mic /\ SameRuns(s, t)
  BY LaterType DEF Mic, SameRuns, SameControl, SameReading
<1> HIDE DEF t
<1>2. /\ r \in Mic /\ ~ r.ok_seen /\ r.rearm_hold
      /\ SameReading(s, r) /\ r.ok_run = s.ok_run /\ r.declared = s.declared
  BY <1>1, ZeroTick DEF Mic, SameRuns, SameControl, SameReading
<1>3. CASE trip
  <2> DEFINE u == [s EXCEPT !.hold = 0, !.ok_run = 0]
  <2>1. u.state = "ducked" /\ u.declared = s.declared /\ SameReading(s, u) /\ u.ok_run = 0
    BY DEF Mic, SameReading
  <2> HIDE DEF u
  <2>2. StepDucked(s, trip) = u
    BY <1>3 DEF StepDucked, u
  <2>3. QED
    BY <1>3, <2>1, <2>2 DEF Follows
<1> HIDE DEF r
<1>4. CASE ~ trip /\ Held(s)
  <2>1. StepDucked(s, trip) = Enter(Declared(t), "releasing")
    BY <1>4 DEF StepDucked, t
  <2>2. QED
    BY <1>1, <1>4, <2>1, DeclaredType, DeclaredRuns, HeldFollows DEF SameRuns, SameReading
<1>5. CASE ~ trip /\ ~ Held(s)
  <2>1. StepDucked(s, trip) \in {t, Enter(r, "releasing")}
    BY <1>5 DEF StepDucked, t, r
  <2> DEFINE u == Enter(r, "releasing")
  <2>2. r \in Mic /\ "releasing" \in States /\ "releasing" # "ducked"
    BY <1>2 DEF States
  <2>3. /\ u.state = "releasing" /\ u.ok_seen = r.ok_seen /\ u.rearm_hold = r.rearm_hold
        /\ SameReading(r, u) /\ u.ok_run = r.ok_run /\ u.declared = r.declared
    BY <2>2, EnterRuns
  <2> HIDE DEF u
  <2>4. Follows(s, u, trip)
    BY <1>2, <1>5, <2>3 DEF Follows, SameReading
  <2>5. QED
    BY <1>1, <1>5, <2>1, <2>4, KeptFollows DEF u
<1>6. QED
  BY <1>3, <1>4, <1>5

LEMMA ReleasingFollows ==
  ASSUME NEW s \in Mic, NEW trip \in BOOLEAN, policy \in Policy, s.state = "releasing"
  PROVE  Follows(s, StepReleasing(s, trip), trip)
<1>0. SameRuns(s, s)
  BY DEF SameRuns, SameControl, SameReading
<1>1. CASE trip \/ Lost(s)
  <2>1. PICK r \in {s, Struck(s)} : StepReleasing(s, trip) = Enter(r, "ducked")
    BY <1>1 DEF StepReleasing
  <2>2. QED
    BY <1>0, <1>1, <2>1, StruckType, DuckFollows
<1>2. CASE ~ trip /\ ~ Lost(s)
  <2>1. \/ StepReleasing(s, trip) = s
        \/ \E next \in {"latched", "open", "open_capped"} : StepReleasing(s, trip) = Enter(s, next)
    BY <1>2 DEF StepReleasing
  <2>2. ASSUME NEW next \in {"latched", "open", "open_capped"}
        PROVE  Follows(s, Enter(s, next), trip)
    <3> DEFINE t == Enter(s, next)
    <3>1. next \in States /\ next # "ducked"
      BY DEF States
    <3>2. /\ t.state = next /\ t.declared = s.declared /\ SameReading(s, t)
          /\ t.ok_run = s.ok_run /\ t.ok_seen = s.ok_seen /\ t.rearm_hold = s.rearm_hold
      BY <3>1, EnterRuns
    <3> HIDE DEF t
    <3>3. Follows(s, t, trip)
      BY <1>2, <3>1, <3>2 DEF Follows, Mic
    <3>4. QED
      BY <3>3 DEF t
  <2>3. QED
    BY <1>0, <1>2, <2>1, <2>2, KeptFollows
<1>3. QED
  BY <1>1, <1>2

LEMMA LatchedFollows ==
  ASSUME NEW s \in Mic, NEW trip \in BOOLEAN, policy \in Policy, s.state = "latched"
  PROVE  Follows(s, StepLatched(s, trip), trip)
<1> DEFINE t == [s EXCEPT !.latch_notok = @ \/ ~ s.ok]
           u == [t EXCEPT !.latched = FALSE, !.declared = TRUE]
<1>1. t \in Mic /\ SameRuns(s, t)
  BY DEF Mic, SameRuns, SameControl, SameReading
<1> HIDE DEF t
<1>2. u \in Mic /\ SameReading(t, u) /\ u.ok_run = t.ok_run /\ u.rearm_hold = t.rearm_hold
  BY <1>1 DEF Mic, SameReading
<1>3. \/ trip /\ StepLatched(s, trip) = Enter(t, "ducked")
      \/ ~ trip /\ Held(s) /\ StepLatched(s, trip) = Enter(u, "releasing")
      \/ ~ trip /\ StepLatched(s, trip) = t
  BY DEF StepLatched, t
<1> HIDE DEF u
<1>4. CASE trip /\ StepLatched(s, trip) = Enter(t, "ducked")
  BY <1>1, <1>4, DuckFollows
<1>5. CASE ~ trip /\ Held(s) /\ StepLatched(s, trip) = Enter(u, "releasing")
  BY <1>1, <1>2, <1>5, HeldFollows DEF SameRuns, SameReading
<1>6. CASE ~ trip /\ StepLatched(s, trip) = t
  BY <1>1, <1>6, KeptFollows
<1>7. QED
  BY <1>3, <1>4, <1>5, <1>6

(* The state a transition starts from. *)
Clock(s0, a) == Fallen(Clocked(s0), a)

LEMMA StepFollows ==
  ASSUME NEW s0 \in Mic, NEW a, NEW trip \in BOOLEAN, policy \in Policy, FlagsOf(s0)
  PROVE  Follows(Clock(s0, a), Step(s0, a, trip), trip)
<1> DEFINE s == Clock(s0, a)
<1>1. s \in Mic /\ SameControl(s0, s)
  BY ClockedType, FallenType DEF SameControl, Clock
<1>2. s.state \in States /\ (s.state = "arming" => ~ s.declared)
  BY <1>1 DEF SameControl, FlagsOf, Mic
<1> HIDE DEF s
<1>3. CASE Restarted(s, a)
  <2>1. Step(s0, a, trip) = EnterArming(s)
    BY <1>3 DEF Step, s, Clock
  <2>2. Follows(s, Step(s0, a, trip), trip)
    BY <1>1, <2>1, EnterArmingRuns DEF Follows
  <2>3. QED
    BY <2>2 DEF s
<1>4. CASE ~ Restarted(s, a)
  <2>1. \/ s.state = "arming" /\ Step(s0, a, trip) = StepArming(s, trip)
        \/ s.state = "open" /\ Step(s0, a, trip) = StepOpen(s, trip)
        \/ s.state = "open_capped" /\ Step(s0, a, trip) = StepOpenCapped(s, trip)
        \/ s.state = "ducked" /\ Step(s0, a, trip) = StepDucked(s, trip)
        \/ s.state = "releasing" /\ Step(s0, a, trip) = StepReleasing(s, trip)
        \/ s.state = "latched" /\ Step(s0, a, trip) = StepLatched(s, trip)
    BY <1>2, <1>4 DEF Step, s, Clock, States
  <2>2. Follows(s, Step(s0, a, trip), trip)
    BY <1>1, <1>2, <2>1, ArmingFollows, OpenFollows, OpenCappedFollows,
       DuckedFollows, ReleasingFollows, LatchedFollows
  <2>3. QED
    BY <2>2 DEF s
<1>5. QED
  BY <1>3, <1>4

LEMMA ObservedRuns ==
  ASSUME NEW s \in Mic, NEW in \in Input, policy \in Policy, SomeNotPositive(s.d_thr, s.a_thr)
  PROVE  LET t == Observed(s, in)
         IN  /\ t.d_thr = s.d_thr /\ t.a_thr = s.a_thr
             /\ in.finite => /\ t.state = s.state /\ t.declared = s.declared
                             /\ t.ok_run = s.ok_run /\ t.ok_seen = s.ok_seen
                             /\ t.rearm_hold = s.rearm_hold
             /\ ~ in.finite => t.state = "arming" /\ ~ t.declared /\ ~ t.ok
<1> DEFINE r == Analyzed(s, in)
           ok == StatD(in) < s.d_thr /\ StatA(in) < s.a_thr
           since == IF HeardOf(in) = "silent" THEN Later(r.since) ELSE 0
           t == [r EXCEPT !.ok = ok, !.since = since]
<1>1. in.finite \in BOOLEAN
  BY DEF Input
<1>2. /\ in.finite => r = s
      /\ ~ in.finite => r = EnterArming(s)
  BY <1>1 DEF Analyzed
<1>3. /\ EnterArming(s) \in Mic /\ EnterArming(s).state = "arming" /\ ~ EnterArming(s).declared
      /\ EnterArming(s).d_thr = s.d_thr /\ EnterArming(s).a_thr = s.a_thr
  BY EnterArmingType, EnterArmingRuns DEF SameReading
<1>4. r \in Mic /\ r.d_thr = s.d_thr /\ r.a_thr = s.a_thr
  BY <1>1, <1>2, <1>3
<1>5. ASSUME ~ in.finite PROVE ~ ok
  <2>1. StatD(in) = 0 /\ StatA(in) = 0
    BY <1>5 DEF StatD, StatA
  <2>2. s.d_thr \in Int /\ s.a_thr \in Int
    BY DEF Mic
  <2>3. QED
    BY <2>1, <2>2 DEF SomeNotPositive
<1> HIDE DEF r, ok, since
<1>6. /\ t.state = r.state /\ t.declared = r.declared /\ t.ok_run = r.ok_run
      /\ t.ok_seen = r.ok_seen /\ t.rearm_hold = r.rearm_hold
      /\ t.d_thr = r.d_thr /\ t.a_thr = r.a_thr /\ t.ok = ok
  BY <1>4 DEF Mic
<1>7. Observed(s, in) = t
  BY DEF Observed, r, ok, since
<1> HIDE DEF t
<1>8. QED
  BY <1>2, <1>3, <1>4, <1>5, <1>6, <1>7

(* What the clocks make of the block's verdict. *)
LEMMA ClockRuns ==
  ASSUME NEW s0 \in Mic, NEW a, policy \in Policy
  PROVE  LET s == Clock(s0, a)
         IN  /\ s \in Mic
             /\ s.state = s0.state /\ s.declared = s0.declared /\ SameReading(s0, s)
             /\ s.ok_run = IF s.ok THEN Later(s0.ok_run) ELSE 0
             /\ s.notok_run > 0 => ~ s.ok
             /\ s.ok /\ (~ s0.rearm_hold \/ s.ok_run >= policy.release) => ~ s.rearm_hold
             /\ ~ (s.ok /\ (~ s0.rearm_hold \/ s.ok_run >= policy.release)) =>
                  s.ok_seen = s0.ok_seen /\ s.rearm_hold = s0.rearm_hold
<1> DEFINE run == IF s0.ok THEN Later(s0.ok_run) ELSE 0
           off == IF s0.ok THEN 0 ELSE Later(s0.notok_run)
           arms == s0.ok /\ (~ s0.rearm_hold \/ run >= policy.release)
           c == [s0 EXCEPT !.ok_run = run, !.notok_run = off, !.in_state = Later(@),
                           !.ok_seen = @ \/ arms, !.rearm_hold = @ /\ ~ arms]
<1>1. off > 0 => ~ s0.ok
  OBVIOUS
<1>2. Clocked(s0) = c
  BY DEF Clocked
<1>3. c \in Mic
  BY <1>2, ClockedType
<1> HIDE DEF run, off, arms
<1>4. /\ c.state = s0.state /\ c.declared = s0.declared /\ SameReading(s0, c)
      /\ c.ok_run = run /\ c.notok_run = off
      /\ c.ok_seen = (s0.ok_seen \/ arms) /\ c.rearm_hold = (s0.rearm_hold /\ ~ arms)
  BY DEF Mic, SameReading
<1> HIDE DEF c
<1> DEFINE s == [c EXCEPT !.fell = @ \/ a < policy.a_db]
<1>5. Clock(s0, a) = s
  BY <1>2 DEF Clock, Fallen
<1>6. /\ s.state = c.state /\ s.declared = c.declared /\ SameReading(c, s)
      /\ s.ok_run = c.ok_run /\ s.notok_run = c.notok_run
      /\ s.ok_seen = c.ok_seen /\ s.rearm_hold = c.rearm_hold
  BY <1>3 DEF Mic, SameReading
<1>7. s \in Mic
  BY <1>2, <1>3, <1>5, FallenType DEF Clock
<1> HIDE DEF s
<1>8. s0.ok_seen \in BOOLEAN /\ s0.rearm_hold \in BOOLEAN /\ arms \in BOOLEAN
  BY DEF Mic, arms
<1>9. /\ s.ok = s0.ok /\ s.ok_run = run /\ s.notok_run = off
      /\ SameReading(s0, s)
  BY <1>4, <1>6 DEF SameReading
<1>10. /\ arms => ~ s.rearm_hold
       /\ ~ arms => s.ok_seen = s0.ok_seen /\ s.rearm_hold = s0.rearm_hold
  BY <1>4, <1>6, <1>8
<1>11. QED
  BY <1>1, <1>4, <1>5, <1>6, <1>7, <1>9, <1>10 DEF run, arms


(* After a timer re-arm, LOST waits for a run of the release hold. *)
Waits(s, rec) ==
  \/ rec
  \/ s.state \in {"arming", "ducked"}
  \/ ~ s.declared
  \/ ~ s.ok_seen /\ s.rearm_hold

RunOver(s, in, trip, k) == IF s.ok /\ in.finite /\ ~ trip THEN Later(k) ELSE 0

Rearmed(s, t) == s.state = "ducked" /\ t.state = "releasing" /\ t.rearm_hold

LEMMA LaterMonotone ==
  ASSUME NEW i \in Ticks, NEW j \in Ticks, i <= j PROVE Later(i) <= Later(j)
  BY KBigAssumption DEF Later, Ticks

(* One block of one mic: its run of ok blocks is no longer than the streak, a
   declaration takes the release hold, and LOST takes a recovery. *)
LEMMA MicBlock ==
  ASSUME NEW s0 \in Mic, NEW in \in Input, NEW trip \in BOOLEAN, NEW k \in Ticks, NEW rec \in BOOLEAN,
         policy \in Policy, FlagsOf(s0), SomeNotPositive(s0.d_thr, s0.a_thr),
         s0.ok_run <= k, Waits(s0, rec)
  PROVE  LET u == Rendered(Step(Observed(s0, in), StatA(in), trip))
             n == RunOver(u, in, trip, k)
         IN  /\ u.d_thr = s0.d_thr /\ u.a_thr = s0.a_thr
             /\ n \in Ticks /\ u.ok_run <= n
             /\ Waits(u, ~ Rearmed(s0, u) /\ (rec \/ n >= policy.release))
             /\ u.declared /\ ~ s0.declared => n >= policy.release /\ u.since >= policy.quiet
             /\ s0.state \in {"open", "releasing"} /\ u.state = "ducked" /\ ~ trip => rec
<1> DEFINE o == Observed(s0, in)
           s == Clock(o, StatA(in))
           t == Step(o, StatA(in), trip)
           u == Rendered(t)
           n == RunOver(u, in, trip, k)
<1>1. o \in Mic /\ FlagsOf(o)
  BY ObservedInv
<1>2. /\ o.d_thr = s0.d_thr /\ o.a_thr = s0.a_thr
      /\ in.finite => /\ o.state = s0.state /\ o.declared = s0.declared
                      /\ o.ok_run = s0.ok_run /\ o.ok_seen = s0.ok_seen
                      /\ o.rearm_hold = s0.rearm_hold
      /\ ~ in.finite => o.state = "arming" /\ ~ o.declared /\ ~ o.ok
  BY ObservedRuns
<1> HIDE DEF o
<1>3. /\ s \in Mic
      /\ s.state = o.state /\ s.declared = o.declared /\ SameReading(o, s)
      /\ s.ok_run = IF s.ok THEN Later(o.ok_run) ELSE 0
      /\ s.notok_run > 0 => ~ s.ok
      /\ s.ok /\ (~ o.rearm_hold \/ s.ok_run >= policy.release) => ~ s.rearm_hold
      /\ ~ (s.ok /\ (~ o.rearm_hold \/ s.ok_run >= policy.release)) =>
           s.ok_seen = o.ok_seen /\ s.rearm_hold = o.rearm_hold
  BY <1>1, ClockRuns
<1>4. Follows(s, t, trip) /\ t \in Mic
  BY <1>1, StepFollows, StepInv
<1> HIDE DEF s, t
<1>5. SameRuns(t, u) /\ u \in Mic
  BY <1>4, RampRuns, RenderedType
<1> HIDE DEF u
<1>6. Follows(s, u, trip)
  BY <1>4, <1>5 DEF Follows, SameRuns, SameControl, SameReading
<1>7. policy.release \in 1..KBig /\ policy.trip \in 1..KBig
  BY PolicyTimes
<1>8. s0.ok_run \in Ticks /\ s.ok_run \in Ticks /\ s.notok_run \in Ticks /\ o.ok_run \in Ticks
      /\ u.ok_run \in Ticks
  BY <1>1, <1>3, <1>5 DEF Mic
<1>9. /\ in.finite \in BOOLEAN /\ s.ok \in BOOLEAN /\ u.ok = s.ok
      /\ s.rearm_hold \in BOOLEAN /\ u.rearm_hold \in BOOLEAN /\ s.ok_seen \in BOOLEAN
      /\ u.declared \in BOOLEAN /\ o.rearm_hold \in BOOLEAN
  BY <1>1, <1>3, <1>5, <1>6 DEF Mic, Input, Follows, SameReading
<1>10. n \in Ticks /\ Later(k) \in Ticks
  BY LaterType, ZeroTick DEF RunOver
<1>11. s.ok => in.finite
  BY <1>2, <1>3, <1>9 DEF SameReading
<1>12. s.ok /\ ~ trip => n = Later(k)
  BY <1>9, <1>11 DEF RunOver
<1>13. s.ok => s.ok_run <= Later(k)
  BY <1>2, <1>3, <1>8, <1>11, LaterMonotone
<1>14. s.ok /\ ~ trip => s.ok_run <= n
  BY <1>12, <1>13
<1> HIDE DEF n
<1>15. u.ok_run <= n
  <2>1. CASE s.ok /\ ~ trip
    <3>1. u.ok_run \in {s.ok_run, 0}
      BY <1>6 DEF Follows
    <3>2. QED
      BY <2>1, <3>1, <1>8, <1>10, <1>14 DEF Ticks
  <2>2. CASE ~ (s.ok /\ ~ trip)
    <3>1. u.ok_run = 0
      BY <1>3, <1>6, <2>2 DEF Follows
    <3>2. QED
      BY <3>1, <1>10 DEF Ticks
  <2>3. QED
    BY <2>1, <2>2
<1>16. Held(s) => s.ok
  BY <1>3, <1>7, <1>9 DEF Held
<1>17. Held(s) /\ ~ trip => n >= policy.release /\ ~ s.rearm_hold
  <2>1. ASSUME Held(s), ~ trip PROVE n >= policy.release /\ ~ s.rearm_hold
    <3>1. s.ok /\ s.ok_run >= policy.release /\ s.ok_run <= n
      BY <1>14, <1>16, <2>1 DEF Held
    <3>2. QED
      BY <1>3, <1>7, <1>8, <1>10, <3>1 DEF Ticks
  <2>2. QED
    BY <2>1
<1>18. u.declared /\ ~ s0.declared => n >= policy.release /\ u.since >= policy.quiet
  <2>1. ASSUME u.declared, ~ s0.declared PROVE Held(s) /\ ~ trip
    <3>1. ~ s.declared
      BY <1>2, <1>3, <1>9, <2>1
    <3>2. QED
      BY <1>6, <2>1, <3>1 DEF Follows
  <2>2. Held(s) => u.since >= policy.quiet
    BY <1>6 DEF Held, Quiet, Follows, SameReading
  <2>3. QED
    BY <1>17, <2>1, <2>2
<1>19. s0.state \in {"open", "releasing"} /\ u.state = "ducked" /\ ~ trip => rec
  <2> SUFFICES ASSUME s0.state \in {"open", "releasing"}, u.state = "ducked", ~ trip
               PROVE  rec
    OBVIOUS
  <2>1. s.state \in {s0.state, "arming"} /\ s.state # "ducked"
    BY <1>2, <1>3, <1>9
  <2>2. Lost(s)
    BY <1>6, <2>1 DEF Follows
  <2>3. s.declared /\ s.ok_seen /\ ~ s.ok
    BY <1>3, <1>7, <1>8, <2>2 DEF Lost, Ticks
  <2>4. in.finite
    BY <1>2, <1>3, <1>9, <2>3
  <2>5. s0.declared /\ s0.ok_seen
    BY <1>2, <1>3, <2>3, <2>4
  <2>6. QED
    BY <2>5 DEF Waits
<1> DEFINE heals == ~ Rearmed(s0, u) /\ (rec \/ n >= policy.release)
<1>20. Waits(u, heals)
  <2>1. CASE u.state \in {"arming", "ducked"} \/ ~ u.declared \/ (~ u.ok_seen /\ u.rearm_hold)
    BY <2>1 DEF Waits
  <2>2. CASE Held(s) /\ ~ trip
    <3>1. CASE Rearmed(s0, u)
      <4>1. s.state = "ducked"
        BY <1>2, <1>3, <1>11, <1>16, <2>2, <3>1 DEF Rearmed
      <4>2. u.state = "releasing" /\ u.rearm_hold
        BY <3>1 DEF Rearmed
      <4>3. ~ u.ok_seen
        BY <1>6, <1>9, <1>17, <2>2, <4>1, <4>2 DEF Follows
      <4>4. QED
        BY <4>2, <4>3 DEF Waits
    <3>2. CASE ~ Rearmed(s0, u)
      BY <1>17, <2>2, <3>2 DEF Waits
    <3>3. QED
      BY <3>1, <3>2
  <2>3. CASE /\ s.state \notin {"arming", "ducked"} /\ s.declared /\ ~ trip
             /\ u.ok_seen = s.ok_seen /\ u.rearm_hold = s.rearm_hold
    <3>1. in.finite
      BY <1>2, <1>3, <1>9, <2>3
    <3>2. /\ s0.state = s.state /\ s0.declared = s.declared
          /\ o.ok_seen = s0.ok_seen /\ o.rearm_hold = s0.rearm_hold
      BY <1>2, <1>3, <3>1
    <3>3. ~ Rearmed(s0, u)
      BY <2>3, <3>2 DEF Rearmed
    <3>4. CASE rec
      BY <3>3, <3>4 DEF Waits
    <3>5. CASE ~ rec
      <4>1. ~ s0.ok_seen /\ s0.rearm_hold
        BY <2>3, <3>2, <3>5 DEF Waits
      <4>2. CASE s.ok /\ s.ok_run >= policy.release
        <5>1. n >= policy.release
          BY <1>7, <1>8, <1>10, <1>14, <2>3, <4>2 DEF Ticks
        <5>2. QED
          BY <3>3, <5>1 DEF Waits
      <4>3. CASE ~ (s.ok /\ s.ok_run >= policy.release)
        <5>1. s.ok_seen = o.ok_seen /\ s.rearm_hold = o.rearm_hold
          BY <1>3, <3>2, <4>1, <4>3
        <5>2. ~ u.ok_seen /\ u.rearm_hold
          BY <2>3, <3>2, <4>1, <5>1
        <5>3. QED
          BY <5>2 DEF Waits
      <4>4. QED
        BY <4>2, <4>3
    <3>6. QED
      BY <3>4, <3>5
  <2>4. QED
    BY <1>6, <2>1, <2>2, <2>3 DEF Follows
<1>21. u.d_thr = s0.d_thr /\ u.a_thr = s0.a_thr
  BY <1>2, <1>3, <1>6 DEF Follows, SameReading
<1>22. QED
  BY <1>10, <1>15, <1>18, <1>19, <1>20, <1>21 DEF n, u, t, o


(* What the host may do to a mic between two blocks. *)
HostKeeps(s, t) ==
  /\ t.ok_run \in {s.ok_run, 0}
  /\ t.declared => s.declared
  /\ t.state = "ducked" => s.state = "ducked"
  /\ \/ t.state \in {"arming", "ducked"} \/ ~ t.declared
     \/ /\ s.state \notin {"arming", "ducked"} /\ s.declared
        /\ t.ok_seen => s.ok_seen
        /\ t.rearm_hold = s.rearm_hold
  /\ SomeNotPositive(t.d_thr, t.a_thr)

SomewhereNotPositive == \A m \in Mics : SomeNotPositive(mics[m].d_thr, mics[m].a_thr)

PolicyNotPositive == SomeNotPositive(policy.d_db, policy.a_db)

LEMMA KeepsWaits ==
  ASSUME NEW s, NEW t, NEW rec \in BOOLEAN, HostKeeps(s, t), Waits(s, rec)
  PROVE  Waits(t, rec)
  BY DEF HostKeeps, Waits

LEMMA SameKeeps ==
  ASSUME NEW s, NEW t, SameControl(s, t), t.ok_run = s.ok_run, t.ok_seen => s.ok_seen,
         t.rearm_hold = s.rearm_hold, SomeNotPositive(t.d_thr, t.a_thr)
  PROVE  HostKeeps(s, t)
  BY DEF HostKeeps, SameControl

LEMMA RethresholdedRuns ==
  ASSUME NEW s \in Mic, NEW p \in Policy, SomeNotPositive(p.d_db, p.a_db),
         s.own_thr => SomeNotPositive(s.d_thr, s.a_thr)
  PROVE  LET t == Rethresholded(s, p)
         IN  /\ SomeNotPositive(t.d_thr, t.a_thr)
             /\ t.ok_run = s.ok_run /\ t.ok_seen = s.ok_seen /\ t.rearm_hold = s.rearm_hold
<1>1. s.own_thr \in BOOLEAN
  BY DEF Mic
<1>2. CASE s.own_thr
  BY <1>2 DEF Rethresholded
<1>3. CASE ~ s.own_thr
  <2> DEFINE t == [s EXCEPT !.d_thr = p.d_db, !.a_thr = p.a_db]
  <2>1. /\ t.d_thr = p.d_db /\ t.a_thr = p.a_db
        /\ t.ok_run = s.ok_run /\ t.ok_seen = s.ok_seen /\ t.rearm_hold = s.rearm_hold
    BY DEF Mic
  <2>2. Rethresholded(s, p) = t
    BY <1>3 DEF Rethresholded
  <2> HIDE DEF t
  <2>3. QED
    BY <2>1, <2>2
<1>4. QED
  BY <1>1, <1>2, <1>3

LEMMA ApplyPolicyKeeps ==
  ASSUME NEW p \in Policy, SomeNotPositive(p.d_db, p.a_db),
         GuardInv, SomewhereNotPositive, ApplyPolicy(p)
  PROVE  PolicyNotPositive' /\ \A m \in Mics : HostKeeps(mics[m], mics'[m])
<1>1. PolicyNotPositive'
  BY DEF ApplyPolicy, PolicyNotPositive
<1>2. ASSUME NEW m \in Mics PROVE HostKeeps(mics[m], mics'[m])
  <2> DEFINE s0 == mics[m]
             s == Rethresholded(s0, p)
  <2>1. s0 \in Mic /\ policy \in Policy /\ SomeNotPositive(s0.d_thr, s0.a_thr)
    BY DEF GuardInv, GuardTypeOK, SomewhereNotPositive
  <2>2. mics'[m] = OnCapChange(s, p)
    BY DEF ApplyPolicy
  <2> HIDE DEF s0
  <2>3. /\ s \in Mic /\ SameControl(s0, s) /\ SomeNotPositive(s.d_thr, s.a_thr)
        /\ s.ok_run = s0.ok_run /\ s.ok_seen = s0.ok_seen /\ s.rearm_hold = s0.rearm_hold
    BY <2>1, RethresholdedType, RethresholdedRuns
  <2> HIDE DEF s
  <2>4. CASE mics'[m] = s
    BY <2>3, <2>4, SameKeeps DEF s0
  <2>5. CASE mics'[m] = EnterArming(s)
    <3>1. /\ mics'[m].state = "arming" /\ ~ mics'[m].declared /\ mics'[m].ok_run = 0
          /\ SomeNotPositive(mics'[m].d_thr, mics'[m].a_thr)
      BY <2>1, <2>3, <2>5, EnterArmingRuns DEF SameReading
    <3>2. QED
      BY <3>1 DEF HostKeeps
  <2>6. QED
    BY <2>2, <2>4, <2>5 DEF OnCapChange
<1>3. QED
  BY <1>1, <1>2

LEMMA ClearedKeeps ==
  ASSUME NEW s \in Mic, policy \in Policy, SomeNotPositive(s.d_thr, s.a_thr)
  PROVE  HostKeeps(s, Cleared(s))
<1> DEFINE t == [s EXCEPT !.strikes = 0, !.level = 0, !.decay = 0,
                          !.timed_out = FALSE, !.latched = FALSE]
           u == IF s.latched /\ s.state = "latched" THEN Enter(t, "releasing") ELSE t
           v == [u EXCEPT !.in_state = 0]
<1>0. 0 \in Ticks /\ 0 \in 0..StrikeCap /\ 0 \in Int
  BY ZeroTick, StrikeCapAssumption
<1>1. t \in Mic
  <2> DEFINE b == [s EXCEPT !.strikes = 0, !.level = 0, !.decay = 0]
  <2>1. b \in Mic
    BY <1>0, BackOffType, Zenon
  <2> HIDE DEF b
  <2>2. [b EXCEPT !.timed_out = FALSE, !.latched = FALSE] \in Mic
    BY <2>1 DEF Mic
  <2>3. QED
    BY <2>2 DEF b
<1>2. /\ t.state = s.state /\ t.declared = s.declared /\ SameReading(s, t)
      /\ t.ok_run = s.ok_run /\ t.ok_seen = s.ok_seen /\ t.rearm_hold = s.rearm_hold
  BY DEF Mic, SameReading
<1> HIDE DEF t
<1>3. "releasing" \in States /\ "releasing" # "ducked"
  BY DEF States
<1>4. LET e == Enter(t, "releasing")
      IN  /\ e.state = "releasing" /\ e.declared = t.declared /\ SameReading(t, e)
          /\ e.ok_run = t.ok_run /\ e.ok_seen = t.ok_seen /\ e.rearm_hold = t.rearm_hold
          /\ e \in Mic
  BY <1>1, <1>3, EnterRuns, EnterType
<1>5. /\ u \in Mic /\ u.declared = t.declared /\ SameReading(t, u)
      /\ u.ok_run = t.ok_run /\ u.ok_seen = t.ok_seen /\ u.rearm_hold = t.rearm_hold
      /\ u.state = t.state \/ (s.state = "latched" /\ u.state = "releasing")
  BY <1>1, <1>4 DEF SameReading
<1> HIDE DEF u
<1>6. /\ v.state = u.state /\ v.declared = u.declared /\ SameReading(u, v)
      /\ v.ok_run = u.ok_run /\ v.ok_seen = u.ok_seen /\ v.rearm_hold = u.rearm_hold
  BY <1>5 DEF Mic, SameReading
<1> HIDE DEF v
<1>7. Cleared(s) \in {u, v}
  BY DEF Cleared, t, u, v
<1>8. \A w \in {u, v} : HostKeeps(s, w)
  BY <1>2, <1>5, <1>6 DEF HostKeeps, SameReading, Mic, States
<1>9. QED
  BY <1>7, <1>8

LEMMA HostStepKeeps ==
  ASSUME GuardInv, SomewhereNotPositive, PolicyNotPositive, Host
  PROVE  PolicyNotPositive' /\ \A m \in Mics : HostKeeps(mics[m], mics'[m])
<1>1. policy \in Policy /\ \A m \in Mics : mics[m] \in Mic /\ SomeNotPositive(mics[m].d_thr, mics[m].a_thr)
  BY DEF GuardInv, GuardTypeOK, SomewhereNotPositive
<1>2. ASSUME NEW p \in Policies, SetPolicy(p)
      PROVE  PolicyNotPositive' /\ \A m \in Mics : HostKeeps(mics[m], mics'[m])
  BY <1>2, ApplyPolicyKeeps, PolicyAssumption, ThresholdsAssumption DEF SetPolicy
<1>3. ASSUME NEW c \in Caps, SetCap(c)
      PROVE  PolicyNotPositive' /\ \A m \in Mics : HostKeeps(mics[m], mics'[m])
  <2> DEFINE p == [policy EXCEPT !.has_cap = TRUE, !.cap = c]
  <2>1. p \in Policy /\ p.d_db = policy.d_db /\ p.a_db = policy.a_db
    BY <1>1, CapsAssumption DEF Policy
  <2>2. ApplyPolicy(p)
    BY <1>3 DEF SetCap
  <2> HIDE DEF p
  <2>3. QED
    BY <2>1, <2>2, ApplyPolicyKeeps DEF PolicyNotPositive
<1>4. ASSUME RemoveCap
      PROVE  PolicyNotPositive' /\ \A m \in Mics : HostKeeps(mics[m], mics'[m])
  <2> DEFINE p == [policy EXCEPT !.has_cap = FALSE, !.cap = 0]
  <2>1. p \in Policy
    BY <1>1, UncappedType
  <2>2. p.d_db = policy.d_db /\ p.a_db = policy.a_db
    BY <1>1 DEF Policy
  <2>3. ApplyPolicy(p)
    BY <1>4 DEF RemoveCap
  <2> HIDE DEF p
  <2>4. QED
    BY <2>1, <2>2, <2>3, ApplyPolicyKeeps DEF PolicyNotPositive
<1>5. ASSUME policy' = policy, \A m \in Mics : HostKeeps(mics[m], mics'[m])
      PROVE  PolicyNotPositive' /\ \A m \in Mics : HostKeeps(mics[m], mics'[m])
  BY <1>5 DEF PolicyNotPositive
<1>6. ASSUME Reset, NEW m \in Mics PROVE HostKeeps(mics[m], mics'[m])
  <2> DEFINE t == Fresh(mics[m].d_thr, mics[m].a_thr, mics[m].own_thr)
  <2>1. /\ t.state = "arming" /\ ~ t.declared /\ t.ok_run = 0
        /\ t.d_thr = mics[m].d_thr /\ t.a_thr = mics[m].a_thr
    BY DEF Fresh
  <2>2. mics'[m] = t
    BY <1>6 DEF Reset
  <2> HIDE DEF t
  <2>3. QED
    BY <1>1, <2>1, <2>2 DEF HostKeeps
<1>7. ASSUME Clear, NEW m \in Mics PROVE HostKeeps(mics[m], mics'[m])
  BY <1>1, <1>7, ClearedKeeps DEF Clear
<1>8. ASSUME NEW x \in Mics, NEW thr \in OwnThr, SetThresholds(x, thr), NEW m \in Mics
      PROVE  HostKeeps(mics[m], mics'[m])
  <2> DEFINE t == [mics[x] EXCEPT !.d_thr = thr.d, !.a_thr = thr.a,
                                  !.own_thr = TRUE, !.ok_seen = FALSE]
  <2>1. /\ SameControl(mics[x], t) /\ t.ok_run = mics[x].ok_run /\ ~ t.ok_seen
        /\ t.rearm_hold = mics[x].rearm_hold /\ t.d_thr = thr.d /\ t.a_thr = thr.a
    BY <1>1 DEF SameControl, Mic
  <2>2. mics \in [Mics -> Mic] /\ mics' = [mics EXCEPT ![x] = t]
    BY <1>8 DEF SetThresholds, GuardInv, GuardTypeOK
  <2> HIDE DEF t
  <2>3. SomeNotPositive(t.d_thr, t.a_thr)
    BY <2>1, ThresholdsAssumption
  <2>4. HostKeeps(mics[x], t)
    BY <2>1, <2>3, SameKeeps
  <2>5. SameControl(mics[m], mics[m])
    BY DEF SameControl
  <2>6. HostKeeps(mics[m], mics[m])
    BY <1>1, <2>5, SameKeeps
  <2>7. QED
    BY <2>2, <2>4, <2>6
<1>9. ASSUME ClearCalibration, NEW m \in Mics PROVE HostKeeps(mics[m], mics'[m])
  <2> DEFINE t == [mics[m] EXCEPT !.own_thr = FALSE, !.ok_seen = FALSE]
             u == Rethresholded(t, policy)
  <2>0. mics[m] \in Mic
    BY <1>1
  <2>1. /\ t \in Mic /\ SameControl(mics[m], t) /\ t.ok_run = mics[m].ok_run
        /\ t.ok_seen = FALSE /\ t.rearm_hold = mics[m].rearm_hold /\ t.own_thr = FALSE
    BY <2>0 DEF SameControl, Mic
  <2> HIDE DEF t
  <2>2. mics'[m] = u
    BY <1>9 DEF ClearCalibration, t
  <2>3. /\ SameControl(t, u) /\ SomeNotPositive(u.d_thr, u.a_thr)
        /\ u.ok_run = t.ok_run /\ u.ok_seen = t.ok_seen /\ u.rearm_hold = t.rearm_hold
    BY <1>1, <2>1, RethresholdedType, RethresholdedRuns DEF PolicyNotPositive
  <2> HIDE DEF u
  <2>4. QED
    BY <2>1, <2>2, <2>3, SameKeeps DEF SameControl
<1>10. QED
  <2>1. CASE \/ Reset \/ Clear \/ ClearCalibration
             \/ \E m \in Mics, thr \in OwnThr : SetThresholds(m, thr)
    <3>1. policy' = policy
      <4>1. /\ Reset => policy' = policy
            /\ Clear => policy' = policy
        BY DEF Reset, Clear
      <4>2. ClearCalibration => policy' = policy
        BY DEF ClearCalibration
      <4>3. \A m \in Mics, thr \in OwnThr : SetThresholds(m, thr) => policy' = policy
        BY DEF SetThresholds
      <4>4. QED
        BY <2>1, <4>1, <4>2, <4>3
    <3>2. \A m \in Mics : HostKeeps(mics[m], mics'[m])
      BY <1>6, <1>7, <1>8, <1>9, <2>1
    <3>3. QED
      BY <1>5, <3>1, <3>2
  <2>2. QED
    BY <1>2, <1>3, <1>4, <2>1 DEF Host

(* The inductive invariant over the history. *)
RunsInv ==
  /\ streak \in [Mics -> Ticks] /\ recovered \in [Mics -> BOOLEAN]
  /\ \A m \in Mics : mics[m].ok_run <= streak[m] /\ Waits(mics[m], recovered[m])

HistoryInv == GuardInv /\ SomewhereNotPositive /\ PolicyNotPositive /\ RunsInv

Earned == \A m \in Mics : mics'[m].declared /\ ~ mics[m].declared =>
            streak'[m] >= policy.release /\ mics'[m].since >= policy.quiet

Unpumped == \A m \in Mics :
              /\ mics[m].state \in {"open", "releasing"}
              /\ mics'[m].state = "ducked"
              /\ m \notin tripped'
              => recovered[m]

LEMMA HistoryInitInv == HistoryInit => HistoryInv
<1> SUFFICES ASSUME HistoryInit PROVE HistoryInv
  OBVIOUS
<1>1. Init /\ GuardInv
  BY InitInv DEF HistoryInit
<1>2. PolicyNotPositive
  BY <1>1, ThresholdsAssumption DEF Init, PolicyNotPositive
<1>3. \A m \in Mics : mics[m] = Fresh(policy.d_db, policy.a_db, FALSE)
  BY <1>1 DEF Init
<1>4. LET f == Fresh(policy.d_db, policy.a_db, FALSE)
      IN f.ok_run = 0 /\ f.state = "arming" /\ f.d_thr = policy.d_db /\ f.a_thr = policy.a_db
  BY DEF Fresh
<1>5. SomewhereNotPositive
  BY <1>2, <1>3, <1>4 DEF SomewhereNotPositive, PolicyNotPositive
<1>6. streak = [m \in Mics |-> 0] /\ recovered = [m \in Mics |-> TRUE]
  BY DEF HistoryInit
<1>7. \A m \in Mics : mics[m].ok_run = 0
  BY <1>3, <1>4
<1>8. RunsInv
  BY <1>6, <1>7, ZeroTick DEF RunsInv, Waits
<1>9. QED
  BY <1>1, <1>2, <1>5, <1>8 DEF HistoryInv

LEMMA HistoryBlockInv ==
  ASSUME HistoryInv, HistoryBlock PROVE HistoryInv' /\ Earned /\ Unpumped
<1>1. PICK in \in Residuals, near \in SUBSET Mics \ {{}} :
        /\ Update(in, near)
        /\ streak' = [m \in Mics |->
                        IF mics'[m].ok /\ in[m].finite /\ m \notin tripped'
                        THEN Later(streak[m]) ELSE 0]
        /\ recovered' = [m \in Mics |->
                           /\ ~ TimerRearm(m)
                           /\ recovered[m] \/ streak'[m] >= policy.release]
  BY DEF HistoryBlock
<1>2. GuardInv' /\ policy' = policy
  <2>1. Block
    BY <1>1 DEF Block
  <2>2. QED
    BY <1>1, <2>1, BlockInv DEF HistoryInv, Update
<1>3. ASSUME NEW m \in Mics
      PROVE  LET u == mics'[m]
             IN  /\ u.d_thr = mics[m].d_thr /\ u.a_thr = mics[m].a_thr
                 /\ streak'[m] \in Ticks /\ recovered'[m] \in BOOLEAN
                 /\ u.ok_run <= streak'[m]
                 /\ Waits(u, recovered'[m])
                 /\ u.declared /\ ~ mics[m].declared =>
                      streak'[m] >= policy.release /\ u.since >= policy.quiet
                 /\ mics[m].state \in {"open", "releasing"} /\ u.state = "ducked"
                      /\ m \notin tripped' => recovered[m]
  <2> DEFINE s0 == mics[m]
             trip == m \in tripped'
             k == streak[m]
             rec == recovered[m]
             u == Rendered(Step(Observed(s0, in[m]), StatA(in[m]), trip))
             n == RunOver(u, in[m], trip, k)
             heals == ~ Rearmed(s0, u) /\ (rec \/ n >= policy.release)
  <2>1. in[m] \in Input
    BY InputsAssumption DEF Residuals
  <2>2. /\ s0 \in Mic /\ policy \in Policy /\ FlagsOf(s0)
        /\ SomeNotPositive(s0.d_thr, s0.a_thr)
        /\ k \in Ticks /\ rec \in BOOLEAN /\ s0.ok_run <= k /\ Waits(s0, rec)
    BY DEF HistoryInv, GuardInv, GuardTypeOK, SomewhereNotPositive, RunsInv
  <2>3. mics'[m] = u
    BY <1>1 DEF Update
  <2>4. trip \in BOOLEAN
    OBVIOUS
  <2>5. streak'[m] = n
    BY <1>1, <2>3 DEF RunOver
  <2>6. recovered'[m] = heals
    <3>1. TimerRearm(m) <=> Rearmed(s0, u)
      BY <2>3 DEF TimerRearm, Rearmed
    <3>2. recovered'[m] = (~ TimerRearm(m) /\ (rec \/ streak'[m] >= policy.release))
      BY <1>1
    <3> HIDE DEF u, n
    <3>3. QED
      BY <2>5, <3>1, <3>2
  <2> HIDE DEF s0, trip, k, rec
  <2>7. /\ u.d_thr = s0.d_thr /\ u.a_thr = s0.a_thr
        /\ n \in Ticks /\ u.ok_run <= n
        /\ Waits(u, heals)
        /\ u.declared /\ ~ s0.declared => n >= policy.release /\ u.since >= policy.quiet
        /\ s0.state \in {"open", "releasing"} /\ u.state = "ducked" /\ ~ trip => rec
    BY <2>1, <2>2, <2>4, MicBlock
  <2> HIDE DEF u, n
  <2>8. heals \in BOOLEAN
    OBVIOUS
  <2> HIDE DEF heals
  <2>9. QED
    BY <2>3, <2>5, <2>6, <2>7, <2>8 DEF s0, trip, rec
<1>4. Earned /\ Unpumped
  BY <1>3 DEF Earned, Unpumped
<1>5. streak' \in [Mics -> Ticks] /\ recovered' \in [Mics -> BOOLEAN]
  <2>1. streak' = [m \in Mics |-> streak'[m]] /\ recovered' = [m \in Mics |-> recovered'[m]]
    BY <1>1
  <2>2. QED
    BY <1>3, <2>1
<1>6. RunsInv'
  BY <1>3, <1>5 DEF RunsInv, Waits
<1>7. SomewhereNotPositive' /\ PolicyNotPositive'
  BY <1>2, <1>3 DEF HistoryInv, SomewhereNotPositive, PolicyNotPositive
<1>8. QED
  BY <1>2, <1>4, <1>6, <1>7 DEF HistoryInv

LEMMA HistoryHostInv ==
  ASSUME HistoryInv, HistoryHost PROVE HistoryInv' /\ Earned /\ Unpumped
<1>1. Host /\ streak' = streak /\ recovered' = recovered
  BY DEF HistoryHost
<1>2. GuardInv' /\ PolicyNotPositive' /\ \A m \in Mics : HostKeeps(mics[m], mics'[m])
  BY <1>1, HostInv, HostStepKeeps DEF HistoryInv
<1>3. \A m \in Mics : mics[m] \in Mic /\ mics'[m] \in Mic
  BY <1>2 DEF HistoryInv, GuardInv, GuardTypeOK
<1>4. ASSUME NEW m \in Mics
      PROVE  mics'[m].ok_run <= streak[m] /\ Waits(mics'[m], recovered[m])
  <2>1. mics[m].ok_run \in Ticks /\ mics[m].ok_run <= streak[m] /\ streak[m] \in Ticks
    BY <1>3 DEF HistoryInv, RunsInv, Mic
  <2>2. mics'[m].ok_run \in {mics[m].ok_run, 0}
    BY <1>2 DEF HostKeeps
  <2>3. Waits(mics[m], recovered[m]) /\ recovered[m] \in BOOLEAN
    BY DEF HistoryInv, RunsInv
  <2>4. Waits(mics'[m], recovered[m])
    BY <1>2, <2>3, KeepsWaits
  <2>5. QED
    BY <2>1, <2>2, <2>4 DEF Ticks
<1>5. RunsInv'
  BY <1>1, <1>4 DEF HistoryInv, RunsInv, Waits
<1>6. SomewhereNotPositive'
  BY <1>2 DEF SomewhereNotPositive, HostKeeps
<1>7. Earned /\ Unpumped
  BY <1>2 DEF Earned, Unpumped, HostKeeps
<1>8. QED
  BY <1>2, <1>5, <1>6, <1>7 DEF HistoryInv

LEMMA HistoryNextInv ==
  HistoryInv /\ [HistoryNext]_historyVars => HistoryInv' /\ (HistoryNext => Earned /\ Unpumped)
<1> SUFFICES ASSUME HistoryInv, [HistoryNext]_historyVars
             PROVE  HistoryInv' /\ (HistoryNext => Earned /\ Unpumped)
  OBVIOUS
<1>1. CASE HistoryNext
  BY <1>1, HistoryBlockInv, HistoryHostInv DEF HistoryNext
<1>2. CASE UNCHANGED historyVars
  <2>1. /\ policy' = policy /\ mics' = mics /\ episode' = episode /\ tripped' = tripped
        /\ streak' = streak /\ recovered' = recovered
    BY <1>2 DEF historyVars, vars
  <2>2. HistoryInv'
    BY <2>1 DEF HistoryInv, GuardInv, GuardTypeOK, AttributionTypeOK, FlagsOf,
         SomewhereNotPositive, PolicyNotPositive, RunsInv, Waits
  <2>3. \A m \in Mics : recovered[m] \/ ~ (mics[m].state \in {"open", "releasing"} /\ mics'[m].state = "ducked")
    BY <2>1
  <2>4. Earned /\ Unpumped
    BY <2>1, <2>3 DEF Earned, Unpumped
  <2>5. QED
    BY <2>2, <2>4
<1>3. QED
  BY <1>1, <1>2

(* Whatever the residuals and whatever the host calls, a mic is declared only
   after a whole release hold of blocks that read ok, were finite and did not
   trip it, and after a quiet detector. *)
THEOREM DeclarationAlwaysEarned == HistorySpec => DeclarationEarned
<1>1. HistoryInv /\ [HistoryNext]_historyVars =>
        [ \A m \in Mics : mics'[m].declared /\ ~ mics[m].declared =>
            /\ streak'[m] >= policy.release
            /\ mics'[m].since >= policy.quiet ]_historyVars
  BY HistoryNextInv DEF Earned
<1>2. QED
  BY <1>1, HistoryInitInv, HistoryNextInv, PTL DEF HistorySpec, DeclarationEarned

(* After a timer re-arm the verdict cannot duck the mic again before it has
   held ok for the release hold: duck and open never alternate on the timer. *)
THEOREM NeverPumps == HistorySpec => NoPumping
<1>1. HistoryInv /\ [HistoryNext]_historyVars =>
        [ \A m \in Mics :
            /\ mics[m].state \in {"open", "releasing"}
            /\ mics'[m].state = "ducked"
            /\ m \notin tripped'
            => recovered[m] ]_historyVars
  BY HistoryNextInv DEF Unpumped
<1>2. QED
  BY <1>1, HistoryInitInv, HistoryNextInv, PTL DEF HistorySpec, NoPumping

-------------------------------------------------------------------------------
(* The cap and the back-off.  No transition moves the gain, only the ramp does;
   and every transition that moves the strikes moves the level with them. *)

BackedOff(s) == s.level = LevelAt(s.strikes)

SameBackOff(s, t) ==
  /\ t.cur = s.cur /\ t.tgt = s.tgt /\ t.left = s.left
  /\ t.level = s.level /\ t.strikes = s.strikes

Carries(s, t) ==
  /\ t.cur = s.cur /\ t.tgt = s.tgt /\ t.left = s.left
  /\ BackedOff(s) => BackedOff(t)

LEMMA SameCarries == ASSUME NEW s, NEW t, SameBackOff(s, t) PROVE Carries(s, t)
  BY DEF SameBackOff, Carries, BackedOff

LEMMA EnterBackOff ==
  ASSUME NEW s \in Mic, NEW next \in States PROVE SameBackOff(s, Enter(s, next))
<1>1. CASE next = "ducked"
  BY <1>1 DEF Enter, Mic, SameBackOff
<1>2. CASE next \in {"open", "open_capped"}
  BY <1>2 DEF Enter, Mic, SameBackOff
<1>3. CASE next = "latched"
  BY <1>3 DEF Enter, Mic, SameBackOff
<1>4. CASE next \in {"arming", "releasing"}
  BY <1>4 DEF Enter, Mic, SameBackOff
<1>5. QED
  BY <1>1, <1>2, <1>3, <1>4 DEF States

(* What a mic carries into the state it enters. *)
LEMMA EnterCarries ==
  ASSUME NEW s, NEW r \in Mic, NEW next \in States, Carries(s, r)
  PROVE  Carries(s, Enter(r, next))
  BY EnterBackOff DEF SameBackOff, Carries, BackedOff

LEMMA EnterArmingBackOff ==
  ASSUME NEW s \in Mic, policy \in Policy PROVE SameBackOff(s, EnterArming(s))
<1> DEFINE e == Enter(s, "arming")
<1>1. e \in Mic /\ SameBackOff(s, e)
  BY EnterType, EnterBackOff DEF States
<1> HIDE DEF e
<1>2. EnterArming(s) = [e EXCEPT !.fell = FALSE, !.latched = FALSE, !.declared = FALSE,
                                 !.ok_seen = FALSE, !.rearm_hold = FALSE,
                                 !.timed_out = FALSE, !.ok_run = 0]
  BY DEF EnterArming, e
<1>3. QED
  BY <1>1, <1>2 DEF Mic, SameBackOff

LEMMA StruckCarries == ASSUME NEW s \in Mic PROVE Carries(s, Struck(s))
  BY DEF Struck, Mic, Carries, BackedOff

LEMMA DeclaredCarries == ASSUME NEW s \in Mic PROVE Carries(s, Declared(s))
  BY DEF Declared, Mic, Carries, BackedOff

LEMMA ProbedCarries == ASSUME NEW s \in Mic PROVE Carries(s, Probed(s)) /\ Carries(s, Decayed(Probed(s)))
<1>1. Carries(s, Probed(s))
  BY DEF Probed, Mic, Carries, BackedOff
<1>2. \A r \in Mic : Carries(r, Decayed(r))
  BY DEF Decayed, Mic, Carries, BackedOff
<1>3. QED
  BY <1>1, <1>2, ProbedType DEF Carries

LEMMA ArmingCarries ==
  ASSUME NEW s \in Mic, NEW trip \in BOOLEAN, policy \in Policy
  PROVE  Carries(s, StepArming(s, trip))
<1> DEFINE r == [Struck(s) EXCEPT !.ok_run = 0]
           u == [s EXCEPT !.timed_out = TRUE]
<1>1. Carries(s, s) /\ "open" \in States /\ "open_capped" \in States
  BY DEF Carries, States
<1>2. Carries(s, r)
  <2>1. Struck(s) \in Mic /\ Carries(s, Struck(s))
    BY StruckType, StruckCarries
  <2>2. r.cur = Struck(s).cur /\ r.level = Struck(s).level /\ r.strikes = Struck(s).strikes
    BY <2>1 DEF Mic
  <2>3. QED
    BY <2>1, <2>2 DEF Carries, BackedOff
<1>3. u \in Mic /\ Carries(s, u)
  BY DEF Mic, Carries, BackedOff
<1> HIDE DEF r, u
<1>4. StepArming(s, trip) \in {r, s, u, Enter(Declared(s), "open"), Enter(u, "open_capped")}
  BY DEF StepArming, r, u
<1>5. QED
  BY <1>1, <1>2, <1>3, <1>4, DeclaredType, DeclaredCarries, EnterCarries

LEMMA OpenCarries ==
  ASSUME NEW s \in Mic, NEW trip \in BOOLEAN, policy \in Policy
  PROVE  Carries(s, StepOpen(s, trip)) /\ Carries(s, StepOpenCapped(s, trip))
<1>1. Carries(s, s) /\ "ducked" \in States /\ "releasing" \in States
  BY DEF Carries, States
<1>2. /\ StepOpen(s, trip) \in {Enter(s, "ducked"), Enter(Struck(s), "ducked"), Decayed(Probed(s))}
      /\ StepOpenCapped(s, trip) \in {Enter(s, "ducked"), Enter(Struck(s), "ducked"),
                                      Enter(Declared(s), "releasing"), Probed(s)}
  BY DEF StepOpen, StepOpenCapped
<1>3. QED
  BY <1>1, <1>2, StruckType, DeclaredType, StruckCarries, DeclaredCarries, ProbedCarries, EnterCarries

LEMMA DuckedCarries ==
  ASSUME NEW s \in Mic, NEW trip \in BOOLEAN, policy \in Policy
  PROVE  Carries(s, StepDucked(s, trip))
<1> DEFINE t == [s EXCEPT !.hold = Later(@)]
           r == [t EXCEPT !.ok_seen = FALSE, !.rearm_hold = TRUE, !.notok_run = 0]
           u == [s EXCEPT !.hold = 0, !.ok_run = 0]
<1>1. t \in Mic /\ Carries(s, t) /\ "releasing" \in States
  BY LaterType DEF Mic, Carries, BackedOff, States
<1>2. Carries(s, u)
  BY DEF Mic, Carries, BackedOff
<1> HIDE DEF t, u
<1>3. r \in Mic /\ Carries(s, r)
  <2>1. r \in Mic
    BY <1>1, ZeroTick DEF Mic
  <2>2. SameBackOff(t, r)
    BY <1>1 DEF Mic, SameBackOff
  <2>3. QED
    BY <1>1, <2>1, <2>2 DEF Carries, BackedOff, SameBackOff
<1> HIDE DEF r
<1>4. StepDucked(s, trip) \in {u, t, Enter(Declared(t), "releasing"), Enter(r, "releasing")}
  BY DEF StepDucked, t, r, u
<1>5. Declared(t) \in Mic /\ Carries(s, Declared(t))
  BY <1>1, DeclaredType, DeclaredCarries DEF Carries
<1>6. QED
  BY <1>1, <1>2, <1>3, <1>4, <1>5, EnterCarries

LEMMA ReleasingCarries ==
  ASSUME NEW s \in Mic, NEW trip \in BOOLEAN, policy \in Policy
  PROVE  Carries(s, StepReleasing(s, trip))
<1>1. Carries(s, s)
  BY DEF Carries
<1>2. \/ StepReleasing(s, trip) = s
      \/ \E r \in {s, Struck(s)}, next \in States : StepReleasing(s, trip) = Enter(r, next)
  BY DEF StepReleasing, States
<1>3. QED
  BY <1>1, <1>2, StruckType, StruckCarries, EnterCarries

LEMMA LatchedCarries ==
  ASSUME NEW s \in Mic, NEW trip \in BOOLEAN, policy \in Policy
  PROVE  Carries(s, StepLatched(s, trip))
<1> DEFINE t == [s EXCEPT !.latch_notok = @ \/ ~ s.ok]
           u == [t EXCEPT !.latched = FALSE, !.declared = TRUE]
<1>1. t \in Mic /\ Carries(s, t)
  BY DEF Mic, Carries, BackedOff
<1> HIDE DEF t
<1>2. u \in Mic /\ SameBackOff(t, u)
  BY <1>1 DEF Mic, SameBackOff
<1> HIDE DEF u
<1>3. Carries(s, u) /\ "ducked" \in States /\ "releasing" \in States
  BY <1>1, <1>2 DEF Carries, BackedOff, SameBackOff, States
<1>4. StepLatched(s, trip) \in {t, Enter(t, "ducked"), Enter(u, "releasing")}
  BY DEF StepLatched, t, u
<1>5. QED
  BY <1>1, <1>2, <1>3, <1>4, EnterCarries

LEMMA StepCarries ==
  ASSUME NEW s0 \in Mic, NEW a, NEW trip \in BOOLEAN, policy \in Policy
  PROVE  Carries(s0, Step(s0, a, trip))
<1> DEFINE s == Clock(s0, a)
<1>1. s \in Mic /\ s.state \in States
  BY ClockRuns DEF Mic
<1>2. Carries(s0, s)
  <2>1. Clocked(s0) \in Mic
    BY ClockedType
  <2>2. SameBackOff(s0, Clocked(s0))
    BY DEF Clocked, Mic, SameBackOff
  <2>3. \A r \in Mic : SameBackOff(r, Fallen(r, a))
    BY DEF Fallen, Mic, SameBackOff
  <2>4. QED
    BY <2>1, <2>2, <2>3 DEF Clock, SameBackOff, Carries, BackedOff
<1> HIDE DEF s
<1>3. \/ Step(s0, a, trip) = EnterArming(s)
      \/ Step(s0, a, trip) \in {StepArming(s, trip), StepOpen(s, trip), StepOpenCapped(s, trip),
                                StepDucked(s, trip), StepReleasing(s, trip), StepLatched(s, trip)}
  BY <1>1 DEF Step, s, Clock, States
<1>4. Carries(s, Step(s0, a, trip))
  BY <1>1, <1>3, EnterArmingBackOff, SameCarries, ArmingCarries, OpenCarries, DuckedCarries,
     ReleasingCarries, LatchedCarries
<1>5. QED
  BY <1>2, <1>4 DEF Carries


(* A block of the ramp overshoots neither way. *)
LEMMA RampStep ==
  ASSUME NEW d \in Int, NEW n \in Nat \ {0} PROVE d \div n <= d \/ d \div n <= 0
<1> DEFINE q == d \div n
<1>1. q \in Int /\ n * q <= d
  OBVIOUS
<1> HIDE DEF q
<1>2. CASE q > 0
  <2>1. n * q >= q
    BY <1>1, <1>2
  <2>2. QED
    BY <1>1, <2>1 DEF q
<1>3. CASE q <= 0
  BY <1>3 DEF q
<1>4. QED
  BY <1>1, <1>2, <1>3

LEMMA RampRise ==
  ASSUME NEW s \in Mic, policy \in Policy
  PROVE  LET u == Rendered(s)
         IN  /\ u.cur > s.cur => u.cur <= TargetDb(s)
             /\ u.level = s.level /\ u.strikes = s.strikes
<1> DEFINE a == Aimed(s)
           u == Ramped(a)
           g == TargetDb(s)
<1>1. a \in Mic /\ g \in Int /\ s.cur \in Int
  BY AimedType, TargetDbType DEF Mic
<1>2. /\ a.tgt = g /\ a.cur \in {s.cur, g}
      /\ a.level = s.level /\ a.strikes = s.strikes
  BY DEF Aimed, Mic
<1> HIDE DEF a, g
<1>3. a.cur \in Int /\ a.left \in Nat /\ a.tgt \in Int
  BY <1>1 DEF Mic
<1>4. CASE a.left = 0
  <2>1. u = a
    BY <1>4 DEF Ramped
  <2>2. QED
    BY <1>1, <1>2, <2>1 DEF Rendered, a, g
<1>5. CASE a.left # 0
  <2> DEFINE d == a.tgt - a.cur
             c == IF a.left = 1 THEN a.tgt ELSE a.cur + d \div a.left
             v == [a EXCEPT !.left = @ - 1, !.cur = c]
  <2>1. u = v
    BY <1>5 DEF Ramped
  <2>2. d \in Int /\ a.left \in Nat \ {0}
    BY <1>3, <1>5
  <2> HIDE DEF d
  <2>3. d \div a.left \in Int /\ (d \div a.left <= d \/ d \div a.left <= 0)
    BY <2>2, RampStep
  <2>4. c \in Int /\ (c <= a.tgt \/ c <= a.cur)
    BY <1>3, <2>3 DEF d
  <2> HIDE DEF c
  <2>5. v.cur = c /\ v.level = a.level /\ v.strikes = a.strikes
    BY <1>1 DEF Mic
  <2> HIDE DEF v, u
  <2>6. u.cur = c /\ (c > s.cur => c <= g)
    BY <1>1, <1>2, <2>1, <2>4, <2>5
  <2>7. QED
    BY <1>2, <2>1, <2>5, <2>6 DEF Rendered, a, g, u
<1>6. QED
  BY <1>4, <1>5

SameAim(s, t) ==
  /\ t.tgt = s.tgt /\ t.level = s.level /\ t.floor = s.floor
  /\ t.declared = s.declared /\ t.latched = s.latched

LEMMA SameRestore == ASSUME NEW s, NEW t, SameAim(s, t) PROVE RestoreDb(t) = RestoreDb(s)
  BY DEF SameAim, RestoreDb

(* A ramp that has ended is at its target. *)
Landed(s) == s.left = 0 => s.cur = s.tgt

(* A block leaves a mic aimed at its target, whether or not that is new, and what
   it restores to alone; and a ramp ends where it aims. *)
LEMMA RenderedAim ==
  ASSUME NEW s \in Mic, policy \in Policy
  PROVE  LET u == Rendered(s)
         IN  /\ u.tgt = TargetDb(s) /\ RestoreDb(u) = RestoreDb(s)
             /\ Landed(s) => Landed(u)
<1> DEFINE tgt == TargetDb(s)
           n == IF tgt < s.cur THEN policy.attack ELSE policy.release_ramp
           a == Aimed(s)
<1>1. a \in Mic /\ n \in Nat
  BY AimedType, PolicyFields
<1>2. /\ a.tgt = tgt
      /\ a.level = s.level /\ a.floor = s.floor /\ a.declared = s.declared /\ a.latched = s.latched
      /\ Landed(s) => Landed(a)
  <2> DEFINE c == IF n = 0 THEN tgt ELSE s.cur
             b == [s EXCEPT !.tgt = tgt, !.left = n, !.cur = c]
  <2>1. a = IF tgt = s.tgt THEN s ELSE b
    BY DEF Aimed
  <2>2. n = 0 => c = tgt
    OBVIOUS
  <2> HIDE DEF a, n, tgt, c
  <2>3. /\ b.tgt = tgt /\ b.left = n /\ b.cur = c /\ b.level = s.level /\ b.floor = s.floor
        /\ b.declared = s.declared /\ b.latched = s.latched
    BY DEF Mic
  <2> HIDE DEF b
  <2>4. QED
    BY <2>1, <2>2, <2>3 DEF Landed
<1> HIDE DEF a
<1>3. LET u == Ramped(a)
      IN  /\ u.tgt = a.tgt
          /\ u.level = a.level /\ u.floor = a.floor /\ u.declared = a.declared /\ u.latched = a.latched
          /\ Landed(a) => Landed(u)
  <2> DEFINE c == IF a.left = 1 THEN a.tgt ELSE a.cur + (a.tgt - a.cur) \div a.left
             l == a.left - 1
             b == [a EXCEPT !.left = l, !.cur = c]
  <2>1. Ramped(a) = IF a.left = 0 THEN a ELSE b
    BY DEF Ramped
  <2>2. l = 0 => c = a.tgt
    BY <1>1 DEF Mic
  <2> HIDE DEF c, l
  <2>3. /\ b.tgt = a.tgt /\ b.left = l /\ b.cur = c /\ b.level = a.level /\ b.floor = a.floor
        /\ b.declared = a.declared /\ b.latched = a.latched
    BY <1>1 DEF Mic
  <2> HIDE DEF b
  <2>4. QED
    BY <2>1, <2>2, <2>3 DEF Landed
<1>4. RestoreDb(Ramped(a)) = RestoreDb(s)
  BY <1>2, <1>3 DEF RestoreDb
<1>5. QED
  BY <1>2, <1>3, <1>4 DEF Rendered, a

Ceiling == IF policy.has_cap THEN policy.cap ELSE -policy.arming_duck_db

LEMMA TargetCapped ==
  ASSUME NEW s \in Mic, policy \in Policy, ~ s.declared, ~ s.latched
  PROVE  ArmingDb <= Ceiling /\ TargetDb(s) <= Ceiling
<1>1. /\ policy.has_cap \in BOOLEAN /\ policy.cap \in Int
      /\ policy.arming_duck_db \in Int /\ policy.duck_db \in Nat /\ s.level \in Int
  BY DEF Policy, Mic
<1>2. ArmingDb \in Int /\ ArmingDb <= Ceiling /\ Ceiling \in Int
  BY <1>1 DEF ArmingDb, Lesser, Ceiling
<1>3. RestoreDb(s) \in Int /\ RestoreDb(s) <= Ceiling
  BY <1>1, <1>2 DEF RestoreDb, Lesser, Ceiling
<1>4. QED
  BY <1>1, <1>2, <1>3 DEF TargetDb


(* What is heard of a block moves neither the gain nor the back-off. *)
LEMMA ObservedCarries ==
  ASSUME NEW s \in Mic, NEW in, policy \in Policy
  PROVE  Carries(s, Observed(s, in))
<1> DEFINE r == Analyzed(s, in)
           ok == StatD(in) < s.d_thr /\ StatA(in) < s.a_thr
           since == IF HeardOf(in) = "silent" THEN Later(r.since) ELSE 0
           v == [r EXCEPT !.ok = ok, !.since = since]
<1>1. r \in Mic /\ SameBackOff(s, r)
  BY EnterArmingType, EnterArmingBackOff DEF Analyzed, SameBackOff
<1>2. Observed(s, in) = v
  BY DEF Observed
<1> HIDE DEF r, ok, since
<1>3. SameBackOff(r, v)
  BY <1>1 DEF Mic, SameBackOff
<1> HIDE DEF v
<1>4. SameBackOff(s, Observed(s, in))
  BY <1>1, <1>2, <1>3 DEF SameBackOff
<1>5. QED
  BY <1>4, SameCarries

(* One block of a mic. *)
LEMMA BlockRise ==
  ASSUME NEW s0 \in Mic, NEW in, NEW trip \in BOOLEAN, policy \in Policy, FlagsOf(s0)
  PROVE  LET u == Rendered(Step(Observed(s0, in), StatA(in), trip))
         IN  /\ u.cur > s0.cur /\ ~ u.declared /\ ~ u.latched => u.cur <= Ceiling
             /\ BackedOff(s0) => BackedOff(u)
             /\ Landed(s0) => Landed(u)
<1> DEFINE o == Observed(s0, in)
           t == Step(o, StatA(in), trip)
           u == Rendered(t)
<1>1. o \in Mic /\ FlagsOf(o) /\ Carries(s0, o)
  BY ObservedInv, ObservedCarries
<1> HIDE DEF o
<1>2. t \in Mic /\ Carries(o, t)
  BY <1>1, StepInv, StepCarries
<1> HIDE DEF t
<1>3. /\ u.cur > t.cur => u.cur <= TargetDb(t)
      /\ u.level = t.level /\ u.strikes = t.strikes
      /\ u.declared = t.declared /\ u.latched = t.latched /\ u \in Mic
      /\ Landed(t) => Landed(u)
  BY <1>2, RampRise, RenderedType, RenderedAim DEF SameControl
<1> HIDE DEF u
<1>4. ASSUME u.cur > s0.cur, ~ u.declared, ~ u.latched PROVE u.cur <= Ceiling
  <2>1. u.cur <= TargetDb(t)
    BY <1>1, <1>2, <1>3, <1>4 DEF Carries
  <2>2. TargetDb(t) <= Ceiling
    BY <1>2, <1>3, <1>4, TargetCapped
  <2>3. u.cur \in Int /\ TargetDb(t) \in Int /\ Ceiling \in Int
    BY <1>2, <1>3, TargetDbType DEF Mic, Ceiling, Policy
  <2>4. QED
    BY <2>1, <2>2, <2>3
<1>5. BackedOff(s0) => BackedOff(u)
  BY <1>1, <1>2, <1>3 DEF Carries, BackedOff
<1>6. Landed(s0) => Landed(u)
  BY <1>1, <1>2, <1>3 DEF Carries, Landed
<1>7. QED
  BY <1>4, <1>5, <1>6 DEF u, t, o

(* The host moves a gain only by reset(), and a level only to zero strikes. *)
HostMoves(s, t) ==
  /\ \/ t.cur = s.cur /\ t.tgt = s.tgt /\ t.left = s.left
     \/ t.cur <= Ceiling /\ t.cur = t.tgt /\ policy' = policy /\ tripped' = {}
  /\ (t.level = s.level /\ t.strikes = s.strikes) \/ (t.level = 0 /\ t.strikes = 0)

LEMMA ClearedMoves ==
  ASSUME NEW s \in Mic, policy \in Policy
  PROVE  /\ Cleared(s).cur = s.cur /\ Cleared(s).tgt = s.tgt /\ Cleared(s).left = s.left
         /\ Cleared(s).level = 0 /\ Cleared(s).strikes = 0
<1> DEFINE t == [s EXCEPT !.strikes = 0, !.level = 0, !.decay = 0,
                          !.timed_out = FALSE, !.latched = FALSE]
           u == IF s.latched /\ s.state = "latched" THEN Enter(t, "releasing") ELSE t
           v == [u EXCEPT !.in_state = 0]
<1>0. 0 \in Ticks /\ 0 \in 0..StrikeCap /\ 0 \in Int
  BY ZeroTick, StrikeCapAssumption
<1>1. t \in Mic
  <2> DEFINE b == [s EXCEPT !.strikes = 0, !.level = 0, !.decay = 0]
  <2>1. b \in Mic
    BY <1>0, BackOffType, Zenon
  <2> HIDE DEF b
  <2>2. [b EXCEPT !.timed_out = FALSE, !.latched = FALSE] \in Mic
    BY <2>1 DEF Mic
  <2>3. QED
    BY <2>2 DEF b
<1>2. t.cur = s.cur /\ t.tgt = s.tgt /\ t.left = s.left /\ t.level = 0 /\ t.strikes = 0
  BY DEF Mic
<1> HIDE DEF t
<1>3. u \in Mic /\ SameBackOff(t, u)
  <2>1. "releasing" \in States
    BY DEF States
  <2>2. Enter(t, "releasing") \in Mic /\ SameBackOff(t, Enter(t, "releasing"))
    BY <1>1, <2>1, EnterType, EnterBackOff
  <2>3. u \in {t, Enter(t, "releasing")}
    OBVIOUS
  <2> HIDE DEF u
  <2>4. SameBackOff(t, t)
    BY DEF SameBackOff
  <2>5. QED
    BY <1>1, <2>2, <2>3, <2>4
<1> HIDE DEF u
<1>4. SameBackOff(u, v)
  BY <1>3 DEF Mic, SameBackOff
<1> HIDE DEF v
<1>5. Cleared(s) \in {u, v}
  BY DEF Cleared, t, u, v
<1>6. QED
  BY <1>2, <1>3, <1>4, <1>5 DEF SameBackOff

LEMMA RethresholdedBackOff ==
  ASSUME NEW s \in Mic, NEW p PROVE SameBackOff(s, Rethresholded(s, p))
<1> DEFINE t == [s EXCEPT !.d_thr = p.d_db, !.a_thr = p.a_db]
<1>1. SameBackOff(s, t) /\ SameBackOff(s, s)
  BY DEF Mic, SameBackOff
<1>2. Rethresholded(s, p) \in {s, t}
  BY DEF Rethresholded
<1> HIDE DEF t
<1>3. QED
  BY <1>1, <1>2

LEMMA HostRise ==
  ASSUME GuardInv, Host PROVE \A m \in Mics : HostMoves(mics[m], mics'[m])
<1>1. policy \in Policy /\ \A m \in Mics : mics[m] \in Mic
  BY DEF GuardInv, GuardTypeOK
<1>2. ASSUME NEW p \in Policy, ApplyPolicy(p), NEW m \in Mics PROVE HostMoves(mics[m], mics'[m])
  <2> DEFINE s == Rethresholded(mics[m], p)
  <2>1. s \in Mic
    BY <1>1, RethresholdedType
  <2>2. SameBackOff(mics[m], s)
    BY <1>1, RethresholdedBackOff
  <2>3. mics'[m] \in {s, EnterArming(s)}
    BY <1>2 DEF ApplyPolicy, OnCapChange
  <2> HIDE DEF s
  <2>4. SameBackOff(mics[m], mics'[m])
    BY <1>1, <2>1, <2>2, <2>3, EnterArmingBackOff DEF SameBackOff
  <2>5. QED
    BY <2>4 DEF SameBackOff, HostMoves
<1>3. ASSUME NEW p \in Policies, SetPolicy(p) PROVE \A m \in Mics : HostMoves(mics[m], mics'[m])
  BY <1>2, <1>3, PolicyAssumption DEF SetPolicy
<1>4. ASSUME NEW c \in Caps, SetCap(c) PROVE \A m \in Mics : HostMoves(mics[m], mics'[m])
  <2>1. [policy EXCEPT !.has_cap = TRUE, !.cap = c] \in Policy
    BY <1>1, CapsAssumption DEF Policy
  <2>2. QED
    BY <1>2, <1>4, <2>1 DEF SetCap
<1>5. ASSUME RemoveCap PROVE \A m \in Mics : HostMoves(mics[m], mics'[m])
  BY <1>1, <1>2, <1>5, UncappedType DEF RemoveCap
<1>6. ASSUME Reset, NEW m \in Mics PROVE HostMoves(mics[m], mics'[m])
  <2> DEFINE t == Fresh(mics[m].d_thr, mics[m].a_thr, mics[m].own_thr)
  <2>1. /\ t.cur = ArmingDb /\ t.tgt = ArmingDb /\ t.level = 0 /\ t.strikes = 0
        /\ t \in Mic /\ ~ t.declared /\ ~ t.latched
    <3>1. mics[m].d_thr \in Int /\ mics[m].a_thr \in Int /\ mics[m].own_thr \in BOOLEAN
      BY <1>1 DEF Mic
    <3>2. t \in Mic
      BY <1>1, <3>1, FreshType
    <3>3. QED
      BY <3>2 DEF Fresh
  <2>2. mics'[m] = t /\ policy' = policy /\ tripped' = {}
    BY <1>6 DEF Reset
  <2> HIDE DEF t
  <2>3. QED
    BY <1>1, <2>1, <2>2, TargetCapped DEF HostMoves
<1>7. ASSUME Clear, NEW m \in Mics PROVE HostMoves(mics[m], mics'[m])
  BY <1>1, <1>7, ClearedMoves DEF Clear, HostMoves
<1>8. ASSUME NEW x \in Mics, NEW thr \in OwnThr, SetThresholds(x, thr), NEW m \in Mics
      PROVE  HostMoves(mics[m], mics'[m])
  <2> DEFINE t == [mics[x] EXCEPT !.d_thr = thr.d, !.a_thr = thr.a,
                                  !.own_thr = TRUE, !.ok_seen = FALSE]
  <2>1. SameBackOff(mics[x], t)
    BY <1>1 DEF SameBackOff, Mic
  <2>2. mics \in [Mics -> Mic] /\ mics' = [mics EXCEPT ![x] = t]
    BY <1>8 DEF SetThresholds, GuardInv, GuardTypeOK
  <2> HIDE DEF t
  <2>3. SameBackOff(mics[m], mics'[m])
    BY <2>1, <2>2 DEF SameBackOff
  <2>4. QED
    BY <2>3 DEF SameBackOff, HostMoves
<1>9. ASSUME ClearCalibration, NEW m \in Mics PROVE HostMoves(mics[m], mics'[m])
  <2> DEFINE t == [mics[m] EXCEPT !.own_thr = FALSE, !.ok_seen = FALSE]
  <2>0. mics[m] \in Mic
    BY <1>1
  <2>1. t \in Mic /\ SameBackOff(mics[m], t)
    BY <2>0 DEF Mic, SameBackOff
  <2> HIDE DEF t
  <2>2. mics'[m] = Rethresholded(t, policy)
    BY <1>9 DEF ClearCalibration, t
  <2>3. SameBackOff(t, Rethresholded(t, policy))
    BY <2>1, RethresholdedBackOff
  <2>4. QED
    BY <2>1, <2>2, <2>3 DEF SameBackOff, HostMoves
<1>10. QED
  BY <1>3, <1>4, <1>5, <1>6, <1>7, <1>8, <1>9 DEF Host

(* What a step may raise: the body of NeverRaisedPastCap. *)
Raised ==
  \A m \in Mics :
    LET s == mics'[m]
    IN s.cur > mics[m].cur /\ ~ s.declared /\ ~ s.latched
       => s.cur <= IF policy'.has_cap THEN policy'.cap ELSE -policy'.arming_duck_db

LEMMA NextRise == ASSUME GuardInv, Next PROVE Raised
<1>1. policy \in Policy /\ GuardInv'
  BY NextInv DEF GuardInv, GuardTypeOK
<1>2. \A m \in Mics : mics[m] \in Mic /\ FlagsOf(mics[m]) /\ mics'[m] \in Mic
  BY <1>1 DEF GuardInv, GuardTypeOK
<1>3. CASE Block
  <2>1. PICK in \in Residuals, near \in SUBSET Mics \ {{}} : Update(in, near)
    BY <1>3 DEF Block
  <2>2. ASSUME NEW m \in Mics
        PROVE  mics'[m].cur > mics[m].cur /\ ~ mics'[m].declared /\ ~ mics'[m].latched
                 => mics'[m].cur <= Ceiling
    <3>1. mics'[m] = Rendered(Step(Observed(mics[m], in[m]), StatA(in[m]), m \in tripped'))
      BY <2>1 DEF Update
    <3>2. (m \in tripped') \in BOOLEAN
      OBVIOUS
    <3>3. QED
      BY <1>1, <1>2, <3>1, <3>2, BlockRise
  <2>3. policy' = policy
    BY <2>1 DEF Update
  <2>4. QED
    BY <2>2, <2>3 DEF Raised, Ceiling
<1>4. CASE Host
  <2>1. ASSUME NEW m \in Mics, mics'[m].cur > mics[m].cur
        PROVE  policy' = policy /\ mics'[m].cur <= Ceiling
    <3>1. mics[m].cur \in Int /\ mics'[m].cur # mics[m].cur
      BY <1>2, <2>1 DEF Mic
    <3>2. QED
      BY <1>4, <3>1, HostRise DEF HostMoves
  <2>2. QED
    BY <2>1 DEF Raised, Ceiling
<1>5. QED
  BY <1>3, <1>4 DEF Next

(* For any ramps and levels: whatever the host does with the cap, the gain of a
   mic that is neither certified nor latched rises at most to the cap in force,
   or to the arming gain where there is none. *)
THEOREM NeverAboveCap == Spec => NeverRaisedPastCap
<1>1. GuardInv /\ [Next]_vars =>
        [ \A m \in Mics :
            LET s == mics'[m]
            IN s.cur > mics[m].cur /\ ~ s.declared /\ ~ s.latched
               => s.cur <= IF policy'.has_cap THEN policy'.cap ELSE -policy'.arming_duck_db
        ]_vars
  BY NextRise DEF Raised
<1>2. QED
  BY <1>1, GuardInvariant, PTL DEF Spec, NeverRaisedPastCap

(* The host may change all of a policy but its back-off. *)
OneBackOff ==
  \A p, q \in Policies : p.strike_db = q.strike_db /\ p.max_strikes = q.max_strikes

BackOffInForce ==
  \A p \in Policies : policy.strike_db = p.strike_db /\ policy.max_strikes = p.max_strikes

LEMMA ZeroLevel == ASSUME policy \in Policy PROVE LevelAt(0) = 0
<1>1. policy.strike_db \in Int /\ policy.max_strikes \in Nat
  BY PolicyFields
<1>2. Lesser(0, policy.max_strikes) = 0
  BY <1>1 DEF Lesser
<1>3. QED
  BY <1>1, <1>2 DEF LevelAt

LEMMA BackOffStays ==
  ASSUME OneBackOff, GuardInv, BackOffInForce, Next
  PROVE  /\ BackOffInForce'
         /\ policy'.strike_db = policy.strike_db /\ policy'.max_strikes = policy.max_strikes
<1>1. policy \in Policy
  BY DEF GuardInv, GuardTypeOK
<1>2. policy'.strike_db = policy.strike_db /\ policy'.max_strikes = policy.max_strikes
  <2>1. ASSUME NEW p \in Policies, SetPolicy(p)
        PROVE  policy'.strike_db = policy.strike_db /\ policy'.max_strikes = policy.max_strikes
    BY <2>1 DEF SetPolicy, ApplyPolicy, BackOffInForce
  <2>2. ASSUME NEW c \in Caps, SetCap(c)
        PROVE  policy'.strike_db = policy.strike_db /\ policy'.max_strikes = policy.max_strikes
    BY <1>1, <2>2 DEF SetCap, ApplyPolicy, Policy
  <2>3. ASSUME RemoveCap
        PROVE  policy'.strike_db = policy.strike_db /\ policy'.max_strikes = policy.max_strikes
    BY <1>1, <2>3 DEF RemoveCap, ApplyPolicy, Policy
  <2>4. Block => policy' = policy
    BY DEF Block, Update
  <2>5. (Reset => policy' = policy) /\ (Clear => policy' = policy)
    BY DEF Reset, Clear
  <2>6. ClearCalibration => policy' = policy
    BY DEF ClearCalibration
  <2>7. \A m \in Mics, thr \in OwnThr : SetThresholds(m, thr) => policy' = policy
    BY DEF SetThresholds
  <2>8. QED
    BY <2>1, <2>2, <2>3, <2>4, <2>5, <2>6, <2>7 DEF Next, Host
<1>3. QED
  BY <1>2 DEF BackOffInForce

LEMMA NextBackOff ==
  ASSUME OneBackOff, GuardInv, BackOffInForce, LevelFollowsStrikes, Next
  PROVE  LevelFollowsStrikes'
<1>1. /\ policy \in Policy
      /\ policy'.strike_db = policy.strike_db /\ policy'.max_strikes = policy.max_strikes
  BY BackOffStays DEF GuardInv, GuardTypeOK
<1>2. \A m \in Mics : mics[m] \in Mic /\ FlagsOf(mics[m]) /\ BackedOff(mics[m])
  BY DEF GuardInv, GuardTypeOK, LevelFollowsStrikes, BackedOff
<1>3. ASSUME NEW m \in Mics PROVE BackedOff(mics'[m])
  <2>1. CASE Block
    <3>1. PICK in \in Residuals, near \in SUBSET Mics \ {{}} : Update(in, near)
      BY <2>1 DEF Block
    <3>2. mics'[m] = Rendered(Step(Observed(mics[m], in[m]), StatA(in[m]), m \in tripped'))
      BY <3>1 DEF Update
    <3>3. (m \in tripped') \in BOOLEAN
      OBVIOUS
    <3>4. QED
      BY <1>1, <1>2, <3>2, <3>3, BlockRise
  <2>2. CASE Host
    <3>1. HostMoves(mics[m], mics'[m])
      BY <2>2, HostRise
    <3>2. QED
      BY <1>1, <1>2, <3>1, ZeroLevel DEF HostMoves, BackedOff
  <2>3. QED
    BY <2>1, <2>2 DEF Next
<1>4. QED
  BY <1>1, <1>3 DEF LevelFollowsStrikes, BackedOff, LevelAt

(* While the policies the host sets share one back-off, a mic's restore level
   is that of its strikes, through every strike, decay, clear() and reset(). *)
THEOREM LevelAlwaysFollows ==
  ASSUME OneBackOff PROVE Spec => []LevelFollowsStrikes
<1>1. Init => BackOffInForce /\ LevelFollowsStrikes
  <2> SUFFICES ASSUME Init PROVE BackOffInForce /\ LevelFollowsStrikes
    OBVIOUS
  <2>1. policy \in Policies /\ policy \in Policy
    BY PolicyAssumption DEF Init
  <2>2. BackOffInForce
    BY <2>1 DEF OneBackOff, BackOffInForce
  <2>3. ASSUME NEW m \in Mics PROVE mics[m].level = LevelAt(mics[m].strikes)
    <3>1. mics[m] = Fresh(policy.d_db, policy.a_db, FALSE)
      BY DEF Init
    <3>2. mics[m].level = 0 /\ mics[m].strikes = 0
      BY <3>1 DEF Fresh
    <3>3. QED
      BY <2>1, <3>2, ZeroLevel
  <2>4. QED
    BY <2>2, <2>3 DEF LevelFollowsStrikes
<1>2. GuardInv /\ BackOffInForce /\ LevelFollowsStrikes /\ [Next]_vars
        => BackOffInForce' /\ LevelFollowsStrikes'
  <2> SUFFICES ASSUME GuardInv, BackOffInForce, LevelFollowsStrikes, [Next]_vars
               PROVE  BackOffInForce' /\ LevelFollowsStrikes'
    OBVIOUS
  <2>1. CASE Next
    BY <2>1, BackOffStays, NextBackOff
  <2>2. CASE UNCHANGED vars
    BY <2>2 DEF vars, BackOffInForce, LevelFollowsStrikes, LevelAt
  <2>3. QED
    BY <2>1, <2>2
<1>3. QED
  BY <1>1, <1>2, GuardInvariant, PTL DEF Spec

-------------------------------------------------------------------------------
(* A trip never aims higher.  The strike that latches may raise what a mic
   restores to, from its level up to a floor of at most 0 dB; the duck below it
   has to cover that, so that this needs a duck no shallower than the back-off. *)

Covers(p) == p.strike_db * p.max_strikes <= p.duck_db /\ p.cap <= 0

LEMMA EnterDuckedAim ==
  ASSUME NEW s \in Mic
  PROVE  SameAim(s, Enter(s, "ducked")) /\ Enter(s, "ducked").state = "ducked"
  BY DEF Enter, Mic, SameAim

(* What is heard of a block changes no aim, but for a block that re-arms the mic. *)
LEMMA ObservedAim ==
  ASSUME NEW s \in Mic, NEW in, policy \in Policy, Observed(s, in).state # "arming"
  PROVE  SameAim(s, Observed(s, in)) /\ Observed(s, in).state = s.state
<1> DEFINE r == Analyzed(s, in)
           ok == StatD(in) < s.d_thr /\ StatA(in) < s.a_thr
           since == IF HeardOf(in) = "silent" THEN Later(r.since) ELSE 0
           v == [r EXCEPT !.ok = ok, !.since = since]
<1>1. r \in Mic /\ (r = s \/ r = EnterArming(s))
  BY EnterArmingType DEF Analyzed
<1>2. Observed(s, in) = v
  BY DEF Observed
<1> HIDE DEF r, ok, since
<1>3. v.state = r.state /\ SameAim(r, v)
  BY <1>1 DEF Mic, SameAim
<1> HIDE DEF v
<1>4. EnterArming(s).state = "arming"
  <2>1. Enter(s, "arming") \in Mic /\ Enter(s, "arming").state = "arming"
    BY EnterType DEF States
  <2>2. QED
    BY <2>1 DEF EnterArming, Mic
<1>5. r = s
  BY <1>1, <1>2, <1>3, <1>4
<1>6. QED
  BY <1>2, <1>3, <1>5

LEMMA ClockedAim ==
  ASSUME NEW s \in Mic, NEW a, policy \in Policy
  PROVE  /\ SameAim(s, Fallen(Clocked(s), a)) /\ Fallen(Clocked(s), a).state = s.state
         /\ Fallen(Clocked(s), a).strikes = s.strikes
<1>1. Clocked(s) \in Mic
  BY ClockedType
<1>2. SameAim(s, Clocked(s)) /\ Clocked(s).state = s.state /\ Clocked(s).strikes = s.strikes
  <2> DEFINE run   == IF s.ok THEN Later(s.ok_run) ELSE 0
             arms  == s.ok /\ (~ s.rearm_hold \/ run >= policy.release)
             notok == IF s.ok THEN 0 ELSE Later(s.notok_run)
             age   == Later(s.in_state)
             seen  == s.ok_seen \/ arms
             waits == s.rearm_hold /\ ~ arms
             c == [s EXCEPT !.ok_run = run, !.notok_run = notok, !.in_state = age,
                            !.ok_seen = seen, !.rearm_hold = waits]
  <2>1. Clocked(s) = c
    BY DEF Clocked
  <2> HIDE DEF run, arms, notok, age, seen, waits
  <2>2. SameAim(s, c) /\ c.state = s.state /\ c.strikes = s.strikes
    BY DEF Mic, SameAim
  <2>3. QED
    BY <2>1, <2>2
<1> DEFINE c == Clocked(s)
<1> HIDE DEF c
<1>3. c \in Mic => /\ SameAim(c, Fallen(c, a)) /\ Fallen(c, a).state = c.state
                   /\ Fallen(c, a).strikes = c.strikes
  BY DEF Fallen, Mic, SameAim
<1>4. QED
  BY <1>1, <1>2, <1>3 DEF c, SameAim

(* No back-off is deeper than the duck, and none above 0 dB. *)
LEMMA LevelBounds ==
  ASSUME NEW k \in Nat, policy \in Policy, Covers(policy)
  PROVE  LevelAt(k) \in Int /\ -policy.duck_db <= LevelAt(k) /\ LevelAt(k) <= 0
<1> DEFINE a == policy.strike_db
           n == policy.max_strikes
           j == Lesser(k, n)
<1>1. a \in Nat /\ n \in Nat /\ policy.duck_db \in Nat
  BY DEF Policy
<1>2. j \in Nat /\ j <= n
  BY <1>1 DEF Lesser
<1>3. LevelAt(k) = -a * j /\ a * n <= policy.duck_db
  BY DEF LevelAt, Covers
<1> HIDE DEF a, n, j
<1>4. 0 <= a * j /\ a * j <= a * n /\ -a * j = -(a * j) /\ a * j \in Int /\ a * n \in Int
  BY <1>1, <1>2
<1>5. QED
  BY <1>1, <1>3, <1>4

(* What a strike restores to, a duck below, is no higher than before it. *)
LEMMA StruckCovered ==
  ASSUME NEW s \in Mic, policy \in Policy, Covers(policy), BackedOff(s), FlagsOf(s),
         s.state # "arming"
  PROVE  RestoreDb(Struck(s)) - policy.duck_db <= RestoreDb(s)
<1> DEFINE k == Lesser(s.strikes + 1, StrikeCap)
           latches == s.state # "arming" /\ k >= policy.max_strikes /\ ~ s.latched
           level == LevelAt(k)
           floor == IF ~ latches THEN s.floor
                    ELSE IF policy.has_cap THEN policy.cap ELSE level
           t == Struck(s)
<1>1. k \in Nat /\ s.strikes \in Nat
  BY StrikeCapAssumption DEF Lesser, Mic
<1>2. /\ level \in Int /\ level <= 0
      /\ s.level \in Int /\ -policy.duck_db <= s.level /\ s.level <= 0
  BY <1>1, LevelBounds DEF BackedOff
<1>3. policy.has_cap \in BOOLEAN /\ policy.cap \in Int /\ policy.cap <= 0 /\ policy.duck_db \in Nat
  BY DEF Policy, Covers
<1>4. s.floor \in Int /\ s.latched \in BOOLEAN /\ s.declared \in BOOLEAN
  BY DEF Mic
<1>5. t = [s EXCEPT !.strikes = k, !.level = level, !.decay = 0,
                    !.latched = @ \/ latches, !.floor = floor]
  BY DEF Struck
<1>6. latches \in BOOLEAN /\ (latches => ~ s.latched)
  OBVIOUS
<1>7. /\ latches /\ policy.has_cap => floor = policy.cap
      /\ latches /\ ~ policy.has_cap => floor = level
      /\ ~ latches => floor = s.floor
  OBVIOUS
<1> HIDE DEF k, latches, level, floor, t
<1>8. t.level = level /\ t.floor = floor /\ t.latched = (s.latched \/ latches) /\ t.declared = s.declared
  BY <1>5 DEF Mic
<1>9. ~ s.declared => policy.has_cap
  BY DEF FlagsOf
<1>10. CASE s.latched
  <2>1. RestoreDb(s) = s.floor /\ RestoreDb(t) = s.floor
    BY <1>6, <1>7, <1>8, <1>10 DEF RestoreDb
  <2>2. QED
    BY <1>3, <1>4, <2>1 DEF t
<1>11. CASE ~ s.latched
  <2>1. CASE s.declared
    <3>1. RestoreDb(s) = s.level
      BY <1>11, <2>1 DEF RestoreDb
    <3>2. RestoreDb(t) \in {level, policy.cap}
      BY <1>6, <1>7, <1>8, <1>11, <2>1, <1>3 DEF RestoreDb
    <3>3. QED
      BY <1>2, <1>3, <3>1, <3>2 DEF t
  <2>2. CASE ~ s.declared
    <3>1. RestoreDb(s) = Lesser(policy.cap, s.level)
      BY <1>9, <1>11, <2>2 DEF RestoreDb
    <3>2. RestoreDb(t) \in {policy.cap, Lesser(policy.cap, level)}
      BY <1>6, <1>7, <1>8, <1>9, <1>11, <2>2 DEF RestoreDb
    <3>3. RestoreDb(t) \in Int /\ RestoreDb(t) <= policy.cap
      BY <1>2, <1>3, <3>2 DEF Lesser
    <3>4. QED
      BY <1>2, <1>3, <3>1, <3>3 DEF Lesser, t
  <2>3. QED
    BY <1>4, <2>1, <2>2
<1>12. QED
  BY <1>4, <1>10, <1>11

LEMMA StepAim ==
  ASSUME NEW s0 \in Mic, NEW a, policy \in Policy, Covers(policy), BackedOff(s0), FlagsOf(s0),
         Step(s0, a, TRUE).state = "ducked"
  PROVE  /\ s0.state # "arming"
         /\ TargetDb(Step(s0, a, TRUE)) <= TargetDb(s0)
<1> DEFINE s == Fallen(Clocked(s0), a)
           t == Step(s0, a, TRUE)
<1>1. s \in Mic /\ s.state \in States
  BY ClockedType, FallenType DEF Mic
<1>2. SameAim(s0, s) /\ s.state = s0.state /\ s.strikes = s0.strikes
  BY ClockedAim
<1> HIDE DEF s
<1>3. FlagsOf(s) /\ BackedOff(s)
  BY <1>2 DEF SameAim, FlagsOf, BackedOff
<1>4. RestoreDb(s) = RestoreDb(s0) /\ RestoreDb(s) \in Int
  BY <1>1, <1>2, SameRestore, RestoreDbType
<1>5. policy.duck_db \in Nat
  BY DEF Policy
<1>6. ~ Restarted(s, a)
  <2> SUFFICES ASSUME Restarted(s, a) PROVE FALSE
    OBVIOUS
  <2>1. t = EnterArming(s)
    BY DEF Step, s
  <2>2. Enter(s, "arming") \in Mic /\ Enter(s, "arming").state = "arming"
    BY <1>1, EnterType DEF States
  <2>3. EnterArming(s).state = "arming"
    BY <2>2 DEF EnterArming, Mic
  <2>4. QED
    BY <2>1, <2>3
<1>7. s.state # "arming"
  <2> SUFFICES ASSUME s.state = "arming" PROVE FALSE
    OBVIOUS
  <2>1. t = [Struck(s) EXCEPT !.ok_run = 0]
    BY <1>6 DEF Step, StepArming, s
  <2>2. [Struck(s) EXCEPT !.ok_run = 0].state = s.state
    BY <1>1, StruckType DEF Mic
  <2>3. QED
    BY <2>1, <2>2
<1>8. CASE s.state = "ducked"
  <2>1. t = [s EXCEPT !.hold = 0, !.ok_run = 0]
    BY <1>6, <1>8 DEF Step, StepDucked, s
  <2>2. SameAim(s, t) /\ t.state = s.state
    <3>1. SameAim(s, [s EXCEPT !.hold = 0, !.ok_run = 0])
      BY <1>1 DEF Mic, SameAim
    <3>2. [s EXCEPT !.hold = 0, !.ok_run = 0].state = s.state
      BY <1>1 DEF Mic
    <3>3. QED
      BY <2>1, <3>1, <3>2
  <2> HIDE DEF t
  <2>3. RestoreDb(t) = RestoreDb(s)
    BY <2>2, SameRestore
  <2>4. TargetDb(t) = TargetDb(s0)
    BY <1>2, <1>4, <1>8, <2>2, <2>3 DEF TargetDb
  <2>5. TargetDb(s0) \in Int
    BY TargetDbType
  <2>6. TargetDb(t) <= TargetDb(s0)
    BY <2>4, <2>5
  <2>7. QED
    BY <1>2, <1>7, <2>6 DEF t
<1>9. CASE s.state \in {"open", "open_capped", "releasing", "latched"}
  <2> DEFINE l == [s EXCEPT !.latch_notok = @ \/ ~ s.ok]
  <2>1. PICK x \in {s, Struck(s), l} : t = Enter(x, "ducked")
    <3>1. CASE s.state = "open"
      BY <1>6, <3>1 DEF Step, StepOpen, s
    <3>2. CASE s.state = "open_capped"
      BY <1>6, <3>2 DEF Step, StepOpenCapped, s
    <3>3. CASE s.state = "releasing"
      BY <1>6, <3>3 DEF Step, StepReleasing, s
    <3>4. CASE s.state = "latched"
      BY <1>6, <3>4 DEF Step, StepLatched, s
    <3>5. QED
      BY <1>9, <3>1, <3>2, <3>3, <3>4
  <2>2. l \in Mic /\ SameAim(s, l)
    BY <1>1 DEF Mic, SameAim
  <2>3. Struck(s) \in Mic
    BY <1>1, StruckType
  <2> HIDE DEF l, t
  <2>4. x \in Mic
    BY <1>1, <2>1, <2>2, <2>3
  <2>5. RestoreDb(x) \in Int /\ RestoreDb(x) - policy.duck_db <= RestoreDb(s)
    <3>1. CASE x = Struck(s)
      BY <1>1, <1>3, <1>7, <2>4, <3>1, StruckCovered, RestoreDbType
    <3>2. CASE x # Struck(s)
      <4>1. RestoreDb(x) = RestoreDb(s)
        BY <2>1, <2>2, <3>2, SameRestore
      <4>2. QED
        BY <1>4, <1>5, <4>1
    <3>3. QED
      BY <3>1, <3>2
  <2>6. RestoreDb(t) = RestoreDb(x) /\ t.state = "ducked"
    BY <2>1, <2>4, EnterDuckedAim, SameRestore
  <2>7. TargetDb(t) = RestoreDb(x) - policy.duck_db
    BY <2>6 DEF TargetDb
  <2>8. TargetDb(s0) = RestoreDb(s)
    BY <1>2, <1>4, <1>9 DEF TargetDb
  <2>9. QED
    BY <1>2, <1>7, <2>5, <2>7, <2>8 DEF t
<1>10. QED
  BY <1>1, <1>2, <1>7, <1>8, <1>9 DEF States

LEMMA BlockAim ==
  ASSUME GuardInv, LevelFollowsStrikes, Covers(policy), Block, NEW m \in tripped',
         mics'[m].state = "ducked"
  PROVE  mics'[m].tgt <= TargetDb(mics[m])
<1>1. PICK in \in Residuals, near \in SUBSET Mics \ {{}} : Update(in, near)
  BY DEF Block
<1> DEFINE o == Observed(mics[m], in[m])
           t == Step(o, StatA(in[m]), TRUE)
<1>2. m \in Mics /\ policy \in Policy
  BY BlockInv DEF GuardInv, GuardTypeOK, AttributionTypeOK
<1>3. mics[m] \in Mic /\ FlagsOf(mics[m]) /\ BackedOff(mics[m])
  BY <1>2 DEF GuardInv, GuardTypeOK, LevelFollowsStrikes, BackedOff
<1>4. (m \in tripped') = TRUE
  OBVIOUS
<1>5. mics'[m] = Rendered(Step(o, StatA(in[m]), m \in tripped'))
  BY <1>1, <1>2 DEF Update
<1>6. mics'[m] = Rendered(t)
  BY <1>4, <1>5
<1>7. o \in Mic /\ FlagsOf(o) /\ BackedOff(o)
  <2>1. o \in Mic /\ FlagsOf(o)
    BY <1>2, <1>3, ObservedInv
  <2>2. BackedOff(o)
    BY <1>2, <1>3, ObservedCarries DEF Carries
  <2>3. QED
    BY <2>1, <2>2
<1>8. t \in Mic
  BY <1>2, <1>7, StepInv
<1>9. mics'[m].tgt = TargetDb(t) /\ t.state = "ducked"
  <2> HIDE DEF t
  <2>1. QED
    BY <1>2, <1>6, <1>8, RenderedAim, RenderedType DEF SameControl
<1>10. o.state # "arming" /\ TargetDb(t) <= TargetDb(o)
  <2> HIDE DEF o
  <2>1. QED
    BY <1>2, <1>7, <1>9, StepAim
<1>11. SameAim(mics[m], o) /\ o.state = mics[m].state
  BY <1>2, <1>3, <1>10, ObservedAim
<1> HIDE DEF o, t
<1>12. TargetDb(o) = TargetDb(mics[m])
  BY <1>11, SameRestore DEF TargetDb
<1>13. QED
  BY <1>9, <1>10, <1>12

(* The host aims no mic, but by reset(), which forgets the trips. *)
LEMMA HostAim ==
  ASSUME GuardInv, Host, NEW m \in tripped'
  PROVE  mics'[m].tgt = mics[m].tgt
<1>1. m \in Mics
  BY HostInv DEF GuardInv, GuardTypeOK, AttributionTypeOK
<1>2. HostMoves(mics[m], mics'[m])
  BY <1>1, HostRise
<1>3. QED
  BY <1>2 DEF HostMoves

(* A duck no shallower than the deepest back-off, and ceilings of at most 0 dB. *)
DuckCoversBackOff == (\A p \in Policies : Covers(p)) /\ (\A c \in Caps : c <= 0)

LEMMA CoverStays ==
  ASSUME DuckCoversBackOff, GuardInv, Covers(policy), Next PROVE Covers(policy')
<1>1. policy \in Policy
  BY DEF GuardInv, GuardTypeOK
<1>2. ASSUME NEW p \in Policies, SetPolicy(p) PROVE Covers(policy')
  BY <1>2 DEF SetPolicy, ApplyPolicy, DuckCoversBackOff
<1>3. ASSUME NEW c \in Caps, SetCap(c) PROVE Covers(policy')
  <2>1. policy' = [policy EXCEPT !.has_cap = TRUE, !.cap = c]
    BY <1>3 DEF SetCap, ApplyPolicy
  <2>2. /\ policy'.strike_db = policy.strike_db /\ policy'.max_strikes = policy.max_strikes
        /\ policy'.duck_db = policy.duck_db /\ policy'.cap = c
    BY <1>1, <2>1 DEF Policy
  <2>3. QED
    BY <2>2 DEF Covers, DuckCoversBackOff
<1>4. CASE RemoveCap
  <2>1. policy' = [policy EXCEPT !.has_cap = FALSE, !.cap = 0]
    BY <1>4 DEF RemoveCap, ApplyPolicy
  <2>2. /\ policy'.strike_db = policy.strike_db /\ policy'.max_strikes = policy.max_strikes
        /\ policy'.duck_db = policy.duck_db /\ policy'.cap = 0
    BY <1>1, <2>1 DEF Policy
  <2>3. QED
    BY <2>2 DEF Covers
<1>5. CASE policy' = policy
  BY <1>5
<1>6. (Block => policy' = policy) /\ (Reset => policy' = policy) /\ (Clear => policy' = policy)
  BY DEF Block, Update, Reset, Clear
<1>7. /\ ClearCalibration => policy' = policy
      /\ \A m \in Mics, thr \in OwnThr : SetThresholds(m, thr) => policy' = policy
  BY DEF ClearCalibration, SetThresholds
<1>8. QED
  BY <1>2, <1>3, <1>4, <1>5, <1>6, <1>7 DEF Next, Host

(* What TripNeverRaises says of a step. *)
NotRaised ==
  \A m \in tripped' : mics'[m].state = "ducked" =>
    \/ mics'[m].tgt <= TargetDb(mics[m])
    \/ mics'[m].tgt = mics[m].tgt

(* A duck never opens a mic: with a duck that covers the back-off, a trip aims a
   mic no higher than it already aimed, whatever the strike latches it onto. *)
THEOREM TripNeverOpens ==
  ASSUME OneBackOff, DuckCoversBackOff PROVE Spec => TripNeverRaises
<1> DEFINE Covered == Covers(policy)
<1>1. Init => Covered
  BY DEF Init, DuckCoversBackOff
<1>2. GuardInv /\ Covered /\ [Next]_vars => Covered'
  <2>1. UNCHANGED vars => policy' = policy
    BY DEF vars
  <2>2. QED
    BY <2>1, CoverStays
<1>3. GuardInv /\ LevelFollowsStrikes /\ Covered /\ [Next]_vars
        => [ \A m \in tripped' : mics'[m].state = "ducked" =>
               \/ mics'[m].tgt <= TargetDb(mics[m])
               \/ mics'[m].tgt = mics[m].tgt ]_vars
  <2>1. ASSUME GuardInv, LevelFollowsStrikes, Covers(policy), Block PROVE NotRaised
    BY <2>1, BlockAim DEF NotRaised
  <2>2. ASSUME GuardInv, Host PROVE NotRaised
    BY <2>2, HostAim DEF NotRaised
  <2>3. QED
    BY <2>1, <2>2 DEF Next, NotRaised
<1>4. Spec => []LevelFollowsStrikes
  BY LevelAlwaysFollows
<1> HIDE DEF Covered
<1>5. QED
  BY <1>1, <1>2, <1>3, <1>4, GuardInvariant, PTL DEF Spec, TripNeverRaises

-------------------------------------------------------------------------------
(* The post-reverb bus is down where a tripped mic is.  A mic's ramp ends at its
   target (Landed), and the bus follows the deepest of the ducks, which exists:
   the sets of mics ducked deeper than a given one are ordered by inclusion. *)

LEMMA DeepestExists ==
  ASSUME NEW f \in [Mics -> Int]
  PROVE  \E m \in Mics : \A k \in Mics : f[m] <= f[k]
<1> DEFINE R == StrictSubsetOrdering(Mics)
           Below(m) == {k \in Mics : f[k] < f[m]}
           C == {Below(m) : m \in Mics}
<1>1. IsWellFoundedOn(R, SUBSET Mics)
  <2>1. FiniteSubsetsOf(Mics) = SUBSET Mics
    BY FS_FiniteSubsetsOfFinite, MicsAssumption
  <2>2. IsWellFoundedOn(R, FiniteSubsetsOf(Mics))
    BY FS_StrictSubsetOrderingWellFounded
  <2>3. QED
    BY <2>1, <2>2
<1>2. C \subseteq SUBSET Mics /\ C # {}
  <2>1. PICK m \in Mics : TRUE
    BY MicsAssumption
  <2>2. Below(m) \in C
    OBVIOUS
  <2>3. \A B \in C : B \subseteq Mics
    OBVIOUS
  <2>4. QED
    BY <2>2, <2>3
<1>3. \A A, B \in SUBSET Mics : A \subseteq B /\ A # B => <<A, B>> \in R
  BY DEF StrictSubsetOrdering
<1> HIDE DEF R
<1>4. PICK B \in C : \A A \in C : ~ (<<A, B>> \in R)
  <2> HIDE DEF C
  <2>1. QED
    BY <1>1, <1>2, WFMin
<1>5. PICK m \in Mics : B = Below(m)
  BY <1>4
<1>6. ASSUME NEW k \in Mics, ~ (f[m] <= f[k]) PROVE FALSE
  <2>1. f[k] < f[m] /\ f[k] \in Int /\ f[m] \in Int
    BY <1>6
  <2>2. Below(k) \subseteq Below(m)
    BY <2>1
  <2>3. k \in Below(m) /\ k \notin Below(k)
    BY <2>1
  <2>4. <<Below(k), Below(m)>> \in R
    BY <1>3, <2>2, <2>3
  <2>5. QED
    BY <1>4, <1>5, <2>4
<1>7. QED
  BY <1>6

LEMMA BusDeepest ==
  ASSUME NEW ms, \A k \in Mics : ms[k] \in Mic, policy \in Policy, NEW m \in Mics
  PROVE  BusDb(ms) \in Int /\ BusDb(ms) <= BusDuck(ms[m])
<1> DEFINE f == [k \in Mics |-> BusDuck(ms[k])]
           ducks == {BusDuck(ms[k]) : k \in Mics}
<1>1. ASSUME NEW k \in Mics PROVE BusDuck(ms[k]) \in Int
  <2>1. ms[k] \in Mic /\ ms[k].cur \in Int /\ RestoreDb(ms[k]) \in Int
    BY RestoreDbType DEF Mic
  <2>2. QED
    BY <2>1 DEF BusDuck, Lesser
<1>2. f \in [Mics -> Int] /\ ducks \subseteq Int
  BY <1>1
<1>3. PICK k \in Mics : \A l \in Mics : f[k] <= f[l]
  BY <1>2, DeepestExists
<1>4. \E x \in ducks : \A y \in ducks : x <= y
  <2>1. BusDuck(ms[k]) \in ducks
    OBVIOUS
  <2>2. \A y \in ducks : BusDuck(ms[k]) <= y
    BY <1>3
  <2>3. QED
    BY <2>1, <2>2
<1>5. BusDb(ms) \in ducks /\ \A y \in ducks : BusDb(ms) <= y
  <2>1. BusDb(ms) = CHOOSE x \in ducks : \A y \in ducks : x <= y
    BY DEF BusDb
  <2> HIDE DEF ducks
  <2>2. QED
    BY <1>4, <2>1
<1>6. QED
  BY <1>2, <1>5

(* At the end of a tripped mic's ramp the bus is a full duck down. *)
BusDown ==
  \A m \in tripped :
    mics[m].state = "ducked" /\ mics[m].left = 0 => bus <= -policy.duck_db

AllLanded == \A m \in Mics : Landed(mics[m])

LEMMA NextLanded == ASSUME GuardInv, AllLanded, Next PROVE AllLanded'
<1>1. policy \in Policy /\ \A m \in Mics : mics[m] \in Mic /\ FlagsOf(mics[m]) /\ Landed(mics[m])
  BY DEF GuardInv, GuardTypeOK, AllLanded
<1>2. ASSUME NEW m \in Mics PROVE Landed(mics'[m])
  <2>1. CASE Block
    <3>1. PICK in \in Residuals, near \in SUBSET Mics \ {{}} : Update(in, near)
      BY <2>1 DEF Block
    <3>2. mics'[m] = Rendered(Step(Observed(mics[m], in[m]), StatA(in[m]), m \in tripped'))
      BY <3>1 DEF Update
    <3>3. (m \in tripped') \in BOOLEAN
      OBVIOUS
    <3>4. QED
      BY <1>1, <3>2, <3>3, BlockRise
  <2>2. CASE Host
    BY <1>1, <2>2, HostRise DEF HostMoves, Landed
  <2>3. QED
    BY <2>1, <2>2 DEF Next
<1>3. QED
  BY <1>2 DEF AllLanded, Landed

LEMMA BlockBus ==
  ASSUME GuardInv, AllLanded, Block
  PROVE  /\ policy' = policy
         /\ \A m \in tripped' :
              mics'[m].state = "ducked" /\ mics'[m].left = 0 => bus' <= -policy.duck_db
<1>1. PICK in \in Residuals, near \in SUBSET Mics \ {{}} : Update(in, near)
  BY DEF Block
<1>2. policy' = policy /\ bus' = BusDb(mics')
  BY <1>1 DEF Update
<1>3. policy \in Policy /\ policy.duck_db \in Nat
  BY DEF GuardInv, GuardTypeOK, Policy
<1>4. tripped' \subseteq Mics /\ \A k \in Mics : mics'[k] \in Mic
  BY BlockInv DEF GuardInv, GuardTypeOK, AttributionTypeOK
<1>5. ASSUME NEW m \in tripped', mics'[m].state = "ducked", mics'[m].left = 0
      PROVE  bus' <= -policy.duck_db
  <2> DEFINE t == Step(Observed(mics[m], in[m]), StatA(in[m]), m \in tripped')
             u == mics'[m]
  <2>1. m \in Mics /\ u \in Mic
    BY <1>4
  <2>2. u = Rendered(t)
    BY <1>1, <2>1 DEF Update
  <2>3. t \in Mic
    <3>1. mics[m] \in Mic /\ FlagsOf(mics[m])
      BY <2>1 DEF GuardInv, GuardTypeOK
    <3>2. (m \in tripped') \in BOOLEAN
      OBVIOUS
    <3>3. QED
      BY <1>3, <3>1, <3>2, ObservedInv, StepInv
  <2>4. Landed(u)
    <3>1. Next
      BY DEF Next
    <3>2. AllLanded'
      BY <3>1, NextLanded
    <3>3. QED
      BY <2>1, <3>2 DEF AllLanded, Landed
  <2>5. BusDb(mics') \in Int /\ BusDb(mics') <= BusDuck(u)
    BY <1>3, <1>4, <2>1, BusDeepest
  <2> HIDE DEF t
  <2>6. u.tgt = TargetDb(t) /\ RestoreDb(u) = RestoreDb(t) /\ t.state = u.state
    BY <1>3, <2>2, <2>3, RenderedAim, RenderedType DEF SameControl
  <2>7. u.cur = RestoreDb(u) - policy.duck_db
    BY <1>5, <2>4, <2>6 DEF Landed, TargetDb
  <2>8. RestoreDb(u) \in Int
    BY <1>3, <2>1, RestoreDbType
  <2>9. BusDuck(u) = -policy.duck_db
    BY <1>3, <1>5, <2>7, <2>8 DEF BusDuck, Lesser
  <2>10. QED
    BY <1>2, <2>5, <2>9
<1>6. QED
  BY <1>2, <1>5

(* The host ducks no mic. *)
LEMMA HostDucks ==
  ASSUME GuardInv, Host, NEW m \in Mics, mics'[m].state = "ducked"
  PROVE  mics[m].state = "ducked"
<1> DEFINE Same == mics'[m].state = mics[m].state
<1>1. policy \in Policy /\ mics \in [Mics -> Mic] /\ mics[m] \in Mic
  BY DEF GuardInv, GuardTypeOK
<1>2. ASSUME NEW p \in Policy, ApplyPolicy(p) PROVE Same
  <2> DEFINE s == Rethresholded(mics[m], p)
  <2>1. s \in Mic /\ s.state = mics[m].state
    BY <1>1, <1>2, RethresholdedType DEF SameControl
  <2>2. mics'[m] = OnCapChange(s, p)
    BY <1>2 DEF ApplyPolicy
  <2> HIDE DEF s
  <2>3. Enter(s, "arming") \in Mic /\ Enter(s, "arming").state = "arming"
    BY <1>1, <2>1, EnterType DEF States
  <2>4. EnterArming(s).state = "arming"
    BY <2>3 DEF EnterArming, Mic
  <2>5. QED
    BY <2>1, <2>2, <2>4 DEF OnCapChange
<1>3. ASSUME NEW p \in Policies, SetPolicy(p) PROVE Same
  BY <1>2, <1>3, PolicyAssumption DEF SetPolicy
<1>4. ASSUME NEW c \in Caps, SetCap(c) PROVE Same
  <2>1. [policy EXCEPT !.has_cap = TRUE, !.cap = c] \in Policy
    BY <1>1, CapsAssumption DEF Policy
  <2>2. QED
    BY <1>2, <1>4, <2>1 DEF SetCap
<1>5. CASE RemoveCap
  BY <1>1, <1>2, <1>5, UncappedType DEF RemoveCap
<1>6. CASE Reset
  <2>1. mics'[m].state = "arming"
    BY <1>6 DEF Reset, Fresh
  <2>2. QED
    BY <2>1
<1>7. CASE Clear
  <2> DEFINE t == [mics[m] EXCEPT !.strikes = 0, !.level = 0, !.decay = 0,
                                  !.timed_out = FALSE, !.latched = FALSE]
             r == Enter(t, "releasing")
             u == IF mics[m].latched /\ mics[m].state = "latched" THEN r ELSE t
             v == [u EXCEPT !.in_state = 0]
  <2>1. mics'[m] = Cleared(mics[m])
    BY <1>7 DEF Clear
  <2>2. mics'[m] \in {u, v}
    BY <2>1 DEF Cleared
  <2>3. t.state = mics[m].state /\ "state" \in DOMAIN t
    BY <1>1 DEF Mic
  <2> HIDE DEF t
  <2>4. r = [t EXCEPT !.state = "releasing", !.in_state = 0]
    BY DEF Enter
  <2> HIDE DEF r
  <2>5. r.state = "releasing" /\ "state" \in DOMAIN r
    BY <2>3, <2>4
  <2>6. u.state \in {t.state, "releasing"} /\ "state" \in DOMAIN u
    BY <2>3, <2>5
  <2> HIDE DEF u
  <2>7. v.state = u.state
    BY <2>6
  <2> HIDE DEF v
  <2>8. QED
    BY <2>2, <2>3, <2>6, <2>7
<1>8. ASSUME NEW x \in Mics, NEW thr \in OwnThr, SetThresholds(x, thr) PROVE Same
  <2> DEFINE t == [mics[x] EXCEPT !.d_thr = thr.d, !.a_thr = thr.a,
                                  !.own_thr = TRUE, !.ok_seen = FALSE]
  <2>1. t.state = mics[x].state
    BY <1>1 DEF Mic
  <2>2. mics' = [mics EXCEPT ![x] = t]
    BY <1>1, <1>8 DEF SetThresholds
  <2> HIDE DEF t
  <2>3. QED
    BY <1>1, <2>1, <2>2
<1>9. CASE ClearCalibration
  <2> DEFINE t == [mics[m] EXCEPT !.own_thr = FALSE, !.ok_seen = FALSE]
  <2>1. t \in Mic /\ t.state = mics[m].state
    BY <1>1 DEF Mic
  <2>2. mics'[m] = Rethresholded(t, policy)
    BY <1>9 DEF ClearCalibration
  <2> HIDE DEF t
  <2>3. QED
    BY <1>1, <2>1, <2>2, RethresholdedType DEF SameControl
<1>10. QED
  BY <1>3, <1>4, <1>5, <1>6, <1>7, <1>8, <1>9 DEF Host

(* The host may change all of a policy but the depth of its duck. *)
OneDuck == \A p, q \in Policies : p.duck_db = q.duck_db
DuckInForce == \A p \in Policies : policy.duck_db = p.duck_db

LEMMA HostBus ==
  ASSUME OneDuck, GuardInv, DuckInForce, BusDown, Host
  PROVE  /\ policy'.duck_db = policy.duck_db
         /\ \A m \in tripped' :
              mics'[m].state = "ducked" /\ mics'[m].left = 0 => bus' <= -policy.duck_db
<1>1. policy \in Policy /\ tripped \subseteq Mics
  BY DEF GuardInv, GuardTypeOK, AttributionTypeOK
<1>2. policy'.duck_db = policy.duck_db
  <2>1. ASSUME NEW p \in Policies, SetPolicy(p) PROVE policy'.duck_db = policy.duck_db
    BY <2>1 DEF SetPolicy, ApplyPolicy, DuckInForce
  <2>2. ASSUME NEW c \in Caps, SetCap(c) PROVE policy'.duck_db = policy.duck_db
    BY <1>1, <2>2 DEF SetCap, ApplyPolicy, Policy
  <2>3. ASSUME RemoveCap PROVE policy'.duck_db = policy.duck_db
    BY <1>1, <2>3 DEF RemoveCap, ApplyPolicy, Policy
  <2>4. (Reset => policy' = policy) /\ (Clear => policy' = policy)
    BY DEF Reset, Clear
  <2>5. ClearCalibration => policy' = policy
    BY DEF ClearCalibration
  <2>6. \A m \in Mics, thr \in OwnThr : SetThresholds(m, thr) => policy' = policy
    BY DEF SetThresholds
  <2>7. QED
    BY <2>1, <2>2, <2>3, <2>4, <2>5, <2>6 DEF Host
<1>3. tripped' = {} \/ (tripped' = tripped /\ bus' = bus)
  BY DEF Host, SetPolicy, SetCap, RemoveCap, ApplyPolicy, Reset, Clear, SetThresholds, ClearCalibration
<1>4. ASSUME NEW m \in tripped', mics'[m].state = "ducked", mics'[m].left = 0
      PROVE  bus' <= -policy.duck_db
  <2>1. m \in tripped /\ m \in Mics /\ bus' = bus
    BY <1>1, <1>3
  <2>2. mics[m].state = "ducked"
    BY <1>4, <2>1, HostDucks
  <2>3. mics[m].left = 0
    BY <1>4, <2>1, HostRise DEF HostMoves
  <2>4. QED
    BY <2>1, <2>2, <2>3 DEF BusDown
<1>5. QED
  BY <1>2, <1>4

(* With one depth of duck, as soon as a tripped mic's ramp has landed the
   post-reverb bus is that far down, whatever the other mics do. *)
THEOREM BusAlwaysCut ==
  ASSUME OneDuck PROVE Spec => BusCutOnTrip
<1>1. Init => DuckInForce /\ BusDown /\ AllLanded
  <2> SUFFICES ASSUME Init PROVE DuckInForce /\ BusDown /\ AllLanded
    OBVIOUS
  <2>1. policy \in Policies /\ tripped = {}
    BY DEF Init, AttributionInit
  <2>2. ASSUME NEW m \in Mics PROVE Landed(mics[m])
    BY DEF Init, Fresh, Landed
  <2>3. QED
    BY <2>1, <2>2 DEF OneDuck, DuckInForce, BusDown, AllLanded
<1>2. GuardInv /\ DuckInForce /\ BusDown /\ AllLanded /\ [Next]_vars
        => /\ DuckInForce' /\ BusDown' /\ AllLanded'
           /\ [ \A m \in tripped' :
                  mics'[m].state = "ducked" /\ mics'[m].left = 0 => bus' <= -policy.duck_db
              ]_vars
  <2> SUFFICES ASSUME GuardInv, DuckInForce, BusDown, AllLanded, [Next]_vars
               PROVE  /\ DuckInForce' /\ BusDown' /\ AllLanded'
                      /\ [ \A m \in tripped' :
                             mics'[m].state = "ducked" /\ mics'[m].left = 0
                               => bus' <= -policy.duck_db ]_vars
    OBVIOUS
  <2>1. CASE UNCHANGED vars
    BY <2>1 DEF vars, DuckInForce, BusDown, AllLanded, Landed
  <2>2. CASE Next
    <3>1. /\ policy'.duck_db = policy.duck_db
          /\ \A m \in tripped' :
               mics'[m].state = "ducked" /\ mics'[m].left = 0 => bus' <= -policy.duck_db
      <4>1. CASE Block
        BY <4>1, BlockBus
      <4>2. CASE Host
        BY <4>2, HostBus
      <4>3. QED
        BY <2>2, <4>1, <4>2 DEF Next
    <3>2. AllLanded'
      BY <2>2, NextLanded
    <3>3. QED
      BY <3>1, <3>2 DEF DuckInForce, BusDown
  <2>3. QED
    BY <2>1, <2>2
<1>3. QED
  BY <1>1, <1>2, GuardInvariant, PTL DEF Spec, BusCutOnTrip

-------------------------------------------------------------------------------
(* A canceller restart re-arms.  step() looks for a restart only once A' fell
   below the policy's a_db, which a certified mic has seen as long as no
   threshold of its own is looser than that: it was certified on a block whose
   A' was below its threshold. *)

NoLooserThreshold == \A thr \in OwnThr, p \in Policies : thr.a <= p.a_db

(* No mic times out of ARMING in the block that sent it there. *)
TimeoutLasts == \A p \in Policies : p.timeout > 1

SameFall(s, t) == t.fell = s.fell /\ t.own_thr = s.own_thr

LEMMA EnterFall ==
  ASSUME NEW s \in Mic, NEW next \in States PROVE SameFall(s, Enter(s, next))
<1>1. CASE next = "ducked"
  BY <1>1 DEF Enter, Mic, SameFall
<1>2. CASE next \in {"open", "open_capped"}
  BY <1>2 DEF Enter, Mic, SameFall
<1>3. CASE next = "latched"
  BY <1>3 DEF Enter, Mic, SameFall
<1>4. CASE next \in {"arming", "releasing"}
  BY <1>4 DEF Enter, Mic, SameFall
<1>5. QED
  BY <1>1, <1>2, <1>3, <1>4 DEF States

LEMMA EnterArmingFall ==
  ASSUME NEW s \in Mic, policy \in Policy
  PROVE  LET t == EnterArming(s) IN t.own_thr = s.own_thr /\ t.in_state = 0
<1> DEFINE e == Enter(s, "arming")
<1>1. e \in Mic /\ e.own_thr = s.own_thr
  BY EnterType, EnterFall DEF States, SameFall
<1>2. e.in_state = 0
  BY DEF Enter, Mic
<1> HIDE DEF e
<1>3. EnterArming(s) = [e EXCEPT !.fell = FALSE, !.latched = FALSE, !.declared = FALSE,
                                 !.ok_seen = FALSE, !.rearm_hold = FALSE,
                                 !.timed_out = FALSE, !.ok_run = 0]
  BY DEF EnterArming, e
<1>4. QED
  BY <1>1, <1>2, <1>3 DEF Mic

LEMMA StruckFall == ASSUME NEW s \in Mic PROVE SameFall(s, Struck(s))
  BY DEF Struck, Mic, SameFall

LEMMA DeclaredFall == ASSUME NEW s \in Mic PROVE SameFall(s, Declared(s))
  BY DEF Declared, Mic, SameFall

LEMMA OpenFall ==
  ASSUME NEW s \in Mic PROVE SameFall(s, Probed(s)) /\ SameFall(s, Decayed(Probed(s)))
<1>1. \A r \in Mic : SameFall(r, Decayed(r))
  BY DEF Decayed, Mic, SameFall
<1>2. SameFall(s, Probed(s))
  BY DEF Probed, Mic, SameFall
<1>3. QED
  BY <1>1, <1>2, ProbedType DEF SameFall

LEMMA RenderedFall ==
  ASSUME NEW s \in Mic, policy \in Policy PROVE SameFall(s, Rendered(s))
<1>1. \A r \in Mic : SameFall(r, Ramped(r))
  BY DEF Ramped, Mic, SameFall
<1>2. SameFall(s, Aimed(s))
  BY DEF Aimed, Mic, SameFall
<1>3. Aimed(s) \in Mic
  BY AimedType
<1>4. QED
  BY <1>1, <1>2, <1>3 DEF Rendered, SameFall

(* No transition but the one to ARMING touches what a mic has seen of A'. *)
LEMMA TransitionFall ==
  ASSUME NEW s \in Mic, NEW trip \in BOOLEAN, policy \in Policy
  PROVE  /\ SameFall(s, StepArming(s, trip)) /\ SameFall(s, StepOpen(s, trip))
         /\ SameFall(s, StepOpenCapped(s, trip)) /\ SameFall(s, StepDucked(s, trip))
         /\ SameFall(s, StepReleasing(s, trip)) /\ SameFall(s, StepLatched(s, trip))
<1>0. /\ Struck(s) \in Mic /\ Declared(s) \in Mic
      /\ {"open", "open_capped", "ducked", "releasing", "latched"} \subseteq States
  BY StruckType, DeclaredType DEF States
<1>1. SameFall(s, StepArming(s, trip))
  <2> DEFINE t == [s EXCEPT !.timed_out = TRUE]
             r == [Struck(s) EXCEPT !.ok_run = 0]
  <2>1. t \in Mic /\ SameFall(s, t)
    BY DEF Mic, SameFall
  <2>2. SameFall(s, r)
    BY <1>0, StruckFall DEF Mic, SameFall
  <2>3. StepArming(s, trip) \in {r, Enter(Declared(s), "open"), Enter(t, "open_capped"), t, s}
    BY DEF StepArming
  <2> HIDE DEF t, r
  <2>4. SameFall(s, Enter(Declared(s), "open")) /\ SameFall(s, Enter(t, "open_capped"))
    BY <1>0, <2>1, DeclaredFall, EnterFall DEF SameFall
  <2>5. SameFall(s, s)
    BY DEF SameFall
  <2>6. QED
    BY <2>1, <2>2, <2>3, <2>4, <2>5
<1>2. SameFall(s, StepOpen(s, trip))
  <2>1. StepOpen(s, trip) \in {Enter(Struck(s), "ducked"), Enter(s, "ducked"), Decayed(Probed(s))}
    BY DEF StepOpen
  <2>2. SameFall(s, Enter(Struck(s), "ducked")) /\ SameFall(s, Enter(s, "ducked"))
    BY <1>0, StruckFall, EnterFall DEF SameFall
  <2>3. QED
    BY <2>1, <2>2, OpenFall
<1>3. SameFall(s, StepOpenCapped(s, trip))
  <2>1. StepOpenCapped(s, trip) \in {Enter(Struck(s), "ducked"), Enter(s, "ducked"),
                                     Enter(Declared(s), "releasing"), Probed(s)}
    BY DEF StepOpenCapped
  <2>2. /\ SameFall(s, Enter(Struck(s), "ducked")) /\ SameFall(s, Enter(s, "ducked"))
        /\ SameFall(s, Enter(Declared(s), "releasing"))
    BY <1>0, StruckFall, DeclaredFall, EnterFall DEF SameFall
  <2>3. QED
    BY <2>1, <2>2, OpenFall
<1>4. SameFall(s, StepDucked(s, trip))
  <2> DEFINE t == [s EXCEPT !.hold = Later(@)]
             r == [t EXCEPT !.ok_seen = FALSE, !.rearm_hold = TRUE, !.notok_run = 0]
             q == [s EXCEPT !.hold = 0, !.ok_run = 0]
  <2>1. t \in Mic /\ SameFall(s, t) /\ SameFall(s, q)
    BY LaterType DEF Mic, SameFall
  <2>2. StepDucked(s, trip) \in {q, Enter(Declared(t), "releasing"), Enter(r, "releasing"), t}
    BY DEF StepDucked
  <2> HIDE DEF t, q
  <2>3. r \in Mic /\ SameFall(t, r)
    BY <2>1, ZeroTick DEF Mic, SameFall
  <2> HIDE DEF r
  <2>4. SameFall(s, Enter(Declared(t), "releasing")) /\ SameFall(s, Enter(r, "releasing"))
    BY <1>0, <2>1, <2>3, DeclaredType, DeclaredFall, EnterFall DEF SameFall
  <2>5. QED
    BY <2>1, <2>2, <2>4
<1>5. SameFall(s, StepReleasing(s, trip))
  <2>1. StepReleasing(s, trip) \in {Enter(Struck(s), "ducked"), Enter(s, "ducked"), s}
                                     \cup {Enter(s, next) : next \in {"latched", "open", "open_capped"}}
    BY DEF StepReleasing
  <2>2. SameFall(s, Enter(Struck(s), "ducked")) /\ SameFall(s, s)
    BY <1>0, StruckFall, EnterFall DEF SameFall
  <2>3. \A next \in {"ducked", "latched", "open", "open_capped"} : SameFall(s, Enter(s, next))
    BY <1>0, EnterFall
  <2>4. QED
    BY <2>1, <2>2, <2>3
<1>6. SameFall(s, StepLatched(s, trip))
  <2> DEFINE t == [s EXCEPT !.latch_notok = @ \/ ~ s.ok]
             r == [t EXCEPT !.latched = FALSE, !.declared = TRUE]
  <2>1. t \in Mic /\ SameFall(s, t)
    BY DEF Mic, SameFall
  <2>2. StepLatched(s, trip) \in {Enter(t, "ducked"), Enter(r, "releasing"), t}
    BY DEF StepLatched
  <2> HIDE DEF t
  <2>3. r \in Mic /\ SameFall(t, r)
    BY <2>1 DEF Mic, SameFall
  <2> HIDE DEF r
  <2>4. SameFall(s, Enter(t, "ducked")) /\ SameFall(s, Enter(r, "releasing"))
    BY <1>0, <2>1, <2>3, EnterFall DEF SameFall
  <2>5. QED
    BY <2>1, <2>2, <2>4
<1>7. QED
  BY <1>1, <1>2, <1>3, <1>4, <1>5, <1>6

LEMMA ObservedFall ==
  ASSUME NEW s \in Mic, NEW in \in Input, policy \in Policy
  PROVE  LET t == Observed(s, in)
         IN  /\ t.own_thr = s.own_thr
             /\ in.finite => t.fell = s.fell
             /\ ~ in.finite => t.in_state = 0
             /\ t.ok => StatA(in) < s.a_thr
<1> DEFINE r == Analyzed(s, in)
           ok == StatD(in) < s.d_thr /\ StatA(in) < s.a_thr
           since == IF HeardOf(in) = "silent" THEN Later(r.since) ELSE 0
           t == [r EXCEPT !.ok = ok, !.since = since]
<1>1. in.finite \in BOOLEAN
  BY DEF Input
<1>2. /\ in.finite => r = s
      /\ ~ in.finite => r = EnterArming(s)
  BY <1>1 DEF Analyzed
<1>3. EnterArming(s) \in Mic /\ EnterArming(s).own_thr = s.own_thr /\ EnterArming(s).in_state = 0
  BY EnterArmingType, EnterArmingFall
<1>4. r \in Mic
  BY <1>1, <1>2, <1>3
<1>5. ok => StatA(in) < s.a_thr
  OBVIOUS
<1> HIDE DEF r, ok, since
<1>6. t.own_thr = r.own_thr /\ t.fell = r.fell /\ t.in_state = r.in_state /\ t.ok = ok
  BY <1>4 DEF Mic
<1>7. Observed(s, in) = t
  BY DEF Observed, r, ok, since
<1> HIDE DEF t
<1>8. QED
  BY <1>1, <1>2, <1>3, <1>5, <1>6, <1>7

LEMMA ClockFall ==
  ASSUME NEW s0 \in Mic, NEW a, policy \in Policy
  PROVE  LET s == Clock(s0, a)
         IN  /\ s.own_thr = s0.own_thr /\ s.in_state = Later(s0.in_state)
             /\ s.fell = (s0.fell \/ a < policy.a_db)
<1> DEFINE c == Clocked(s0)
           fell == c.fell \/ a < policy.a_db
<1>1. c \in Mic
  BY ClockedType
<1>2. c.own_thr = s0.own_thr /\ c.in_state = Later(s0.in_state) /\ c.fell = s0.fell
  BY DEF Clocked, Mic
<1> HIDE DEF c, fell
<1>3. LET s == [c EXCEPT !.fell = fell]
      IN s.own_thr = c.own_thr /\ s.in_state = c.in_state /\ s.fell = fell
  BY <1>1 DEF Mic
<1>4. Clock(s0, a) = [c EXCEPT !.fell = fell]
  BY DEF Clock, Fallen, c, fell
<1>5. QED
  BY <1>2, <1>3, <1>4 DEF fell

(* A certified mic has seen A' below the policy's threshold. *)
Knows(s) == s.declared => s.fell

(* One block of one mic: a certification has seen A' fall, and a certified mic
   whose A' is at the restart level is sent to ARMING and stays there. *)
LEMMA MicRestart ==
  ASSUME NEW s0 \in Mic, NEW in \in Input, NEW trip \in BOOLEAN,
         policy \in Policy, FlagsOf(s0), SomeNotPositive(s0.d_thr, s0.a_thr),
         Knows(s0), s0.a_thr <= policy.a_db, policy.timeout > 1
  PROVE  LET u == Rendered(Step(Observed(s0, in), StatA(in), trip))
         IN  /\ u.own_thr = s0.own_thr /\ u.a_thr = s0.a_thr
             /\ Knows(u)
             /\ s0.declared /\ StatA(in) >= policy.restart_a_db => u.state = "arming"
<1> DEFINE a == StatA(in)
           o == Observed(s0, in)
           s == Clock(o, a)
           t == Step(o, a, trip)
           u == Rendered(t)
<1>1. o \in Mic /\ FlagsOf(o)
  BY ObservedInv
<1>2. /\ o.a_thr = s0.a_thr /\ o.own_thr = s0.own_thr
      /\ in.finite => o.state = s0.state /\ o.declared = s0.declared /\ o.fell = s0.fell
      /\ ~ in.finite => o.state = "arming" /\ ~ o.declared /\ ~ o.ok /\ o.in_state = 0
      /\ o.ok => a < s0.a_thr
  BY ObservedRuns, ObservedFall
<1>3. a \in Int /\ in.finite \in BOOLEAN
  BY DEF StatA, Input
<1> HIDE DEF o, a
<1>4. /\ s \in Mic /\ s.state = o.state /\ s.declared = o.declared /\ SameReading(o, s)
      /\ s.ok_run = IF s.ok THEN Later(o.ok_run) ELSE 0
  BY <1>1, ClockRuns
<1>5. /\ s.own_thr = o.own_thr /\ s.in_state = Later(o.in_state)
      /\ s.fell = (o.fell \/ a < policy.a_db)
  BY <1>1, ClockFall
<1>6. Follows(s, t, trip) /\ t \in Mic
  BY <1>1, StepFollows, StepInv
<1>7. \/ Restarted(s, a) /\ t = EnterArming(s)
      \/ ~ Restarted(s, a) /\ SameFall(s, t) /\ (s.state = "arming" => t = StepArming(s, trip))
  <2>1. CASE Restarted(s, a)
    BY <2>1 DEF Step, Clock
  <2>2. CASE ~ Restarted(s, a)
    <3>1. s.state \in States
      BY <1>4 DEF Mic
    <3>2. \/ s.state = "arming" /\ t = StepArming(s, trip)
          \/ s.state = "open" /\ t = StepOpen(s, trip)
          \/ s.state = "open_capped" /\ t = StepOpenCapped(s, trip)
          \/ s.state = "ducked" /\ t = StepDucked(s, trip)
          \/ s.state = "releasing" /\ t = StepReleasing(s, trip)
          \/ s.state = "latched" /\ t = StepLatched(s, trip)
      BY <2>2, <3>1 DEF Step, Clock, States
    <3> HIDE DEF s, t
    <3>3. SameFall(s, t)
      BY <1>4, <3>2, TransitionFall
    <3>4. QED
      BY <2>2, <3>2, <3>3
  <2>3. QED
    BY <2>1, <2>2
<1> HIDE DEF s, t
<1>8. /\ EnterArming(s).state = "arming" /\ ~ EnterArming(s).declared
      /\ EnterArming(s).own_thr = s.own_thr
  BY <1>4, EnterArmingRuns, EnterArmingFall
<1>9. u.state = t.state /\ u.declared = t.declared /\ u.own_thr = t.own_thr /\ u.fell = t.fell
      /\ u.a_thr = t.a_thr
  BY <1>6, RampRuns, RenderedFall DEF SameRuns, SameControl, SameReading, SameFall
<1> HIDE DEF u
<1>10. s0.a_thr \in Int /\ policy.a_db \in Int /\ policy.release \in 1..KBig /\ policy.restart_a_db \in Int
  BY PolicyFields, PolicyTimes DEF Mic, Policy
<1>11. Held(s) => s.fell
  <2> SUFFICES ASSUME Held(s) PROVE s.fell
    OBVIOUS
  <2>1. s.ok
    BY <1>4, <1>10 DEF Held
  <2>2. a < s0.a_thr
    BY <1>2, <1>4, <2>1 DEF SameReading
  <2>3. a < policy.a_db
    BY <1>3, <1>10, <2>2
  <2>4. QED
    BY <1>5, <2>3
<1>12. s.declared => s.fell /\ in.finite /\ s0.declared /\ s.state = s0.state
  BY <1>2, <1>3, <1>4, <1>5 DEF Knows
<1>13. Knows(u)
  <2>1. CASE t = EnterArming(s)
    BY <1>8, <1>9, <2>1 DEF Knows
  <2>2. CASE SameFall(s, t)
    <3>1. t.declared => s.declared \/ Held(s)
      BY <1>6 DEF Follows
    <3>2. QED
      BY <1>9, <1>11, <1>12, <2>2, <3>1 DEF SameFall, Knows
  <2>3. QED
    BY <1>7, <2>1, <2>2
<1>14. ASSUME s0.declared, a >= policy.restart_a_db PROVE u.state = "arming"
  <2>1. CASE in.finite
    <3>1. s.declared /\ s.state # "arming"
      BY <1>2, <1>4, <1>14, <2>1 DEF FlagsOf
    <3>2. Restarted(s, a)
      BY <1>12, <1>14, <3>1 DEF Restarted
    <3>3. QED
      BY <1>7, <1>8, <1>9, <3>2
  <2>2. CASE ~ in.finite
    <3>1. s.state = "arming" /\ ~ s.ok /\ s.in_state = Later(0)
      BY <1>2, <1>4, <1>5, <2>2 DEF SameReading
    <3>2. ~ Held(s)
      BY <1>4, <1>10, <3>1 DEF Held
    <3>3. ~ (s.in_state >= policy.timeout)
      <4>1. Later(0) \in {0, 1}
        BY KBigAssumption DEF Later
      <4>2. policy.timeout \in 1..KBig
        BY DEF Policy
      <4>3. QED
        BY <3>1, <4>1, <4>2, KBigAssumption
    <3>4. t = StepArming(s, trip)
      BY <1>7, <3>1 DEF Restarted
    <3>5. t = s \/ t = [Struck(s) EXCEPT !.ok_run = 0]
      BY <3>2, <3>3, <3>4 DEF StepArming
    <3>6. /\ Struck(s) \in Mic /\ Struck(s).state = s.state
          /\ [Struck(s) EXCEPT !.ok_run = 0].state = Struck(s).state
      BY <1>4, StruckType DEF Mic
    <3>7. QED
      BY <1>9, <3>1, <3>5, <3>6
  <2>3. QED
    BY <1>3, <2>1, <2>2
<1>15. u.own_thr = s0.own_thr /\ u.a_thr = s0.a_thr
  <2>1. t.own_thr = s.own_thr
    BY <1>7, <1>8 DEF SameFall
  <2>2. t.a_thr = s.a_thr /\ s.a_thr = o.a_thr
    BY <1>4, <1>6 DEF Follows, SameReading
  <2>3. QED
    BY <1>2, <1>5, <1>9, <2>1, <2>2
<1>16. QED
  BY <1>13, <1>14, <1>15 DEF u, t, o, a

(* The threshold for A' that a mic runs on while policy p is in force. *)
StrictUnder(s, p) ==
  /\ s.own_thr => \A q \in Policies : s.a_thr <= q.a_db
  /\ ~ s.own_thr => s.a_thr = p.a_db

Listed(p) == \E q \in Policies : p.a_db = q.a_db /\ p.timeout = q.timeout

RestartInv ==
  /\ Listed(policy)
  /\ \A m \in Mics : StrictUnder(mics[m], policy) /\ Knows(mics[m])

LEMMA StrictBelow ==
  ASSUME NEW s \in Mic, NEW p \in Policy, Listed(p), StrictUnder(s, p)
  PROVE  s.a_thr <= p.a_db
<1>1. s.own_thr \in BOOLEAN /\ s.a_thr \in Int /\ p.a_db \in Int
  BY DEF Mic, Policy
<1>2. PICK q \in Policies : p.a_db = q.a_db
  BY DEF Listed
<1>3. QED
  BY <1>1, <1>2 DEF StrictUnder

LEMMA AppliedKnows ==
  ASSUME NEW s \in Mic, NEW p \in Policy, policy \in Policy,
         StrictUnder(s, policy), Knows(s)
  PROVE  LET t == OnCapChange(Rethresholded(s, p), p)
         IN  StrictUnder(t, p) /\ Knows(t)
<1> DEFINE r == Rethresholded(s, p)
<1>1. s.own_thr \in BOOLEAN
  BY DEF Mic
<1>2. r \in Mic
  BY RethresholdedType
<1>3. r.declared = s.declared /\ r.fell = s.fell /\ StrictUnder(r, p)
  <2>1. CASE s.own_thr
    BY <2>1 DEF Rethresholded, StrictUnder
  <2>2. CASE ~ s.own_thr
    <3> DEFINE t == [s EXCEPT !.d_thr = p.d_db, !.a_thr = p.a_db]
    <3>1. /\ t.a_thr = p.a_db /\ t.own_thr = s.own_thr
          /\ t.declared = s.declared /\ t.fell = s.fell
      BY DEF Mic
    <3>2. r = t
      BY <2>2 DEF Rethresholded
    <3> HIDE DEF t, r
    <3>3. QED
      BY <2>2, <3>1, <3>2 DEF StrictUnder
  <2>3. QED
    BY <1>1, <2>1, <2>2
<1> HIDE DEF r
<1>4. /\ ~ EnterArming(r).declared /\ EnterArming(r).own_thr = r.own_thr
      /\ EnterArming(r).a_thr = r.a_thr
  BY <1>2, EnterArmingRuns, EnterArmingFall DEF SameReading
<1>5. \A t \in {r, EnterArming(r)} : StrictUnder(t, p) /\ Knows(t)
  BY <1>3, <1>4 DEF StrictUnder, Knows
<1>6. OnCapChange(r, p) \in {r, EnterArming(r)}
  BY DEF OnCapChange
<1>7. QED
  BY <1>5, <1>6 DEF r

LEMMA ClearedKnows ==
  ASSUME NEW s \in Mic, policy \in Policy, StrictUnder(s, policy), Knows(s)
  PROVE  StrictUnder(Cleared(s), policy) /\ Knows(Cleared(s))
<1> DEFINE t == [s EXCEPT !.strikes = 0, !.level = 0, !.decay = 0,
                          !.timed_out = FALSE, !.latched = FALSE]
           u == IF s.latched /\ s.state = "latched" THEN Enter(t, "releasing") ELSE t
           v == [u EXCEPT !.in_state = 0]
           Same(x, y) == /\ y.declared = x.declared /\ y.a_thr = x.a_thr /\ SameFall(x, y)
<1>0. 0 \in Ticks /\ 0 \in 0..StrikeCap /\ 0 \in Int
  BY ZeroTick, StrikeCapAssumption
<1>1. t \in Mic
  <2> DEFINE b == [s EXCEPT !.strikes = 0, !.level = 0, !.decay = 0]
  <2>1. b \in Mic
    BY <1>0, BackOffType, Zenon
  <2> HIDE DEF b
  <2>2. [b EXCEPT !.timed_out = FALSE, !.latched = FALSE] \in Mic
    BY <2>1 DEF Mic
  <2>3. QED
    BY <2>2 DEF b
<1>2. Same(s, t)
  BY DEF Mic, SameFall
<1> HIDE DEF t
<1>3. Same(t, Enter(t, "releasing")) /\ Enter(t, "releasing") \in Mic
  BY <1>1, EnterType, EnterRuns, EnterFall DEF States, SameReading
<1>4. u \in Mic /\ Same(t, u)
  BY <1>1, <1>3 DEF SameFall
<1> HIDE DEF u
<1>5. Same(u, v)
  BY <1>4 DEF Mic, SameFall
<1> HIDE DEF v
<1>6. Cleared(s) \in {u, v}
  BY DEF Cleared, t, u, v
<1>7. \A w \in {u, v} : Same(s, w)
  BY <1>2, <1>4, <1>5 DEF SameFall
<1>8. QED
  BY <1>6, <1>7 DEF SameFall, StrictUnder, Knows

LEMMA HostRestart ==
  ASSUME NoLooserThreshold, GuardInv, RestartInv, Host PROVE RestartInv'
<1>1. policy \in Policy /\ \A m \in Mics : mics[m] \in Mic
  BY DEF GuardInv, GuardTypeOK
<1>2. ASSUME NEW p \in Policy, Listed(p), ApplyPolicy(p) PROVE RestartInv'
  <2>1. policy' = p /\ \A m \in Mics : mics'[m] = OnCapChange(Rethresholded(mics[m], p), p)
    BY <1>2 DEF ApplyPolicy
  <2>2. ASSUME NEW m \in Mics PROVE StrictUnder(mics'[m], p) /\ Knows(mics'[m])
    BY <1>1, <2>1, AppliedKnows DEF RestartInv
  <2>3. QED
    BY <1>2, <2>1, <2>2 DEF RestartInv, StrictUnder, Knows, Listed
<1>3. ASSUME NEW p \in Policies, SetPolicy(p) PROVE RestartInv'
  BY <1>2, <1>3, PolicyAssumption DEF SetPolicy, Listed
<1>4. ASSUME NEW c \in Caps, SetCap(c) PROVE RestartInv'
  <2> DEFINE p == [policy EXCEPT !.has_cap = TRUE, !.cap = c]
  <2>1. p \in Policy /\ p.a_db = policy.a_db /\ p.timeout = policy.timeout
    BY <1>1, CapsAssumption DEF Policy
  <2>2. ApplyPolicy(p)
    BY <1>4 DEF SetCap
  <2> HIDE DEF p
  <2>3. Listed(p)
    BY <2>1 DEF RestartInv, Listed
  <2>4. QED
    BY <1>2, <2>1, <2>2, <2>3
<1>5. ASSUME RemoveCap PROVE RestartInv'
  <2> DEFINE p == [policy EXCEPT !.has_cap = FALSE, !.cap = 0]
  <2>1. p \in Policy
    BY <1>1, UncappedType
  <2>2. p.a_db = policy.a_db /\ p.timeout = policy.timeout
    BY <1>1 DEF Policy
  <2>3. ApplyPolicy(p)
    BY <1>5 DEF RemoveCap
  <2> HIDE DEF p
  <2>4. Listed(p)
    BY <2>2 DEF RestartInv, Listed
  <2>5. QED
    BY <1>2, <2>1, <2>3, <2>4
<1>6. ASSUME policy' = policy, \A m \in Mics : StrictUnder(mics'[m], policy) /\ Knows(mics'[m])
      PROVE  RestartInv'
  BY <1>6 DEF RestartInv, StrictUnder, Knows, Listed
<1>7. ASSUME Reset PROVE RestartInv'
  <2>1. ASSUME NEW m \in Mics PROVE StrictUnder(mics'[m], policy) /\ Knows(mics'[m])
    <3>1. mics'[m] = Fresh(mics[m].d_thr, mics[m].a_thr, mics[m].own_thr)
      BY <1>7 DEF Reset
    <3>2. /\ ~ mics'[m].declared /\ mics'[m].own_thr = mics[m].own_thr
          /\ mics'[m].a_thr = mics[m].a_thr
      BY <3>1 DEF Fresh
    <3>3. QED
      BY <3>2 DEF RestartInv, StrictUnder, Knows
  <2>2. QED
    BY <1>6, <1>7, <2>1 DEF Reset
<1>8. ASSUME Clear PROVE RestartInv'
  <2>1. ASSUME NEW m \in Mics PROVE StrictUnder(mics'[m], policy) /\ Knows(mics'[m])
    BY <1>1, <1>8, ClearedKnows DEF Clear, RestartInv
  <2>2. QED
    BY <1>6, <1>8, <2>1 DEF Clear
<1>9. ASSUME NEW x \in Mics, NEW thr \in OwnThr, SetThresholds(x, thr) PROVE RestartInv'
  <2> DEFINE t == [mics[x] EXCEPT !.d_thr = thr.d, !.a_thr = thr.a,
                                  !.own_thr = TRUE, !.ok_seen = FALSE]
  <2>1. /\ t.own_thr = TRUE /\ t.a_thr = thr.a
        /\ t.declared = mics[x].declared /\ t.fell = mics[x].fell
    BY <1>1 DEF Mic
  <2>2. mics \in [Mics -> Mic] /\ mics' = [mics EXCEPT ![x] = t]
    BY <1>9 DEF SetThresholds, GuardInv, GuardTypeOK
  <2> HIDE DEF t
  <2>3. StrictUnder(t, policy) /\ Knows(t)
    BY <2>1 DEF NoLooserThreshold, RestartInv, StrictUnder, Knows
  <2>4. \A m \in Mics : StrictUnder(mics'[m], policy) /\ Knows(mics'[m])
    BY <2>2, <2>3 DEF RestartInv
  <2>5. QED
    BY <1>6, <1>9, <2>4 DEF SetThresholds
<1>10. ASSUME ClearCalibration PROVE RestartInv'
  <2>1. ASSUME NEW m \in Mics PROVE StrictUnder(mics'[m], policy) /\ Knows(mics'[m])
    <3> DEFINE t == [mics[m] EXCEPT !.own_thr = FALSE, !.ok_seen = FALSE]
               u == [t EXCEPT !.d_thr = policy.d_db, !.a_thr = policy.a_db]
    <3>0. mics[m] \in Mic
      BY <1>1
    <3>1. /\ t \in Mic /\ t.own_thr = FALSE
          /\ t.declared = mics[m].declared /\ t.fell = mics[m].fell
      BY <3>0 DEF Mic
    <3>2. mics'[m] = Rethresholded(t, policy)
      BY <1>10 DEF ClearCalibration
    <3> HIDE DEF t
    <3>3. mics'[m] = u
      BY <3>1, <3>2 DEF Rethresholded
    <3>4. /\ u.own_thr = FALSE /\ u.a_thr = policy.a_db
          /\ u.declared = t.declared /\ u.fell = t.fell
      BY <3>1 DEF Mic
    <3> HIDE DEF u
    <3>5. QED
      BY <3>1, <3>3, <3>4 DEF RestartInv, StrictUnder, Knows
  <2>2. QED
    BY <1>6, <1>10, <2>1 DEF ClearCalibration
<1>11. QED
  BY <1>3, <1>4, <1>5, <1>7, <1>8, <1>9, <1>10 DEF Host

Rearming == \A m \in Mics :
              mics[m].declared /\ (\E a \in progress'[m] : a >= policy.restart_a_db)
              => mics'[m].state = "arming"

LEMMA BlockRestart ==
  ASSUME TimeoutLasts, HistoryInv, RestartInv, HistoryBlock PROVE RestartInv' /\ Rearming
<1>1. PICK in \in Residuals, near \in SUBSET Mics \ {{}} :
        Update(in, near) /\ progress' = [m \in Mics |-> {StatA(in[m])}]
  BY DEF HistoryBlock
<1>2. policy \in Policy /\ policy' = policy
  BY <1>1 DEF HistoryInv, GuardInv, GuardTypeOK, Update
<1>3. policy.timeout > 1
  BY DEF TimeoutLasts, RestartInv, Listed
<1>4. ASSUME NEW m \in Mics
      PROVE  /\ mics'[m].own_thr = mics[m].own_thr /\ mics'[m].a_thr = mics[m].a_thr
             /\ Knows(mics'[m])
             /\ mics[m].declared /\ StatA(in[m]) >= policy.restart_a_db
                  => mics'[m].state = "arming"
  <2> DEFINE trip == m \in tripped'
  <2>1. /\ mics[m] \in Mic /\ FlagsOf(mics[m]) /\ Knows(mics[m])
        /\ SomeNotPositive(mics[m].d_thr, mics[m].a_thr)
    BY DEF HistoryInv, GuardInv, GuardTypeOK, SomewhereNotPositive, RestartInv
  <2>2. mics[m].a_thr <= policy.a_db
    BY <1>2, <2>1, StrictBelow DEF RestartInv
  <2>3. in[m] \in Input /\ trip \in BOOLEAN
    BY InputsAssumption DEF Residuals
  <2>4. mics'[m] = Rendered(Step(Observed(mics[m], in[m]), StatA(in[m]), trip))
    BY <1>1 DEF Update
  <2> HIDE DEF trip
  <2>5. QED
    BY <1>2, <1>3, <2>1, <2>2, <2>3, <2>4, MicRestart
<1>5. RestartInv'
  BY <1>2, <1>4 DEF RestartInv, StrictUnder, Knows, Listed
<1>6. Rearming
  BY <1>1, <1>4 DEF Rearming
<1>7. QED
  BY <1>5, <1>6

(* No mic stays certified over a canceller restart: as long as the host sets no
   threshold for A' looser than a policy's, and no timeout of a single block,
   the mic is in ARMING at the end of the block in which A' is back at the
   restart level. *)
THEOREM RestartAlwaysRearms ==
  ASSUME NoLooserThreshold, TimeoutLasts PROVE HistorySpec => RestartRearms
<1>1. HistoryInit => RestartInv
  <2> SUFFICES ASSUME HistoryInit PROVE RestartInv
    OBVIOUS
  <2>1. policy \in Policies /\ \A m \in Mics : mics[m] = Fresh(policy.d_db, policy.a_db, FALSE)
    BY DEF HistoryInit, Init
  <2>2. LET f == Fresh(policy.d_db, policy.a_db, FALSE)
        IN ~ f.declared /\ ~ f.own_thr /\ f.a_thr = policy.a_db
    BY DEF Fresh
  <2>3. QED
    BY <2>1, <2>2 DEF RestartInv, Listed, StrictUnder, Knows
<1>2. HistoryInv /\ RestartInv /\ [HistoryNext]_historyVars
        => /\ RestartInv'
           /\ [ \A m \in Mics :
                  mics[m].declared /\ (\E a \in progress'[m] : a >= policy.restart_a_db)
                  => mics'[m].state = "arming" ]_historyVars
  <2> SUFFICES ASSUME HistoryInv, RestartInv, [HistoryNext]_historyVars
               PROVE  RestartInv' /\ (Rearming \/ UNCHANGED historyVars)
    BY DEF Rearming
  <2>1. CASE UNCHANGED historyVars
    BY <2>1 DEF historyVars, vars, RestartInv, Listed, StrictUnder, Knows
  <2>2. CASE HistoryBlock
    BY <2>2, BlockRestart
  <2>3. CASE HistoryHost
    <3>1. RestartInv'
      BY <2>3, HostRestart DEF HistoryHost, HistoryInv
    <3>2. \A m \in Mics : progress'[m] = {}
      BY <2>3 DEF HistoryHost
    <3>3. QED
      BY <3>1, <3>2 DEF Rearming
  <2>4. QED
    BY <2>1, <2>2, <2>3 DEF HistoryNext
<1>3. HistoryInv /\ [HistoryNext]_historyVars => HistoryInv'
  BY HistoryNextInv
<1>4. QED
  BY <1>1, <1>2, <1>3, HistoryInitInv, PTL DEF HistorySpec, RestartRearms

===============================================================================
