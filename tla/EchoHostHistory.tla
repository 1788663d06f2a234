-------------------------- MODULE EchoHostHistory --------------------------
(***************************************************************************)
(* EchoHost with what an observer of its blocks remembers, and the properties  *)
(* of the watchdog and of the chain's policy. hist is a record: since the last   *)
(* restart (reset() or a trip), heard a faulty block, live a nonzero echo         *)
(* estimate, quiet the blocks in a row of digital silence, streak the blocks in     *)
(* a row that certified until they were enough, earned whether streak once reached GuardHold; rest the       *)
(* blocks since the last lift; over and ahead the evidence for a lift since it was      *)
(* last spent; sick and ill the blocks in a row an adapting core, or (since the last faulty *)
(* block) anything of the unit, has held a non-finite value; frozen whether a faulty block met a core that         *)
(* does not adapt.                                                                         *)
(***************************************************************************)
EXTENDS EchoHost

VARIABLE hist

hvars == <<unit, pol, out, faults, hist>>

\* The blocks of digital silence that empty the classical analysis windows.
Hush(u) == IF u.kind = "aec" /\ u.cfg.post.post = "residual" THEN u.cfg.post.analysis ELSE 0

FreshHistory(u) ==
    [heard |-> FALSE, live |-> FALSE, quiet |-> Hush(u), streak |-> 0, earned |-> FALSE,
     rest |-> Cooldown, over |-> 0, ahead |-> 0, sick |-> 0, ill |-> 0, frozen |-> FALSE]

UpTo(n, bound) == IF n < bound THEN n + 1 ELSE n

\* Evidence an onlooker would accept: a comparison of two numbers.
Above(ev) == Square(ev.x) = "fin" /\ ev.active
SeesOver(ev) == Above(ev) /\ ev.explained = "over"
SeesAhead(ev) == Above(ev) /\ ev.ahead

\* The policy's evidence of one block, and whether its certificate counts.
Watched(h, ev) ==
    LET certified == Certified(ev) /\ (h.live \/ (Hush(unit) > 0 /\ h.quiet = Hush(unit)))
        rested    == UpTo(IF pol.lifted = "no" THEN h.rest ELSE 0, Cooldown)
        counted   == Converged(pol', unit.cfg.guard)
        over      == IF pol.lifted = "no" THEN h.over ELSE 0
        ahead     == IF pol.lifted = "shadow" THEN 0 ELSE h.ahead
    IN  [h EXCEPT !.streak = IF certified /\ ~h.earned THEN UpTo(@, GuardHold) ELSE 0,
                  !.earned = @ \/ (certified /\ UpTo(h.streak, GuardHold) = GuardHold),
                  !.rest = rested,
                  !.over = IF h.heard THEN 0 ELSE IF counted /\ SeesOver(ev) THEN UpTo(over, RescueHold) ELSE over,
                  !.ahead = IF h.heard THEN 0 ELSE IF counted /\ SeesAhead(ev) THEN UpTo(ahead, ShadowHold) ELSE ahead]

\* The chain of which an end to its ills is claimed (the narrowband guard would
\* hold a poisoned core), and within how many blocks: the overflow must leave
\* the analysis windows, the last number both minima of the floor.
Healing(u) ==
    /\ u.kind = "aec" /\ u.cfg.core.guard = 0
    /\ u.cfg.post.post = "residual" /\ u.cfg.post.comfort

Longer(m, n) == IF m < n THEN n ELSE m

MaxIll(u) == IF Healing(u) THEN Longer(u.cfg.post.analysis, 2 * u.cfg.post.floor_window - 1) + 1 ELSE 5

\* The narrowband guard of a Kalman core held this block.
Holding(c) == c.cfg.core = "kalman" /\ c.cfg.guard > 0 /\ c.nb >= c.cfg.guard

Sickness(h) ==
    IF ~(unit'.core.adapt /\ Poisoned(unit'.core)) THEN 0
    ELSE IF Holding(unit'.core) THEN h.sick
    ELSE UpTo(h.sick, 3)

\* The classical suppressor's estimators and the policy's levels.
Ailing(s, p) ==
    \E v \in {s.sdy, s.sdd, s.syy, s.see, s.leak, s.psm, p.floor, p.pm, p.ps} : ~Finite(v)

Illness(h) ==
    IF unit'.core.adapt /\ (NonFinite(unit'.core) \/ (Healing(unit) /\ Ailing(unit'.post, pol')))
    THEN UpTo(h.ill, MaxIll(unit))
    ELSE 0

\* The part of the history every unit has, and the restart.
Remembered(h) ==
    hist' = [IF unit'.trips # unit.trips THEN FreshHistory(unit) ELSE h
             EXCEPT !.sick = Sickness(h), !.ill = Illness(h)]

HistoryAlone(h, r) == ProcessAlone(r) /\ Remembered(h)

HistoryAec(h, r, ev) ==
    /\ ProcessAec(r, ev)
    /\ LET sounds == r.yhat # "zero"
       IN  Remembered(Watched([h EXCEPT !.live = @ \/ sounds, !.quiet = IF sounds THEN 0 ELSE @], ev))

HProcessBlock(x, y) ==
    LET faulty == {x, y} \cap Bad # {}
        h == [hist EXCEPT !.heard = @ \/ faulty,
                          !.quiet = IF y = "zero" THEN UpTo(@, Hush(unit)) ELSE 0,
                          !.ill = IF faulty THEN 0 ELSE @, !.frozen = @ \/ (faulty /\ ~unit.core.adapt)]
    IN  \E r \in Results(x, y) :
          \/ HistoryAlone(h, r)
          \/ unit.kind = "aec" /\ \E d \in Decisions(r, x) : HistoryAec(h, r, Evidence(r, x, d))

HInit == Init /\ hist = FreshHistory(unit)

HProcessOrdinary ==
    /\ \E b \in Ordinary : HProcessBlock(b[1], b[2])
    /\ UNCHANGED faults

HProcessFaulty ==
    /\ faults < MaxFaults[unit.kind]
    /\ faults' = faults + 1
    /\ \E b \in Faulty : HProcessBlock(b[1], b[2])

HSetAdaptation ==
    /\ \E enabled \in BOOLEAN : SetAdaptation(enabled)
    /\ hist' = [hist EXCEPT !.sick = 0, !.ill = 0]

HReset == Reset /\ hist' = FreshHistory(unit)

HNext == HProcessOrdinary \/ HProcessFaulty \/ HSetAdaptation \/ HReset

HSpec == HInit /\ [][HNext]_hvars

\* A block with a non-finite sample leaves no unit that checks itself: only the
\* unchecked learned post stage lets one out, after a faulty block since the last
\* restart, and the prewhitened canceller if it took one while frozen, when its raw
\* ring took in what its core's ring has not (pem_afc.h, process_block()).
OnlyOverflowLeaks ==
    ~Finite(out) => \/ unit.kind = "afc" /\ hist.frozen
                    \/ unit.kind = "aec" /\ unit.cfg.post.post = "nn" /\ hist.heard

\* A stage's watchdog trips in this step.
StageTripped ==
    \/ unit'.core.trips # unit.core.trips
    \/ unit.kind = "aec" /\ unit'.post.trips # unit.post.trips

StartsAfresh ==
    /\ unit' = ResetUnit(unit')
    /\ pol' = FreshPolicy
    /\ out' = "zero"
    /\ unit'.trips = unit.trips + 1
    /\ unit'.core.adapt = unit.core.adapt

\* Whichever stage's watchdog trips, the whole unit starts afresh: every stage
\* behind it, the policy layer and the output, keeping only the adaptation
\* switch and the counts (watchdog.h, the contract).
TripStartsAfresh == [][StageTripped => StartsAfresh]_hvars

\* The receive guard's certificate is earned, and granted when it is: since the
\* last restart there were GuardHold blocks in a row that each certified on an
\* echo estimate made since, or on windows of nothing but digital silence.
CertificateEarned == pol.converged <=> (hist.earned /\ unit.kind = "aec" /\ unit.cfg.guard)

\* Two lifts of the canceller's uncertainty, by either trigger, are at least
\* the cooldown apart, unless the chain restarted between them.
LiftsSpaced == pol.lifted # "no" => hist.rest >= Cooldown

\* A lift rests on its hold of blocks of evidence that no earlier lift spent;
\* the shadow's votes survive a rescue, and only an overflow can fake either.
LiftOnEvidence ==
    \/ hist.heard
    \/ /\ pol.lifted = "rescue" => hist.over >= RescueHold
       /\ pol.lifted = "shadow" => hist.ahead >= ShadowHold

\* A non-finite weight or uncertainty of an adapting core shows in the error
\* and resets it within two more blocks that update (the narrowband guard holds
\* the update, and with it the check on a transform).
Caught == hist.sick <= 2

\* However many blocks were not ordinary, the chain with the classical suppressor
\* and its comfort noise holds only finite values again within a bound of the
\* last one while its canceller adapts: what no check sees at once reaches the
\* floor tracker, whose fill overflows, and that trips the chain.
Heals == Healing(unit) /\ ~hist.frozen => hist.ill < MaxIll(unit)

\* postfilter.h:249: echo_explained() is 0 with an unconverged canceller, so that
\* the guard's certificate speaks of an echo that some estimate explained.
CertificateIsOfEcho == unit.kind = "aec" /\ unit.cfg.guard /\ pol.converged => hist.live
=============================================================================
