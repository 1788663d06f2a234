--------------------------- MODULE HowlGuardHistory ---------------------------
(***************************************************************************)
(* The howl guard with the part of its past that its promises are about:   *)
(* history variables, which no action of the guard reads.                  *)
(***************************************************************************)
EXTENDS HowlGuard

(* Of a mic's two thresholds one is at most 0 dB, the reading of a block that
   is not finite: under two positive ones, which clamped() admits, such a block
   counts as ok, whatever watchdog_trip() says of it. *)
SomeNotPositive(d, a) == d <= 0 \/ a <= 0

ASSUME ThresholdsAssumption ==
  /\ \A p \in Policies : SomeNotPositive(p.d_db, p.a_db)
  /\ \A thr \in OwnThr : SomeNotPositive(thr.d, thr.a)

VARIABLES
  streak,     \* blocks in a row that read ok, were finite and did not trip the mic
  recovered,  \* no timer re-arm since such a streak last reached the release hold
  progress    \* the progress statistic A' that the last step read, if it was a block

historyVars == <<vars, streak, recovered, progress>>

HistoryInit ==
  /\ Init
  /\ streak = [m \in Mics |-> 0]
  /\ recovered = [m \in Mics |-> TRUE]
  /\ progress = [m \in Mics |-> {}]

(* A timer re-arm: the mic starts to release without the verdict's consent. *)
TimerRearm(m) ==
  /\ mics[m].state = "ducked"
  /\ mics'[m].state = "releasing"
  /\ mics'[m].rearm_hold

HistoryBlock ==
  \E in \in Residuals, near \in SUBSET Mics \ {{}} :
    /\ Update(in, near)
    /\ streak' = [m \in Mics |->
                    IF mics'[m].ok /\ in[m].finite /\ m \notin tripped'
                    THEN Later(streak[m]) ELSE 0]
    /\ recovered' = [m \in Mics |->
                       /\ ~ TimerRearm(m)
                       /\ recovered[m] \/ streak'[m] >= policy.release]
    /\ progress' = [m \in Mics |-> {StatA(in[m])}]

HistoryHost ==
  /\ Host
  /\ progress' = [m \in Mics |-> {}]
  /\ UNCHANGED <<streak, recovered>>

HistoryNext == HistoryBlock \/ HistoryHost

HistorySpec == HistoryInit /\ [][HistoryNext]_historyVars

(* A declaration is earned: whatever state it is made from, the verdict read
   ok for the whole release hold, block after block up to this one, with no
   trip on the mic and no non-finite block among them, and the detector has
   been quiet for quiet_s. *)
DeclarationEarned ==
  [][ \A m \in Mics : mics'[m].declared /\ ~ mics[m].declared =>
        /\ streak'[m] >= policy.release
        /\ mics'[m].since >= policy.quiet ]_historyVars

(* No duck / open pumping: after a timer re-arm the verdict trigger cannot duck
   the mic again until the verdict has held ok for the release hold. *)
NoPumping ==
  [][ \A m \in Mics :
        /\ mics[m].state \in {"open", "releasing"}
        /\ mics'[m].state = "ducked"
        /\ m \notin tripped'
        => recovered[m] ]_historyVars

(* "From any other state when A' returns to restart_a_db": a mic the verdict
   has certified goes back to ARMING in the block in which its canceller shows
   a restart (howl_guard.h, ARMING in the list of states). *)
RestartRearms ==
  [][ \A m \in Mics :
        mics[m].declared /\ (\E a \in progress'[m] : a >= policy.restart_a_db)
        => mics'[m].state = "arming" ]_historyVars

===============================================================================
