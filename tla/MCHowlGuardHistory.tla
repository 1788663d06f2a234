-------------------------- MODULE MCHowlGuardHistory --------------------------
(***************************************************************************)
(* The instances of MCHowlGuard with the guard's history variables.        *)
(***************************************************************************)
EXTENDS MCHowlGuard, HowlGuardHistory

(***************************************************************************)
(* States that differ only in what nothing reads before it is next set are *)
(* one state.  in_state is read in ARMING alone, hold in DUCKED, probation *)
(* and decay while open, latch_notok in LATCHED and the floor under a      *)
(* latch, and each is set on the way in.  LOST needs a declaration, which  *)
(* is only made on an ok block that ends an ok run of the release hold:    *)
(* it sets notok_run, ok_seen and rearm_hold.  ok and timed_out are        *)
(* readouts (the runs with this view check no property of them).           *)
(***************************************************************************)
Live(s) ==
  [s EXCEPT !.in_state    = IF s.state = "arming" THEN @ ELSE 0,
            !.hold        = IF s.state = "ducked" THEN @ ELSE 0,
            !.probation   = IF s.state \in {"open", "open_capped"} THEN @ ELSE 0,
            !.decay       = IF s.state = "open" THEN @ ELSE 0,
            !.latch_notok = @ /\ s.state = "latched",
            !.floor       = IF s.latched THEN @ ELSE 0,
            !.notok_run   = IF s.declared THEN @ ELSE 0,
            !.ok_seen     = @ /\ s.declared,
            !.rearm_hold  = @ /\ s.declared,
            !.ok          = FALSE,
            !.timed_out   = FALSE]

LiveView == <<[m \in Mics |-> Live(mics[m])],
              policy, bus, IF episode.on THEN episode ELSE NoEpisode,
              tripped, streak, recovered>>

===============================================================================
