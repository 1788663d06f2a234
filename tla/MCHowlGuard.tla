----------------------------- MODULE MCHowlGuard -----------------------------
(***************************************************************************)
(* Small instances of the howl guard for TLC.                              *)
(***************************************************************************)
EXTENDS HowlGuard

(* Every time at its shortest that still tells its cases apart. *)
ShortPolicy ==
  [ d_db |-> -1, a_db |-> -5, restart_a_db |-> -1,
    trip |-> 2, release |-> 2, quiet |-> 1, timeout |-> 3,
    rearm |-> 1, probation |-> 2, decay |-> 2, window |-> 2,
    attack |-> 1, release_ramp |-> 2,
    duck_db |-> 4, arming_duck_db |-> 6, strike_db |-> 1,
    max_strikes |-> 2, lost_strikes |-> TRUE,
    has_cap |-> FALSE, cap |-> 0 ]

OnePolicy == {ShortPolicy}

(* Two mics: every time one block (but two in ARMING), one strike latches, no
   ramps. *)
BriefPolicy ==
  [ShortPolicy EXCEPT !.trip = 1, !.timeout = 2, !.probation = 1,
                      !.decay = 1, !.window = 1,
                      !.attack = 0, !.release_ramp = 0, !.max_strikes = 1]
BriefPolicies == {BriefPolicy}

OneCap == {-1}

(* ok; only D lost; progress lost but under a soundcheck's threshold;
   progress at the restart level. *)
Stats == { <<-5, -9>>, <<0, -9>>, <<-5, -3>>, <<0, 0>> }

Finite(d, a, h) == [finite |-> TRUE, d |-> d, a |-> a, heard |-> h]
NotFinite == [finite |-> FALSE, d |-> 0, a |-> 0, heard |-> "silent"]

AllInputs == {Finite(s[1], s[2], h) : s \in Stats, h \in Heard} \cup {NotFinite}

OneMicInputs == <<AllInputs>>

SoundcheckThr == {[d |-> -1, a |-> -2]}
NoThr == {}

(* Two mics: a good block, a bad one, one that is not finite, and a howl on each. *)
FewInputs == {Finite(-5, -9, "silent"), Finite(0, -9, "silent"),
              Finite(-5, -9, "growth"), Finite(0, 0, "growth")}
HowlsOrNot == {Finite(0, 0, "silent"), Finite(0, 0, "catch")}
FewOneMicInputs == <<FewInputs>>
TwoMicInputs == <<FewInputs \cup {NotFinite}, HowlsOrNot>>

===============================================================================
