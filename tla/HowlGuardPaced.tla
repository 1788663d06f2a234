---------------------------- MODULE HowlGuardPaced ----------------------------
(***************************************************************************)
(* The howl guard with the one fairness its host grants: the audio         *)
(* callback keeps delivering blocks.  A block may leave every variable of  *)
(* the guard as it is, so the blocks are paced by a BEAT that each of them *)
(* flips; a block is possible in every state.                              *)
(***************************************************************************)
EXTENDS HowlGuard

VARIABLE beat

pacedVars == <<vars, beat>>

PacedInit == Init /\ beat = FALSE

PacedBlock == Block /\ beat' = ~ beat
PacedHost == Host /\ UNCHANGED beat

PacedNext == PacedBlock \/ PacedHost

PacedSpec == PacedInit /\ [][PacedNext]_pacedVars /\ WF_beat(beat' = ~ beat)

(* A ducked mic is not silenced for good by a verdict that cannot recover:
   once no detector has a verdict any more, it leaves DUCKED (DUCKED's
   re-arm timer). *)
RearmsWhenQuiet ==
  <>[](\A m \in Mics : mics[m].since > 0)
    => \A m \in Mics : []<>(mics[m].state # "ducked")

(* Once the verdict stays ok, the detectors stay quiet and the host settles on
   a policy, every mic ends up OPEN, or held by its latch, from whatever state
   and back-off it was in and however often the host calls clear(). *)
Recovers ==
  /\ <>[](\A m \in Mics : mics[m].ok /\ mics[m].since > 0)
  /\ <>[][UNCHANGED policy]_vars
  => <>[](\A m \in Mics : mics[m].state \in {"open", "latched"})

===============================================================================
