----------------------------- MODULE MCAfcChain -----------------------------
(***************************************************************************)
(* A small chain for TLC: three sample values, two mics, and delays that   *)
(* are not multiples of the block, so that both rings split a block.       *)
(***************************************************************************)
EXTENDS AfcChain

Levels == {-1, 0, 1}

(* The sum wraps, so that it stays in Levels. *)
Wrapped(x, y) == ((x + y + 4) % 3) - 1

(* No two of the stages commute: the first inverts, the second drops what is
   negative, the third rectifies. *)
Chained == [decorrelator |-> [x \in Levels |-> -x],
            reverb       |-> [x \in Levels |-> IF x < 0 THEN 0 ELSE x],
            safety       |-> [x \in Levels |-> IF x < 0 THEN -x ELSE x]]
ASSUME StagesDiffer ==
  \A s, t \in Stages : s # t => \E x \in Levels : Chained[s][Chained[t][x]] # Chained[t][Chained[s][x]]

(* A canceller leaves silence, or two different samples. *)
Swings == {<<0, 0>>, <<1, -1>>}

(* No backing track, or one that starts with the block. *)
Backing == {<<0, 0>>, <<1, 0>>}

BothShadows == <<TRUE, TRUE>>
FitAndMisfit == {[mics |-> 2, block |-> 2], [mics |-> 1, block |-> 2]}
===============================================================================
