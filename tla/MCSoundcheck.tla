----------------------------- MODULE MCSoundcheck -----------------------------
(***************************************************************************)
(* Two mics and soundchecks of up to three blocks for TLC.                 *)
(***************************************************************************)
EXTENDS SoundcheckHistory

DFloor == -6
AFloor == -10
DLeast == -12
ALeast == -30

(* One block below the D bins, one off the end of the A' bins, one broken. *)
Readings == {[finite |-> TRUE, d |-> -9, a |-> 3],
             [finite |-> TRUE, d |-> 1, a |-> -20],
             [finite |-> FALSE, d |-> 0, a |-> 0]}
Long  == [d |-> -2, a |-> -4, d_margin |-> 4, a_margin |-> 3, window |-> 3]
Short == [d |-> 0, a |-> -4, d_margin |-> 12, a_margin |-> 3, window |-> 1]
LongAndShort == {Long, Short}
OneStored == {[d |-> 30, a |-> -6]}
===============================================================================
