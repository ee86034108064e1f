----------------------------- MODULE MCRetention -----------------------------
(* Small instances of Retention for TLC. *)
EXTENDS Retention, TLC

CONSTANTS r1, r2, s1, q1

\* Two old days; the longer retention keeps the younger one.
MCDays    == {1, 2}
MCAge     == 1 :> 2 @@ 2 :> 1
MCCutoffs == {1, 2}

HoldOn  == [hold |-> TRUE,  cutoff |-> Keep]
HoldOff == [hold |-> FALSE, cutoff |-> Keep]
Shorten == [hold |-> Keep,  cutoff |-> 1]
MCAsks  == {HoldOn, HoldOff, Shorten}
=============================================================================
