------------------------------ MODULE MCSpend ------------------------------
(* Small instances of Spend for TLC. *)
EXTENDS Spend

CONSTANTS r1, r2   \* the rollup loops of two instances

\* Two requests beside a fault, with one rollup; two requests, and one beside a
\* fault, with two rollups.
MCLimits == {[ops |-> 2, faults |-> 1, rollers |-> {r1}],
             [ops |-> 2, faults |-> 0, rollers |-> {r1, r2}],
             [ops |-> 1, faults |-> 1, rollers |-> {r1, r2}]}

\* The same with a fault beside two requests, and two faults beside one.
LargeLimits == {[ops |-> 2, faults |-> 1, rollers |-> {r1, r2}],
                [ops |-> 1, faults |-> 2, rollers |-> {r1, r2}]}
=============================================================================
