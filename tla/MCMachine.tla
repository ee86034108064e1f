----------------------------- MODULE MCMachine -----------------------------
(* Small instances of Machine for TLC. *)
EXTENDS Machine, TLC

CONSTANTS a, b  \* break-glass codes

\* Versions and two faults; the same with a new enrollment; two codes; a code on a
\* machine enrolled anew; two activations at a time.
Policies   == [codes |-> {}, threads |-> {1}, uses |-> 1, versions |-> 2, faults |-> 2, now |-> 0]
NewPolicy  == [Policies EXCEPT !.uses = 2, !.versions = 1, !.faults = 1]
Windows    == [codes |-> {a, b}, threads |-> {1}, uses |-> 1, versions |-> 0, faults |-> 1, now |-> 1]
Reenrolled == [Windows EXCEPT !.codes = {a}, !.uses = 2, !.now = 2]
Together   == [Windows EXCEPT !.codes = {a}, !.threads = {1, 2}]
MCLimits   == {Policies, NewPolicy, Windows, Reenrolled, Together}
=============================================================================
