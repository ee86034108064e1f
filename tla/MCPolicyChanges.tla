--------------------------- MODULE MCPolicyChanges ---------------------------
(* Small instances of PolicyChanges for TLC. *)
EXTENDS PolicyChanges, TLC

CONSTANTS h1, h2, ann, bob, key, p1, p2, x1, m1, o1, b1, b2, c1

\* Ann made the API key.
MCCreatedBy == key :> ann

\* A new policy that keeps the central ones or brings its own, one exception
\* to add and remove, one machine's owner, and the setting.
NewBody   == [kind |-> "policy", body |-> b2, central |-> Keep]
NewRules  == [kind |-> "policy", body |-> b1, central |-> c1]
Add       == [kind |-> "exception.create", exception |-> x1]
Remove    == [kind |-> "exception.delete", exception |-> x1]
SetOwner  == [kind |-> "endpoint.owner", machine |-> m1, owner |-> o1]
TurnOn    == [kind |-> "settings", on |-> TRUE]
TurnOff   == [kind |-> "settings", on |-> FALSE]

MCAsked     == {NewRules, Add, Remove, SetOwner, TurnOn, TurnOff}
JustPolicy  == {NewBody}

Symmetry == Permutations(Requests) \cup Permutations(Pids)
=============================================================================
