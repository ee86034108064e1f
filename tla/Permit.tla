-------------------------------- MODULE Permit --------------------------------
(***************************************************************************)
(* What the approvals of one action promise, without how they are stored   *)
(* or decided: a permit is asked for, granted or refused by people, spent  *)
(* at most once, and worthless from the moment it lapses.  At most one     *)
(* permit of the action is live at any time.                               *)
(***************************************************************************)
CONSTANT Ids        \* permit ids

VARIABLE permit     \* permit[i]: the permit's status

Status == {"none", "asked", "granted", "refused", "spent", "lapsed"}
Live(i) == permit[i] \in {"asked", "granted"}

Init == permit = [i \in Ids |-> "none"]

Become(i, status) == permit' = [permit EXCEPT ![i] = status]

\* A permit is asked for only while none is live.
Request(i) == permit[i] = "none" /\ (\A j \in Ids : ~Live(j)) /\ Become(i, "asked")

Grant(i)   == permit[i] = "asked" /\ Become(i, "granted")
Refuse(i)  == permit[i] = "asked" /\ Become(i, "refused")
Spend(i)   == permit[i] = "granted" /\ Become(i, "spent")

\* Time passes: any live permits may lapse, together.
Lapse == \E S \in SUBSET {i \in Ids : Live(i)} :
           permit' = [i \in Ids |-> IF i \in S THEN "lapsed" ELSE permit[i]]

Next == (\E i \in Ids : Request(i) \/ Grant(i) \/ Refuse(i) \/ Spend(i)) \/ Lapse

Spec == Init /\ [][Next]_permit
=============================================================================
