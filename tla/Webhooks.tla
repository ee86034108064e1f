------------------------------- MODULE Webhooks -------------------------------
(***************************************************************************)
(* The queue of events for a workspace's webhook (server/integrations.go,  *)
(* store/integrations.go): events are queued in the database, and every    *)
(* instance of the control plane claims what is due with a lease, posts it *)
(* and records the result.  A time here is the number of ticks left.       *)
(***************************************************************************)
EXTENDS Integers, FiniteSets, Sequences

CONSTANTS
  Instances,  \* instances of the control plane there may be
  Lease,      \* ticks a claim lasts
  Wait,       \* ticks before the next attempt
  Waits       \* attempts after the first

ASSUME WebhooksAssumption ==
  /\ Lease \in Nat /\ Wait \in Nat /\ Waits \in Nat
  /\ 0 < Wait /\ Wait < Lease

VARIABLES
  limit,       \* the bounds of this instance, a record; the control plane's instances
  faults,      \* crashes, stalls, lost answers and lost locks so far
  webhook,     \* the workspace has a webhook
  deliveries,  \* rows: [state, attempts, due, kind]
  sending,     \* attempts in progress: [by, id, attempts, left, result]
  received     \* history: how often the receiver got each event

Fault == faults < limit.faults /\ faults' = faults + 1

Row(kind) == [state |-> "pending", attempts |-> 0, due |-> 0, kind |-> kind]
Due       == {d \in DOMAIN deliveries : deliveries[d].state = "pending" /\ deliveries[d].due = 0}
Busy(i)   == \E s \in sending : s.by = i

\* emit: an event of a kind the webhook asked for.
Emit(kinds) ==
  LET rows == IF webhook THEN [n \in 1 .. Len(kinds) |-> Row(kinds[n])] ELSE <<>>
  IN /\ deliveries' = deliveries \o rows
     /\ received' = received \o [n \in DOMAIN rows |-> 0]

\* Its rows go with it.
DeleteWebhook ==
  /\ webhook
  /\ webhook' = FALSE
  /\ deliveries' = [d \in DOMAIN deliveries |-> [deliveries[d] EXCEPT !.state = "gone"]]
  /\ UNCHANGED <<limit, faults, sending, received>>

Claims(i) == {[by |-> i, id |-> d, attempts |-> deliveries[d].attempts, left |-> Lease, result |-> "none"] : d \in Due}

\* Mutant: a row that is claimed is not pending any more.
Claim_ForGood(i) ==
  /\ ~Busy(i) /\ Due # {}
  /\ sending' = sending \cup Claims(i)
  /\ deliveries' = [d \in DOMAIN deliveries |->
                      IF d \in Due THEN [deliveries[d] EXCEPT !.state = "claimed"] ELSE deliveries[d]]
  /\ UNCHANGED <<limit, faults, webhook, received>>

\* ClaimDeliveries, when the attempts of the last round have ended.
Claim(i) ==
  /\ ~Busy(i) /\ Due # {}
  /\ sending' = sending \cup Claims(i)
  /\ deliveries' = [d \in DOMAIN deliveries |->
                      IF d \in Due THEN [deliveries[d] EXCEPT !.due = Lease] ELSE deliveries[d]]
  /\ UNCHANGED <<limit, faults, webhook, received>>

\* sendWebhook: taken; refused for good; or no answer to speak of, the event
\* taken or not.
Send(s) ==
  /\ s \in sending /\ s.result = "none"
  /\ \E result \in {"ok", "refused", "retry"} : sending' = (sending \ {s}) \cup {[s EXCEPT !.result = result]}
       /\ \/ result = "ok" /\ received' = [received EXCEPT ![s.id] = @ + 1] /\ UNCHANGED faults
          \/ result # "ok" /\ UNCHANGED <<received, faults>>
          \/ result = "retry" /\ Fault /\ received' = [received EXCEPT ![s.id] = @ + 1]
  /\ UNCHANGED <<limit, webhook, deliveries>>

\* FinishDelivery, whatever has happened to the row since the claim.
Result(s) ==
  CASE s.result = "ok"                                -> "delivered"
    [] s.result = "retry" /\ s.attempts + 1 <= Waits  -> "pending"
    [] OTHER                                          -> "failed"

Recorded(row, s) ==
  [row EXCEPT !.state = Result(s), !.attempts = @ + 1, !.due = IF Result(s) = "pending" THEN Wait ELSE 0]

Finish(s) ==
  /\ s \in sending /\ s.result # "none"
  /\ sending' = sending \ {s}
  /\ deliveries' = IF deliveries[s.id].state = "gone" THEN deliveries
                   ELSE [deliveries EXCEPT ![s.id] = Recorded(@, s)]
  /\ UNCHANGED <<limit, faults, webhook, received>>

\* Time passes; an attempt takes less than its lease unless the instance stalls.
Down(n)   == IF n = 0 THEN 0 ELSE n - 1
QueueTick ==
  /\ IF \E s \in sending : s.left = 1 THEN Fault ELSE UNCHANGED faults
  /\ sending' = {[s EXCEPT !.left = Down(@)] : s \in sending}
  /\ deliveries' = [d \in DOMAIN deliveries |-> [deliveries[d] EXCEPT !.due = Down(@)]]

Delivering(i) == Claim(i) \/ \E s \in sending : s.by = i /\ (Send(s) \/ Finish(s))

-----------------------------------------------------------------------------
EventKinds  == {"tamper", "hooks", "offline", "online", "other"}
DeliveryRow == [state : {"pending", "delivered", "failed", "gone"}, attempts : Nat, due : Nat, kind : EventKinds]
AttemptRow  == [by : Instances, id : Nat, attempts : Nat, left : Nat, result : {"none", "ok", "refused", "retry"}]

\* The types of the queue's state; a count for every row.
QueueTypeOK ==
  /\ faults \in Nat /\ webhook \in BOOLEAN
  /\ deliveries \in Seq(DeliveryRow) /\ received \in Seq(Nat) /\ Len(received) = Len(deliveries)
  /\ sending \subseteq AttemptRow /\ \A s \in sending : s.id \in DOMAIN deliveries

\* The receiver gets an event once, and again only for a crash, a stall or an
\* answer that was lost; and nothing counts as delivered that it never got.
SentForCause ==
  \A d \in DOMAIN deliveries :
    /\ received[d] <= 1 + faults
    /\ deliveries[d].state = "delivered" => received[d] > 0

\* Every event is delivered or given up, unless the webhook goes: a crashed
\* instance's claims run out, and a late result that puts a row back is the end
\* of nothing.
QueueDrains == []<>(\A d \in DOMAIN deliveries : deliveries[d].state \in {"delivered", "failed", "gone"})
=============================================================================
