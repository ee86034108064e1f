------------------------------ MODULE EventIngest ------------------------------
(***************************************************************************)
(* The control plane's side of one machine's event stream: POST            *)
(* /ep/v1/events.  A request is authorized, then stored by a transaction   *)
(* that holds the machine's advisory lock, and what follows from the       *)
(* batch (webhooks, the recorded stop, break-glass use, tamper alerts) is  *)
(* done after the commit.  Batches form a hash chain: here each one names  *)
(* the batch it was linked to.  Clients are left open: see EventPipeline.  *)
(***************************************************************************)
EXTENDS Naturals, Sequences, FiniteSets

CONSTANTS
  Slots,   \* requests the server may have in flight for this machine
  Events,  \* what may be in a batch
  NoSlot

VARIABLES
  reqs,     \* the requests in flight, by slot
  lock,     \* who holds pg_advisory_xact_lock('cp.events:' || endpoint)
  chain,    \* cp.event_batches of the machine with their events, by id
  followed, \* client batch ids whose consequences were carried out
  revoked   \* the machine's credential no longer works

ingestVars == <<reqs, lock, chain, followed, revoked>>

ASSUME IngestAssumption == NoSlot \notin Slots

\* A posted body: the client's batch id, its events; torn when it isn't JSON.
Batches == [id : Nat, events : SUBSET Events, torn : BOOLEAN]
NoBatch == [id |-> 0, events |-> {}, torn |-> FALSE]

Answers == {"ok", "retry", "refused"}  \* 2xx, 5xx or 429, other 4xx
Working == {"authorized", "locked", "committed"}
Free    == [pc |-> "free", batch |-> NoBatch, prev |-> 0]

\* A stored batch; prev is the place of the batch whose hash it took over.
Stored == [id : Nat, events : SUBSET Events, prev : Nat]

IngestTypeOK ==
  /\ reqs \in [Slots -> [pc : {"free"} \cup Working \cup Answers, batch : Batches, prev : Nat]]
  /\ lock \in Slots \cup {NoSlot}
  /\ chain \in Seq(Stored)
  /\ followed \subseteq Nat
  /\ revoked \in BOOLEAN

StoredEvents == UNION {chain[i].events : i \in DOMAIN chain}
IsStored(id) == \E i \in DOMAIN chain : chain[i].id = id

Goto(h, pc)  == reqs' = [reqs EXCEPT ![h].pc = pc]
Unlock(h)    == lock' = IF lock = h THEN NoSlot ELSE lock

-----------------------------------------------------------------------------
\* A request arrives: the credential is looked up and the body decoded.
Arrive(h, b) ==
  /\ reqs[h].pc = "free"
  /\ reqs' = [reqs EXCEPT ![h] = [pc |-> IF revoked \/ b.torn THEN "refused" ELSE "authorized",
                                 batch |-> b, prev |-> 0]]
  /\ UNCHANGED <<lock, chain, followed, revoked>>

\* Mutant: no advisory lock.
BeginUnlocked(h) ==
  /\ reqs[h].pc = "authorized"
  /\ IF IsStored(reqs[h].batch.id)
     THEN Goto(h, "ok") /\ UNCHANGED lock
     ELSE /\ reqs' = [reqs EXCEPT ![h].pc = "locked", ![h].prev = Len(chain)]
          /\ lock' = h
  /\ UNCHANGED <<chain, followed, revoked>>

\* The transaction takes the lock, then looks for the batch and reads the hash
\* of the last one.  A batch stored before is answered as it was, and that is all.
Begin(h) ==
  /\ reqs[h].pc = "authorized"
  /\ lock = NoSlot
  /\ IF IsStored(reqs[h].batch.id)
     THEN Goto(h, "ok") /\ UNCHANGED lock
     ELSE /\ reqs' = [reqs EXCEPT ![h].pc = "locked", ![h].prev = Len(chain)]
          /\ lock' = h
  /\ UNCHANGED <<chain, followed, revoked>>

\* The events and the batch's record are inserted and committed, which ends
\* the lock.  The table refuses a second batch of one id.
Commit(h) ==
  /\ reqs[h].pc = "locked"
  /\ LET b == reqs[h].batch IN
       IF IsStored(b.id)
       THEN Goto(h, "retry") /\ UNCHANGED chain
       ELSE /\ Goto(h, "committed")
            /\ chain' = Append(chain, [id |-> b.id, events |-> b.events, prev |-> reqs[h].prev])
  /\ Unlock(h)
  /\ UNCHANGED <<followed, revoked>>

\* What follows from a new batch, once it is committed.
FollowUp(h) ==
  /\ reqs[h].pc = "committed"
  /\ Goto(h, "ok")
  /\ followed' = followed \cup {reqs[h].batch.id}
  /\ UNCHANGED <<lock, chain, revoked>>

\* The database fails, the server is throttled or stops: an open transaction
\* is rolled back, a committed one stays.  When it is the credential that can't
\* be looked up the answer is 401.
ServerFails(h) ==
  /\ reqs[h].pc \in Working
  /\ \/ Goto(h, "retry")
     \/ reqs[h].pc = "authorized" /\ Goto(h, "refused")
  /\ Unlock(h)
  /\ UNCHANGED <<chain, followed, revoked>>

\* The client reads the answer, or has gone away, which cancels the request's
\* context: what the server still had to do for it is not done.
Leave(h) ==
  /\ reqs[h].pc # "free"
  /\ reqs' = [reqs EXCEPT ![h] = Free]
  /\ Unlock(h)
  /\ UNCHANGED <<chain, followed, revoked>>

Revoke ==
  /\ ~revoked /\ revoked' = TRUE
  /\ UNCHANGED <<reqs, lock, chain, followed>>

-----------------------------------------------------------------------------
IngestInit ==
  /\ reqs = [h \in Slots |-> Free]
  /\ lock = NoSlot /\ chain = <<>> /\ followed = {} /\ revoked = FALSE

IngestNext ==
  \/ \E h \in Slots :
       \/ \E b \in Batches : Arrive(h, b)
       \/ Begin(h) \/ Commit(h) \/ FollowUp(h)
       \/ ServerFails(h) \/ Leave(h)
  \/ Revoke

IngestSpec == IngestInit /\ [][IngestNext]_ingestVars

-----------------------------------------------------------------------------
\* The batches VerifyEvents reports: each must have taken over the hash of the
\* one before it, the first one the genesis, which is 0 here.  (What it says of
\* records and contents that do not match their hashes is about other writers.)
VerifyEvents == {i \in DOMAIN chain : chain[i].prev # i - 1}

\* VerifyEvents finds every batch linked to the one before it and none stored
\* twice, although a request its client gave up on may still be running while
\* the retry, or the next batch, is stored.
ChainVerifies ==
  /\ VerifyEvents = {}
  /\ \A i, j \in DOMAIN chain : chain[i].id = chain[j].id => i = j

\* cmd/effigentd/main.go: "Batches the control plane can't take wait on disk
\* (up to 256 MB) and are sent when it's back": what is refused for good, and so
\* dropped, is the stream of a revoked machine or a body that isn't JSON.
RefusedForCause ==
  \A h \in Slots : reqs[h].pc = "refused" => revoked \/ reqs[h].batch.torn
=============================================================================
